--------------------------- MODULE Protocols_proofs ---------------------------
(***************************************************************************)
(* What is proved of the protocols the graphs speak.  Bit stuffing, for    *)
(* bit strings of any length: what was stuffed is destuffed to what it     *)
(* was, and no run that the stuffing must break is left on the line        *)
(* (line_lang.py, CAN and USB).  The types of the checker: two machines    *)
(* with a line between them (stream.py).  And the UART between two chips   *)
(* (module UartLink): a receiver in step pushes the bytes that were sent.  *)
(***************************************************************************)
EXTENDS ProtoCheck, UartLink, Sm_proofs, SequenceTheorems

-----------------------------------------------------------------------------
\* Induction along a string.
LEMMA Along ==
  ASSUME NEW n \in Nat, NEW S, 0 \in S, \A k \in 0 .. n - 1 : k \in S => k + 1 \in S
  PROVE  \A k \in 0 .. n : k \in S
<1> DEFINE T == {k \in Nat : k <= n => k \in S}
<1>1. 0 \in T
  OBVIOUS
<1>2. ASSUME NEW k \in T PROVE k + 1 \in T
  <2>1. k \in Nat /\ k + 1 \in Nat /\ (k + 1 <= n => k \in 0 .. n - 1 /\ k <= n)
    OBVIOUS
  <2> QED BY <2>1
<1>3. T = Nat
  <2>1. T \in SUBSET Nat
    OBVIOUS
  <2> HIDE DEF T
  <2> QED BY <1>1, <1>2, <2>1, SetInduction
<1> QED BY <1>3

\* A state that is carried along a string exists as a function.
Carries(f, X, s0, n, next) ==
  /\ f \in [0 .. n -> X] /\ f[0] = s0
  /\ \A k \in 1 .. n : f[k] = next[<<f[k - 1], k>>]

\* A state can be carried along a string of any length.
LEMMA Carried ==
  ASSUME NEW X, NEW s0 \in X, NEW n \in Nat, NEW next \in [X \X (1 .. n) -> X]
  PROVE  \E f : Carries(f, X, s0, n, next)
<1> DEFINE Up(i, f) == /\ f \in [0 .. i -> X] /\ f[0] = s0
                       /\ \A k \in 1 .. i : f[k] = next[<<f[k - 1], k>>]
           S == {i \in 0 .. n : \E f : Up(i, f)}
<1>1. 0 \in S
  <2>1. Up(0, [k \in 0 .. 0 |-> s0])
    OBVIOUS
  <2>2. 0 \in 0 .. n
    OBVIOUS
  <2> HIDE DEF Up
  <2> QED BY <2>1, <2>2
<1>2. ASSUME NEW i \in 0 .. n - 1, i \in S PROVE i + 1 \in S
  <2>1. i \in Nat /\ i + 1 \in 0 .. n
    OBVIOUS
  <2>2. PICK f : Up(i, f)
    BY <1>2
  <2>3. /\ f \in [0 .. i -> X] /\ f[0] = s0
        /\ \A k \in 1 .. i : f[k] = next[<<f[k - 1], k>>]
    BY <2>2
  <2> DEFINE last == next[<<f[i], i + 1>>]
             h == [k \in 0 .. i + 1 |-> IF k = i + 1 THEN last ELSE f[k]]
  <2>4. last \in X
    <3>1. i \in 0 .. i /\ i + 1 \in 1 .. n
      BY <2>1
    <3> QED BY <2>3, <3>1
  <2> HIDE DEF last
  <2>5. h \in [0 .. i + 1 -> X] /\ h[0] = s0
    BY <2>1, <2>3, <2>4
  <2>6. ASSUME NEW k \in 1 .. i + 1 PROVE h[k] = next[<<h[k - 1], k>>]
    <3>1. k - 1 \in 0 .. i + 1 /\ k - 1 # i + 1 /\ k \in 0 .. i + 1
      BY <2>1
    <3>2. h[k - 1] = f[k - 1]
      BY <3>1
    <3>3. CASE k = i + 1
      <4>1. k - 1 = i
        BY <2>1, <3>3
      <4> QED BY <3>1, <3>2, <3>3, <4>1 DEF last
    <3>4. CASE k # i + 1
      <4>1. k \in 1 .. i
        BY <2>1, <3>4
      <4> QED BY <2>3, <3>1, <3>2, <3>4, <4>1
    <3> QED BY <3>3, <3>4
  <2>7. Up(i + 1, h)
    <3> HIDE DEF h
    <3> QED BY <2>5, <2>6
  <2> HIDE DEF Up, h
  <2> QED BY <2>1, <2>7
<1>3. PICK f : Up(n, f)
  <2>1. n \in 0 .. n
    OBVIOUS
  <2> HIDE DEF Up
  <2>2. \A k \in 0 .. n : k \in S
    <3> HIDE DEF S
    <3> QED BY <1>1, <1>2, Along
  <2> QED BY <2>1, <2>2
<1> QED BY <1>3 DEF Carries

\* Two functions that start alike and go on alike are the same.
LEMMA SameRun ==
  ASSUME NEW n \in Nat, NEW f, NEW h, f[0] = h[0],
         \A k \in 1 .. n : f[k - 1] = h[k - 1] => f[k] = h[k]
  PROVE  f[n] = h[n]
<1> DEFINE S == {k \in 0 .. n : f[k] = h[k]}
<1>1. 0 \in S
  OBVIOUS
<1>2. ASSUME NEW k \in 0 .. n - 1, k \in S PROVE k + 1 \in S
  <2>1. k + 1 \in 1 .. n /\ k + 1 \in 0 .. n /\ (k + 1) - 1 = k
    OBVIOUS
  <2>2. f[(k + 1) - 1] = h[(k + 1) - 1] => f[k + 1] = h[k + 1]
    BY <2>1
  <2> QED BY <1>2, <2>1, <2>2
<1>3. \A k \in 0 .. n : k \in S
  <2> HIDE DEF S
  <2> QED BY <1>1, <1>2, Along
<1> QED BY <1>3

-----------------------------------------------------------------------------
\* CAN.  A bit is put on the line or taken from it, and counted.
Counted == [out : Seq(BOOLEAN), run : 0 .. 5, last : BOOLEAN]
AddBit(s, bit) == [out |-> Append(s.out, bit), run |-> RunWith(s, bit), last |-> bit]
StuffedBit(s, bit) ==
  LET t == AddBit(s, bit) IN IF t.run = 5 THEN AddBit(t, ~bit) ELSE t

\* A bit put on the line starts a run or makes it longer; a run of five is only ended.
LEMMA AddBitType ==
  ASSUME NEW s \in Counted, NEW bit \in BOOLEAN, s.run = 5 => bit # s.last
  PROVE  AddBit(s, bit) \in Counted /\ AddBit(s, bit).run # 0
         /\ (s.run = 5 => AddBit(s, bit).run = 1)
<1>1. s.out \in Seq(BOOLEAN) /\ s.run \in 0 .. 5 /\ s.last \in BOOLEAN
  BY DEF Counted
<1>2. Append(s.out, bit) \in Seq(BOOLEAN)
  BY <1>1
<1>3. RunWith(s, bit) \in 1 .. 5 /\ (s.run = 5 => RunWith(s, bit) = 1)
  BY <1>1 DEF RunWith
<1> QED BY <1>2, <1>3 DEF AddBit, Counted

\* With its stuff bit, no bit leaves a run of five behind.
LEMMA StuffedBitType ==
  ASSUME NEW s \in Counted, s.run # 5, NEW bit \in BOOLEAN
  PROVE  StuffedBit(s, bit) \in Counted /\ StuffedBit(s, bit).run # 5
<1> DEFINE t == AddBit(s, bit)
<1>1. t \in Counted /\ t.run # 0 /\ t.last = bit
  BY AddBitType DEF AddBit
<1> HIDE DEF t
<1>2. CASE t.run = 5
  <2>1. (~bit) \in BOOLEAN /\ (~bit) # t.last
    BY <1>1
  <2>2. AddBit(t, ~bit) \in Counted /\ AddBit(t, ~bit).run = 1
    BY <1>1, <1>2, <2>1, AddBitType
  <2> QED BY <1>2, <2>2 DEF StuffedBit, t
<1>3. CASE t.run # 5
  BY <1>1, <1>3 DEF StuffedBit, t
<1> QED BY <1>2, <1>3

\* The states of can_stuff.
Empty == [out |-> << >>, run |-> 0, last |-> FALSE]

\* can_stuff carries its state along the word.
LEMMA CanStuffIs ==
  ASSUME NEW bits \in Seq(BOOLEAN)
  PROVE  \E at : /\ \A k \in 0 .. Len(bits) : at[k] \in Counted /\ at[k].run # 5
                 /\ at[0] = Empty
                 /\ \A k \in 1 .. Len(bits) : at[k] = StuffedBit(at[k - 1], bits[k])
                 /\ CanStuff(bits) = at[Len(bits)].out
<1> DEFINE n == Len(bits)
           X == {s \in Counted : s.run # 5}
           next == [w \in X \X (1 .. n) |-> StuffedBit(w[1], bits[w[2]])]
           Body(f, k) ==
             IF k = 0 THEN [out |-> << >>, run |-> 0, last |-> FALSE] ELSE
             LET s == f[k - 1]
                 ones == RunWith(s, bits[k])
             IN  IF ones = 5
                 THEN [out |-> s.out \o <<bits[k], ~bits[k]>>, run |-> 1, last |-> ~bits[k]]
                 ELSE [out |-> Append(s.out, bits[k]), run |-> ones, last |-> bits[k]]
           Has(f) == f = [k \in 0 .. n |-> Body(f, k)]
<1>1. n \in Nat /\ \A k \in 1 .. n : bits[k] \in BOOLEAN
  OBVIOUS
<1> HIDE DEF n
<1>2. Empty \in X
  BY DEF Empty, Counted
<1>3. next \in [X \X (1 .. n) -> X]
  <2>1. ASSUME NEW w \in X \X (1 .. n) PROVE StuffedBit(w[1], bits[w[2]]) \in X
    BY <1>1, StuffedBitType
  <2> HIDE DEF X
  <2> QED BY <2>1
<1>4. PICK f : f \in [0 .. n -> X] /\ f[0] = Empty
                /\ \A k \in 1 .. n : f[k] = next[<<f[k - 1], k>>]
  <2> HIDE DEF X, next, Body, Has
  <2>1. \E f : Carries(f, X, Empty, n, next)
    BY <1>1, <1>2, <1>3, Carried, Zenon
  <2> QED BY <2>1 DEF Carries
<1>5. ASSUME NEW k \in 0 .. n, k # 0
      PROVE  /\ next[<<f[k - 1], k>>] = StuffedBit(f[k - 1], bits[k])
             /\ StuffedBit(f[k - 1], bits[k]) = Body(f, k)
  <2>1. k \in 1 .. n /\ k - 1 \in 0 .. n
    BY <1>1, <1>5
  <2>2. f[k - 1] \in X
    BY <1>4, <2>1
  <2>3. next[<<f[k - 1], k>>] = StuffedBit(f[k - 1], bits[k])
    <3> HIDE DEF X
    <3> QED BY <2>1, <2>2
  <2> DEFINE s == f[k - 1]
             bit == bits[k]
  <2>4. s.out \in Seq(BOOLEAN) /\ bit \in BOOLEAN /\ s.run \in 0 .. 4
    BY <1>1, <2>1, <2>2 DEF Counted
  <2> HIDE DEF s, bit
  <2>5. AddBit(s, bit).run = 5 =>
          AddBit(AddBit(s, bit), ~bit) = [out |-> s.out \o <<bit, ~bit>>, run |-> 1, last |-> ~bit]
    <3>1. Append(Append(s.out, bit), ~bit) = s.out \o <<bit, ~bit>>
      BY <2>4
    <3>2. bit # ~bit
      BY <2>4
    <3> QED BY <3>1, <3>2 DEF AddBit, RunWith
  <2>6. StuffedBit(s, bit) = Body(f, k)
    BY <1>5, <2>5 DEF StuffedBit, AddBit, s, bit
  <2> QED BY <2>3, <2>6 DEF s, bit
<1>6. Has(f)
  <2>1. ASSUME NEW k \in 0 .. n PROVE f[k] = Body(f, k)
    <3>1. CASE k = 0
      BY <1>4, <3>1 DEF Empty
    <3>2. CASE k # 0
      <4>1. k \in 1 .. n
        BY <1>1, <3>2
      <4> HIDE DEF next, Body
      <4> QED BY <1>4, <1>5, <3>2, <4>1
    <3> QED BY <3>1, <3>2
  <2>2. f = [k \in 0 .. n |-> f[k]]
    BY <1>4
  <2> HIDE DEF Body
  <2> QED BY <2>1, <2>2
<1>7. CanStuff(bits) = (CHOOSE f1 : Has(f1))[n].out
  BY DEF CanStuff, n
<1> DEFINE at == CHOOSE f1 : Has(f1)
<1>8. Has(at)
  <2> HIDE DEF Has
  <2> QED BY <1>6
<1>9. \A k \in 0 .. n : at[k] = Body(at, k) /\ f[k] = Body(f, k)
  <2> HIDE DEF at, Body
  <2> QED BY <1>6, <1>8
<1>10. 0 \in 0 .. n /\ n \in 0 .. n
  BY <1>1
<1> HIDE DEF at, next
<1>11. at[0] = f[0]
  BY <1>9, <1>10
<1>12. ASSUME NEW k \in 1 .. n, at[k - 1] = f[k - 1] PROVE at[k] = f[k]
  <2>1. k \in 0 .. n /\ k # 0
    BY <1>1
  <2>2. Body(at, k) = Body(f, k)
    BY <1>12, <2>1
  <2> HIDE DEF Body
  <2> QED BY <1>9, <2>1, <2>2
<1>13. at[n] = f[n]
  BY <1>1, <1>11, <1>12, SameRun
<1>14. \A k \in 0 .. n : f[k] \in Counted /\ f[k].run # 5
  BY <1>4
<1>15. f[0] = Empty
  BY <1>9, <1>10 DEF Empty
<1>16. ASSUME NEW k \in 1 .. n PROVE f[k] = StuffedBit(f[k - 1], bits[k])
  <2>1. k \in 0 .. n /\ k # 0
    BY <1>1
  <2> HIDE DEF Body
  <2> QED BY <1>5, <1>9, <2>1
<1>17. CanStuff(bits) = f[n].out
  BY <1>7, <1>13 DEF at
<1> QED BY <1>14, <1>15, <1>16, <1>17 DEF n

\* The states of can_destuff_n, when it is to find n bits.
Taking == [out : Seq(BOOLEAN), run : 0 .. 5, last : BOOLEAN, rest : Seq(BOOLEAN)]
TakeBit(s, bit, n) ==
  IF s.run = 5 THEN [s EXCEPT !.run = 1, !.last = bit] ELSE
  IF Len(s.out) = n THEN [s EXCEPT !.rest = Append(s.rest, bit)]
  ELSE [s EXCEPT !.out = Append(s.out, bit), !.run = RunWith(s, bit), !.last = bit]
Fresh == [out |-> << >>, run |-> 0, last |-> FALSE, rest |-> << >>]

\* Destuffing keeps its state well formed, whatever it hears.
LEMMA TakeBitType ==
  ASSUME NEW s \in Taking, NEW bit \in BOOLEAN, NEW n
  PROVE  TakeBit(s, bit, n) \in Taking
<1>1. /\ s.out \in Seq(BOOLEAN) /\ s.run \in 0 .. 5 /\ s.last \in BOOLEAN
      /\ s.rest \in Seq(BOOLEAN)
  BY DEF Taking
<1>2. Append(s.out, bit) \in Seq(BOOLEAN) /\ Append(s.rest, bit) \in Seq(BOOLEAN)
  BY <1>1
<1>3. s.run # 5 => RunWith(s, bit) \in 0 .. 5
  BY <1>1 DEF RunWith
<1>4. CASE s.run = 5
  <2>1. TakeBit(s, bit, n) = [s EXCEPT !.run = 1, !.last = bit]
    BY <1>4 DEF TakeBit
  <2>2. 1 \in 0 .. 5
    OBVIOUS
  <2> QED BY <2>1, <2>2 DEF Taking
<1>5. CASE s.run # 5 /\ Len(s.out) = n
  BY <1>2, <1>5 DEF TakeBit, Taking
<1>6. CASE s.run # 5 /\ Len(s.out) # n
  <2>1. TakeBit(s, bit, n) =
          [s EXCEPT !.out = Append(s.out, bit), !.run = RunWith(s, bit), !.last = bit]
    BY <1>6 DEF TakeBit
  <2> QED BY <1>2, <1>3, <1>6, <2>1 DEF Taking
<1> QED BY <1>4, <1>5, <1>6

\* can_destuff carries its state along the line.
LEMMA CanDestuffIs ==
  ASSUME NEW bits \in Seq(BOOLEAN), NEW m
  PROVE  \E at : /\ \A k \in 0 .. Len(bits) : at[k] \in Taking
                 /\ at[0] = Fresh
                 /\ \A k \in 1 .. Len(bits) : at[k] = TakeBit(at[k - 1], bits[k], m)
                 /\ CanDestuffN(bits, m) = at[Len(bits)]
<1> DEFINE n == Len(bits)
           next == [w \in Taking \X (1 .. n) |-> TakeBit(w[1], bits[w[2]], m)]
           Body(f, k) ==
             IF k = 0 THEN Fresh ELSE TakeBit(f[k - 1], bits[k], m)
           Has(f) == f = [k \in 0 .. n |-> Body(f, k)]
<1>1. n \in Nat /\ 0 \in 0 .. n /\ \A k \in 1 .. n : bits[k] \in BOOLEAN
  OBVIOUS
<1>2. CanDestuffN(bits, m) = (CHOOSE f1 : Has(f1))[n]
  BY DEF CanDestuffN, TakeBit, Fresh
<1> HIDE DEF n
<1>3. Fresh \in Taking
  BY DEF Fresh, Taking
<1>4. next \in [Taking \X (1 .. n) -> Taking]
  <2>1. ASSUME NEW w \in Taking \X (1 .. n) PROVE TakeBit(w[1], bits[w[2]], m) \in Taking
    BY <1>1, TakeBitType
  <2> QED BY <2>1
<1>5. PICK f : f \in [0 .. n -> Taking] /\ f[0] = Fresh
                /\ \A k \in 1 .. n : f[k] = next[<<f[k - 1], k>>]
  <2> HIDE DEF next, Body, Has
  <2>1. \E f : Carries(f, Taking, Fresh, n, next)
    BY <1>1, <1>3, <1>4, Carried, Zenon
  <2> QED BY <2>1 DEF Carries
<1>6. ASSUME NEW k \in 1 .. n PROVE f[k] = TakeBit(f[k - 1], bits[k], m)
  <2>1. k - 1 \in 0 .. n
    BY <1>1
  <2>2. <<f[k - 1], k>> \in Taking \X (1 .. n)
    BY <1>5, <2>1
  <2> QED BY <1>5, <2>2
<1> HIDE DEF next
<1>7. Has(f)
  <2>1. ASSUME NEW k \in 0 .. n PROVE f[k] = Body(f, k)
    <3>1. k # 0 => k \in 1 .. n
      BY <1>1
    <3> QED BY <1>5, <1>6, <3>1
  <2>2. f = [k \in 0 .. n |-> f[k]]
    BY <1>5
  <2> HIDE DEF Body
  <2> QED BY <2>1, <2>2
<1> DEFINE at == CHOOSE f1 : Has(f1)
<1>8. Has(at)
  <2> HIDE DEF Has
  <2> QED BY <1>7
<1>9. \A k \in 0 .. n : at[k] = Body(at, k)
  <2> HIDE DEF at, Body
  <2> QED BY <1>8
<1> HIDE DEF at
<1>10. at[0] = f[0]
  BY <1>1, <1>5, <1>9
<1>11. ASSUME NEW k \in 1 .. n, at[k - 1] = f[k - 1] PROVE at[k] = f[k]
  <2>1. k \in 0 .. n /\ k # 0
    BY <1>1
  <2>2. at[k] = TakeBit(at[k - 1], bits[k], m)
    BY <1>9, <2>1
  <2> QED BY <1>6, <1>11, <2>2
<1>12. at[n] = f[n]
  BY <1>1, <1>10, <1>11, SameRun
<1> QED BY <1>2, <1>5, <1>6, <1>12 DEF n, at

-----------------------------------------------------------------------------
\* What was put on the line first stays its beginning.
Begins(s, t) == Len(s) <= Len(t) /\ \A j \in 1 .. Len(s) : s[j] = t[j]

\* A bit more leaves the beginning of a line alone.
LEMMA AppendBegins ==
  ASSUME NEW s \in Seq(BOOLEAN), NEW bit \in BOOLEAN
  PROVE  Begins(s, Append(s, bit))
BY DEF Begins

\* A beginning of a beginning is one.
LEMMA BeginsBegins ==
  ASSUME NEW s \in Seq(BOOLEAN), NEW t \in Seq(BOOLEAN), NEW u \in Seq(BOOLEAN),
         Begins(s, t), Begins(t, u)
  PROVE  Begins(s, u)
<1>1. Len(s) \in Nat /\ Len(t) \in Nat /\ Len(u) \in Nat
  OBVIOUS
<1>2. Len(s) <= Len(t) /\ Len(t) <= Len(u)
  BY DEF Begins
<1>3. Len(s) <= Len(u)
  BY <1>1, <1>2
<1>4. ASSUME NEW j \in 1 .. Len(s) PROVE s[j] = u[j]
  <2>1. j \in 1 .. Len(t)
    BY <1>1, <1>2
  <2> QED BY <2>1 DEF Begins
<1> QED BY <1>3, <1>4 DEF Begins

\* A line that grows step by step begins with each of its steps.
LEMMA Growing ==
  ASSUME NEW n \in Nat, NEW o, \A k \in 0 .. n : o[k] \in Seq(BOOLEAN),
         \A k \in 1 .. n : Begins(o[k - 1], o[k])
  PROVE  \A k \in 0 .. n : Begins(o[k], o[n])
<1> DEFINE S == {m \in 0 .. n : \A k \in 0 .. m : Begins(o[k], o[m])}
<1>1. ASSUME NEW k \in 0 .. n PROVE Begins(o[k], o[k])
  BY DEF Begins
<1>2. 0 \in S
  <2>1. \A k \in 0 .. 0 : k = 0
    OBVIOUS
  <2>2. 0 \in 0 .. n
    OBVIOUS
  <2> QED BY <1>1, <2>1, <2>2
<1>3. ASSUME NEW m \in 0 .. n - 1, m \in S PROVE m + 1 \in S
  <2>1. m \in 0 .. n /\ m + 1 \in 0 .. n /\ m + 1 \in 1 .. n /\ (m + 1) - 1 = m
    OBVIOUS
  <2>2. Begins(o[m], o[m + 1])
    BY <2>1
  <2>3. ASSUME NEW k \in 0 .. m + 1 PROVE Begins(o[k], o[m + 1])
    <3>1. CASE k = m + 1
      BY <1>1, <2>1, <3>1
    <3>2. CASE k # m + 1
      <4>1. k \in 0 .. m /\ k \in 0 .. n
        BY <2>1, <3>2
      <4>2. Begins(o[k], o[m])
        BY <1>3, <4>1
      <4> QED BY <2>1, <2>2, <4>1, <4>2, BeginsBegins
    <3> QED BY <3>1, <3>2
  <2> QED BY <2>1, <2>3
<1>4. n \in S
  <2>1. \A k \in 0 .. n : k \in S
    <3> HIDE DEF S
    <3> QED BY <1>2, <1>3, Along
  <2>2. n \in 0 .. n
    OBVIOUS
  <2> HIDE DEF S
  <2> QED BY <2>1, <2>2
<1> QED BY <1>4

\* Stuffing a bit only adds to the line.
LEMMA LineGrows ==
  ASSUME NEW s \in Counted, NEW bit \in BOOLEAN
  PROVE  Begins(s.out, StuffedBit(s, bit).out)
<1>1. s.out \in Seq(BOOLEAN) /\ Append(s.out, bit) \in Seq(BOOLEAN) /\ (~bit) \in BOOLEAN
  BY DEF Counted
<1>2. Append(Append(s.out, bit), ~bit) \in Seq(BOOLEAN)
  BY <1>1
<1>3. Begins(s.out, Append(s.out, bit))
  BY <1>1, AppendBegins
<1>4. Begins(s.out, Append(Append(s.out, bit), ~bit))
  BY <1>1, <1>2, <1>3, AppendBegins, BeginsBegins
<1> QED BY <1>3, <1>4 DEF StuffedBit, AddBit

\* A bit as it is put on the line and as it is taken from it, and a stuff bit.
LEMMA TakenAsPut ==
  ASSUME NEW s \in Counted, NEW t \in Taking, t.run = s.run, t.last = s.last,
         NEW bit \in BOOLEAN, NEW m, s.run # 5, Len(t.out) # m
  PROVE  /\ TakeBit(t, bit, m).out = Append(t.out, bit)
         /\ TakeBit(t, bit, m).run = AddBit(s, bit).run
         /\ TakeBit(t, bit, m).last = AddBit(s, bit).last
<1>1. RunWith(t, bit) = RunWith(s, bit)
  BY DEF RunWith
<1> QED BY <1>1 DEF TakeBit, AddBit, Taking

\* After a run of five the receiver drops the stuff bit and counts it in the next run.
LEMMA StuffBitTaken ==
  ASSUME NEW s \in Counted, NEW t \in Taking, t.run = s.run, t.last = s.last,
         NEW bit \in BOOLEAN, NEW m, s.run = 5, bit # s.last
  PROVE  /\ TakeBit(t, bit, m).out = t.out
         /\ TakeBit(t, bit, m).run = AddBit(s, bit).run
         /\ TakeBit(t, bit, m).last = AddBit(s, bit).last
<1>1. RunWith(s, bit) = 1
  BY DEF RunWith, Counted
<1> QED BY <1>1 DEF TakeBit, AddBit, Taking

\* What was stuffed is destuffed to what it was.
LEMMA CanUndone ==
  ASSUME NEW bits \in Seq(BOOLEAN)
  PROVE  CanStuff(bits) \in Seq(BOOLEAN) /\ CanDestuff(CanStuff(bits)) = bits
<1> DEFINE n == Len(bits)
           line == CanStuff(bits)
           m == Len(line)
<1>1. n \in Nat /\ \A k \in 1 .. n : bits[k] \in BOOLEAN
  OBVIOUS
<1>2. PICK at : /\ \A k \in 0 .. n : at[k] \in Counted /\ at[k].run # 5
                /\ at[0] = Empty
                /\ \A k \in 1 .. n : at[k] = StuffedBit(at[k - 1], bits[k])
                /\ line = at[n].out
  BY CanStuffIs
<1> HIDE DEF line
<1>3. line \in Seq(BOOLEAN) /\ m \in Nat
  <2>1. n \in 0 .. n
    BY <1>1
  <2> QED BY <1>2, <2>1 DEF Counted
<1>4. PICK d : /\ \A k \in 0 .. m : d[k] \in Taking
               /\ d[0] = Fresh
               /\ \A k \in 1 .. m : d[k] = TakeBit(d[k - 1], line[k], m)
               /\ CanDestuffN(line, m) = d[m]
  BY <1>3, CanDestuffIs
<1> HIDE DEF n, m
<1>5. \A k \in 0 .. n : Begins(at[k].out, line)
  <2> DEFINE o == [k \in 0 .. n |-> at[k].out]
  <2>1. ASSUME NEW k \in 0 .. n PROVE o[k] \in Seq(BOOLEAN)
    BY <1>2 DEF Counted
  <2>2. ASSUME NEW k \in 1 .. n PROVE Begins(o[k - 1], o[k])
    <3>1. k - 1 \in 0 .. n /\ k \in 0 .. n
      BY <1>1
    <3> QED BY <1>1, <1>2, <3>1, LineGrows
  <2>3. ASSUME NEW k \in 0 .. n PROVE Begins(o[k], o[n])
    <3> HIDE DEF o
    <3> QED BY <1>1, <2>1, <2>2, Growing
  <2>4. n \in 0 .. n
    BY <1>1
  <2> QED BY <1>2, <2>3, <2>4
<1> DEFINE Agrees(k) == LET l == Len(at[k].out)
                        IN  /\ k <= l /\ l <= m
                            /\ d[l].out = SubSeq(bits, 1, k)
                            /\ d[l].run = at[k].run /\ d[l].last = at[k].last
           S == {k \in 0 .. n : Agrees(k)}
<1>6. 0 \in S
  <2>1. 0 \in 0 .. n /\ 0 <= m /\ SubSeq(bits, 1, 0) = << >>
    BY <1>1, <1>3
  <2>2. Len(at[0].out) = 0 /\ 0 <= 0
    BY <1>2 DEF Empty
  <2>3. /\ d[0].out = << >> /\ d[0].run = at[0].run /\ d[0].last = at[0].last
    BY <1>2, <1>4 DEF Empty, Fresh
  <2> QED BY <2>1, <2>2, <2>3
<1>7. ASSUME NEW k \in 0 .. n - 1, k \in S PROVE k + 1 \in S
  <2> DEFINE s == at[k]
             bit == bits[k + 1]
             t == AddBit(s, bit)
             e == at[k + 1]
             l == Len(s.out)
  <2>1. /\ k \in Nat /\ k \in 0 .. n /\ k + 1 \in 0 .. n /\ k + 1 \in 1 .. n
        /\ (k + 1) - 1 = k
    BY <1>1
  <2>2. /\ s \in Counted /\ s.run # 5 /\ bit \in BOOLEAN /\ (~bit) \in BOOLEAN
        /\ e \in Counted /\ e = StuffedBit(s, bit)
    BY <1>1, <1>2, <2>1
  <2>3. /\ k <= l /\ l <= m /\ d[l].out = SubSeq(bits, 1, k)
        /\ d[l].run = s.run /\ d[l].last = s.last
    BY <1>7
  <2>4. Begins(e.out, line)
    BY <1>5, <2>1
  <2>5. s.out \in Seq(BOOLEAN) /\ l \in Nat
    BY <2>2 DEF Counted
  <2>6. Append(SubSeq(bits, 1, k), bit) = SubSeq(bits, 1, k + 1) /\ Len(SubSeq(bits, 1, k)) = k
    BY <2>1 DEF n
  <2>7. t \in Counted /\ t.out = Append(s.out, bit) /\ t.last = bit
    BY <2>2, AddBitType DEF AddBit
  <2> HIDE DEF s, bit, t, e, l
  <2>8. Len(t.out) = l + 1 /\ t.out[l + 1] = bit
    BY <2>2, <2>5, <2>7 DEF l
  <2>9. Begins(t.out, e.out)
    <3>1. CASE t.run = 5
      <4>1. e.out = Append(t.out, ~bit)
        BY <2>2, <3>1 DEF StuffedBit, AddBit, t
      <4> QED BY <2>2, <2>7, <4>1, AppendBegins DEF Counted
    <3>2. CASE t.run # 5
      <4>1. e = t
        BY <2>2, <3>2 DEF StuffedBit, t
      <4> QED BY <4>1 DEF Begins
    <3> QED BY <3>1, <3>2
  <2>10. Begins(t.out, line)
    BY <1>3, <2>2, <2>4, <2>7, <2>9, BeginsBegins DEF Counted
  <2>11. l + 1 <= m /\ line[l + 1] = bit
    <3>1. l + 1 \in 1 .. l + 1
      BY <2>5
    <3> QED BY <2>8, <2>10, <3>1 DEF Begins, m
  <2>12. /\ d[l + 1].out = SubSeq(bits, 1, k + 1)
         /\ d[l + 1].run = t.run /\ d[l + 1].last = t.last
    <3>1. l + 1 \in 1 .. m /\ (l + 1) - 1 = l /\ l \in 0 .. m /\ k # m
      BY <1>3, <2>1, <2>3, <2>5, <2>11
    <3>2. d[l + 1] = TakeBit(d[l], bit, m) /\ d[l] \in Taking
      BY <1>4, <2>11, <3>1
    <3>3. d[l].run = s.run /\ d[l].last = s.last /\ s.run # 5 /\ Len(d[l].out) # m
      BY <2>2, <2>3, <2>6, <3>1
    <3>4. /\ d[l + 1].out = Append(d[l].out, bit)
          /\ d[l + 1].run = AddBit(s, bit).run
          /\ d[l + 1].last = AddBit(s, bit).last
      BY <2>2, <3>2, <3>3, TakenAsPut
    <3> QED BY <2>3, <2>6, <3>4 DEF t
  <2>13. CASE t.run # 5
    <3>1. e = t
      BY <2>2, <2>13 DEF StuffedBit, t
    <3>2. Len(e.out) = l + 1
      BY <2>8, <3>1
    <3>3. k + 1 <= l + 1
      BY <2>1, <2>3, <2>5
    <3> QED BY <2>1, <2>11, <2>12, <3>1, <3>2, <3>3 DEF e
  <2>14. CASE t.run = 5
    <3>1. e = AddBit(t, ~bit) /\ e.out = Append(t.out, ~bit)
      BY <2>2, <2>14 DEF StuffedBit, AddBit, t
    <3>2. Len(e.out) = l + 2 /\ e.out[l + 2] = (~bit)
      BY <2>2, <2>5, <2>7, <2>8, <3>1 DEF Counted
    <3>3. l + 2 <= m /\ line[l + 2] = (~bit)
      <4>1. l + 2 \in 1 .. l + 2
        BY <2>5
      <4> QED BY <2>4, <3>2, <4>1 DEF Begins, m
    <3>4. /\ l + 2 \in 1 .. m /\ (l + 2) - 1 = l + 1 /\ l + 1 \in 0 .. m
          /\ k + 1 <= l + 2
      BY <1>3, <2>1, <2>3, <2>5, <3>3
    <3>5. d[l + 2] = TakeBit(d[l + 1], ~bit, m) /\ d[l + 1] \in Taking
      BY <1>4, <3>3, <3>4
    <3>6. (~bit) # t.last
      BY <2>2, <2>7
    <3>7. d[l + 2].out = d[l + 1].out /\ d[l + 2].run = e.run /\ d[l + 2].last = e.last
      <4>1. d[l + 1].run = t.run /\ d[l + 1].last = t.last /\ t \in Counted
        BY <2>7, <2>12
      <4>2. /\ TakeBit(d[l + 1], ~bit, m).out = d[l + 1].out
            /\ TakeBit(d[l + 1], ~bit, m).run = AddBit(t, ~bit).run
            /\ TakeBit(d[l + 1], ~bit, m).last = AddBit(t, ~bit).last
        <5> DEFINE c == ~bit
        <5>1. c \in BOOLEAN /\ c # t.last
          BY <2>2, <3>6
        <5>2. d[l + 1] \in Taking
          BY <3>5
        <5> HIDE DEF c
        <5>3. /\ TakeBit(d[l + 1], c, m).out = d[l + 1].out
              /\ TakeBit(d[l + 1], c, m).run = AddBit(t, c).run
              /\ TakeBit(d[l + 1], c, m).last = AddBit(t, c).last
          BY <2>14, <4>1, <5>1, <5>2, StuffBitTaken
        <5> QED BY <5>3 DEF c
      <4> QED BY <3>1, <3>5, <4>2
    <3> QED BY <2>1, <2>12, <3>2, <3>3, <3>4, <3>7 DEF e
  <2> QED BY <2>13, <2>14
<1>8. \A k \in 0 .. n : k \in S
  <2> HIDE DEF S
  <2> QED BY <1>1, <1>6, <1>7, Along
<1>9. Agrees(n)
  <2>1. n \in 0 .. n
    BY <1>1
  <2> HIDE DEF Agrees
  <2> QED BY <1>8, <2>1
<1>10. CanDestuffN(line, m).out = bits
  <2>1. Len(at[n].out) = m
    BY <1>2 DEF m
  <2>2. SubSeq(bits, 1, n) = bits
    BY DEF n
  <2> QED BY <1>4, <1>9, <2>1, <2>2
<1> QED BY <1>3, <1>10 DEF CanDestuff, line, m

-----------------------------------------------------------------------------
\* The count is the length of the run the line ends with, and no run is longer
\* than five.
EndsWith(o, n, last) ==
  /\ n <= Len(o) /\ (n = 0 => Len(o) = 0)
  /\ \A j \in 1 .. Len(o) : j > Len(o) - n => o[j] = last
  /\ n < Len(o) => o[Len(o) - n] # last
Broken(s) == EndsWith(s.out, s.run, s.last) /\ ~Run6(s.out)

\* A run is counted right and stays below six.
LEMMA AddBitBreaks ==
  ASSUME NEW s \in Counted, NEW bit \in BOOLEAN, s.run = 5 => bit # s.last, Broken(s)
  PROVE  Broken(AddBit(s, bit))
<1> DEFINE o == s.out
           l == Len(s.out)
           r == s.run
           q == RunWith(s, bit)
           p == Append(o, bit)
           e == Len(p)
<1>1. /\ o \in Seq(BOOLEAN) /\ l \in Nat /\ r \in 0 .. 5 /\ s.last \in BOOLEAN
  BY DEF Counted
<1>2. /\ p \in Seq(BOOLEAN) /\ e = l + 1 /\ p[e] = bit
      /\ \A j \in 1 .. l : p[j] = o[j]
  BY <1>1
<1>3. /\ r <= l /\ (r = 0 => l = 0) /\ \A j \in 1 .. l : j > l - r => o[j] = s.last
      /\ r < l => o[l - r] # s.last
  BY DEF Broken, EndsWith
<1>4. /\ r # 0 /\ bit = s.last => q = r + 1
      /\ ~(r # 0 /\ bit = s.last) => q = 1
  BY DEF RunWith
<1>5. r # 0 /\ bit = s.last => r <= 4
  BY <1>1
<1> HIDE DEF o, l, r, q, p, e
<1>6. q \in 1 .. 5 /\ q <= e
  BY <1>1, <1>2, <1>3, <1>4, <1>5
<1>7. ASSUME NEW j \in 1 .. e, j > e - q PROVE p[j] = bit
  <2>1. CASE j = e
    BY <1>2, <2>1
  <2>2. CASE j # e
    <3>1. j \in 1 .. l /\ q # 1
      BY <1>1, <1>2, <1>6, <1>7, <2>2
    <3>2. r # 0 /\ bit = s.last /\ q = r + 1
      BY <1>4, <3>1
    <3>3. j > l - r
      BY <1>1, <1>2, <1>7, <3>1, <3>2
    <3> QED BY <1>2, <1>3, <3>1, <3>2, <3>3
  <2> QED BY <2>1, <2>2
<1>8. ASSUME q < e PROVE p[e - q] # bit
  <2>1. CASE r # 0 /\ bit = s.last
    <3>1. r < l /\ e - q = l - r /\ l - r \in 1 .. l
      BY <1>1, <1>2, <1>4, <1>8, <2>1
    <3> QED BY <1>2, <1>3, <2>1, <3>1
  <2>2. CASE ~(r # 0 /\ bit = s.last)
    <3>1. q = 1 /\ e - q = l /\ l \in 1 .. l /\ r # 0
      BY <1>1, <1>2, <1>3, <1>4, <1>8, <2>2
    <3>2. l > l - r
      BY <1>1, <3>1
    <3>3. o[l] = s.last
      BY <1>3, <3>1, <3>2
    <3> QED BY <1>2, <2>2, <3>1, <3>3
  <2> QED BY <2>1, <2>2
<1>9. EndsWith(p, q, bit)
  BY <1>6, <1>7, <1>8 DEF EndsWith, e
<1>10. ~Run6(p)
  <2>0. SUFFICES ASSUME Run6(p) PROVE FALSE
    OBVIOUS
  <2>1. PICK i \in 1 .. e - 5 : \A j \in i .. i + 5 : p[j] = p[i]
    BY <2>0, Zenon DEF Run6, e
  <2>2. i \in Nat /\ i >= 1 /\ i + 5 <= e /\ i \in i .. i + 5 /\ i \in 1 .. l
    BY <1>1, <1>2
  <2>3. CASE i + 5 <= l
    <3>1. i \in 1 .. l - 5
      BY <1>1, <2>2, <2>3
    <3>2. ASSUME NEW j \in i .. i + 5 PROVE o[j] = o[i]
      <4>1. j \in 1 .. l
        BY <1>1, <2>2, <2>3
      <4> QED BY <1>2, <2>1, <2>2, <4>1
    <3>3. Run6(o)
      BY <3>1, <3>2 DEF Run6, l, o
    <3> QED BY <3>3 DEF Broken, o
  <2>4. CASE i + 5 = e
    <3>1. e - q \in i .. i + 5 /\ e \in i .. i + 5 /\ q < e
      BY <1>1, <1>2, <1>6, <2>2, <2>4
    <3>2. p[e - q] = p[e]
      BY <2>1, <3>1
    <3> QED BY <1>2, <1>8, <3>1, <3>2
  <2> QED BY <1>1, <1>2, <2>2, <2>3, <2>4
<1>11. AddBit(s, bit) = [out |-> p, run |-> q, last |-> bit]
  BY DEF AddBit, p, q, o
<1> QED BY <1>9, <1>10, <1>11 DEF Broken

\* No CAN line has a run of six (can_stuff).
LEMMA CanBroken ==
  ASSUME NEW bits \in Seq(BOOLEAN)
  PROVE  ~Run6(CanStuff(bits))
<1> DEFINE n == Len(bits)
<1>1. n \in Nat /\ 0 \in 0 .. n /\ n \in 0 .. n /\ \A k \in 1 .. n : bits[k] \in BOOLEAN
  OBVIOUS
<1>2. PICK at : /\ \A k \in 0 .. n : at[k] \in Counted /\ at[k].run # 5
                /\ at[0] = Empty
                /\ \A k \in 1 .. n : at[k] = StuffedBit(at[k - 1], bits[k])
                /\ CanStuff(bits) = at[n].out
  BY CanStuffIs
<1> HIDE DEF n
<1> DEFINE S == {k \in 0 .. n : Broken(at[k])}
<1>3. 0 \in S
  <2>1. Broken(Empty)
    BY DEF Broken, EndsWith, Run6, Empty
  <2> QED BY <1>1, <1>2, <2>1
<1>4. ASSUME NEW k \in 0 .. n - 1, k \in S PROVE k + 1 \in S
  <2> DEFINE s == at[k]
             bit == bits[k + 1]
             t == AddBit(s, bit)
             c == ~bit
  <2>1. k \in 0 .. n /\ k + 1 \in 0 .. n /\ k + 1 \in 1 .. n /\ (k + 1) - 1 = k
    BY <1>1
  <2>2. /\ s \in Counted /\ s.run # 5 /\ bit \in BOOLEAN /\ c \in BOOLEAN /\ c # bit
        /\ at[k + 1] = StuffedBit(s, bit) /\ Broken(s)
    BY <1>1, <1>2, <1>4, <2>1
  <2>3. StuffedBit(s, bit) = IF t.run = 5 THEN AddBit(t, c) ELSE t
    BY DEF StuffedBit
  <2> HIDE DEF s, bit, c
  <2>4. t \in Counted /\ t.last = bit /\ Broken(t)
    <3>1. t.last = bit
      BY DEF AddBit
    <3> HIDE DEF t
    <3> QED BY <2>2, <3>1, AddBitType, AddBitBreaks DEF t
  <2> HIDE DEF t
  <2>5. Broken(AddBit(t, c))
    BY <2>2, <2>4, AddBitBreaks
  <2>6. Broken(at[k + 1])
    BY <2>2, <2>3, <2>4, <2>5
  <2> QED BY <2>1, <2>6
<1>5. \A k \in 0 .. n : k \in S
  <2> HIDE DEF S
  <2> QED BY <1>1, <1>3, <1>4, Along
<1>6. Broken(at[n])
  BY <1>1, <1>5
<1> QED BY <1>2, <1>6 DEF Broken

-----------------------------------------------------------------------------
\* USB.  The states of usb_stuff, and of the loop of usb_tx_matches.
UsbKept == [out : Seq(BOOLEAN), ones : 0 .. 5]
UsbLine == [out : Seq(BOOLEAN), ones : 0 .. 6]
UsbTaking == [out : Seq(BOOLEAN), ones : 0 .. 7]
UsbEmpty == [out |-> << >>, ones |-> 0]
UsbAdd(s, bit) == [out |-> Append(s.out, bit), ones |-> IF bit THEN s.ones + 1 ELSE 0]
UsbPut(s, bit) ==
  IF bit /\ s.ones = 5 THEN [out |-> s.out \o <<TRUE, FALSE>>, ones |-> 0]
  ELSE UsbAdd(s, bit)
UsbTake(s, bit) ==
  IF s.ones = 7 THEN s ELSE
  IF s.ones = 6 THEN [s EXCEPT !.ones = IF bit THEN 7 ELSE 0] ELSE UsbAdd(s, bit)

\* A bit on a USB line counts the ones it ends in.
LEMMA UsbAddType ==
  ASSUME NEW s \in UsbTaking, NEW bit \in BOOLEAN
  PROVE  /\ UsbAdd(s, bit).out \in Seq(BOOLEAN)
         /\ s.ones <= 5 => UsbAdd(s, bit) \in UsbLine
         /\ s.ones <= 4 \/ bit = FALSE => UsbAdd(s, bit) \in UsbKept
<1>1. s.out \in Seq(BOOLEAN) /\ s.ones \in 0 .. 7
  BY DEF UsbTaking
<1>2. Append(s.out, bit) \in Seq(BOOLEAN)
  BY <1>1
<1>3. /\ s.ones <= 5 => (IF bit THEN s.ones + 1 ELSE 0) \in 0 .. 6
      /\ s.ones <= 4 \/ bit = FALSE => (IF bit THEN s.ones + 1 ELSE 0) \in 0 .. 5
  BY <1>1
<1> QED BY <1>2, <1>3 DEF UsbAdd, UsbLine, UsbKept

\* With its stuff bit, no bit leaves six ones behind.
LEMMA UsbPutType ==
  ASSUME NEW s \in UsbKept, NEW bit \in BOOLEAN
  PROVE  UsbPut(s, bit) \in UsbKept
<1>1. s.out \in Seq(BOOLEAN) /\ s.ones \in 0 .. 5 /\ s \in UsbTaking
  BY DEF UsbKept, UsbTaking
<1>2. CASE bit /\ s.ones = 5
  <2>1. s.out \o <<TRUE, FALSE>> \in Seq(BOOLEAN)
    BY <1>1
  <2> QED BY <1>2, <2>1 DEF UsbPut, UsbKept
<1>3. CASE ~(bit /\ s.ones = 5)
  <2>1. s.ones <= 4 \/ bit = FALSE
    BY <1>1, <1>3
  <2>2. UsbAdd(s, bit) \in UsbKept
    BY <1>1, <2>1, UsbAddType
  <2> QED BY <1>3, <2>2 DEF UsbPut
<1> QED BY <1>2, <1>3

\* Destuffing keeps its state well formed, whatever it hears.
LEMMA UsbTakeType ==
  ASSUME NEW s \in UsbTaking, NEW bit \in BOOLEAN
  PROVE  UsbTake(s, bit) \in UsbTaking
<1>1. s.ones \in 0 .. 7
  BY DEF UsbTaking
<1>2. CASE s.ones = 7
  BY <1>2 DEF UsbTake
<1>3. CASE s.ones = 6
  <2>1. UsbTake(s, bit) = [s EXCEPT !.ones = IF bit THEN 7 ELSE 0]
    BY <1>3 DEF UsbTake
  <2>2. (IF bit THEN 7 ELSE 0) \in 0 .. 7
    OBVIOUS
  <2> QED BY <2>1, <2>2 DEF UsbTaking
<1>4. CASE s.ones <= 5
  <2>1. UsbTake(s, bit) = UsbAdd(s, bit)
    BY <1>1, <1>4 DEF UsbTake
  <2>2. UsbAdd(s, bit) \in UsbLine
    BY <1>4, UsbAddType
  <2> QED BY <2>1, <2>2 DEF UsbLine, UsbTaking
<1> QED BY <1>1, <1>2, <1>3, <1>4

\* A bit on the line, and the zero behind the sixth one.
LEMMA UsbPutIs ==
  ASSUME NEW s \in UsbKept, NEW bit \in BOOLEAN
  PROVE  UsbPut(s, bit) = IF UsbAdd(s, bit).ones = 6 THEN UsbAdd(UsbAdd(s, bit), FALSE)
                        ELSE UsbAdd(s, bit)
<1>1. s.out \in Seq(BOOLEAN) /\ s.ones \in 0 .. 5
  BY DEF UsbKept
<1>2. UsbAdd(s, bit).ones = 6 <=> bit /\ s.ones = 5
  BY <1>1 DEF UsbAdd
<1>3. CASE bit /\ s.ones = 5
  <2>1. s.out \o <<TRUE, FALSE>> = Append(Append(s.out, TRUE), FALSE)
    <3>1. \A o \in Seq(BOOLEAN), c, d \in BOOLEAN : o \o <<c, d>> = Append(Append(o, c), d)
      OBVIOUS
    <3>2. TRUE \in BOOLEAN /\ FALSE \in BOOLEAN
      OBVIOUS
    <3> QED BY <1>1, <3>1, <3>2, Zenon
  <2>2. bit = TRUE
    BY <1>3
  <2> QED BY <1>2, <1>3, <2>1, <2>2 DEF UsbPut, UsbAdd
<1>4. CASE ~(bit /\ s.ones = 5)
  BY <1>2, <1>4 DEF UsbPut
<1> QED BY <1>3, <1>4

\* usb_stuff carries its state along the word.
LEMMA UsbStuffIs ==
  ASSUME NEW bits \in Seq(BOOLEAN)
  PROVE  \E at : /\ \A k \in 0 .. Len(bits) : at[k] \in UsbKept
                 /\ at[0] = UsbEmpty
                 /\ \A k \in 1 .. Len(bits) : at[k] = UsbPut(at[k - 1], bits[k])
                 /\ UsbStuff(bits) = at[Len(bits)].out
<1> DEFINE n == Len(bits)
           next == [w \in UsbKept \X (1 .. n) |-> UsbPut(w[1], bits[w[2]])]
           Body(f, k) ==
             IF k = 0 THEN UsbEmpty ELSE UsbPut(f[k - 1], bits[k])
           Has(f) == f = [k \in 0 .. n |-> Body(f, k)]
<1>1. n \in Nat /\ 0 \in 0 .. n /\ \A k \in 1 .. n : bits[k] \in BOOLEAN
  OBVIOUS
<1>2. UsbStuff(bits) = (CHOOSE f1 : Has(f1))[n].out
  BY DEF UsbStuff, UsbPut, UsbAdd, UsbEmpty
<1> HIDE DEF n
<1>3. UsbEmpty \in UsbKept
  BY DEF UsbEmpty, UsbKept
<1>4. next \in [UsbKept \X (1 .. n) -> UsbKept]
  <2>1. ASSUME NEW w \in UsbKept \X (1 .. n) PROVE UsbPut(w[1], bits[w[2]]) \in UsbKept
    BY <1>1, UsbPutType
  <2> QED BY <2>1
<1>5. PICK f : f \in [0 .. n -> UsbKept] /\ f[0] = UsbEmpty
                /\ \A k \in 1 .. n : f[k] = next[<<f[k - 1], k>>]
  <2> HIDE DEF next, Body, Has
  <2>1. \E f : Carries(f, UsbKept, UsbEmpty, n, next)
    BY <1>1, <1>3, <1>4, Carried, Zenon
  <2> QED BY <2>1 DEF Carries
<1>6. ASSUME NEW k \in 1 .. n PROVE f[k] = UsbPut(f[k - 1], bits[k])
  <2>1. k - 1 \in 0 .. n
    BY <1>1
  <2>2. <<f[k - 1], k>> \in UsbKept \X (1 .. n)
    BY <1>5, <2>1
  <2> QED BY <1>5, <2>2
<1> HIDE DEF next
<1>7. Has(f)
  <2>1. ASSUME NEW k \in 0 .. n PROVE f[k] = Body(f, k)
    <3>1. k # 0 => k \in 1 .. n
      BY <1>1
    <3> QED BY <1>5, <1>6, <3>1
  <2>2. f = [k \in 0 .. n |-> f[k]]
    BY <1>5
  <2> HIDE DEF Body
  <2> QED BY <2>1, <2>2
<1> DEFINE at == CHOOSE f1 : Has(f1)
<1>8. Has(at)
  <2> HIDE DEF Has
  <2> QED BY <1>7
<1>9. \A k \in 0 .. n : at[k] = Body(at, k)
  <2> HIDE DEF at, Body
  <2> QED BY <1>8
<1> HIDE DEF at
<1>10. at[0] = f[0]
  BY <1>1, <1>5, <1>9
<1>11. ASSUME NEW k \in 1 .. n, at[k - 1] = f[k - 1] PROVE at[k] = f[k]
  <2>1. k \in 0 .. n /\ k # 0
    BY <1>1
  <2>2. at[k] = UsbPut(at[k - 1], bits[k])
    BY <1>9, <2>1
  <2> QED BY <1>6, <1>11, <2>2
<1>12. at[n] = f[n]
  BY <1>1, <1>10, <1>11, SameRun
<1> QED BY <1>2, <1>5, <1>6, <1>12 DEF n, at

\* usb_destuff carries its state along the line.
LEMMA UsbDestuffIs ==
  ASSUME NEW bits \in Seq(BOOLEAN)
  PROVE  \E at : /\ \A k \in 0 .. Len(bits) : at[k] \in UsbTaking
                 /\ at[0] = UsbEmpty
                 /\ \A k \in 1 .. Len(bits) : at[k] = UsbTake(at[k - 1], bits[k])
                 /\ UsbDestuff(bits) = at[Len(bits)].out
<1> DEFINE n == Len(bits)
           next == [w \in UsbTaking \X (1 .. n) |-> UsbTake(w[1], bits[w[2]])]
           Body(f, k) ==
             IF k = 0 THEN UsbEmpty ELSE UsbTake(f[k - 1], bits[k])
           Has(f) == f = [k \in 0 .. n |-> Body(f, k)]
<1>1. n \in Nat /\ 0 \in 0 .. n /\ \A k \in 1 .. n : bits[k] \in BOOLEAN
  OBVIOUS
<1>2. UsbDestuff(bits) = (CHOOSE f1 : Has(f1))[n].out
  BY DEF UsbDestuff, UsbTake, UsbAdd, UsbEmpty
<1> HIDE DEF n
<1>3. UsbEmpty \in UsbTaking
  BY DEF UsbEmpty, UsbTaking
<1>4. next \in [UsbTaking \X (1 .. n) -> UsbTaking]
  <2>1. ASSUME NEW w \in UsbTaking \X (1 .. n) PROVE UsbTake(w[1], bits[w[2]]) \in UsbTaking
    BY <1>1, UsbTakeType
  <2> QED BY <2>1
<1>5. PICK f : f \in [0 .. n -> UsbTaking] /\ f[0] = UsbEmpty
                /\ \A k \in 1 .. n : f[k] = next[<<f[k - 1], k>>]
  <2> HIDE DEF next, Body, Has
  <2>1. \E f : Carries(f, UsbTaking, UsbEmpty, n, next)
    BY <1>1, <1>3, <1>4, Carried, Zenon
  <2> QED BY <2>1 DEF Carries
<1>6. ASSUME NEW k \in 1 .. n PROVE f[k] = UsbTake(f[k - 1], bits[k])
  <2>1. k - 1 \in 0 .. n
    BY <1>1
  <2>2. <<f[k - 1], k>> \in UsbTaking \X (1 .. n)
    BY <1>5, <2>1
  <2> QED BY <1>5, <2>2
<1> HIDE DEF next
<1>7. Has(f)
  <2>1. ASSUME NEW k \in 0 .. n PROVE f[k] = Body(f, k)
    <3>1. k # 0 => k \in 1 .. n
      BY <1>1
    <3> QED BY <1>5, <1>6, <3>1
  <2>2. f = [k \in 0 .. n |-> f[k]]
    BY <1>5
  <2> HIDE DEF Body
  <2> QED BY <2>1, <2>2
<1> DEFINE at == CHOOSE f1 : Has(f1)
<1>8. Has(at)
  <2> HIDE DEF Has
  <2> QED BY <1>7
<1>9. \A k \in 0 .. n : at[k] = Body(at, k)
  <2> HIDE DEF at, Body
  <2> QED BY <1>8
<1> HIDE DEF at
<1>10. at[0] = f[0]
  BY <1>1, <1>5, <1>9
<1>11. ASSUME NEW k \in 1 .. n, at[k - 1] = f[k - 1] PROVE at[k] = f[k]
  <2>1. k \in 0 .. n /\ k # 0
    BY <1>1
  <2>2. at[k] = UsbTake(at[k - 1], bits[k])
    BY <1>9, <2>1
  <2> QED BY <1>6, <1>11, <2>2
<1>12. at[n] = f[n]
  BY <1>1, <1>10, <1>11, SameRun
<1> QED BY <1>2, <1>5, <1>6, <1>12 DEF n, at

\* Stuffing a bit only adds to the line.
LEMMA UsbLineGrows ==
  ASSUME NEW s \in UsbKept, NEW bit \in BOOLEAN
  PROVE  Begins(s.out, UsbPut(s, bit).out)
<1> DEFINE t == UsbAdd(s, bit)
<1>1. s.out \in Seq(BOOLEAN) /\ t.out \in Seq(BOOLEAN) /\ t.out = Append(s.out, bit)
  BY DEF UsbKept, UsbAdd
<1>2. Begins(s.out, t.out)
  BY <1>1, AppendBegins
<1>3. UsbAdd(t, FALSE).out = Append(t.out, FALSE)
  BY DEF UsbAdd
<1> HIDE DEF t
<1>4. Begins(s.out, Append(t.out, FALSE))
  <2>1. FALSE \in BOOLEAN /\ Append(t.out, FALSE) \in Seq(BOOLEAN)
    BY <1>1
  <2>2. Begins(t.out, Append(t.out, FALSE))
    BY <1>1, <2>1, AppendBegins
  <2> QED BY <1>1, <1>2, <2>1, <2>2, BeginsBegins
<1> QED BY <1>2, <1>3, <1>4, UsbPutIs DEF t

\* What was stuffed is destuffed to what it was.
LEMMA UsbUndone ==
  ASSUME NEW bits \in Seq(BOOLEAN)
  PROVE  UsbDestuff(UsbStuff(bits)) = bits
<1> DEFINE n == Len(bits)
           line == UsbStuff(bits)
           m == Len(line)
<1>1. n \in Nat /\ \A k \in 1 .. n : bits[k] \in BOOLEAN
  OBVIOUS
<1>2. PICK at : /\ \A k \in 0 .. n : at[k] \in UsbKept
                /\ at[0] = UsbEmpty
                /\ \A k \in 1 .. n : at[k] = UsbPut(at[k - 1], bits[k])
                /\ line = at[n].out
  BY UsbStuffIs
<1> HIDE DEF line
<1>3. line \in Seq(BOOLEAN) /\ m \in Nat
  <2>1. n \in 0 .. n
    BY <1>1
  <2> QED BY <1>2, <2>1 DEF UsbKept
<1>4. PICK d : /\ \A k \in 0 .. m : d[k] \in UsbTaking
               /\ d[0] = UsbEmpty
               /\ \A k \in 1 .. m : d[k] = UsbTake(d[k - 1], line[k])
               /\ UsbDestuff(line) = d[m].out
  BY <1>3, UsbDestuffIs
<1> HIDE DEF n, m
<1>5. \A k \in 0 .. n : Begins(at[k].out, line)
  <2> DEFINE o == [k \in 0 .. n |-> at[k].out]
  <2>1. ASSUME NEW k \in 0 .. n PROVE o[k] \in Seq(BOOLEAN)
    BY <1>2 DEF UsbKept
  <2>2. ASSUME NEW k \in 1 .. n PROVE Begins(o[k - 1], o[k])
    <3>1. k - 1 \in 0 .. n /\ k \in 0 .. n
      BY <1>1
    <3> QED BY <1>1, <1>2, <3>1, UsbLineGrows
  <2>3. ASSUME NEW k \in 0 .. n PROVE Begins(o[k], o[n])
    <3> HIDE DEF o
    <3> QED BY <1>1, <2>1, <2>2, Growing
  <2>4. n \in 0 .. n
    BY <1>1
  <2> QED BY <1>2, <2>3, <2>4
<1> DEFINE Agrees(k) == LET l == Len(at[k].out)
                        IN  /\ l <= m
                            /\ d[l].out = SubSeq(bits, 1, k)
                            /\ d[l].ones = at[k].ones
           S == {k \in 0 .. n : Agrees(k)}
<1>6. 0 \in S
  <2>1. 0 \in 0 .. n /\ 0 <= m /\ SubSeq(bits, 1, 0) = << >>
    BY <1>1, <1>3
  <2>2. Len(at[0].out) = 0
    BY <1>2 DEF UsbEmpty
  <2>3. d[0].out = << >> /\ d[0].ones = at[0].ones
    BY <1>2, <1>4 DEF UsbEmpty
  <2> QED BY <2>1, <2>2, <2>3
<1>7. ASSUME NEW k \in 0 .. n - 1, k \in S PROVE k + 1 \in S
  <2> DEFINE s == at[k]
             bit == bits[k + 1]
             t == UsbAdd(s, bit)
             e == at[k + 1]
             l == Len(s.out)
  <2>1. /\ k \in Nat /\ k \in 0 .. n /\ k + 1 \in 0 .. n /\ k + 1 \in 1 .. n
        /\ (k + 1) - 1 = k
    BY <1>1
  <2>2. /\ s \in UsbKept /\ bit \in BOOLEAN /\ e \in UsbKept /\ e = UsbPut(s, bit)
    BY <1>1, <1>2, <2>1
  <2>3. l <= m /\ d[l].out = SubSeq(bits, 1, k) /\ d[l].ones = s.ones
    BY <1>7
  <2>4. Begins(e.out, line)
    BY <1>5, <2>1
  <2>5. s.out \in Seq(BOOLEAN) /\ l \in Nat /\ s.ones \in 0 .. 5 /\ e.out \in Seq(BOOLEAN)
    BY <2>2 DEF UsbKept
  <2>6. Append(SubSeq(bits, 1, k), bit) = SubSeq(bits, 1, k + 1)
    BY <2>1 DEF n
  <2>7. t.out = Append(s.out, bit) /\ t.out \in Seq(BOOLEAN)
    BY <2>2, <2>5 DEF UsbAdd
  <2>8. e = IF t.ones = 6 THEN UsbAdd(t, FALSE) ELSE t
    BY <2>2, UsbPutIs
  <2> HIDE DEF s, bit, t, e, l
  <2>9. Len(t.out) = l + 1 /\ t.out[l + 1] = bit
    BY <2>2, <2>5, <2>7 DEF l
  <2>10. t.ones = 6 => e.out = Append(t.out, FALSE) /\ e.ones = 0
    BY <2>8 DEF UsbAdd
  <2>11. Begins(t.out, e.out)
    <3>1. CASE t.ones = 6
      <4>1. FALSE \in BOOLEAN
        OBVIOUS
      <4> QED BY <2>7, <2>10, <3>1, <4>1, AppendBegins
    <3>2. CASE t.ones # 6
      BY <2>8, <3>2 DEF Begins
    <3> QED BY <3>1, <3>2
  <2>12. Begins(t.out, line)
    BY <1>3, <2>4, <2>5, <2>7, <2>11, BeginsBegins
  <2>13. l + 1 <= m /\ line[l + 1] = bit
    <3>1. l + 1 \in 1 .. l + 1
      BY <2>5
    <3> QED BY <2>9, <2>12, <3>1 DEF Begins, m
  <2>14. d[l + 1].out = SubSeq(bits, 1, k + 1) /\ d[l + 1].ones = t.ones
    <3>1. l + 1 \in 1 .. m /\ (l + 1) - 1 = l
      BY <1>3, <2>5, <2>13
    <3>2. d[l + 1] = UsbTake(d[l], bit)
      BY <1>4, <2>13, <3>1
    <3>3. d[l + 1] = UsbAdd(d[l], bit)
      BY <2>3, <2>5, <3>2 DEF UsbTake
    <3>4. d[l + 1].out = Append(d[l].out, bit) /\ d[l + 1].ones = t.ones
      BY <2>3, <3>3 DEF UsbAdd, t
    <3> QED BY <2>3, <2>6, <3>4
  <2>15. CASE t.ones # 6
    BY <2>1, <2>8, <2>9, <2>13, <2>14, <2>15 DEF e
  <2>16. CASE t.ones = 6
    <3>1. Len(e.out) = l + 2 /\ e.out[l + 2] = FALSE
      <4>1. \A o \in Seq(BOOLEAN) : /\ Len(Append(o, FALSE)) = Len(o) + 1
                                    /\ Append(o, FALSE)[Len(o) + 1] = FALSE
        OBVIOUS
      <4>2. Len(t.out) + 1 = l + 2
        BY <2>5, <2>9
      <4>3. e.out = Append(t.out, FALSE)
        BY <2>10, <2>16
      <4> QED BY <2>7, <4>1, <4>2, <4>3, Zenon
    <3>2. l + 2 <= m /\ line[l + 2] = FALSE
      <4>1. l + 2 \in 1 .. l + 2
        BY <2>5
      <4> QED BY <2>4, <3>1, <4>1 DEF Begins, m
    <3>3. l + 2 \in 1 .. m /\ (l + 2) - 1 = l + 1 /\ l + 1 \in 0 .. m
      BY <1>3, <2>5, <3>2
    <3>4. d[l + 2] = UsbTake(d[l + 1], FALSE) /\ d[l + 1] \in UsbTaking
      BY <1>4, <3>2, <3>3
    <3>5. d[l + 2] = [d[l + 1] EXCEPT !.ones = 0]
      BY <2>14, <2>16, <3>4 DEF UsbTake
    <3>6. d[l + 2].out = d[l + 1].out /\ d[l + 2].ones = 0
      BY <3>4, <3>5 DEF UsbTaking
    <3> QED BY <2>1, <2>10, <2>14, <2>16, <3>1, <3>2, <3>6 DEF e
  <2> QED BY <2>15, <2>16
<1>8. \A k \in 0 .. n : k \in S
  <2> HIDE DEF S
  <2> QED BY <1>1, <1>6, <1>7, Along
<1>9. Agrees(n)
  <2>1. n \in 0 .. n
    BY <1>1
  <2> HIDE DEF Agrees
  <2> QED BY <1>8, <2>1
<1>10. UsbDestuff(line) = bits
  <2>1. Len(at[n].out) = m
    BY <1>2 DEF m
  <2>2. SubSeq(bits, 1, n) = bits
    BY DEF n
  <2> QED BY <1>4, <1>9, <2>1, <2>2
<1> QED BY <1>10 DEF line

-----------------------------------------------------------------------------
\* The count is the number of ones the line ends with, and there are never
\* seven in a row.
EndsInOnes(o, c) ==
  /\ c <= Len(o)
  /\ \A j \in 1 .. Len(o) : j > Len(o) - c => o[j] = TRUE
  /\ c < Len(o) => o[Len(o) - c] = FALSE
UsbBroken(s) == EndsInOnes(s.out, s.ones) /\ ~Ones7(s.out)

\* The ones are counted right and stay below seven.
LEMMA UsbAddBreaks ==
  ASSUME NEW s \in UsbLine, NEW bit \in BOOLEAN, s.ones = 6 => bit = FALSE, UsbBroken(s)
  PROVE  UsbBroken(UsbAdd(s, bit))
<1> DEFINE o == s.out
           l == Len(s.out)
           c == s.ones
           q == IF bit THEN s.ones + 1 ELSE 0
           p == Append(o, bit)
           e == Len(p)
<1>1. /\ o \in Seq(BOOLEAN) /\ l \in Nat /\ c \in 0 .. 6
  BY DEF UsbLine
<1>2. /\ p \in Seq(BOOLEAN) /\ e = l + 1 /\ p[e] = bit
      /\ \A j \in 1 .. l : p[j] = o[j]
  BY <1>1
<1>3. /\ c <= l /\ \A j \in 1 .. l : j > l - c => o[j] = TRUE
      /\ c < l => o[l - c] = FALSE
  BY DEF UsbBroken, EndsInOnes
<1>4. /\ bit = TRUE => q = c + 1 /\ c <= 5
      /\ bit = FALSE => q = 0
      /\ bit = TRUE \/ bit = FALSE
  BY <1>1
<1> HIDE DEF o, l, c, q, p, e
<1>5. q \in 0 .. 6 /\ q <= e
  BY <1>1, <1>2, <1>3, <1>4
<1>6. ASSUME NEW j \in 1 .. e, j > e - q PROVE p[j] = TRUE
  <2>1. bit = TRUE /\ q = c + 1
    BY <1>1, <1>2, <1>4, <1>6
  <2>2. CASE j = e
    BY <1>2, <2>1, <2>2
  <2>3. CASE j # e
    <3>1. j \in 1 .. l /\ j > l - c
      BY <1>1, <1>2, <1>6, <2>1, <2>3
    <3> QED BY <1>2, <1>3, <3>1
  <2> QED BY <2>2, <2>3
<1>7. ASSUME q < e PROVE p[e - q] = FALSE
  <2>1. CASE bit = FALSE
    <3>1. e - q = e
      BY <1>1, <1>2, <1>4, <2>1
    <3> QED BY <1>2, <2>1, <3>1
  <2>2. CASE bit = TRUE
    <3>1. e - q = l - c /\ c < l /\ l - c \in 1 .. l
      BY <1>1, <1>2, <1>4, <1>7, <2>2
    <3> QED BY <1>2, <1>3, <3>1
  <2> QED BY <1>4, <2>1, <2>2
<1>8. EndsInOnes(p, q)
  BY <1>5, <1>6, <1>7 DEF EndsInOnes, e
<1>9. ~Ones7(p)
  <2>0. SUFFICES ASSUME Ones7(p) PROVE FALSE
    OBVIOUS
  <2>1. PICK i \in 1 .. e - 6 : \A j \in i .. i + 6 : p[j]
    BY <2>0, Zenon DEF Ones7, e
  <2>2. i \in Nat /\ i >= 1 /\ i + 6 <= e
    BY <1>1, <1>2
  <2>3. CASE i + 6 <= l
    <3>1. i \in 1 .. l - 6
      BY <1>1, <2>2, <2>3
    <3>2. ASSUME NEW j \in i .. i + 6 PROVE o[j]
      <4>1. j \in 1 .. l
        BY <1>1, <2>2, <2>3
      <4> QED BY <1>2, <2>1, <4>1
    <3>3. Ones7(o)
      BY <3>1, <3>2 DEF Ones7, l, o
    <3> QED BY <3>3 DEF UsbBroken, o
  <2>4. CASE i + 6 = e
    <3>1. e - q \in i .. i + 6 /\ q < e
      BY <1>1, <1>2, <1>5, <2>2, <2>4
    <3>2. p[e - q]
      BY <2>1, <3>1
    <3> QED BY <1>7, <3>1, <3>2
  <2> QED BY <1>1, <1>2, <2>2, <2>3, <2>4
<1>10. UsbAdd(s, bit) = [out |-> p, ones |-> q]
  BY DEF UsbAdd, p, q, o
<1> QED BY <1>8, <1>9, <1>10 DEF UsbBroken

\* No USB line has seven ones in a row (usb_stuff).
LEMMA UsbLineBroken ==
  ASSUME NEW bits \in Seq(BOOLEAN)
  PROVE  ~Ones7(UsbStuff(bits))
<1> DEFINE n == Len(bits)
<1>1. n \in Nat /\ 0 \in 0 .. n /\ n \in 0 .. n /\ \A k \in 1 .. n : bits[k] \in BOOLEAN
  OBVIOUS
<1>2. PICK at : /\ \A k \in 0 .. n : at[k] \in UsbKept
                /\ at[0] = UsbEmpty
                /\ \A k \in 1 .. n : at[k] = UsbPut(at[k - 1], bits[k])
                /\ UsbStuff(bits) = at[n].out
  BY UsbStuffIs
<1> HIDE DEF n
<1> DEFINE S == {k \in 0 .. n : UsbBroken(at[k])}
<1>3. 0 \in S
  <2>1. UsbBroken(UsbEmpty)
    BY DEF UsbBroken, EndsInOnes, Ones7, UsbEmpty
  <2> QED BY <1>1, <1>2, <2>1
<1>4. ASSUME NEW k \in 0 .. n - 1, k \in S PROVE k + 1 \in S
  <2> DEFINE s == at[k]
             bit == bits[k + 1]
             t == UsbAdd(s, bit)
  <2>1. k \in 0 .. n /\ k + 1 \in 0 .. n /\ k + 1 \in 1 .. n /\ (k + 1) - 1 = k
    BY <1>1
  <2>2. /\ s \in UsbKept /\ bit \in BOOLEAN /\ UsbBroken(s) /\ at[k + 1] = UsbPut(s, bit)
    BY <1>1, <1>2, <1>4, <2>1
  <2>3. at[k + 1] = IF t.ones = 6 THEN UsbAdd(t, FALSE) ELSE t
    BY <2>2, UsbPutIs
  <2>4. s \in UsbTaking /\ s \in UsbLine /\ s.ones <= 5 /\ s.ones # 6
    BY <2>2 DEF UsbKept, UsbLine, UsbTaking
  <2> HIDE DEF s, bit
  <2>5. t \in UsbLine /\ UsbBroken(t)
    BY <2>2, <2>4, UsbAddType, UsbAddBreaks
  <2> HIDE DEF t
  <2>6. UsbBroken(UsbAdd(t, FALSE))
    <3>1. FALSE \in BOOLEAN
      OBVIOUS
    <3> QED BY <2>5, <3>1, UsbAddBreaks
  <2>7. UsbBroken(at[k + 1])
    BY <2>3, <2>5, <2>6
  <2> QED BY <2>1, <2>7
<1>5. \A k \in 0 .. n : k \in S
  <2> HIDE DEF S
  <2> QED BY <1>1, <1>3, <1>4, Along
<1>6. UsbBroken(at[n])
  BY <1>1, <1>5
<1> QED BY <1>2, <1>6 DEF UsbBroken

-----------------------------------------------------------------------------
\* The word of the checker is a bit string.
IsWord == word \in Seq(BOOLEAN)

\* Whatever the checker does, its word is one.
LEMMA WordType == Spec => []IsWord
<1>1. Init => IsWord
  <2>1. \A how, l, sent : Start(how, l, sent) => word = << >>
    BY DEF Start
  <2>2. Init => word = << >>
    BY <2>1, Zenon DEF Init
  <2> QED BY <2>2 DEF IsWord
<1>2. IsWord /\ [Next]_vars => IsWord'
  <2> SUFFICES ASSUME IsWord, [Next]_vars PROVE IsWord'
    OBVIOUS
  <2> USE DEF IsWord
  <2>1. ASSUME NEW bit \in BOOLEAN, Extend(bit) PROVE IsWord'
    BY <2>1 DEF Extend
  <2>2. CASE Talk
    BY <2>2 DEF Talk, Turn
  <2>3. CASE Listen \/ Noise
    BY <2>3 DEF Listen, Noise
  <2>4. CASE Read \/ Dwell
    BY <2>4 DEF Read, Dwell, Hear
  <2>5. CASE UNCHANGED vars
    BY <2>5 DEF vars
  <2> QED BY <2>1, <2>2, <2>3, <2>4, <2>5 DEF Next
<1> QED BY <1>1, <1>2, PTL DEF Spec

\* For words of any length: CAN's stuffing leaves no six equal bits in a row
\* and USB's no seven ones, and destuffing gives back the word
\* (line_lang.can_stuff and can_destuff, usb_stuff and usb_tx_matches).
THEOREM StuffingUndone == Spec => []StuffingIsUndone
<1>1. IsWord => StuffingIsUndone
  BY CanUndone, CanBroken, UsbUndone, UsbLineBroken DEF IsWord, StuffingIsUndone
<1> QED BY <1>1, WordType, PTL

-----------------------------------------------------------------------------
\* What the checker holds in its variables: the programs are plans that were
\* loaded, the bytes and the samples fit a register, and the receiver has
\* heard no sample before it is given the waveform.
TypeInv ==
  /\ TypeOK
  /\ lang \in Langs /\ bytes \in Seq(ByteSet) /\ wave \in Seq(Reg)
  /\ txp \in Program /\ rxp \in Program
  /\ mode # "read" => pos = 0

\* A byte fills a register of the checker.
LEMMA ByteReg == Reg = ByteSet
BY ByteIsReg DEF Reg, Bits, ByteSet

\* A clock of a machine that runs a loaded plan.
LEMMA ClockedType ==
  ASSUME NEW m \in Machine, NEW p \in Program, NEW bus \in Reg
  PROVE  Clocked(m, p, bus) \in Machine
<1>1. m.pc \in Addr
  BY DEF Machine
<1>2. p.imem[m.pc] \in Node /\ p.csr \in Config
  BY <1>1 DEF Program
<1> QED BY <1>2, TickType DEF Clocked

\* A check starts well typed, whatever language, direction and bytes it is about.
LEMMA StartTypes ==
  ASSUME NEW l \in Langs, NEW sent \in Seq(ByteSet), NEW how, Start(how, l, sent),
         src \in Seq(ByteSet), wave \in Seq(Reg), how # "read"
  PROVE  TypeInv
<1>1. txp \in Program /\ rxp \in Program
  BY GraphsLoad DEF Start
<1>2. tail \in 0 .. Tail24 /\ pos \in 0 .. Len(wave)
  BY TailAssumption DEF Start
<1>3. got \in Seq(ByteSet) /\ tx \in Machine /\ rx \in Machine
  BY ResetType DEF Start
<1>4. lang \in Langs /\ bytes \in Seq(ByteSet) /\ (mode # "read" => pos = 0)
  BY DEF Start
<1>5. peer \in {"free", "low", "over"} /\ alone \in 0 .. MaxHold
  BY HoldAssumption DEF Start
<1> QED BY <1>1, <1>2, <1>3, <1>4, <1>5 DEF TypeInv, TypeOK

\* The checker starts well typed.
LEMMA CheckInit == Init => TypeInv
<1>1. ASSUME NEW c \in Talks, Start("talk", c.lang, c.bytes), src = c.bytes, wave = << >>
      PROVE  TypeInv
  <2>1. c.lang \in Langs /\ c.bytes \in Seq(ByteSet)
    BY TalksAssumption
  <2> QED BY <1>1, <2>1, StartTypes
<1>2. ASSUME NEW l \in Langs, NEW bit \in Frames, Start("frame", l, <<bit>>),
             src = << >>, wave = SpecWave(l, bit)
      PROVE  TypeInv
  <2>1. <<bit>> \in Seq(ByteSet) /\ src \in Seq(ByteSet) /\ wave \in Seq(Reg)
    BY <1>2, FramesAssumption, WavesAreSampled
  <2> QED BY <1>2, <2>1, StartTypes
<1>3. ASSUME Start("word", "can", << >>), src = << >>, wave = << >> PROVE TypeInv
  <2>1. "can" \in Langs /\ src \in Seq(ByteSet) /\ wave \in Seq(Reg)
    BY <1>3 DEF Langs
  <2>2. << >> \in Seq(ByteSet)
    OBVIOUS
  <2> QED BY <1>3, <2>1, <2>2, StartTypes
<1> QED BY <1>1, <1>2, <1>3 DEF Init

\* A byte moves from what is to be sent into a queue with room for it, and
\* from the other machine's queue to what was received; the peer holds the
\* clock for no longer than it may.
LEMMA TurnTypes ==
  ASSUME TypeInv, Talk
  PROVE  TypeInv'
<1> DEFINE push == src # << >> /\ Len(tx.tx) < Depth
           fed == IF push THEN [tx EXCEPT !.tx = Append(tx.tx, Head(src))] ELSE tx
           heard == Clocked(rx, rxp, Wire)
<1>0. Turn /\ Record /\ tail < Tail24 /\ mode = "talk"
  BY DEF Talk
<1>1. Wire \in Reg
  BY DEF Wire, WiredAnd, PullUps, Reg
<1>2. fed \in Machine
  <2>1. CASE push
    <3>1. Head(src) \in Reg
      BY <2>1, ByteReg, HeadTailProperties DEF TypeInv, TypeOK
    <3>2. tx.tx \in Seq(Reg) /\ Len(tx.tx) < Depth /\ tx \in Machine
      BY <2>1 DEF TypeInv, TypeOK, Machine, Queue
    <3>3. Append(tx.tx, Head(src)) \in Queue
      BY <3>1, <3>2, AppendProperties, IsaAssumption DEF Queue
    <3> QED BY <2>1, <3>2, <3>3 DEF Machine
  <2> QED BY <2>1 DEF TypeInv, TypeOK
<1>3. tx' \in Machine
  BY <1>0, <1>1, <1>2, ClockedType DEF TypeInv, Turn
<1>4. heard \in Machine /\ heard.rx \in Seq(Reg) /\ Len(heard.rx) <= Depth
  <2>1. heard \in Machine
    BY <1>1, ClockedType DEF TypeInv, TypeOK
  <2> QED BY <2>1 DEF Machine, Queue
<1>5. rx' \in Machine
  <2>1. CASE heard.rx = << >>
    BY <1>0, <1>4, <2>1 DEF Turn
  <2>2. CASE heard.rx # << >>
    <3>1. Tail(heard.rx) \in Seq(Reg) /\ Len(Tail(heard.rx)) = Len(heard.rx) - 1
      BY <1>4, <2>2, HeadTailProperties
    <3>2. Tail(heard.rx) \in Queue
      BY <1>4, <3>1, LenProperties, IsaAssumption DEF Queue
    <3>3. [heard EXCEPT !.rx = Tail(heard.rx)] \in Machine
      <4> HIDE DEF heard
      <4> QED BY <1>4, <3>2 DEF Machine
    <3> QED BY <1>0, <2>2, <3>3 DEF Turn
  <2> QED BY <2>1, <2>2
<1>6. got' \in Seq(ByteSet)
  <2>1. Slice(heard.rx, 1, 1) \in Seq(Reg)
    <3> HIDE DEF heard
    <3>1. heard.rx = << >> \/ Len(heard.rx) >= 1
      BY <1>4, LenProperties, EmptySeq
    <3> QED BY <1>4, <3>1, LenProperties, SubSeqProperties DEF Slice
  <2>2. got' = got \o Slice(heard.rx, 1, 1)
    BY <1>0 DEF Turn
  <2> HIDE DEF heard
  <2> QED BY <2>1, <2>2, ByteReg, ConcatProperties DEF TypeInv, TypeOK
<1>7. src' \in Seq(ByteSet)
  BY <1>0, HeadTailProperties DEF TypeInv, TypeOK, Turn
<1>8. tail' \in 0 .. Tail24
  <2>1. tail' \in {0, tail + 1}
    BY <1>0 DEF Record
  <2> QED BY <1>0, <2>1, TailAssumption DEF TypeInv, TypeOK
<1>9. UNCHANGED <<mode, lang, bytes, txp, rxp, wave, pos>>
  BY <1>0 DEF Turn
<1>10. peer' \in {"free", "low", "over"} /\ alone' \in 0 .. MaxHold
  <2>1. CASE LetsBe
    BY <2>1 DEF LetsBe, TypeInv, TypeOK
  <2>2. CASE Holds
    <3>1. alone' \in {alone, alone + 1} /\ alone' <= MaxHold /\ peer' = "low"
      BY <2>2 DEF Holds
    <3> QED BY <3>1, HoldAssumption DEF TypeInv, TypeOK
  <2>3. CASE LetsGo
    BY <2>3, HoldAssumption DEF LetsGo
  <2> QED BY <2>1, <2>2, <2>3 DEF Talk
<1> QED BY <1>3, <1>5, <1>6, <1>7, <1>8, <1>9, <1>10 DEF TypeInv, TypeOK

\* A receiver is given a sample, the one the waveform is at or the last again.
LEMMA HearTypes ==
  ASSUME TypeInv, mode = "read", NEW k \in 1 .. Len(wave), Hear(wave[k]),
         pos' \in 0 .. Len(wave)
  PROVE  TypeInv'
<1>1. wave[k] \in Reg
  BY ElementOfSeq DEF TypeInv
<1>2. rx' \in Machine
  BY <1>1, ClockedType DEF Hear, TypeInv, TypeOK
<1>3. UNCHANGED <<mode, lang, bytes, txp, rxp, talking, wave>>
  BY DEF Hear
<1> QED BY <1>2, <1>3 DEF TypeInv, TypeOK, talking

\* And stays so in every step.
LEMMA CheckStep == TypeInv /\ [Next]_vars => TypeInv'
<1> SUFFICES ASSUME TypeInv, [Next]_vars PROVE TypeInv'
  OBVIOUS
<1>1. CASE Talk
  BY <1>1, TurnTypes
<1>2. CASE Listen
  BY <1>2 DEF Listen, TypeInv, TypeOK, talking
<1>3. CASE Noise
  <2>1. PICK k, at : wave' = [wave EXCEPT ![at[k]] = (@ \ {0}) \cup ({0} \ @)]
    BY <1>3 DEF Noise
  <2>2. 0 \in Bits
    BY ByteIsReg DEF Bits
  <2>3. wave' \in Seq(Reg) /\ Len(wave') = Len(wave)
    <3>1. wave \in Seq(Reg) /\ Len(wave) \in Nat /\ DOMAIN wave = 1 .. Len(wave)
      BY LenProperties DEF TypeInv
    <3>2. DOMAIN wave' = 1 .. Len(wave)
      BY <2>1, <3>1
    <3>3. ASSUME NEW i \in 1 .. Len(wave) PROVE wave'[i] \in Reg
      <4>1. wave[i] \in Reg
        BY <3>1, ElementOfSeq
      <4>2. (wave[i] \ {0}) \cup ({0} \ wave[i]) \in Reg
        BY <2>2, <4>1 DEF Reg
      <4> QED BY <2>1, <3>1, <4>1, <4>2
    <3>4. wave' = [i \in 1 .. Len(wave) |-> wave'[i]]
      BY <2>1, <3>1
    <3> QED BY <3>1, <3>2, <3>3, <3>4, IsASeq, LenProperties
  <2>4. mode = "frame" /\ mode' = "noise"
    BY <1>3 DEF Noise
  <2>5. UNCHANGED <<lang, bytes, txp, rxp, talking, rx, pos>>
    BY <1>3 DEF Noise
  <2> QED BY <2>3, <2>4, <2>5 DEF TypeInv, TypeOK, talking
<1>4. CASE Read
  <2>1. pos + 1 \in 1 .. Len(wave) /\ pos' \in 0 .. Len(wave)
    BY <1>4, LenProperties DEF Read, TypeInv, TypeOK
  <2> QED BY <1>4, <2>1, HearTypes DEF Read
<1>5. CASE Dwell
  <2>1. pos \in 1 .. Len(wave) /\ pos' \in 0 .. Len(wave)
    BY <1>5, LenProperties DEF Dwell, TypeInv, TypeOK
  <2> QED BY <1>5, <2>1, HearTypes DEF Dwell
<1>6. ASSUME NEW bit \in BOOLEAN, Extend(bit) PROVE TypeInv'
  BY <1>6 DEF Extend, TypeInv, TypeOK, talking
<1>7. CASE UNCHANGED vars
  BY <1>7 DEF vars, TypeInv, TypeOK, talking
<1> QED BY <1>1, <1>2, <1>3, <1>4, <1>5, <1>6, <1>7 DEF Next

\* Whatever is sent and whatever a receiver hears, both machines stay in the
\* states their registers and queues allow, every byte received is a byte,
\* and the recording ends where it should (formal_proto.py, stream.py).
THEOREM CheckerTyped == Spec => []TypeOK
<1>1. TypeInv => TypeOK
  BY DEF TypeInv
<1> QED BY <1>1, CheckInit, CheckStep, PTL DEF Spec

-----------------------------------------------------------------------------
\* The UART link.  The machines' clocks, node by node.
Num == <<{}, {0}, {1}, {0, 1}, {2}, {0, 2}, {1, 2}, {0, 1, 2}>>

\* The sizes the graphs of the link are loaded with.
LEMMA LinkConstants ==
  /\ W = 8 /\ Bits = 0 .. 7 /\ Words = 32 /\ HalfDelay = 16 /\ Addr = 0 .. 31
  /\ 0 \in ImmBits /\ 1 \in ImmBits /\ 2 \in ImmBits /\ ImmBits \subseteq Bits /\ DelayVal = 0 .. 31
  /\ Depth \in Nat \ {0}
BY ByteOnTheLine, FieldsAssumption, IsaAssumption, ImmFits
   DEF Bits, Addr, ImmBits, DelayVal

\* The loop counter of the two graphs, from seven to zero, bit set by bit set.
LEMMA CountsDown ==
  /\ Num[1] = {} /\ Num[8] = {0, 1, 2}
  /\ \A k \in 2 .. 8 : Num[k] # {} /\ Dec(Num[k]) = Num[k - 1]
<1>1. Bits = 0 .. 7
  BY LinkConstants
<1>2. Dec({0}) = {}
  BY <1>1 DEF Dec
<1>3. Dec({1}) = {0}
  BY <1>1 DEF Dec
<1>4. Dec({0, 1}) = {1}
  BY <1>1 DEF Dec
<1>5. Dec({2}) = {0, 1}
  BY <1>1 DEF Dec
<1>6. Dec({0, 2}) = {2}
  BY <1>1 DEF Dec
<1>7. Dec({1, 2}) = {0, 2}
  BY <1>1 DEF Dec
<1>8. Dec({0, 1, 2}) = {1, 2}
  BY <1>1 DEF Dec
<1>9. /\ Num[1] = {} /\ Num[2] = {0} /\ Num[3] = {1} /\ Num[4] = {0, 1}
      /\ Num[5] = {2} /\ Num[6] = {0, 2} /\ Num[7] = {1, 2} /\ Num[8] = {0, 1, 2}
  BY DEF Num
<1>10. ASSUME NEW k \in 2 .. 8 PROVE Num[k] # {} /\ Dec(Num[k]) = Num[k - 1]
  <2>1. k \in {2, 3, 4, 5, 6, 7, 8}
    OBVIOUS
  <2>2. CASE k = 2
    BY <2>2, <1>2, <1>9
  <2>3. CASE k = 3
    BY <2>3, <1>3, <1>9
  <2>4. CASE k = 4
    BY <2>4, <1>4, <1>9
  <2>5. CASE k = 5
    BY <2>5, <1>5, <1>9
  <2>6. CASE k = 6
    BY <2>6, <1>6, <1>9
  <2>7. CASE k = 7
    BY <2>7, <1>7, <1>9
  <2>8. CASE k = 8
    BY <2>8, <1>8, <1>9
  <2> QED BY <2>1, <2>2, <2>3, <2>4, <2>5, <2>6, <2>7, <2>8
<1> QED BY <1>9, <1>10

\* What one clock leaves of the registers the two graphs use.
PinsKept(m, q) == /\ q.in_pin = m.in_pin /\ q.out_pin = m.out_pin
Below(m, c) == IF m.pc = c.wrap_top THEN c.wrap_bot ELSE (m.pc + 1) % Words

\* A machine in the delay of a node counts it down and does nothing else.
LEMMA Lingers ==
  ASSUME NEW m \in Machine, NEW n, NEW c, NEW eff, ~c.side_count, m.delay_ctr # 0
  PROVE  Enabled(m, n, c, eff) = [m EXCEPT !.delay_ctr = m.delay_ctr - 1]
<1>1. Enabled(m, n, c, eff) = Linger(m, c)
  BY DEF Enabled
<1>2. CommitOut(c, m.out_reg, m.side_latched) = m.out_reg
  BY DEF CommitOut
<1>3. Linger(m, c) = [m EXCEPT !.delay_ctr = m.delay_ctr - 1, !.out_reg = m.out_reg]
  BY <1>2 DEF Linger
<1> QED BY <1>1, <1>3 DEF Machine

\* An instruction without side-set, one register at a time.
LEMMA Executes ==
  ASSUME NEW m, NEW n, NEW c, NEW eff, ~c.side_count, m.delay_ctr = 0,
         NEW q, q = Enabled(m, n, c, eff)
  PROVE  /\ q.pc = (IF Stall(m, n.code, eff) THEN m.pc ELSE Advance(m, n.code, c, eff))
         /\ q.delay_ctr = (IF Stall(m, n.code, eff) THEN m.delay_ctr ELSE Delay(n, c))
         /\ q.x = NextX(m, n.code, eff)
         /\ q.osr = NextOsr(m, n.code, eff) /\ q.isr = NextIsr(m, n.code, eff)
         /\ q.out_reg = PinWd(m, n.code, eff) /\ q.oe_reg = OeWd(m, n.code, eff)
         /\ q.out_pin = (IF PinOp(n.code, "OUTPIN") THEN n.code.pin ELSE m.out_pin)
         /\ q.in_pin = (IF PinOp(n.code, "INPIN") THEN n.code.pin ELSE m.in_pin)
         /\ q.tx = (IF DoPull(m, n.code) THEN Tail(m.tx) ELSE m.tx)
         /\ q.rx = (IF DoPush(m, n.code) THEN Append(m.rx, m.isr) ELSE m.rx)
<1>1. q = Execute(m, n, c, eff)
  BY DEF Enabled
<1>2. \A core, bit : CommitOut(c, core, bit) = core
  BY DEF CommitOut
<1> QED BY <1>1, <1>2 DEF Execute

\* What the instructions of the two graphs do.
LEMMA SetsX ==
  ASSUME NEW m, NEW c, NEW eff, NEW v, NEW e \in Nat, e < HalfDelay,
         ~c.side_count, m.delay_ctr = 0,
         NEW q, q = Enabled(m, Plain([op |-> "SET", dst |-> "X", imm |-> v], e), c, eff)
  PROVE  /\ q.pc = Below(m, c) /\ q.delay_ctr = e /\ PinsKept(m, q) /\ q.x = v
         /\ q.osr = m.osr /\ q.isr = m.isr /\ q.tx = m.tx /\ q.rx = m.rx
         /\ q.out_reg = m.out_reg
         /\ q.oe_reg = m.oe_reg
<1> DEFINE i == [op |-> "SET", dst |-> "X", imm |-> v]
           n == Plain(i, e)
<1>1. n.code = i /\ ~n.top /\ n.low = e /\ i.op = "SET" /\ i.dst = "X" /\ i.imm = v
  BY DEF Plain
<1> HIDE DEF n, i
<1>2. q = Enabled(m, n, c, eff)
  BY DEF n, i
<1>3. ~Taken(m, i, eff) /\ ~Stall(m, i, eff) /\ ~DoPull(m, i) /\ ~DoPush(m, i)
  BY <1>1 DEF Taken, Stall, DoPull, DoPush
<1>4. \A s : ~MovTo(i, s) /\ ~PinOp(i, s) /\ (SetTo(i, s) <=> s = "X")
  BY <1>1 DEF MovTo, PinOp, SetTo
<1>5. Advance(m, i, c, eff) = Below(m, c) /\ Delay(n, c) = e
  BY <1>1, <1>3 DEF Advance, Below, Delay
<1>6. NextX(m, i, eff) = v /\ NextOsr(m, i, eff) = m.osr /\ NextIsr(m, i, eff) = m.isr
  BY <1>1, <1>3, <1>4 DEF NextX, NextOsr, NextIsr
<1>7. /\ PinWd(m, i, eff) = m.out_reg
      /\ OeWd(m, i, eff) = m.oe_reg
  BY <1>1, <1>4 DEF PinWd, OeWd
<1>8. PinsKept(m, q)
  BY <1>1, <1>2, <1>4, Executes DEF PinsKept
<1> QED
  BY <1>1, <1>2, <1>3, <1>5, <1>6, <1>7, <1>8, Executes

\* SET PINS puts the start and the stop bit on the line.
LEMMA SetsPins ==
  ASSUME NEW m, NEW c, NEW eff, NEW v, NEW e \in Nat, e < HalfDelay,
         ~c.side_count, m.delay_ctr = 0,
         NEW q, q = Enabled(m, Plain([op |-> "SET", dst |-> "PINS", imm |-> v], e), c, eff)
  PROVE  /\ q.pc = Below(m, c) /\ q.delay_ctr = e /\ PinsKept(m, q) /\ q.x = m.x
         /\ q.osr = m.osr /\ q.isr = m.isr /\ q.tx = m.tx /\ q.rx = m.rx
         /\ \A j : j \in q.out_reg <=> j \in v \/ (j \in m.out_reg /\ j \notin ImmBits)
         /\ q.oe_reg = m.oe_reg
<1> DEFINE i == [op |-> "SET", dst |-> "PINS", imm |-> v]
           n == Plain(i, e)
<1>1. n.code = i /\ ~n.top /\ n.low = e /\ i.op = "SET" /\ i.dst = "PINS" /\ i.imm = v
  BY DEF Plain
<1> HIDE DEF n, i
<1>2. q = Enabled(m, n, c, eff)
  BY DEF n, i
<1>3. ~Taken(m, i, eff) /\ ~Stall(m, i, eff) /\ ~DoPull(m, i) /\ ~DoPush(m, i)
  BY <1>1 DEF Taken, Stall, DoPull, DoPush
<1>4. \A s : ~MovTo(i, s) /\ ~PinOp(i, s) /\ (SetTo(i, s) <=> s = "PINS")
  BY <1>1 DEF MovTo, PinOp, SetTo
<1>5. Advance(m, i, c, eff) = Below(m, c) /\ Delay(n, c) = e
  BY <1>1, <1>3 DEF Advance, Below, Delay
<1>6. NextX(m, i, eff) = m.x /\ NextOsr(m, i, eff) = m.osr /\ NextIsr(m, i, eff) = m.isr
  BY <1>1, <1>3, <1>4 DEF NextX, NextOsr, NextIsr
<1>7. /\ PinWd(m, i, eff) = v \cup (m.out_reg \ ImmBits)
      /\ OeWd(m, i, eff) = m.oe_reg
  BY <1>1, <1>4 DEF PinWd, OeWd
<1>8. PinsKept(m, q)
  BY <1>1, <1>2, <1>4, Executes DEF PinsKept
<1>9. /\ q.pc = Below(m, c) /\ q.delay_ctr = e /\ q.x = m.x
      /\ q.osr = m.osr /\ q.isr = m.isr /\ q.tx = m.tx /\ q.rx = m.rx
  BY <1>1, <1>2, <1>3, <1>5, <1>6, Executes
<1>10. q.out_reg = PinWd(m, i, eff) /\ q.oe_reg = OeWd(m, i, eff)
  BY <1>1, <1>2, Executes
<1>11. \A j : j \in q.out_reg <=> j \in v \/ (j \in m.out_reg /\ j \notin ImmBits)
  BY <1>7, <1>10
<1>12. q.oe_reg = m.oe_reg
  BY <1>7, <1>10
<1> QED BY <1>8, <1>9, <1>11, <1>12

\* SET PINDIRS makes it A's, or takes B's other pin.
LEMMA SetsPindirs ==
  ASSUME NEW m, NEW c, NEW eff, NEW v, NEW e \in Nat, e < HalfDelay,
         ~c.side_count, m.delay_ctr = 0,
         NEW q, q = Enabled(m, Plain([op |-> "SET", dst |-> "PINDIRS", imm |-> v], e), c, eff)
  PROVE  /\ q.pc = Below(m, c) /\ q.delay_ctr = e /\ PinsKept(m, q) /\ q.x = m.x
         /\ q.osr = m.osr /\ q.isr = m.isr /\ q.tx = m.tx /\ q.rx = m.rx
         /\ q.out_reg = m.out_reg
         /\ \A j : j \in q.oe_reg <=> j \in v \/ (j \in m.oe_reg /\ j \notin ImmBits)
<1> DEFINE i == [op |-> "SET", dst |-> "PINDIRS", imm |-> v]
           n == Plain(i, e)
<1>1. n.code = i /\ ~n.top /\ n.low = e /\ i.op = "SET" /\ i.dst = "PINDIRS" /\ i.imm = v
  BY DEF Plain
<1> HIDE DEF n, i
<1>2. q = Enabled(m, n, c, eff)
  BY DEF n, i
<1>3. ~Taken(m, i, eff) /\ ~Stall(m, i, eff) /\ ~DoPull(m, i) /\ ~DoPush(m, i)
  BY <1>1 DEF Taken, Stall, DoPull, DoPush
<1>4. \A s : ~MovTo(i, s) /\ ~PinOp(i, s) /\ (SetTo(i, s) <=> s = "PINDIRS")
  BY <1>1 DEF MovTo, PinOp, SetTo
<1>5. Advance(m, i, c, eff) = Below(m, c) /\ Delay(n, c) = e
  BY <1>1, <1>3 DEF Advance, Below, Delay
<1>6. NextX(m, i, eff) = m.x /\ NextOsr(m, i, eff) = m.osr /\ NextIsr(m, i, eff) = m.isr
  BY <1>1, <1>3, <1>4 DEF NextX, NextOsr, NextIsr
<1>7. /\ PinWd(m, i, eff) = m.out_reg
      /\ OeWd(m, i, eff) = v \cup (m.oe_reg \ ImmBits)
  BY <1>1, <1>4 DEF PinWd, OeWd
<1>8. PinsKept(m, q)
  BY <1>1, <1>2, <1>4, Executes DEF PinsKept
<1>9. /\ q.pc = Below(m, c) /\ q.delay_ctr = e /\ q.x = m.x
      /\ q.osr = m.osr /\ q.isr = m.isr /\ q.tx = m.tx /\ q.rx = m.rx
  BY <1>1, <1>2, <1>3, <1>5, <1>6, Executes
<1>10. q.out_reg = PinWd(m, i, eff) /\ q.oe_reg = OeWd(m, i, eff)
  BY <1>1, <1>2, Executes
<1>11. \A j : j \in q.oe_reg <=> j \in v \/ (j \in m.oe_reg /\ j \notin ImmBits)
  BY <1>7, <1>10
<1>12. q.out_reg = m.out_reg
  BY <1>7, <1>10
<1> QED BY <1>8, <1>9, <1>11, <1>12

\* NOP and its delay.
LEMMA Waits ==
  ASSUME NEW m, NEW c, NEW eff, NEW e \in Nat, ~c.side_count, m.delay_ctr = 0,
         NEW q, q = Enabled(m, Plain([op |-> "NOP"], e), c, eff)
  PROVE  /\ q.pc = Below(m, c) /\ q.delay_ctr = e /\ PinsKept(m, q) /\ q.x = m.x
         /\ q.osr = m.osr /\ q.isr = m.isr /\ q.tx = m.tx /\ q.rx = m.rx
         /\ q.out_reg = m.out_reg /\ q.oe_reg = m.oe_reg
<1> DEFINE i == [op |-> "NOP"]
           n == Plain(i, e)
<1>1. n.code = i /\ ~n.top /\ n.low = e /\ i.op = "NOP"
  BY DEF Plain
<1> HIDE DEF n, i
<1>2. q = Enabled(m, n, c, eff)
  BY DEF n, i
<1>3. ~Taken(m, i, eff) /\ ~Stall(m, i, eff) /\ ~DoPull(m, i) /\ ~DoPush(m, i)
  BY <1>1 DEF Taken, Stall, DoPull, DoPush
<1>4. \A s : ~MovTo(i, s) /\ ~PinOp(i, s) /\ ~SetTo(i, s)
  BY <1>1 DEF MovTo, PinOp, SetTo
<1>5. Advance(m, i, c, eff) = Below(m, c) /\ Delay(n, c) = e
  BY <1>1, <1>3 DEF Advance, Below, Delay
<1>6. NextX(m, i, eff) = m.x /\ NextOsr(m, i, eff) = m.osr /\ NextIsr(m, i, eff) = m.isr
  BY <1>1, <1>3, <1>4 DEF NextX, NextOsr, NextIsr
<1>7. PinWd(m, i, eff) = m.out_reg /\ OeWd(m, i, eff) = m.oe_reg
  BY <1>1, <1>4 DEF PinWd, OeWd
<1>8. PinsKept(m, q)
  BY <1>1, <1>2, <1>4, Executes DEF PinsKept
<1> QED
  BY <1>1, <1>2, <1>3, <1>5, <1>6, <1>7, <1>8, Executes

Leaves(m, cond, eff) ==
  \/ cond = "X_DEC" /\ m.x # {}
  \/ cond = "PIN" /\ m.in_pin \in eff
  \/ cond = "ALWAYS"

\* A jump, and the counter it leaves.
LEMMA JumpsTo ==
  ASSUME NEW m, NEW c, NEW eff, NEW cond, NEW to, cond \in {"X_DEC", "PIN", "ALWAYS"}, ~c.side_count, m.delay_ctr = 0,
         NEW q, q = Enabled(m, Plain([op |-> "JMP", cond |-> cond, target |-> to], 0), c, eff)
  PROVE  /\ q.pc = (IF Leaves(m, cond, eff) THEN to ELSE Below(m, c))
         /\ q.delay_ctr = 0 /\ PinsKept(m, q)
         /\ q.x = (IF cond = "X_DEC" /\ m.x # {} THEN Dec(m.x) ELSE m.x)
         /\ q.osr = m.osr /\ q.isr = m.isr /\ q.tx = m.tx /\ q.rx = m.rx
         /\ q.out_reg = m.out_reg /\ q.oe_reg = m.oe_reg
<1> DEFINE i == [op |-> "JMP", cond |-> cond, target |-> to]
           n == Plain(i, 0)
<1>1. n.code = i /\ ~n.top /\ n.low = 0 /\ i.op = "JMP" /\ i.cond = cond /\ i.target = to
  BY DEF Plain
<1> HIDE DEF n, i
<1>2. q = Enabled(m, n, c, eff)
  BY DEF n, i
<1>3. ~Stall(m, i, eff) /\ ~DoPull(m, i) /\ ~DoPush(m, i)
  BY <1>1 DEF Stall, DoPull, DoPush
<1>4. \A s : ~MovTo(i, s) /\ ~PinOp(i, s) /\ ~SetTo(i, s)
  BY <1>1 DEF MovTo, PinOp, SetTo
<1>5. Taken(m, i, eff) <=> Leaves(m, cond, eff)
  BY <1>1 DEF Taken, Leaves
<1>6. Advance(m, i, c, eff) = (IF Leaves(m, cond, eff) THEN to ELSE Below(m, c)) /\ Delay(n, c) = 0
  BY <1>1, <1>5 DEF Advance, Below, Delay
<1>7. /\ NextX(m, i, eff) = (IF cond = "X_DEC" /\ m.x # {} THEN Dec(m.x) ELSE m.x)
      /\ NextOsr(m, i, eff) = m.osr /\ NextIsr(m, i, eff) = m.isr
  BY <1>1, <1>3, <1>4 DEF NextX, NextOsr, NextIsr
<1>8. PinWd(m, i, eff) = m.out_reg /\ OeWd(m, i, eff) = m.oe_reg
  BY <1>1, <1>4 DEF PinWd, OeWd
<1>9. PinsKept(m, q)
  BY <1>1, <1>2, <1>4, Executes DEF PinsKept
<1> QED
  BY <1>1, <1>2, <1>3, <1>6, <1>7, <1>8, <1>9, Executes

\* OUT puts the lowest bit of what is left on the line.
LEMMA ShiftsOut ==
  ASSUME NEW m, NEW c, NEW eff, NEW e \in Nat, ~c.side_count, m.delay_ctr = 0,
         NEW q, q = Enabled(m, Plain([op |-> "OUT", lsb |-> TRUE], e), c, eff)
  PROVE  /\ q.pc = Below(m, c) /\ q.delay_ctr = e /\ PinsKept(m, q) /\ q.x = m.x
         /\ q.osr = {j \in Bits : j + 1 \in m.osr} /\ q.tx = m.tx
         /\ m.out_pin \in q.out_reg <=> 0 \in m.osr
         /\ q.oe_reg = m.oe_reg \cup {m.out_pin}
<1> DEFINE i == [op |-> "OUT", lsb |-> TRUE]
           n == Plain(i, e)
<1>1. n.code = i /\ ~n.top /\ n.low = e /\ i.op = "OUT" /\ i.lsb
  BY DEF Plain
<1> HIDE DEF n, i
<1>2. q = Enabled(m, n, c, eff)
  BY DEF n, i
<1>3. ~Taken(m, i, eff) /\ ~Stall(m, i, eff) /\ ~DoPull(m, i)
  BY <1>1 DEF Taken, Stall, DoPull
<1>4. \A s : ~MovTo(i, s) /\ ~PinOp(i, s) /\ ~SetTo(i, s)
  BY <1>1 DEF MovTo, PinOp, SetTo
<1>5. Advance(m, i, c, eff) = Below(m, c) /\ Delay(n, c) = e
  BY <1>1, <1>3 DEF Advance, Below, Delay
<1>6. NextX(m, i, eff) = m.x /\ NextOsr(m, i, eff) = Shr(m.osr, FALSE)
  BY <1>1, <1>3, <1>4 DEF NextX, NextOsr
<1>7. /\ PinWd(m, i, eff) = Put(m.out_reg, m.out_pin, 0 \in m.osr)
      /\ OeWd(m, i, eff) = m.oe_reg \cup {m.out_pin}
  BY <1>1, <1>4 DEF PinWd, OeWd, OutBit
<1>8. PinsKept(m, q)
  BY <1>1, <1>2, <1>4, Executes DEF PinsKept
<1>9. q.pc = Below(m, c) /\ q.delay_ctr = e /\ q.x = m.x /\ q.tx = m.tx
  BY <1>1, <1>2, <1>3, <1>5, <1>6, Executes
<1>10. q.osr = NextOsr(m, i, eff)
  BY <1>1, <1>2, Executes
<1>11. q.out_reg = PinWd(m, i, eff) /\ q.oe_reg = OeWd(m, i, eff)
  BY <1>1, <1>2, Executes
<1>12. q.osr = {j \in Bits : j + 1 \in m.osr}
  BY <1>6, <1>10 DEF Shr, Bit
<1>13. m.out_pin \in q.out_reg <=> 0 \in m.osr
  BY <1>7, <1>11 DEF Put, Bit
<1>14. q.oe_reg = m.oe_reg \cup {m.out_pin}
  BY <1>7, <1>11
<1> QED BY <1>8, <1>9, <1>12, <1>13, <1>14

\* PULL waits for a byte and takes the oldest.
LEMMA PullsAByte ==
  ASSUME NEW m, NEW c, NEW eff, ~c.side_count, m.delay_ctr = 0,
         NEW q, q = Enabled(m, Plain([op |-> "PULL"], 0), c, eff)
  PROVE  /\ q.pc = (IF m.tx = << >> THEN m.pc ELSE Below(m, c))
         /\ q.delay_ctr = 0 /\ PinsKept(m, q) /\ q.x = m.x
         /\ m.tx = << >> => q.osr = m.osr /\ q.tx = m.tx
         /\ m.tx # << >> => q.osr = Head(m.tx) /\ q.tx = Tail(m.tx)
         /\ q.out_reg = m.out_reg /\ q.oe_reg = m.oe_reg
<1> DEFINE i == [op |-> "PULL"]
           n == Plain(i, 0)
<1>1. n.code = i /\ ~n.top /\ n.low = 0 /\ i.op = "PULL"
  BY DEF Plain
<1> HIDE DEF n, i
<1>2. q = Enabled(m, n, c, eff)
  BY DEF n, i
<1>3. ~Taken(m, i, eff) /\ (Stall(m, i, eff) <=> m.tx = << >>) /\ (DoPull(m, i) <=> m.tx # << >>)
  BY <1>1 DEF Taken, Stall, DoPull
<1>4. \A s : ~MovTo(i, s) /\ ~PinOp(i, s) /\ ~SetTo(i, s)
  BY <1>1 DEF MovTo, PinOp, SetTo
<1>5. Advance(m, i, c, eff) = Below(m, c) /\ Delay(n, c) = 0
  BY <1>1, <1>3 DEF Advance, Below, Delay
<1>6. NextX(m, i, eff) = m.x /\ NextOsr(m, i, eff) = (IF m.tx = << >> THEN m.osr ELSE Head(m.tx))
  BY <1>1, <1>3, <1>4 DEF NextX, NextOsr
<1>7. PinWd(m, i, eff) = m.out_reg /\ OeWd(m, i, eff) = m.oe_reg
  BY <1>1, <1>4 DEF PinWd, OeWd
<1>8. PinsKept(m, q)
  BY <1>1, <1>2, <1>4, Executes DEF PinsKept
<1> QED
  BY <1>1, <1>2, <1>3, <1>5, <1>6, <1>7, <1>8, Executes

\* PUSH waits for room and appends what was shifted in.
LEMMA PushesAByte ==
  ASSUME NEW m, NEW c, NEW eff, ~c.side_count, m.delay_ctr = 0,
         NEW q, q = Enabled(m, Plain([op |-> "PUSH"], 0), c, eff)
  PROVE  /\ q.pc = (IF Len(m.rx) = Depth THEN m.pc ELSE Below(m, c))
         /\ q.delay_ctr = 0 /\ PinsKept(m, q) /\ q.isr = m.isr
         /\ q.rx = (IF Len(m.rx) = Depth THEN m.rx ELSE Append(m.rx, m.isr))
         /\ q.out_reg = m.out_reg /\ q.oe_reg = m.oe_reg
<1> DEFINE i == [op |-> "PUSH"]
           n == Plain(i, 0)
<1>1. n.code = i /\ ~n.top /\ n.low = 0 /\ i.op = "PUSH"
  BY DEF Plain
<1> HIDE DEF n, i
<1>2. q = Enabled(m, n, c, eff)
  BY DEF n, i
<1>3. /\ ~Taken(m, i, eff) /\ (Stall(m, i, eff) <=> Len(m.rx) = Depth)
      /\ (DoPush(m, i) <=> Len(m.rx) # Depth)
  BY <1>1 DEF Taken, Stall, DoPush
<1>4. \A s : ~MovTo(i, s) /\ ~PinOp(i, s) /\ ~SetTo(i, s)
  BY <1>1 DEF MovTo, PinOp, SetTo
<1>5. Advance(m, i, c, eff) = Below(m, c) /\ Delay(n, c) = 0
  BY <1>1, <1>3 DEF Advance, Below, Delay
<1>6. NextIsr(m, i, eff) = m.isr
  BY <1>1, <1>3, <1>4 DEF NextIsr
<1>7. PinWd(m, i, eff) = m.out_reg /\ OeWd(m, i, eff) = m.oe_reg
  BY <1>1, <1>4 DEF PinWd, OeWd
<1>8. PinsKept(m, q)
  BY <1>1, <1>2, <1>4, Executes DEF PinsKept
<1>9. q.delay_ctr = 0
  BY <1>1, <1>2, <1>3, <1>5, Executes
<1>10. q.pc = (IF Len(m.rx) = Depth THEN m.pc ELSE Below(m, c))
  BY <1>1, <1>2, <1>3, <1>5, Executes
<1>11. q.rx = (IF Len(m.rx) = Depth THEN m.rx ELSE Append(m.rx, m.isr))
  BY <1>1, <1>2, <1>3, Executes
<1>12. q.isr = m.isr /\ q.out_reg = m.out_reg /\ q.oe_reg = m.oe_reg
  BY <1>1, <1>2, <1>6, <1>7, Executes
<1> QED
  BY <1>8, <1>9, <1>10, <1>11, <1>12

\* WAIT for a start bit.
LEMMA WaitsLow ==
  ASSUME NEW m, NEW c, NEW eff, ~c.side_count, m.delay_ctr = 0,
         NEW q, q = Enabled(m, Plain([op |-> "WAIT", pin |-> 0, pol |-> FALSE], 0), c, eff)
  PROVE  /\ q.pc = (IF 0 \in eff THEN m.pc ELSE Below(m, c))
         /\ q.delay_ctr = 0 /\ PinsKept(m, q) /\ q.isr = m.isr /\ q.rx = m.rx
         /\ q.out_reg = m.out_reg /\ q.oe_reg = m.oe_reg
<1> DEFINE i == [op |-> "WAIT", pin |-> 0, pol |-> FALSE]
           n == Plain(i, 0)
<1>1. n.code = i /\ ~n.top /\ n.low = 0 /\ i.op = "WAIT" /\ i.pin = 0 /\ ~i.pol /\ i.pol \in BOOLEAN
  BY DEF Plain
<1> HIDE DEF n, i
<1>2. q = Enabled(m, n, c, eff)
  BY DEF n, i
<1>3. ~Taken(m, i, eff) /\ (Stall(m, i, eff) <=> 0 \in eff) /\ ~DoPush(m, i)
  <2>1. ((i.pin \in eff) # i.pol) <=> 0 \in eff
    BY <1>1, SMT
  <2> QED BY <1>1, <2>1 DEF Taken, Stall, DoPush
<1>4. \A s : ~MovTo(i, s) /\ ~PinOp(i, s) /\ ~SetTo(i, s)
  BY <1>1 DEF MovTo, PinOp, SetTo
<1>5. Advance(m, i, c, eff) = Below(m, c) /\ Delay(n, c) = 0
  BY <1>1, <1>3 DEF Advance, Below, Delay
<1>6. NextIsr(m, i, eff) = m.isr
  BY <1>1, <1>3, <1>4 DEF NextIsr
<1>7. PinWd(m, i, eff) = m.out_reg /\ OeWd(m, i, eff) = m.oe_reg
  BY <1>1, <1>4 DEF PinWd, OeWd
<1>8. PinsKept(m, q)
  BY <1>1, <1>2, <1>4, Executes DEF PinsKept
<1> QED
  BY <1>1, <1>2, <1>3, <1>5, <1>6, <1>7, <1>8, Executes

\* WAIT for the line to recover.
LEMMA WaitsHigh ==
  ASSUME NEW m, NEW c, NEW eff, ~c.side_count, m.delay_ctr = 0,
         NEW q, q = Enabled(m, Plain([op |-> "WAIT", pin |-> 0, pol |-> TRUE], 0), c, eff)
  PROVE  /\ q.pc = (IF 0 \notin eff THEN m.pc ELSE Below(m, c))
         /\ q.delay_ctr = 0 /\ PinsKept(m, q) /\ q.isr = m.isr /\ q.rx = m.rx
         /\ q.out_reg = m.out_reg /\ q.oe_reg = m.oe_reg
<1> DEFINE i == [op |-> "WAIT", pin |-> 0, pol |-> TRUE]
           n == Plain(i, 0)
<1>1. n.code = i /\ ~n.top /\ n.low = 0 /\ i.op = "WAIT" /\ i.pin = 0 /\ i.pol /\ i.pol \in BOOLEAN
  BY DEF Plain
<1> HIDE DEF n, i
<1>2. q = Enabled(m, n, c, eff)
  BY DEF n, i
<1>3. ~Taken(m, i, eff) /\ (Stall(m, i, eff) <=> 0 \notin eff) /\ ~DoPush(m, i)
  BY <1>1 DEF Taken, Stall, DoPush
<1>4. \A s : ~MovTo(i, s) /\ ~PinOp(i, s) /\ ~SetTo(i, s)
  BY <1>1 DEF MovTo, PinOp, SetTo
<1>5. Advance(m, i, c, eff) = Below(m, c) /\ Delay(n, c) = 0
  BY <1>1, <1>3 DEF Advance, Below, Delay
<1>6. NextIsr(m, i, eff) = m.isr
  BY <1>1, <1>3, <1>4 DEF NextIsr
<1>7. PinWd(m, i, eff) = m.out_reg /\ OeWd(m, i, eff) = m.oe_reg
  BY <1>1, <1>4 DEF PinWd, OeWd
<1>8. PinsKept(m, q)
  BY <1>1, <1>2, <1>4, Executes DEF PinsKept
<1> QED
  BY <1>1, <1>2, <1>3, <1>5, <1>6, <1>7, <1>8, Executes

\* IN takes the bit at the pin from above.
LEMMA ShiftsIn ==
  ASSUME NEW m, NEW c, NEW eff, NEW e \in Nat, ~c.side_count, m.delay_ctr = 0,
         NEW q, q = Enabled(m, Plain([op |-> "IN", lsb |-> TRUE], e), c, eff)
  PROVE  /\ q.pc = Below(m, c) /\ q.delay_ctr = e /\ PinsKept(m, q) /\ q.x = m.x
         /\ q.rx = m.rx
         /\ \A j : j \in q.isr <=> (j \in Bits /\ j + 1 \in m.isr) \/ (j = W - 1 /\ m.in_pin \in eff)
         /\ q.out_reg = m.out_reg /\ q.oe_reg = m.oe_reg
<1> DEFINE i == [op |-> "IN", lsb |-> TRUE]
           n == Plain(i, e)
<1>1. n.code = i /\ ~n.top /\ n.low = e /\ i.op = "IN" /\ i.lsb
  BY DEF Plain
<1> HIDE DEF n, i
<1>2. q = Enabled(m, n, c, eff)
  BY DEF n, i
<1>3. ~Taken(m, i, eff) /\ ~Stall(m, i, eff) /\ ~DoPush(m, i)
  BY <1>1 DEF Taken, Stall, DoPush
<1>4. \A s : ~MovTo(i, s) /\ ~PinOp(i, s) /\ ~SetTo(i, s)
  BY <1>1 DEF MovTo, PinOp, SetTo
<1>5. Advance(m, i, c, eff) = Below(m, c) /\ Delay(n, c) = e
  BY <1>1, <1>3 DEF Advance, Below, Delay
<1>6. NextX(m, i, eff) = m.x /\ NextIsr(m, i, eff) = Shr(m.isr, m.in_pin \in eff)
  BY <1>1, <1>3, <1>4 DEF NextX, NextIsr
<1>7. PinWd(m, i, eff) = m.out_reg /\ OeWd(m, i, eff) = m.oe_reg
  BY <1>1, <1>4 DEF PinWd, OeWd
<1>8. PinsKept(m, q)
  BY <1>1, <1>2, <1>4, Executes DEF PinsKept
<1>9. /\ q.pc = Below(m, c) /\ q.delay_ctr = e /\ q.x = m.x /\ q.rx = m.rx
      /\ q.out_reg = m.out_reg /\ q.oe_reg = m.oe_reg
  BY <1>1, <1>2, <1>3, <1>5, <1>6, <1>7, Executes
<1>10. q.isr = NextIsr(m, i, eff)
  BY <1>1, <1>2, Executes
<1>11. \A j : j \in q.isr <=> (j \in Bits /\ j + 1 \in m.isr) \/ (j = W - 1 /\ m.in_pin \in eff)
  BY <1>6, <1>10 DEF Shr, Bit
<1> QED BY <1>8, <1>9, <1>11

\* The frame-error flag is raised,
LEMMA SetsBit ==
  ASSUME NEW m, NEW c, NEW eff, NEW k, ~c.side_count, m.delay_ctr = 0,
         NEW q, q = Enabled(m, Plain([op |-> "SETPIN", dst |-> "BIT", pin |-> k], 0), c, eff)
  PROVE  /\ q.pc = Below(m, c) /\ q.delay_ctr = 0 /\ PinsKept(m, q)
         /\ q.isr = m.isr /\ q.rx = m.rx
         /\ q.out_reg = m.out_reg \cup {k}
         /\ q.oe_reg = m.oe_reg \cup {k}
<1> DEFINE i == [op |-> "SETPIN", dst |-> "BIT", pin |-> k]
           n == Plain(i, 0)
<1>1. n.code = i /\ ~n.top /\ n.low = 0 /\ i.op = "SETPIN" /\ i.dst = "BIT" /\ i.pin = k
  BY DEF Plain
<1> HIDE DEF n, i
<1>2. q = Enabled(m, n, c, eff)
  BY DEF n, i
<1>3. ~Taken(m, i, eff) /\ ~Stall(m, i, eff) /\ ~DoPush(m, i)
  BY <1>1 DEF Taken, Stall, DoPush
<1>4. \A s : ~MovTo(i, s) /\ ~SetTo(i, s) /\ (PinOp(i, s) <=> s = "BIT")
  BY <1>1 DEF MovTo, PinOp, SetTo
<1>5. Advance(m, i, c, eff) = Below(m, c) /\ Delay(n, c) = 0
  BY <1>1, <1>3 DEF Advance, Below, Delay
<1>6. NextIsr(m, i, eff) = m.isr
  BY <1>1, <1>3, <1>4 DEF NextIsr
<1>7. /\ PinWd(m, i, eff) = m.out_reg \cup {k}
      /\ OeWd(m, i, eff) = m.oe_reg \cup {k}
  BY <1>1, <1>4 DEF PinWd, OeWd
<1>8. PinsKept(m, q)
  BY <1>1, <1>2, <1>4, Executes DEF PinsKept
<1> QED
  BY <1>1, <1>2, <1>3, <1>5, <1>6, <1>7, <1>8, Executes

\* and taken down.
LEMMA ClearsBit ==
  ASSUME NEW m, NEW c, NEW eff, NEW k, ~c.side_count, m.delay_ctr = 0,
         NEW q, q = Enabled(m, Plain([op |-> "SETPIN", dst |-> "CLR", pin |-> k], 0), c, eff)
  PROVE  /\ q.pc = Below(m, c) /\ q.delay_ctr = 0 /\ PinsKept(m, q)
         /\ q.isr = m.isr /\ q.rx = m.rx
         /\ q.out_reg = m.out_reg \ {k}
         /\ q.oe_reg = m.oe_reg
<1> DEFINE i == [op |-> "SETPIN", dst |-> "CLR", pin |-> k]
           n == Plain(i, 0)
<1>1. n.code = i /\ ~n.top /\ n.low = 0 /\ i.op = "SETPIN" /\ i.dst = "CLR" /\ i.pin = k
  BY DEF Plain
<1> HIDE DEF n, i
<1>2. q = Enabled(m, n, c, eff)
  BY DEF n, i
<1>3. ~Taken(m, i, eff) /\ ~Stall(m, i, eff) /\ ~DoPush(m, i)
  BY <1>1 DEF Taken, Stall, DoPush
<1>4. \A s : ~MovTo(i, s) /\ ~SetTo(i, s) /\ (PinOp(i, s) <=> s = "CLR")
  BY <1>1 DEF MovTo, PinOp, SetTo
<1>5. Advance(m, i, c, eff) = Below(m, c) /\ Delay(n, c) = 0
  BY <1>1, <1>3 DEF Advance, Below, Delay
<1>6. NextIsr(m, i, eff) = m.isr
  BY <1>1, <1>3, <1>4 DEF NextIsr
<1>7. /\ PinWd(m, i, eff) = m.out_reg \ {k}
      /\ OeWd(m, i, eff) = m.oe_reg
  BY <1>1, <1>4 DEF PinWd, OeWd
<1>8. PinsKept(m, q)
  BY <1>1, <1>2, <1>4, Executes DEF PinsKept
<1> QED
  BY <1>1, <1>2, <1>3, <1>5, <1>6, <1>7, <1>8, Executes

\* Where A is at clock t of its frame, parked at 82, on its way there before.
SenderAt(m, t) ==
  \/ t = 0 /\ m.pc = 3 /\ m.delay_ctr = 0
  \/ t = 1 /\ m.pc = 4 /\ m.delay_ctr = 0 /\ m.x = Num[8]
  \/ \E k \in 0 .. 7 :
       /\ m.pc = 5 /\ m.x = Num[8 - k] /\ t = 9 + 8 * k - m.delay_ctr
       /\ m.delay_ctr <= 7 /\ (k > 0 => m.delay_ctr = 0)
  \/ \E k \in 0 .. 7 :
       m.pc = 6 /\ m.x = Num[8 - k] /\ t = 16 + 8 * k - m.delay_ctr /\ m.delay_ctr <= 6
  \/ t = 73 /\ m.pc = 7 /\ m.delay_ctr = 0
  \/ t = 81 - m.delay_ctr /\ m.pc = 8 /\ m.delay_ctr <= 7
  \/ t = 82 /\ m.pc = 2 /\ m.delay_ctr = 0
  \/ t = 83 /\ m.pc = 0 /\ m.delay_ctr = 0
  \/ t = 84 /\ m.pc = 1 /\ m.delay_ctr = 0

SendsAt(m, t) ==
  /\ SenderAt(m, t)
  /\ m.out_pin = 0
  /\ 0 \in m.oe_reg <=> t <= 82
  /\ (t \in 0 .. 1 \/ t \in 74 .. 82 \/ t = 84) => 0 \in m.out_reg
  /\ t \in 2 .. 9 => 0 \notin m.out_reg

AfterSender(m, t) ==
  IF t = 83 THEN 84 ELSE
  IF t = 84 \/ (t = 82 /\ m.tx = << >>) THEN 82 ELSE
  IF t = 82 THEN 0 ELSE t + 1

\* A clock of A's machine, and what it does to a frame.
SenderClock(m, q, eff) ==
  q = Enabled(m, Fetched(Slot(Uart8n1Tx), m.pc), Slot(Uart8n1Tx).csr, eff)

SenderMoves(m, q, t) ==
  /\ SendsAt(q, AfterSender(m, t))
  /\ (t = 82 /\ m.tx # << >>) => q.tx = Tail(m.tx) /\ q.osr = Head(m.tx)
  /\ ~(t = 82 /\ m.tx # << >>) => q.tx = m.tx
  /\ (\E k \in 0 .. 7 : t = 9 + 8 * k) =>
       q.osr = {j \in Bits : j + 1 \in m.osr} /\ (0 \in q.out_reg <=> 0 \in m.osr)
  /\ (t \in 2 .. 72 /\ ~\E k \in 0 .. 7 : t = 9 + 8 * k) =>
       q.osr = m.osr /\ (0 \in q.out_reg <=> 0 \in m.out_reg)
  /\ t \in 0 .. 1 => q.osr = m.osr

\* Every clock of A's machine at every clock of its frame.
LEMMA SenderSteps ==
  ASSUME NEW m \in Machine, NEW eff, NEW t \in 0 .. 84, SendsAt(m, t),
         NEW q, SenderClock(m, q, eff)
  PROVE  SenderMoves(m, q, t)
<1> DEFINE p == Slot(Uart8n1Tx)
<1> USE DEF SenderMoves
<1> DEFINE c == p.csr
<1>1. ~c.side_count /\ c.wrap_bot = 2 /\ c.wrap_top = 8
  BY TxSlot
<1>2. /\ Fetched(p, 0) = Plain([op |-> "SET", dst |-> "PINS", imm |-> {0}], 0)
      /\ Fetched(p, 1) = Plain([op |-> "SET", dst |-> "PINDIRS", imm |-> {0}], 0)
      /\ Fetched(p, 2) = Plain([op |-> "PULL"], 0)
      /\ Fetched(p, 3) = Plain([op |-> "SET", dst |-> "X", imm |-> {0, 1, 2}], 0)
      /\ Fetched(p, 4) = Plain([op |-> "SET", dst |-> "PINS", imm |-> {}], 7)
      /\ Fetched(p, 5) = Plain([op |-> "OUT", lsb |-> TRUE], 6)
      /\ Fetched(p, 6) = Plain([op |-> "JMP", cond |-> "X_DEC", target |-> 5], 0)
      /\ Fetched(p, 7) = Plain([op |-> "SET", dst |-> "PINS", imm |-> {0}], 7)
      /\ Fetched(p, 8) = Plain([op |-> "NOP"], 0)
  BY TxSlot
<1> HIDE DEF c
<1>3. /\ m.pc \in 0 .. 31 /\ m.delay_ctr \in 0 .. 31 /\ 0 \in ImmBits
      /\ Words = 32 /\ HalfDelay = 16
  BY LinkConstants DEF Machine
<1>4. q = Enabled(m, Fetched(p, m.pc), c, eff)
  BY DEF c, SenderClock
<1> HIDE DEF p
<1>5. /\ m.out_pin = 0 /\ (0 \in m.oe_reg <=> t <= 82)
      /\ (t \in 0 .. 1 \/ t \in 74 .. 82 \/ t = 84) => 0 \in m.out_reg
      /\ t \in 2 .. 9 => 0 \notin m.out_reg
  BY DEF SendsAt
<1>6. CASE t = 0
  <2>1. m.pc = 3 /\ m.delay_ctr = 0
    BY <1>6, <1>3 DEF SendsAt, SenderAt
  <2>2. q = Enabled(m, Plain([op |-> "SET", dst |-> "X", imm |-> {0, 1, 2}], 0), c, eff)
    BY <2>1, <1>2, <1>4
  <2>3. /\ q.pc = 4 /\ q.delay_ctr = 0 /\ q.x = {0, 1, 2} /\ q.osr = m.osr /\ q.tx = m.tx
        /\ q.out_reg = m.out_reg /\ q.oe_reg = m.oe_reg /\ PinsKept(m, q)
    BY <2>1, <2>2, <1>1, <1>3, SetsX DEF Below
  <2>4. SenderAt(q, 1)
    BY <1>6, <2>1, <2>3, CountsDown DEF SenderAt, SendsAt
  <2>5. SendsAt(q, 1)
    BY <1>6, <1>3, <1>5, <2>3, <2>4 DEF SendsAt, PinsKept
  <2>6. AfterSender(m, t) = 1
    BY <1>6 DEF AfterSender
  <2> QED BY <1>6, <2>3, <2>5, <2>6
<1>7. CASE t = 1
  <2>1. m.pc = 4 /\ m.delay_ctr = 0
    BY <1>7, <1>3 DEF SendsAt, SenderAt
  <2>2. q = Enabled(m, Plain([op |-> "SET", dst |-> "PINS", imm |-> {}], 7), c, eff)
    BY <2>1, <1>2, <1>4
  <2>3. /\ PinsKept(m, q) /\ q.pc = 5 /\ q.delay_ctr = 7 /\ q.x = m.x /\ q.osr = m.osr /\ q.tx = m.tx
        /\ q.oe_reg = m.oe_reg
        /\ \A j : j \in q.out_reg <=> j \in m.out_reg /\ j \notin ImmBits
    <3>1. \A j : j \in q.out_reg <=> j \in {} \/ (j \in m.out_reg /\ j \notin ImmBits)
      BY <2>1, <2>2, <1>1, <1>3, SetsPins
    <3>2. q.pc = Below(m, c)
      BY <2>1, <2>2, <1>1, <1>3, SetsPins, SMTT(30)
    <3>4. Below(m, c) = 5
      BY <2>1, <1>1, <1>3 DEF Below
    <3>3. /\ PinsKept(m, q) /\ q.delay_ctr = 7 /\ q.x = m.x /\ q.osr = m.osr /\ q.tx = m.tx
          /\ q.oe_reg = m.oe_reg
      BY <2>1, <2>2, <1>1, <1>3, SetsPins
    <3> QED BY <3>1, <3>2, <3>3, <3>4
  <2>4. SenderAt(q, 2)
    <3>1. m.x = Num[8 - 0]
      BY <1>7, <1>3 DEF SenderAt, SendsAt
    <3>2. q.pc = 5 /\ q.x = Num[8 - 0] /\ 2 = 9 + 8 * 0 - q.delay_ctr /\ q.delay_ctr <= 7
      BY <2>3, <3>1
    <3> QED BY <3>2 DEF SenderAt
  <2>5. SendsAt(q, 2)
    BY <1>7, <1>3, <1>5, <2>3, <2>4 DEF SendsAt, PinsKept
  <2>6. AfterSender(m, t) = 2
    BY <1>7 DEF AfterSender
  <2> QED BY <1>7, <2>3, <2>5, <2>6
<1>8. CASE m.delay_ctr # 0
  <2>1. q = [m EXCEPT !.delay_ctr = m.delay_ctr - 1]
    BY <1>1, <1>4, <1>8, Lingers
  <2>2. /\ q.pc = m.pc /\ q.delay_ctr = m.delay_ctr - 1 /\ q.x = m.x /\ q.osr = m.osr
        /\ q.tx = m.tx /\ q.out_reg = m.out_reg /\ q.oe_reg = m.oe_reg /\ q.out_pin = m.out_pin
    BY <2>1 DEF Machine
  <2>4. CASE \E k \in 0 .. 7 :
               /\ m.pc = 5 /\ m.x = Num[8 - k] /\ t = 9 + 8 * k - m.delay_ctr
               /\ m.delay_ctr <= 7 /\ (k > 0 => m.delay_ctr = 0)
    <3>1. m.pc = 5 /\ m.x = Num[8 - 0] /\ t = 9 + 8 * 0 - m.delay_ctr /\ m.delay_ctr <= 7
      <4>1. PICK k \in 0 .. 7 :
              /\ m.pc = 5 /\ m.x = Num[8 - k] /\ t = 9 + 8 * k - m.delay_ctr
              /\ m.delay_ctr <= 7 /\ (k > 0 => m.delay_ctr = 0)
        BY <2>4
      <4>2. k = 0
        BY <4>1, <1>8
      <4> QED BY <4>1, <4>2
    <3>7. t \in 2 .. 8
      BY <1>3, <1>8, <3>1
    <3>2. t \in 2 .. 8 /\ AfterSender(m, t) = t + 1
      BY <3>7 DEF AfterSender
    <3>3. q.pc = 5 /\ q.x = Num[8 - 0] /\ t + 1 = 9 + 8 * 0 - q.delay_ctr /\ q.delay_ctr <= 7
      BY <1>3, <1>8, <2>2, <3>1
    <3>4. SenderAt(q, t + 1)
      BY <3>3 DEF SenderAt
    <3>5. SendsAt(q, t + 1)
      BY <1>5, <2>2, <3>2, <3>4 DEF SendsAt
    <3>6. ~\E k \in 0 .. 7 : t = 9 + 8 * k
      BY <3>2
    <3> QED BY <2>2, <3>2, <3>5, <3>6
  <2>5. CASE \E k \in 0 .. 7 :
               m.pc = 6 /\ m.x = Num[8 - k] /\ t = 16 + 8 * k - m.delay_ctr /\ m.delay_ctr <= 6
    <3>1. PICK k \in 0 .. 7 :
            m.pc = 6 /\ m.x = Num[8 - k] /\ t = 16 + 8 * k - m.delay_ctr /\ m.delay_ctr <= 6
      BY <2>5
    <3>2. q.pc = 6 /\ q.x = Num[8 - k] /\ t + 1 = 16 + 8 * k - q.delay_ctr /\ q.delay_ctr <= 6
      BY <1>3, <1>8, <2>2, <3>1
    <3>3. SenderAt(q, t + 1)
      BY <3>2 DEF SenderAt
    <3>7. t \in 10 .. 71
      BY <1>3, <1>8, <3>1
    <3>4. t \in 10 .. 71 /\ ~\E j \in 0 .. 7 : t = 9 + 8 * j
      BY <1>3, <1>8, <3>1
    <3>8. t # 82 /\ t # 83 /\ t # 84
      BY <3>7
    <3>5. AfterSender(m, t) = t + 1
      BY <3>8 DEF AfterSender
    <3>6. SendsAt(q, t + 1)
      <4>1. /\ q.out_pin = 0 /\ 0 \in q.oe_reg /\ t + 1 \in 11 .. 72
        BY <1>5, <2>2, <3>7
      <4> QED BY <3>3, <4>1 DEF SendsAt
    <3> QED BY <2>2, <3>4, <3>5, <3>6
  <2>6. CASE t = 81 - m.delay_ctr /\ m.pc = 8 /\ m.delay_ctr <= 7
    <3>1. t \in 74 .. 80 /\ q.pc = 8 /\ q.delay_ctr <= 7 /\ t + 1 = 81 - q.delay_ctr
      BY <1>3, <1>8, <2>2, <2>6
    <3>2. SenderAt(q, t + 1)
      BY <3>1 DEF SenderAt
    <3>3. AfterSender(m, t) = t + 1
      BY <3>1 DEF AfterSender
    <3>4. SendsAt(q, t + 1)
      BY <1>5, <2>2, <3>1, <3>2 DEF SendsAt
    <3>5. ~\E k \in 0 .. 7 : t = 9 + 8 * k
      BY <3>1
    <3> QED BY <2>2, <3>1, <3>3, <3>4, <3>5
  <2> QED BY <1>8, <2>4, <2>5, <2>6 DEF SendsAt, SenderAt
<1>9. CASE m.delay_ctr = 0 /\ m.pc = 5
  <2>1. PICK k \in 0 .. 7 : m.x = Num[8 - k] /\ t = 9 + 8 * k
    BY <1>9, <1>3 DEF SendsAt, SenderAt
  <2>2. AfterSender(m, t) = t + 1
    BY <2>1 DEF AfterSender
  <2>3. q = Enabled(m, Plain([op |-> "OUT", lsb |-> TRUE], 6), c, eff)
    BY <1>2, <1>4, <1>9
  <2>4. /\ q.pc = 6 /\ q.delay_ctr = 6 /\ q.x = m.x /\ q.osr = {j \in Bits : j + 1 \in m.osr} /\ q.tx = m.tx
        /\ m.out_pin \in q.out_reg <=> 0 \in m.osr
        /\ q.oe_reg = m.oe_reg \cup {m.out_pin} /\ PinsKept(m, q)
    BY <1>9, <1>1, <1>3, <2>3, ShiftsOut DEF Below
  <2>5. q.pc = 6 /\ q.x = Num[8 - k] /\ t + 1 = 16 + 8 * k - q.delay_ctr /\ q.delay_ctr <= 6
    BY <2>1, <2>4
  <2>6. SenderAt(q, t + 1)
    BY <2>5 DEF SenderAt
  <2>7. 0 \in q.out_reg <=> 0 \in m.osr
    BY <1>5, <2>4
  <2>8. t + 1 \in 10 .. 66
    BY <2>1
  <2>9. SendsAt(q, t + 1)
    BY <1>5, <2>4, <2>6, <2>8 DEF SendsAt, PinsKept
  <2> QED BY <2>1, <2>2, <2>4, <2>7, <2>8, <2>9
<1>10. CASE m.delay_ctr = 0 /\ m.pc = 6
  <2>1. PICK k \in 0 .. 7 : m.x = Num[8 - k] /\ t = 16 + 8 * k
    BY <1>10, <1>3 DEF SendsAt, SenderAt
  <2>2. AfterSender(m, t) = t + 1
    BY <2>1 DEF AfterSender
  <2>3. q = Enabled(m, Plain([op |-> "JMP", cond |-> "X_DEC", target |-> 5], 0), c, eff)
    BY <1>2, <1>4, <1>10
  <2>4. /\ q.pc = (IF m.x # {} THEN 5 ELSE 7) /\ q.delay_ctr = 0
        /\ q.x = (IF m.x # {} THEN Dec(m.x) ELSE m.x)
        /\ q.osr = m.osr /\ q.tx = m.tx /\ q.out_reg = m.out_reg /\ q.oe_reg = m.oe_reg
        /\ PinsKept(m, q)
    BY <1>10, <1>1, <1>3, <2>3, JumpsTo DEF Below, Leaves
  <2>5. SenderAt(q, t + 1)
    <3>1. CASE k < 7
      <4>1. k + 1 \in 0 .. 7 /\ 8 - k \in 2 .. 8 /\ 8 - k - 1 = 8 - (k + 1)
        BY <3>1
      <4>2. m.x # {} /\ Dec(m.x) = Num[8 - (k + 1)]
        BY <4>1, <2>1, CountsDown
      <4>3. /\ q.pc = 5 /\ q.x = Num[8 - (k + 1)] /\ q.delay_ctr = 0
            /\ t + 1 = 9 + 8 * (k + 1) - q.delay_ctr
        BY <4>2, <2>1, <2>4
      <4>4. \E j \in 0 .. 7 :
              /\ q.pc = 5 /\ q.x = Num[8 - j] /\ t + 1 = 9 + 8 * j - q.delay_ctr
              /\ q.delay_ctr <= 7 /\ (j > 0 => q.delay_ctr = 0)
        BY <4>1, <4>3
      <4> QED BY <4>4 DEF SenderAt
    <3>2. CASE k = 7
      <4>1. m.x = {} /\ t + 1 = 73
        BY <3>2, <2>1, CountsDown
      <4> QED BY <4>1, <2>4 DEF SenderAt
    <3> QED BY <3>1, <3>2
  <2>6. t \in 16 .. 72 /\ ~\E j \in 0 .. 7 : t = 9 + 8 * j
    BY <2>1
  <2>7. SendsAt(q, t + 1)
    BY <1>5, <2>4, <2>5, <2>6 DEF SendsAt, PinsKept
  <2>8. q.osr = m.osr /\ q.tx = m.tx /\ q.out_reg = m.out_reg
    BY <2>4
  <2>9. t # 82 /\ ~(t \in 0 .. 1)
    BY <2>6
  <2> QED BY <2>2, <2>6, <2>7, <2>8, <2>9
<1>11. CASE t = 73
  <2>1. m.pc = 7 /\ m.delay_ctr = 0
    BY <1>11, <1>3 DEF SendsAt, SenderAt
  <2>2. q = Enabled(m, Plain([op |-> "SET", dst |-> "PINS", imm |-> {0}], 7), c, eff)
    BY <2>1, <1>2, <1>4
  <2>3. /\ PinsKept(m, q) /\ q.pc = 8 /\ q.delay_ctr = 7 /\ q.tx = m.tx
        /\ q.oe_reg = m.oe_reg
        /\ \A j : j \in q.out_reg <=> j \in {0} \/ (j \in m.out_reg /\ j \notin ImmBits)
    <3>1. /\ q.pc = Below(m, c) /\ q.delay_ctr = 7 /\ PinsKept(m, q) /\ q.tx = m.tx
          /\ q.oe_reg = m.oe_reg
          /\ \A j : j \in q.out_reg <=> j \in {0} \/ (j \in m.out_reg /\ j \notin ImmBits)
      BY <2>1, <2>2, <1>1, <1>3, SetsPins
    <3>2. Below(m, c) = 8
      BY <2>1, <1>1, <1>3 DEF Below
    <3> QED BY <3>1, <3>2
  <2>4. SenderAt(q, 74)
    BY <1>11, <2>1, <2>3, CountsDown DEF SenderAt, SendsAt
  <2>5. SendsAt(q, 74)
    BY <1>11, <1>3, <1>5, <2>3, <2>4 DEF SendsAt, PinsKept
  <2>6. AfterSender(m, t) = 74
    BY <1>11 DEF AfterSender
  <2> QED BY <1>11, <2>3, <2>5, <2>6
<1>12. CASE m.delay_ctr = 0 /\ m.pc = 8
  <2>1. t = 81
    BY <1>12, <1>3 DEF SendsAt, SenderAt
  <2>2. q = Enabled(m, Plain([op |-> "NOP"], 0), c, eff)
    BY <1>2, <1>4, <1>12
  <2>3. /\ q.pc = 2 /\ q.delay_ctr = 0 /\ q.tx = m.tx
        /\ q.out_reg = m.out_reg /\ q.oe_reg = m.oe_reg /\ PinsKept(m, q)
    BY <2>2, <1>12, <1>1, Waits DEF Below
  <2>4. SenderAt(q, 82)
    BY <2>3 DEF SenderAt
  <2>5. SendsAt(q, 82)
    BY <1>5, <2>1, <2>3, <2>4 DEF SendsAt, PinsKept
  <2>6. AfterSender(m, t) = 82
    BY <2>1 DEF AfterSender
  <2> QED BY <2>1, <2>3, <2>5, <2>6
<1>13. CASE t = 82
  <2>1. m.pc = 2 /\ m.delay_ctr = 0
    BY <1>13, <1>3 DEF SendsAt, SenderAt
  <2>2. q = Enabled(m, Plain([op |-> "PULL"], 0), c, eff)
    BY <2>1, <1>2, <1>4
  <2>3. /\ q.pc = (IF m.tx = << >> THEN 2 ELSE 3) /\ q.delay_ctr = 0 /\ PinsKept(m, q)
        /\ m.tx = << >> => q.tx = m.tx
        /\ m.tx # << >> => q.osr = Head(m.tx) /\ q.tx = Tail(m.tx)
        /\ q.out_reg = m.out_reg /\ q.oe_reg = m.oe_reg
    BY <2>1, <2>2, <1>1, <1>3, PullsAByte DEF Below
  <2>4. CASE m.tx = << >>
    <3>1. SenderAt(q, 82)
      BY <2>3, <2>4 DEF SenderAt
    <3>2. SendsAt(q, 82)
      BY <1>5, <1>13, <2>3, <3>1 DEF SendsAt, PinsKept
    <3>3. AfterSender(m, t) = 82
      BY <1>13, <2>4 DEF AfterSender
    <3> QED BY <1>13, <2>3, <2>4, <3>2, <3>3
  <2>5. CASE m.tx # << >>
    <3>1. SenderAt(q, 0)
      BY <2>3, <2>5 DEF SenderAt
    <3>2. SendsAt(q, 0)
      BY <1>5, <1>13, <2>3, <3>1 DEF SendsAt, PinsKept
    <3>3. AfterSender(m, t) = 0
      BY <1>13, <2>5 DEF AfterSender
    <3> QED BY <1>13, <2>3, <2>5, <3>2, <3>3
  <2> QED BY <2>4, <2>5
<1>14. CASE t = 83
  <2>1. m.pc = 0 /\ m.delay_ctr = 0
    BY <1>14, <1>3 DEF SendsAt, SenderAt
  <2>2. q = Enabled(m, Plain([op |-> "SET", dst |-> "PINS", imm |-> {0}], 0), c, eff)
    BY <2>1, <1>2, <1>4
  <2>3. /\ PinsKept(m, q) /\ q.pc = 1 /\ q.delay_ctr = 0 /\ q.tx = m.tx
        /\ q.oe_reg = m.oe_reg
        /\ \A j : j \in q.out_reg <=> j \in {0} \/ (j \in m.out_reg /\ j \notin ImmBits)
    BY <2>1, <2>2, <1>1, <1>3, SetsPins DEF Below
  <2>4. SenderAt(q, 84)
    BY <1>14, <2>1, <2>3, CountsDown DEF SenderAt, SendsAt
  <2>5. SendsAt(q, 84)
    BY <1>14, <1>3, <1>5, <2>3, <2>4 DEF SendsAt, PinsKept
  <2>6. AfterSender(m, t) = 84
    BY <1>14 DEF AfterSender
  <2> QED BY <1>14, <2>3, <2>5, <2>6
<1>15. CASE t = 84
  <2>1. m.pc = 1 /\ m.delay_ctr = 0
    BY <1>15, <1>3 DEF SendsAt, SenderAt
  <2>2. q = Enabled(m, Plain([op |-> "SET", dst |-> "PINDIRS", imm |-> {0}], 0), c, eff)
    BY <2>1, <1>2, <1>4
  <2>3. /\ PinsKept(m, q) /\ q.pc = 2 /\ q.delay_ctr = 0 /\ q.tx = m.tx
        /\ q.out_reg = m.out_reg
        /\ \A j : j \in q.oe_reg <=> j \in {0} \/ (j \in m.oe_reg /\ j \notin ImmBits)
    BY <2>1, <2>2, <1>1, <1>3, SetsPindirs DEF Below
  <2>4. SenderAt(q, 82)
    BY <1>15, <2>1, <2>3, CountsDown DEF SenderAt, SendsAt
  <2>5. SendsAt(q, 82)
    BY <1>15, <1>3, <1>5, <2>3, <2>4 DEF SendsAt, PinsKept
  <2>6. AfterSender(m, t) = 82
    BY <1>15 DEF AfterSender
  <2> QED BY <1>15, <2>3, <2>5, <2>6
<1>16. \/ t \in {0, 1, 73, 82, 83, 84}
       \/ m.delay_ctr # 0
       \/ m.delay_ctr = 0 /\ m.pc \in {5, 6, 8}
  BY <1>3 DEF SendsAt, SenderAt
<1> QED
  BY <1>6, <1>7, <1>8, <1>9, <1>10, <1>11, <1>12, <1>13, <1>14, <1>15, <1>16

\* k data bits have left by clock t.
Sent(t, k) == (k = 0 /\ t \in 0 .. 9) \/ (k \in 1 .. 8 /\ t \in 8 * k + 2 .. 8 * k + 9)

\* What is left of byte v, and the bit on the line.
Sends(m, t, v) ==
  \A k \in 0 .. 8 : Sent(t, k) =>
    /\ m.osr = {j \in Bits : j + k \in v}
    /\ k >= 1 => (0 \in m.out_reg <=> k - 1 \in v)

\* The line at clock t of a frame of v.
Level(t, v) == \A k \in 0 .. 8 : t \in 8 * k + 2 .. 8 * k + 9 => k >= 1 /\ k - 1 \in v

\* What A sends in a frame is what it began to send.
LEMMA FrameGoesOn ==
  ASSUME NEW m \in Machine, NEW eff, NEW t \in 0 .. 81, SendsAt(m, t),
         NEW v \in Reg, Sends(m, t, v),
         NEW q, SenderClock(m, q, eff)
  PROVE  Sends(q, t + 1, v)
<1> SUFFICES ASSUME NEW k \in 0 .. 8, Sent(t + 1, k)
             PROVE  /\ q.osr = {j \in Bits : j + k \in v}
                    /\ k >= 1 => (0 \in q.out_reg <=> k - 1 \in v)
  BY DEF Sends
<1>1. /\ (\E j \in 0 .. 7 : t = 9 + 8 * j) =>
           q.osr = {j \in Bits : j + 1 \in m.osr} /\ (0 \in q.out_reg <=> 0 \in m.osr)
      /\ (t \in 2 .. 72 /\ ~\E j \in 0 .. 7 : t = 9 + 8 * j) =>
           q.osr = m.osr /\ (0 \in q.out_reg <=> 0 \in m.out_reg)
      /\ t \in 0 .. 1 => q.osr = m.osr
  <2>1. t \in 0 .. 84
    OBVIOUS
  <2>2. SenderMoves(m, q, t)
    BY <2>1, SenderSteps
  <2> QED BY <2>2 DEF SenderMoves
<1>2. Bits = 0 .. 7 /\ v \subseteq 0 .. 7
  BY LinkConstants DEF Reg
<1>3. CASE k >= 1 /\ t = 8 * k + 1
  <2>1. k - 1 \in 0 .. 7 /\ t = 9 + 8 * (k - 1) /\ Sent(t, k - 1)
    BY <1>3 DEF Sent
  <2>2. m.osr = {j \in Bits : j + (k - 1) \in v}
    BY <2>1 DEF Sends
  <2>3. q.osr = {j \in Bits : j + 1 \in m.osr} /\ (0 \in q.out_reg <=> 0 \in m.osr)
    BY <1>1, <2>1
  <2>4. 0 \in m.osr <=> k - 1 \in v
    BY <2>2, <1>2
  <2>5. ASSUME NEW j \in Bits PROVE j + 1 \in m.osr <=> j + k \in v
    <3>1. j + 1 \in m.osr <=> j + 1 \in Bits /\ j + 1 + (k - 1) \in v
      BY <2>2
    <3>2. j + 1 + (k - 1) = j + k
      BY <1>2
    <3>3. j + k \in v => j + 1 \in Bits
      BY <1>2, <1>3
    <3> QED BY <3>1, <3>2, <3>3
  <2>6. q.osr = {j \in Bits : j + k \in v}
    BY <2>3, <2>5
  <2> QED BY <2>3, <2>4, <2>6
<1>4. CASE ~(k >= 1 /\ t = 8 * k + 1)
  <2>1. Sent(t, k) /\ t \in 0 .. 72
    BY <1>4 DEF Sent
  <2>2. ~\E j \in 0 .. 7 : t = 9 + 8 * j
    <3> SUFFICES ASSUME NEW j \in 0 .. 7, t = 9 + 8 * j PROVE FALSE
      OBVIOUS
    <3> QED BY <1>4 DEF Sent
  <2>3. /\ m.osr = {j \in Bits : j + k \in v}
        /\ k >= 1 => (0 \in m.out_reg <=> k - 1 \in v)
    BY <2>1 DEF Sends
  <2>4. q.osr = m.osr
    BY <1>1, <2>1, <2>2
  <2>5. k >= 1 => t \in 2 .. 72
    BY <2>1 DEF Sent
  <2> QED BY <1>1, <2>2, <2>3, <2>4, <2>5
<1> QED BY <1>3, <1>4

\* A frame begins with the whole byte.
LEMMA FrameBegins ==
  ASSUME NEW m, NEW v \in Reg, m.osr = v
  PROVE  Sends(m, 0, v)
<1> SUFFICES ASSUME NEW k \in 0 .. 8, Sent(0, k)
             PROVE  /\ m.osr = {j \in Bits : j + k \in v}
                    /\ k >= 1 => (0 \in m.out_reg <=> k - 1 \in v)
  BY DEF Sends
<1>1. k = 0
  BY DEF Sent
<1>2. \A j \in Bits : j + k = j
  BY <1>1, LinkConstants
<1>3. \A j \in Bits : j \in v <=> j + k \in v
  BY <1>2
<1>4. v \subseteq Bits
  BY DEF Reg
<1>5. m.osr = {j \in Bits : j + k \in v}
  BY <1>3, <1>4
<1> QED BY <1>1, <1>5

\* A drives the line to the level of the bit.
LEMMA LineLevel ==
  ASSUME NEW m, NEW t \in 0 .. 82, SendsAt(m, t), NEW v, Sends(m, t, v)
  PROVE  0 \in m.oe_reg /\ (0 \in m.out_reg <=> Level(t, v))
<1>1. 0 \in m.oe_reg
  BY DEF SendsAt
<1>2. CASE t \in 0 .. 1 \/ t \in 74 .. 82
  <2>1. 0 \in m.out_reg
    BY <1>2 DEF SendsAt
  <2>2. Level(t, v)
    BY <1>2 DEF Level
  <2> QED BY <1>1, <2>1, <2>2
<1>3. CASE t \in 2 .. 9
  <2>1. 0 \notin m.out_reg
    BY <1>3 DEF SendsAt
  <2>2. ~Level(t, v)
    <3>1. 0 \in 0 .. 8 /\ t \in 8 * 0 + 2 .. 8 * 0 + 9 /\ ~(0 >= 1)
      BY <1>3
    <3> QED BY <3>1 DEF Level
  <2> QED BY <1>1, <2>1, <2>2
<1>4. CASE t \in 10 .. 73
  <2>1. PICK k \in 1 .. 8 : t \in 8 * k + 2 .. 8 * k + 9
    <3> DEFINE kk == (t - 2) \div 8
    <3>1. kk \in 1 .. 8 /\ t \in 8 * kk + 2 .. 8 * kk + 9
      BY <1>4
    <3> QED BY <3>1
  <2>2. 0 \in m.out_reg <=> k - 1 \in v
    BY <2>1 DEF Sends, Sent
  <2>3. Level(t, v) <=> k - 1 \in v
    <3>1. \A j \in 0 .. 8 : t \in 8 * j + 2 .. 8 * j + 9 => j = k
      BY <2>1
    <3> QED BY <2>1, <3>1 DEF Level
  <2> QED BY <1>1, <2>2, <2>3
<1> QED BY <1>2, <1>3, <1>4

\* Facts of Level alone.
LEMMA Levels ==
  ASSUME NEW v
  PROVE  /\ \A t \in 0 .. 1 : Level(t, v)
         /\ \A t \in 2 .. 9 : ~Level(t, v)
         /\ \A t \in 74 .. 90 : Level(t, v)
         /\ \A k \in 0 .. 7 : \A t \in 10 + 8 * k .. 17 + 8 * k : Level(t, v) <=> k \in v
<1>1. \A t \in 0 .. 1 : Level(t, v)
  BY DEF Level
<1>2. ASSUME NEW t \in 2 .. 9 PROVE ~Level(t, v)
  <2>1. 0 \in 0 .. 8 /\ t \in 8 * 0 + 2 .. 8 * 0 + 9 /\ ~(0 >= 1)
    OBVIOUS
  <2> QED BY <2>1 DEF Level
<1>3. \A t \in 74 .. 90 : Level(t, v)
  BY DEF Level
<1>4. ASSUME NEW k \in 0 .. 7, NEW t \in 10 + 8 * k .. 17 + 8 * k PROVE Level(t, v) <=> k \in v
  <2>1. k + 1 \in 0 .. 8 /\ t \in 8 * (k + 1) + 2 .. 8 * (k + 1) + 9 /\ k + 1 >= 1 /\ (k + 1) - 1 = k
    OBVIOUS
  <2>2. \A j \in 0 .. 8 : t \in 8 * j + 2 .. 8 * j + 9 => j = k + 1
    BY <2>1
  <2> QED BY <2>1, <2>2 DEF Level
<1> QED BY <1>1, <1>2, <1>3, <1>4

\* Where B is at clock u of its frame, looking for a start bit at 0; with the
\* flag raised from 80 on, before it has begun at 83.
ReceiverAt(m, u) ==
  \/ u = 0 /\ m.pc = 1 /\ m.delay_ctr = 0
  \/ u = 1 /\ m.pc = 2 /\ m.delay_ctr = 0
  \/ u = 5 - m.delay_ctr /\ m.pc = 3 /\ m.delay_ctr <= 3
  \/ u = 6 /\ m.pc = 4 /\ m.delay_ctr = 0
  \/ u = 11 - m.delay_ctr /\ m.pc = 5 /\ m.delay_ctr <= 4
  \/ \E k \in 0 .. 7 :
       m.pc = 6 /\ m.x = Num[8 - k] /\ u = 12 + 8 * k /\ m.delay_ctr = 0
  \/ \E k \in 0 .. 7 :
       m.pc = 7 /\ m.x = Num[8 - k] /\ u = 19 + 8 * k - m.delay_ctr /\ m.delay_ctr <= 6
  \/ u = 76 /\ m.pc = 8 /\ m.delay_ctr = 0
  \/ u = 77 /\ m.pc = 12 /\ m.delay_ctr = 0
  \/ u = 78 /\ m.pc = 13 /\ m.delay_ctr = 0
  \/ u = 79 /\ m.pc = 14 /\ m.delay_ctr = 0
  \/ u = 80 /\ m.pc = 9 /\ m.delay_ctr = 0
  \/ u = 81 /\ m.pc = 10 /\ m.delay_ctr = 0
  \/ u = 82 /\ m.pc = 11 /\ m.delay_ctr = 0
  \/ u = 83 /\ m.pc = 0 /\ m.delay_ctr = 0

HearsAt(m, u) == ReceiverAt(m, u) /\ m.in_pin = 0 /\ 0 \notin m.oe_reg

AfterReceiver(m, u, eff) ==
  IF u = 0 THEN (IF 0 \in eff THEN 0 ELSE 1) ELSE
  IF u = 5 THEN (IF 0 \in eff THEN 0 ELSE 6) ELSE
  IF u = 76 THEN (IF 0 \in eff THEN 77 ELSE 80) ELSE
  IF u = 77 THEN (IF Len(m.rx) = Depth THEN 77 ELSE 78) ELSE
  IF u = 81 THEN (IF 0 \in eff THEN 82 ELSE 81) ELSE
  IF u \in {79, 82, 83} THEN 0 ELSE u + 1

\* A clock of B's machine, and what it does to a frame.
ReceiverClock(m, q, eff) ==
  q = Enabled(m, Fetched(Slot(Uart8n1Rx), m.pc), Slot(Uart8n1Rx).csr, eff)

ReceiverMoves(m, q, u, eff) ==
  /\ HearsAt(q, AfterReceiver(m, u, eff))
  /\ q.rx = (IF u = 77 /\ Len(m.rx) # Depth THEN Append(m.rx, m.isr) ELSE m.rx)
  /\ u # 80 => (1 \in q.out_reg => 1 \in m.out_reg)
  /\ (\E k \in 0 .. 7 : u = 12 + 8 * k) =>
       \A j : j \in q.isr <=> (j \in Bits /\ j + 1 \in m.isr) \/ (j = 7 /\ 0 \in eff)
  /\ (~\E k \in 0 .. 7 : u = 12 + 8 * k) => q.isr = m.isr

\* Every clock of B's machine at every clock of its frame.
LEMMA ReceiverSteps ==
  ASSUME NEW m \in Machine, NEW eff, NEW u \in 0 .. 83, HearsAt(m, u),
         NEW q, ReceiverClock(m, q, eff)
  PROVE  ReceiverMoves(m, q, u, eff)
<1> DEFINE p == Slot(Uart8n1Rx)
           c == p.csr
<1>1. ~c.side_count /\ c.wrap_bot = 1 /\ c.wrap_top = 14
  BY RxSlot
<1>2. /\ Fetched(p, 0) = Plain([op |-> "SET", dst |-> "PINDIRS", imm |-> {1}], 0)
      /\ Fetched(p, 1) = Plain([op |-> "WAIT", pin |-> 0, pol |-> FALSE], 0)
      /\ Fetched(p, 2) = Plain([op |-> "NOP"], 3)
      /\ Fetched(p, 3) = Plain([op |-> "JMP", cond |-> "PIN", target |-> 1], 0)
      /\ Fetched(p, 4) = Plain([op |-> "NOP"], 4)
      /\ Fetched(p, 5) = Plain([op |-> "SET", dst |-> "X", imm |-> {0, 1, 2}], 0)
      /\ Fetched(p, 6) = Plain([op |-> "IN", lsb |-> TRUE], 6)
      /\ Fetched(p, 7) = Plain([op |-> "JMP", cond |-> "X_DEC", target |-> 6], 0)
      /\ Fetched(p, 8) = Plain([op |-> "JMP", cond |-> "PIN", target |-> 12], 0)
      /\ Fetched(p, 9) = Plain([op |-> "SETPIN", dst |-> "BIT", pin |-> 1], 0)
      /\ Fetched(p, 10) = Plain([op |-> "WAIT", pin |-> 0, pol |-> TRUE], 0)
      /\ Fetched(p, 11) = Plain([op |-> "JMP", cond |-> "ALWAYS", target |-> 1], 0)
      /\ Fetched(p, 12) = Plain([op |-> "PUSH"], 0)
      /\ Fetched(p, 13) = Plain([op |-> "SETPIN", dst |-> "CLR", pin |-> 1], 0)
      /\ Fetched(p, 14) = Plain([op |-> "NOP"], 0)
  BY RxSlot
<1>4. q = Enabled(m, Fetched(p, m.pc), c, eff)
  BY DEF ReceiverClock
<1> HIDE DEF c, p
<1>3. /\ m.pc \in 0 .. 31 /\ m.delay_ctr \in 0 .. 31 /\ 0 \in ImmBits
      /\ W = 8 /\ Words = 32 /\ HalfDelay = 16
  BY LinkConstants DEF Machine
<1>5. m.in_pin = 0 /\ 0 \notin m.oe_reg /\ ReceiverAt(m, u)
  BY DEF HearsAt
<1>6. CASE u = 0
  <2>1. m.pc = 1 /\ m.delay_ctr = 0
    BY <1>6, <1>3, <1>5 DEF ReceiverAt
  <2>2. q = Enabled(m, Plain([op |-> "WAIT", pin |-> 0, pol |-> FALSE], 0), c, eff)
    BY <2>1, <1>2, <1>4
  <2>3. /\ PinsKept(m, q) /\ q.pc = (IF 0 \in eff THEN m.pc ELSE Below(m, c)) /\ q.delay_ctr = 0
        /\ q.isr = m.isr /\ q.rx = m.rx
        /\ q.out_reg = m.out_reg
        /\ q.oe_reg = m.oe_reg
    BY <2>1, <2>2, <1>1, <1>3, WaitsLow
  <2>4. ~\E k \in 0 .. 7 : u = 12 + 8 * k
    BY <1>6
  <2>5. Below(m, c) = 2
    BY <2>1, <1>1, <1>3 DEF Below
  <2>6. CASE 0 \in eff
    <3>1. ReceiverAt(q, 0)
      BY <1>5, <2>1, <2>3, <2>5, <2>6, CountsDown DEF ReceiverAt
    <3>2. AfterReceiver(m, u, eff) = 0
      BY <1>6, <2>6 DEF AfterReceiver
    <3>3. q.in_pin = 0 /\ 0 \notin q.oe_reg
      BY <1>3, <1>5, <2>3 DEF PinsKept
    <3> QED BY <1>6, <2>3, <2>4, <3>1, <3>2, <3>3, <2>6 DEF HearsAt, ReceiverMoves
  <2>7. CASE 0 \notin eff
    <3>1. ReceiverAt(q, 1)
      BY <1>5, <2>1, <2>3, <2>5, <2>7, CountsDown DEF ReceiverAt
    <3>2. AfterReceiver(m, u, eff) = 1
      BY <1>6, <2>7 DEF AfterReceiver
    <3>3. q.in_pin = 0 /\ 0 \notin q.oe_reg
      BY <1>3, <1>5, <2>3 DEF PinsKept
    <3> QED BY <1>6, <2>3, <2>4, <3>1, <3>2, <3>3, <2>7 DEF HearsAt, ReceiverMoves
  <2> QED BY <2>6, <2>7
<1>7. CASE u = 1
  <2>1. m.pc = 2 /\ m.delay_ctr = 0
    BY <1>7, <1>3, <1>5 DEF ReceiverAt
  <2>2. q = Enabled(m, Plain([op |-> "NOP"], 3), c, eff)
    BY <2>1, <1>2, <1>4
  <2>3. /\ PinsKept(m, q) /\ q.pc = Below(m, c) /\ q.delay_ctr = 3
        /\ q.isr = m.isr /\ q.rx = m.rx
        /\ q.out_reg = m.out_reg
        /\ q.oe_reg = m.oe_reg
    BY <2>1, <2>2, <1>1, <1>3, Waits
  <2>4. ~\E k \in 0 .. 7 : u = 12 + 8 * k
    BY <1>7
  <2>5. Below(m, c) = 3
    BY <2>1, <1>1, <1>3 DEF Below
  <2>6. HearsAt(q, AfterReceiver(m, u, eff))
    <3>1. ReceiverAt(q, 2)
      BY <1>5, <2>1, <2>3, <2>5, CountsDown DEF ReceiverAt
    <3>2. AfterReceiver(m, u, eff) = 2
      BY <1>7 DEF AfterReceiver
    <3>3. q.in_pin = 0 /\ 0 \notin q.oe_reg
      BY <1>3, <1>5, <2>3 DEF PinsKept
    <3> QED BY <1>7, <2>3, <2>4, <3>1, <3>2, <3>3 DEF HearsAt
  <2> QED BY <1>7, <2>3, <2>4, <2>6 DEF ReceiverMoves
<1>8. CASE u = 5
  <2>1. m.pc = 3 /\ m.delay_ctr = 0
    BY <1>8, <1>3, <1>5 DEF ReceiverAt
  <2>2. q = Enabled(m, Plain([op |-> "JMP", cond |-> "PIN", target |-> 1], 0), c, eff)
    BY <2>1, <1>2, <1>4
  <2>3. /\ PinsKept(m, q) /\ q.pc = (IF Leaves(m, "PIN", eff) THEN 1 ELSE Below(m, c)) /\ q.delay_ctr = 0
        /\ q.isr = m.isr /\ q.rx = m.rx
        /\ q.out_reg = m.out_reg
        /\ q.oe_reg = m.oe_reg
    BY <2>1, <2>2, <1>1, <1>3, JumpsTo
  <2>4. ~\E k \in 0 .. 7 : u = 12 + 8 * k
    BY <1>8
  <2>5. Below(m, c) = 4
    BY <2>1, <1>1, <1>3 DEF Below
  <2>6. CASE 0 \in eff
    <3>1. ReceiverAt(q, 0)
      BY <1>5, <2>1, <2>3, <2>5, <2>6, CountsDown DEF ReceiverAt, Leaves
    <3>2. AfterReceiver(m, u, eff) = 0
      BY <1>8, <2>6 DEF AfterReceiver
    <3>3. q.in_pin = 0 /\ 0 \notin q.oe_reg
      BY <1>3, <1>5, <2>3 DEF PinsKept
    <3> QED BY <1>8, <2>3, <2>4, <3>1, <3>2, <3>3, <2>6 DEF HearsAt, ReceiverMoves
  <2>7. CASE 0 \notin eff
    <3>1. ReceiverAt(q, 6)
      BY <1>5, <2>1, <2>3, <2>5, <2>7, CountsDown DEF ReceiverAt, Leaves
    <3>2. AfterReceiver(m, u, eff) = 6
      BY <1>8, <2>7 DEF AfterReceiver
    <3>3. q.in_pin = 0 /\ 0 \notin q.oe_reg
      BY <1>3, <1>5, <2>3 DEF PinsKept
    <3> QED BY <1>8, <2>3, <2>4, <3>1, <3>2, <3>3, <2>7 DEF HearsAt, ReceiverMoves
  <2> QED BY <2>6, <2>7
<1>9. CASE u = 6
  <2>1. m.pc = 4 /\ m.delay_ctr = 0
    BY <1>9, <1>3, <1>5 DEF ReceiverAt
  <2>2. q = Enabled(m, Plain([op |-> "NOP"], 4), c, eff)
    BY <2>1, <1>2, <1>4
  <2>3. /\ PinsKept(m, q) /\ q.pc = Below(m, c) /\ q.delay_ctr = 4
        /\ q.isr = m.isr /\ q.rx = m.rx
        /\ q.out_reg = m.out_reg
        /\ q.oe_reg = m.oe_reg
    BY <2>1, <2>2, <1>1, <1>3, Waits
  <2>4. ~\E k \in 0 .. 7 : u = 12 + 8 * k
    BY <1>9
  <2>5. Below(m, c) = 5
    BY <2>1, <1>1, <1>3 DEF Below
  <2>6. HearsAt(q, AfterReceiver(m, u, eff))
    <3>1. ReceiverAt(q, 7)
      BY <1>5, <2>1, <2>3, <2>5, CountsDown DEF ReceiverAt
    <3>2. AfterReceiver(m, u, eff) = 7
      BY <1>9 DEF AfterReceiver
    <3>3. q.in_pin = 0 /\ 0 \notin q.oe_reg
      BY <1>3, <1>5, <2>3 DEF PinsKept
    <3> QED BY <1>9, <2>3, <2>4, <3>1, <3>2, <3>3 DEF HearsAt
  <2> QED BY <1>9, <2>3, <2>4, <2>6 DEF ReceiverMoves
<1>10. CASE u = 11
  <2>1. m.pc = 5 /\ m.delay_ctr = 0
    BY <1>10, <1>3, <1>5 DEF ReceiverAt
  <2>2. q = Enabled(m, Plain([op |-> "SET", dst |-> "X", imm |-> {0, 1, 2}], 0), c, eff)
    BY <2>1, <1>2, <1>4
  <2>3. /\ PinsKept(m, q) /\ q.pc = Below(m, c) /\ q.delay_ctr = 0 /\ q.x = {0, 1, 2}
        /\ q.isr = m.isr /\ q.rx = m.rx
        /\ q.out_reg = m.out_reg
        /\ q.oe_reg = m.oe_reg
    BY <2>1, <2>2, <1>1, <1>3, SetsX
  <2>4. ~\E k \in 0 .. 7 : u = 12 + 8 * k
    BY <1>10
  <2>5. Below(m, c) = 6
    BY <2>1, <1>1, <1>3 DEF Below
  <2>6. HearsAt(q, AfterReceiver(m, u, eff))
    <3>1. ReceiverAt(q, 12)
      BY <1>5, <2>1, <2>3, <2>5, CountsDown DEF ReceiverAt
    <3>2. AfterReceiver(m, u, eff) = 12
      BY <1>10 DEF AfterReceiver
    <3>3. q.in_pin = 0 /\ 0 \notin q.oe_reg
      BY <1>3, <1>5, <2>3 DEF PinsKept
    <3> QED BY <1>10, <2>3, <2>4, <3>1, <3>2, <3>3 DEF HearsAt
  <2> QED BY <1>10, <2>3, <2>4, <2>6 DEF ReceiverMoves
<1>11. CASE u = 76
  <2>1. m.pc = 8 /\ m.delay_ctr = 0
    BY <1>11, <1>3, <1>5 DEF ReceiverAt
  <2>2. q = Enabled(m, Plain([op |-> "JMP", cond |-> "PIN", target |-> 12], 0), c, eff)
    BY <2>1, <1>2, <1>4
  <2>3. /\ PinsKept(m, q) /\ q.pc = (IF Leaves(m, "PIN", eff) THEN 12 ELSE Below(m, c)) /\ q.delay_ctr = 0
        /\ q.isr = m.isr /\ q.rx = m.rx
        /\ q.out_reg = m.out_reg
        /\ q.oe_reg = m.oe_reg
    BY <2>1, <2>2, <1>1, <1>3, JumpsTo
  <2>4. ~\E k \in 0 .. 7 : u = 12 + 8 * k
    BY <1>11
  <2>5. Below(m, c) = 9
    BY <2>1, <1>1, <1>3 DEF Below
  <2>6. CASE 0 \in eff
    <3>1. ReceiverAt(q, 77)
      BY <1>5, <2>1, <2>3, <2>5, <2>6, CountsDown DEF ReceiverAt, Leaves
    <3>2. AfterReceiver(m, u, eff) = 77
      BY <1>11, <2>6 DEF AfterReceiver
    <3>3. q.in_pin = 0 /\ 0 \notin q.oe_reg
      BY <1>3, <1>5, <2>3 DEF PinsKept
    <3> QED BY <1>11, <2>3, <2>4, <3>1, <3>2, <3>3, <2>6 DEF HearsAt, ReceiverMoves
  <2>7. CASE 0 \notin eff
    <3>1. ReceiverAt(q, 80)
      BY <1>5, <2>1, <2>3, <2>5, <2>7, CountsDown DEF ReceiverAt, Leaves
    <3>2. AfterReceiver(m, u, eff) = 80
      BY <1>11, <2>7 DEF AfterReceiver
    <3>3. q.in_pin = 0 /\ 0 \notin q.oe_reg
      BY <1>3, <1>5, <2>3 DEF PinsKept
    <3> QED BY <1>11, <2>3, <2>4, <3>1, <3>2, <3>3, <2>7 DEF HearsAt, ReceiverMoves
  <2> QED BY <2>6, <2>7
<1>12. CASE u = 77
  <2>1. m.pc = 12 /\ m.delay_ctr = 0
    BY <1>12, <1>3, <1>5 DEF ReceiverAt
  <2>2. q = Enabled(m, Plain([op |-> "PUSH"], 0), c, eff)
    BY <2>1, <1>2, <1>4
  <2>3. /\ PinsKept(m, q) /\ q.pc = (IF Len(m.rx) = Depth THEN m.pc ELSE Below(m, c)) /\ q.delay_ctr = 0
        /\ q.isr = m.isr /\ q.rx = (IF Len(m.rx) = Depth THEN m.rx ELSE Append(m.rx, m.isr))
        /\ q.out_reg = m.out_reg
        /\ q.oe_reg = m.oe_reg
    BY <2>1, <2>2, <1>1, <1>3, PushesAByte
  <2>4. ~\E k \in 0 .. 7 : u = 12 + 8 * k
    BY <1>12
  <2>5. Below(m, c) = 13
    BY <2>1, <1>1, <1>3 DEF Below
  <2>6. CASE Len(m.rx) = Depth
    <3>1. ReceiverAt(q, 77)
      BY <1>5, <2>1, <2>3, <2>5, <2>6, CountsDown DEF ReceiverAt
    <3>2. AfterReceiver(m, u, eff) = 77
      BY <1>12, <2>6 DEF AfterReceiver
    <3>3. q.in_pin = 0 /\ 0 \notin q.oe_reg
      BY <1>3, <1>5, <2>3 DEF PinsKept
    <3> QED BY <1>12, <2>3, <2>4, <3>1, <3>2, <3>3, <2>6 DEF HearsAt, ReceiverMoves
  <2>7. CASE Len(m.rx) # Depth
    <3>1. ReceiverAt(q, 78)
      BY <1>5, <2>1, <2>3, <2>5, <2>7, CountsDown DEF ReceiverAt
    <3>2. AfterReceiver(m, u, eff) = 78
      BY <1>12, <2>7 DEF AfterReceiver
    <3>3. q.in_pin = 0 /\ 0 \notin q.oe_reg
      BY <1>3, <1>5, <2>3 DEF PinsKept
    <3> QED BY <1>12, <2>3, <2>4, <3>1, <3>2, <3>3, <2>7 DEF HearsAt, ReceiverMoves
  <2> QED BY <2>6, <2>7
<1>13. CASE u = 78
  <2>1. m.pc = 13 /\ m.delay_ctr = 0
    BY <1>13, <1>3, <1>5 DEF ReceiverAt
  <2>2. q = Enabled(m, Plain([op |-> "SETPIN", dst |-> "CLR", pin |-> 1], 0), c, eff)
    BY <2>1, <1>2, <1>4
  <2>3. /\ PinsKept(m, q) /\ q.pc = Below(m, c) /\ q.delay_ctr = 0
        /\ q.isr = m.isr /\ q.rx = m.rx
        /\ q.out_reg = m.out_reg \ {1}
        /\ q.oe_reg = m.oe_reg
    BY <2>1, <2>2, <1>1, <1>3, ClearsBit
  <2>4. ~\E k \in 0 .. 7 : u = 12 + 8 * k
    BY <1>13
  <2>5. Below(m, c) = 14
    BY <2>1, <1>1, <1>3 DEF Below
  <2>6. HearsAt(q, AfterReceiver(m, u, eff))
    <3>1. ReceiverAt(q, 79)
      BY <1>5, <2>1, <2>3, <2>5, CountsDown DEF ReceiverAt
    <3>2. AfterReceiver(m, u, eff) = 79
      BY <1>13 DEF AfterReceiver
    <3>3. q.in_pin = 0 /\ 0 \notin q.oe_reg
      BY <1>3, <1>5, <2>3 DEF PinsKept
    <3> QED BY <1>13, <2>3, <2>4, <3>1, <3>2, <3>3 DEF HearsAt
  <2> QED BY <1>13, <2>3, <2>4, <2>6 DEF ReceiverMoves
<1>14. CASE u = 79
  <2>1. m.pc = 14 /\ m.delay_ctr = 0
    BY <1>14, <1>3, <1>5 DEF ReceiverAt
  <2>2. q = Enabled(m, Plain([op |-> "NOP"], 0), c, eff)
    BY <2>1, <1>2, <1>4
  <2>3. /\ PinsKept(m, q) /\ q.pc = Below(m, c) /\ q.delay_ctr = 0
        /\ q.isr = m.isr /\ q.rx = m.rx
        /\ q.out_reg = m.out_reg
        /\ q.oe_reg = m.oe_reg
    BY <2>1, <2>2, <1>1, <1>3, Waits
  <2>4. ~\E k \in 0 .. 7 : u = 12 + 8 * k
    BY <1>14
  <2>5. Below(m, c) = 1
    BY <2>1, <1>1, <1>3 DEF Below
  <2>6. HearsAt(q, AfterReceiver(m, u, eff))
    <3>1. ReceiverAt(q, 0)
      BY <1>5, <2>1, <2>3, <2>5, CountsDown DEF ReceiverAt
    <3>2. AfterReceiver(m, u, eff) = 0
      BY <1>14 DEF AfterReceiver
    <3>3. q.in_pin = 0 /\ 0 \notin q.oe_reg
      BY <1>3, <1>5, <2>3 DEF PinsKept
    <3> QED BY <1>14, <2>3, <2>4, <3>1, <3>2, <3>3 DEF HearsAt
  <2> QED BY <1>14, <2>3, <2>4, <2>6 DEF ReceiverMoves
<1>15. CASE u = 80
  <2>1. m.pc = 9 /\ m.delay_ctr = 0
    BY <1>15, <1>3, <1>5 DEF ReceiverAt
  <2>2. q = Enabled(m, Plain([op |-> "SETPIN", dst |-> "BIT", pin |-> 1], 0), c, eff)
    BY <2>1, <1>2, <1>4
  <2>3. /\ PinsKept(m, q) /\ q.pc = Below(m, c) /\ q.delay_ctr = 0
        /\ q.isr = m.isr /\ q.rx = m.rx
        /\ q.out_reg = m.out_reg \cup {1}
        /\ q.oe_reg = m.oe_reg \cup {1}
    BY <2>1, <2>2, <1>1, <1>3, SetsBit
  <2>4. ~\E k \in 0 .. 7 : u = 12 + 8 * k
    BY <1>15
  <2>5. Below(m, c) = 10
    BY <2>1, <1>1, <1>3 DEF Below
  <2>6. HearsAt(q, AfterReceiver(m, u, eff))
    <3>1. ReceiverAt(q, 81)
      BY <1>5, <2>1, <2>3, <2>5, CountsDown DEF ReceiverAt
    <3>2. AfterReceiver(m, u, eff) = 81
      BY <1>15 DEF AfterReceiver
    <3>3. q.in_pin = 0 /\ 0 \notin q.oe_reg
      BY <1>3, <1>5, <2>3 DEF PinsKept
    <3> QED BY <1>15, <2>3, <2>4, <3>1, <3>2, <3>3 DEF HearsAt
  <2> QED BY <1>15, <2>3, <2>4, <2>6 DEF ReceiverMoves
<1>16. CASE u = 81
  <2>1. m.pc = 10 /\ m.delay_ctr = 0
    BY <1>16, <1>3, <1>5 DEF ReceiverAt
  <2>2. q = Enabled(m, Plain([op |-> "WAIT", pin |-> 0, pol |-> TRUE], 0), c, eff)
    BY <2>1, <1>2, <1>4
  <2>3. /\ PinsKept(m, q) /\ q.pc = (IF 0 \notin eff THEN m.pc ELSE Below(m, c)) /\ q.delay_ctr = 0
        /\ q.isr = m.isr /\ q.rx = m.rx
        /\ q.out_reg = m.out_reg
        /\ q.oe_reg = m.oe_reg
    BY <2>1, <2>2, <1>1, <1>3, WaitsHigh
  <2>4. ~\E k \in 0 .. 7 : u = 12 + 8 * k
    BY <1>16
  <2>5. Below(m, c) = 11
    BY <2>1, <1>1, <1>3 DEF Below
  <2>6. CASE 0 \in eff
    <3>1. ReceiverAt(q, 82)
      BY <1>5, <2>1, <2>3, <2>5, <2>6, CountsDown DEF ReceiverAt
    <3>2. AfterReceiver(m, u, eff) = 82
      BY <1>16, <2>6 DEF AfterReceiver
    <3>3. q.in_pin = 0 /\ 0 \notin q.oe_reg
      BY <1>3, <1>5, <2>3 DEF PinsKept
    <3> QED BY <1>16, <2>3, <2>4, <3>1, <3>2, <3>3, <2>6 DEF HearsAt, ReceiverMoves
  <2>7. CASE 0 \notin eff
    <3>1. ReceiverAt(q, 81)
      BY <1>5, <2>1, <2>3, <2>5, <2>7, CountsDown DEF ReceiverAt
    <3>2. AfterReceiver(m, u, eff) = 81
      BY <1>16, <2>7 DEF AfterReceiver
    <3>3. q.in_pin = 0 /\ 0 \notin q.oe_reg
      BY <1>3, <1>5, <2>3 DEF PinsKept
    <3> QED BY <1>16, <2>3, <2>4, <3>1, <3>2, <3>3, <2>7 DEF HearsAt, ReceiverMoves
  <2> QED BY <2>6, <2>7
<1>17. CASE u = 82
  <2>1. m.pc = 11 /\ m.delay_ctr = 0
    BY <1>17, <1>3, <1>5 DEF ReceiverAt
  <2>2. q = Enabled(m, Plain([op |-> "JMP", cond |-> "ALWAYS", target |-> 1], 0), c, eff)
    BY <2>1, <1>2, <1>4
  <2>3. /\ PinsKept(m, q) /\ q.pc = (IF Leaves(m, "ALWAYS", eff) THEN 1 ELSE Below(m, c)) /\ q.delay_ctr = 0
        /\ q.isr = m.isr /\ q.rx = m.rx
        /\ q.out_reg = m.out_reg
        /\ q.oe_reg = m.oe_reg
    BY <2>1, <2>2, <1>1, <1>3, JumpsTo
  <2>4. ~\E k \in 0 .. 7 : u = 12 + 8 * k
    BY <1>17
  <2>5. Below(m, c) = 12
    BY <2>1, <1>1, <1>3 DEF Below
  <2>6. HearsAt(q, AfterReceiver(m, u, eff))
    <3>1. ReceiverAt(q, 0)
      BY <1>5, <2>1, <2>3, <2>5, CountsDown DEF ReceiverAt, Leaves
    <3>2. AfterReceiver(m, u, eff) = 0
      BY <1>17 DEF AfterReceiver
    <3>3. q.in_pin = 0 /\ 0 \notin q.oe_reg
      BY <1>3, <1>5, <2>3 DEF PinsKept
    <3> QED BY <1>17, <2>3, <2>4, <3>1, <3>2, <3>3 DEF HearsAt
  <2> QED BY <1>17, <2>3, <2>4, <2>6 DEF ReceiverMoves
<1>18. CASE u = 83
  <2>1. m.pc = 0 /\ m.delay_ctr = 0
    BY <1>18, <1>3, <1>5 DEF ReceiverAt
  <2>2. q = Enabled(m, Plain([op |-> "SET", dst |-> "PINDIRS", imm |-> {1}], 0), c, eff)
    BY <2>1, <1>2, <1>4
  <2>3. /\ PinsKept(m, q) /\ q.pc = Below(m, c) /\ q.delay_ctr = 0
        /\ q.isr = m.isr /\ q.rx = m.rx
        /\ q.out_reg = m.out_reg
        /\ \A j : j \in q.oe_reg <=> j \in {1} \/ (j \in m.oe_reg /\ j \notin ImmBits)
    BY <2>1, <2>2, <1>1, <1>3, SetsPindirs
  <2>4. ~\E k \in 0 .. 7 : u = 12 + 8 * k
    BY <1>18
  <2>5. Below(m, c) = 1
    BY <2>1, <1>1, <1>3 DEF Below
  <2>6. HearsAt(q, AfterReceiver(m, u, eff))
    <3>1. ReceiverAt(q, 0)
      BY <1>5, <2>1, <2>3, <2>5, CountsDown DEF ReceiverAt
    <3>2. AfterReceiver(m, u, eff) = 0
      BY <1>18 DEF AfterReceiver
    <3>3. q.in_pin = 0 /\ 0 \notin q.oe_reg
      BY <1>3, <1>5, <2>3 DEF PinsKept
    <3> QED BY <1>18, <2>3, <2>4, <3>1, <3>2, <3>3 DEF HearsAt
  <2> QED BY <1>18, <2>3, <2>4, <2>6 DEF ReceiverMoves
<1>19. CASE m.delay_ctr # 0
  <2>1. q = [m EXCEPT !.delay_ctr = m.delay_ctr - 1]
    BY <1>1, <1>4, <1>19, Lingers
  <2>2. /\ q.pc = m.pc /\ q.delay_ctr = m.delay_ctr - 1 /\ q.x = m.x /\ q.isr = m.isr
        /\ q.rx = m.rx /\ q.out_reg = m.out_reg /\ q.oe_reg = m.oe_reg /\ q.in_pin = m.in_pin
    BY <2>1 DEF Machine
  <2>3. /\ u \in 2 .. 4 \/ u \in 7 .. 10 \/ u \in 13 .. 74
        /\ ~\E k \in 0 .. 7 : u = 12 + 8 * k
        /\ ReceiverAt(q, u + 1)
    <3>1. CASE u = 5 - m.delay_ctr /\ m.pc = 3 /\ m.delay_ctr <= 3
      <4>1. u \in 2 .. 4 /\ u + 1 = 5 - q.delay_ctr /\ q.delay_ctr <= 3 /\ q.pc = 3
        BY <1>3, <1>19, <2>2, <3>1
      <4> QED BY <4>1 DEF ReceiverAt
    <3>2. CASE u = 11 - m.delay_ctr /\ m.pc = 5 /\ m.delay_ctr <= 4
      <4>1. u \in 7 .. 10 /\ u + 1 = 11 - q.delay_ctr /\ q.delay_ctr <= 4 /\ q.pc = 5
        BY <1>3, <1>19, <2>2, <3>2
      <4> QED BY <4>1 DEF ReceiverAt
    <3>3. CASE \E k \in 0 .. 7 :
                 m.pc = 7 /\ m.x = Num[8 - k] /\ u = 19 + 8 * k - m.delay_ctr /\ m.delay_ctr <= 6
      <4>1. PICK k \in 0 .. 7 :
              m.pc = 7 /\ m.x = Num[8 - k] /\ u = 19 + 8 * k - m.delay_ctr /\ m.delay_ctr <= 6
        BY <3>3
      <4>2. q.pc = 7 /\ q.x = Num[8 - k] /\ u + 1 = 19 + 8 * k - q.delay_ctr /\ q.delay_ctr <= 6
        BY <1>3, <1>19, <2>2, <4>1
      <4>3. u \in 13 .. 74 /\ ~\E j \in 0 .. 7 : u = 12 + 8 * j
        BY <1>3, <1>19, <4>1
      <4>4. ReceiverAt(q, u + 1)
        BY <4>2 DEF ReceiverAt
      <4> QED BY <4>3, <4>4
    <3> QED BY <1>19, <1>5, <3>1, <3>2, <3>3 DEF ReceiverAt
  <2>4. AfterReceiver(m, u, eff) = u + 1
    BY <2>3 DEF AfterReceiver
  <2>5. HearsAt(q, u + 1)
    BY <1>5, <2>2, <2>3 DEF HearsAt
  <2>6. u # 77
    BY <2>3
  <2> QED BY <2>2, <2>3, <2>4, <2>5, <2>6 DEF ReceiverMoves
<1>20. CASE m.delay_ctr = 0 /\ m.pc = 6
  <2>1. PICK k \in 0 .. 7 : m.x = Num[8 - k] /\ u = 12 + 8 * k
    BY <1>20, <1>3, <1>5 DEF ReceiverAt
  <2>2. q = Enabled(m, Plain([op |-> "IN", lsb |-> TRUE], 6), c, eff)
    BY <1>2, <1>4, <1>20
  <2>3. /\ q.pc = Below(m, c) /\ q.delay_ctr = 6 /\ PinsKept(m, q) /\ q.x = m.x
        /\ q.rx = m.rx /\ q.out_reg = m.out_reg /\ q.oe_reg = m.oe_reg
        /\ \A j : j \in q.isr <=> (j \in Bits /\ j + 1 \in m.isr) \/ (j = W - 1 /\ m.in_pin \in eff)
    BY <1>20, <1>1, <1>3, <2>2, ShiftsIn
  <2>4. Below(m, c) = 7
    BY <1>20, <1>1, <1>3 DEF Below
  <2>5. q.pc = 7 /\ q.x = Num[8 - k] /\ u + 1 = 19 + 8 * k - q.delay_ctr /\ q.delay_ctr <= 6
    BY <2>1, <2>3, <2>4
  <2>6. ReceiverAt(q, u + 1)
    BY <2>5 DEF ReceiverAt
  <2>7. HearsAt(q, u + 1)
    BY <1>5, <2>3, <2>6 DEF HearsAt, PinsKept
  <2>8. u \in 12 .. 68 /\ u # 77 /\ u # 76
    BY <2>1
  <2>9. AfterReceiver(m, u, eff) = u + 1
    BY <2>8 DEF AfterReceiver
  <2>10. \A j : j \in q.isr <=> (j \in Bits /\ j + 1 \in m.isr) \/ (j = 7 /\ 0 \in eff)
    BY <1>3, <1>5, <2>3
  <2> QED BY <2>1, <2>3, <2>7, <2>8, <2>9, <2>10 DEF ReceiverMoves
<1>21. CASE m.delay_ctr = 0 /\ m.pc = 7
  <2>1. PICK k \in 0 .. 7 : m.x = Num[8 - k] /\ u = 19 + 8 * k
    BY <1>21, <1>3, <1>5 DEF ReceiverAt
  <2>2. q = Enabled(m, Plain([op |-> "JMP", cond |-> "X_DEC", target |-> 6], 0), c, eff)
    BY <1>2, <1>4, <1>21
  <2>3. /\ q.pc = (IF Leaves(m, "X_DEC", eff) THEN 6 ELSE Below(m, c)) /\ q.delay_ctr = 0
        /\ q.x = (IF m.x # {} THEN Dec(m.x) ELSE m.x)
        /\ q.isr = m.isr /\ q.rx = m.rx /\ q.out_reg = m.out_reg /\ q.oe_reg = m.oe_reg
        /\ PinsKept(m, q)
    BY <1>21, <1>1, <1>3, <2>2, JumpsTo
  <2>4. Below(m, c) = 8 /\ (Leaves(m, "X_DEC", eff) <=> m.x # {})
    BY <1>21, <1>1, <1>3 DEF Below, Leaves
  <2>5. ReceiverAt(q, u + 1)
    <3>1. CASE k < 7
      <4>1. k + 1 \in 0 .. 7 /\ 8 - k \in 2 .. 8 /\ 8 - k - 1 = 8 - (k + 1)
        BY <3>1
      <4>2. m.x # {} /\ Dec(m.x) = Num[8 - (k + 1)]
        BY <4>1, <2>1, CountsDown
      <4>3. /\ q.pc = 6 /\ q.x = Num[8 - (k + 1)] /\ q.delay_ctr = 0
            /\ u + 1 = 12 + 8 * (k + 1)
        BY <4>2, <2>1, <2>3, <2>4
      <4> QED BY <4>1, <4>3 DEF ReceiverAt
    <3>2. CASE k = 7
      <4>1. m.x = {} /\ u + 1 = 76
        BY <3>2, <2>1, CountsDown
      <4>2. q.pc = 8 /\ q.delay_ctr = 0
        BY <4>1, <2>3, <2>4
      <4> QED BY <4>1, <4>2 DEF ReceiverAt
    <3> QED BY <3>1, <3>2
  <2>6. u \in 19 .. 75 /\ u # 77 /\ u # 76
    BY <2>1
  <2>7. ~\E j \in 0 .. 7 : u = 12 + 8 * j
    BY <2>1
  <2>8. AfterReceiver(m, u, eff) = u + 1
    BY <2>6 DEF AfterReceiver
  <2>9. HearsAt(q, u + 1)
    BY <1>5, <2>3, <2>5 DEF HearsAt, PinsKept
  <2>10. q.isr = m.isr /\ q.rx = m.rx /\ q.out_reg = m.out_reg
    BY <2>3
  <2> QED BY <2>6, <2>7, <2>8, <2>9, <2>10 DEF ReceiverMoves
<1>22. \/ u \in {0, 1, 5, 6, 11, 76, 77, 78, 79, 80, 81, 82, 83}
       \/ m.delay_ctr # 0
       \/ m.delay_ctr = 0 /\ m.pc \in {6, 7}
  BY <1>3, <1>5 DEF ReceiverAt
<1> QED
  BY <1>6, <1>7, <1>8, <1>9, <1>10, <1>11, <1>12, <1>13, <1>14, <1>15, <1>16, <1>17,
     <1>18, <1>19, <1>20, <1>21, <1>22

\* n bits are in at clock u, the top ones of the register.
Taken8(u, n) == (n \in 1 .. 7 /\ u \in 8 * n + 5 .. 8 * n + 12) \/ (n = 8 /\ u \in 69 .. 77)
Got(m, u, w) ==
  \A n \in 1 .. 8 : Taken8(u, n) => \A j \in 0 .. n - 1 : 8 - n + j \in m.isr <=> j \in w

\* A bit taken in where B samples is the next bit of the byte.
LEMMA BitTaken ==
  ASSUME NEW m, NEW q, NEW eff, NEW u \in 1 .. 76, NEW w, m.isr \in Reg, Got(m, u, w),
         (\E k \in 0 .. 7 : u = 12 + 8 * k) =>
           \A j : j \in q.isr <=> (j \in Bits /\ j + 1 \in m.isr) \/ (j = 7 /\ 0 \in eff),
         (~\E k \in 0 .. 7 : u = 12 + 8 * k) => q.isr = m.isr,
         \A k \in 0 .. 7 : u = 12 + 8 * k => (0 \in eff <=> k \in w)
  PROVE  Got(q, u + 1, w)
<1> SUFFICES ASSUME NEW n \in 1 .. 8, Taken8(u + 1, n), NEW j \in 0 .. n - 1
             PROVE  8 - n + j \in q.isr <=> j \in w
  BY DEF Got
<1>1. Bits = 0 .. 7 /\ m.isr \subseteq 0 .. 7
  BY LinkConstants DEF Reg
<1>2. CASE u = 8 * n + 4
  <2>1. n - 1 \in 0 .. 7 /\ u = 12 + 8 * (n - 1)
    BY <1>2
  <2>2. 8 - n + j \in q.isr <=> (8 - n + j \in Bits /\ 8 - n + j + 1 \in m.isr)
                               \/ (8 - n + j = 7 /\ 0 \in eff)
    BY <2>1
  <2>3. 0 \in eff <=> n - 1 \in w
    BY <2>1
  <2>4. CASE j = n - 1
    <3>1. 8 - n + j = 7 /\ ~(8 - n + j + 1 \in 0 .. 7)
      BY <2>4
    <3> QED BY <3>1, <2>2, <2>3, <2>4, <1>1
  <2>5. CASE j # n - 1
    <3>1. n - 1 \in 1 .. 8 /\ j \in 0 .. (n - 1) - 1 /\ Taken8(u, n - 1)
      BY <1>2, <2>5 DEF Taken8
    <3>2. 8 - (n - 1) + j \in m.isr <=> j \in w
      BY <3>1 DEF Got
    <3>3. 8 - (n - 1) + j = 8 - n + j + 1 /\ 8 - n + j \in Bits /\ 8 - n + j # 7
      BY <1>1, <2>5
    <3> QED BY <3>2, <3>3, <2>2
  <2> QED BY <2>4, <2>5
<1>3. CASE u # 8 * n + 4
  <2>1. Taken8(u, n)
    BY <1>3 DEF Taken8
  <2>2. ~\E k \in 0 .. 7 : u = 12 + 8 * k
    <3> SUFFICES ASSUME NEW k \in 0 .. 7, u = 12 + 8 * k PROVE FALSE
      OBVIOUS
    <3> QED BY <1>3 DEF Taken8
  <2> QED BY <2>1, <2>2 DEF Got
<1> QED BY <1>2, <1>3

\* After eight of them the byte is the byte.
LEMMA ByteTaken ==
  ASSUME NEW m, NEW w \in Reg, m.isr \in Reg, Got(m, 77, w)
  PROVE  m.isr = w
<1>1. Taken8(77, 8)
  BY DEF Taken8
<1>2. \A j \in 0 .. 8 - 1 : 8 - 8 + j \in m.isr <=> j \in w
  BY <1>1 DEF Got
<1>3. \A j \in 0 .. 7 : j \in m.isr <=> j \in w
  BY <1>2
<1>4. m.isr \subseteq 0 .. 7 /\ w \subseteq 0 .. 7
  BY LinkConstants DEF Reg
<1> QED BY <1>3, <1>4

\* What B sees on the pin it does not drive is its synchroniser.
LEMMA PinSeen ==
  ASSUME NEW m, 0 \notin m.oe_reg, NEW g
  PROVE  0 \in Pad(<<m>>, g) <=> 0 \in g
<1>1. DOMAIN <<m>> = {1} /\ <<m>>[1] = m
  OBVIOUS
<1>2. \A j : j \in Oe(<<m>>) <=> j \in m.oe_reg
  BY <1>1 DEF Oe
<1>3. \A j : j \in DrivesHigh(<<m>>) <=> j \in m.oe_reg \cap m.out_reg
  BY <1>1 DEF DrivesHigh
<1> QED BY <1>2, <1>3 DEF Pad

\* The synchroniser's bit is what the machine sees of it.
LEMMA BitSeen ==
  ASSUME NEW x
  PROVE  0 \in Bit(x, 0) <=> x
BY DEF Bit

\* What a machine alone on its chip sees is a register's value.
LEMMA PadOfOne ==
  ASSUME NEW m \in Machine, NEW g \in Reg
  PROVE  Pad(<<m>>, g) \in Reg
BY HardwarePadType

\* The nodes of the two graphs are nodes.
LEMMA PlainNode ==
  ASSUME NEW i \in Code, NEW d \in 0 .. 7
  PROVE  Plain(i, d) \in Node
BY LinkConstants DEF Plain, Node

\* Every instruction of the two graphs is one of the machine's.
LEMMA LinkCodes ==
  /\ \A j \in 0 .. 1 : [op |-> "SET", dst |-> "PINS", imm |-> {j}] \in Code
  /\ \A j \in 0 .. 1 : [op |-> "SET", dst |-> "PINDIRS", imm |-> {j}] \in Code
  /\ [op |-> "SET", dst |-> "X", imm |-> {0, 1, 2}] \in Code
  /\ [op |-> "SET", dst |-> "PINS", imm |-> {}] \in Code
  /\ [op |-> "PULL"] \in Code /\ [op |-> "PUSH"] \in Code /\ [op |-> "NOP"] \in Code
  /\ [op |-> "OUT", lsb |-> TRUE] \in Code /\ [op |-> "IN", lsb |-> TRUE] \in Code
  /\ \A t \in 0 .. 31 : /\ [op |-> "JMP", cond |-> "X_DEC", target |-> t] \in Code
                        /\ [op |-> "JMP", cond |-> "PIN", target |-> t] \in Code
                        /\ [op |-> "JMP", cond |-> "ALWAYS", target |-> t] \in Code
  /\ [op |-> "WAIT", pin |-> 0, pol |-> FALSE] \in Code
  /\ [op |-> "WAIT", pin |-> 0, pol |-> TRUE] \in Code
  /\ [op |-> "SETPIN", dst |-> "BIT", pin |-> 1] \in Code
  /\ [op |-> "SETPIN", dst |-> "CLR", pin |-> 1] \in Code
BY LinkConstants DEF Code, Condition

\* Every node of uart_8n1_tx is a node of the machine,
LEMMA SenderNode ==
  ASSUME NEW pc \in 0 .. 8
  PROVE  /\ Fetched(Slot(Uart8n1Tx), pc) \in Node
         /\ Slot(Uart8n1Tx).csr \in Config
<1> DEFINE p == Slot(Uart8n1Tx)
<1>1. p.csr \in Config
  <2>1. p.csr = [wrap_bot |-> 2, wrap_top |-> 8, side_count |-> FALSE, side_base |-> 0]
    BY TxSlot
  <2> QED BY <2>1, LinkConstants DEF Config
<1>2. /\ Fetched(p, 0) = Plain([op |-> "SET", dst |-> "PINS", imm |-> {0}], 0)
      /\ Fetched(p, 1) = Plain([op |-> "SET", dst |-> "PINDIRS", imm |-> {0}], 0)
      /\ Fetched(p, 2) = Plain([op |-> "PULL"], 0)
      /\ Fetched(p, 3) = Plain([op |-> "SET", dst |-> "X", imm |-> {0, 1, 2}], 0)
      /\ Fetched(p, 4) = Plain([op |-> "SET", dst |-> "PINS", imm |-> {}], 7)
      /\ Fetched(p, 5) = Plain([op |-> "OUT", lsb |-> TRUE], 6)
      /\ Fetched(p, 6) = Plain([op |-> "JMP", cond |-> "X_DEC", target |-> 5], 0)
      /\ Fetched(p, 7) = Plain([op |-> "SET", dst |-> "PINS", imm |-> {0}], 7)
      /\ Fetched(p, 8) = Plain([op |-> "NOP"], 0)
  BY TxSlot
<1> HIDE DEF p
<1>3. /\ Fetched(p, 0) \in Node /\ Fetched(p, 1) \in Node /\ Fetched(p, 2) \in Node
      /\ Fetched(p, 3) \in Node /\ Fetched(p, 4) \in Node /\ Fetched(p, 5) \in Node
      /\ Fetched(p, 6) \in Node /\ Fetched(p, 7) \in Node /\ Fetched(p, 8) \in Node
  BY <1>2, LinkCodes, PlainNode
<1>4. pc \in {0, 1, 2, 3, 4, 5, 6, 7, 8}
  OBVIOUS
<1>5. Fetched(p, pc) \in Node
  BY <1>3, <1>4
<1> QED BY <1>1, <1>5 DEF p

\* and every node of uart_8n1_rx.
LEMMA ReceiverNode ==
  ASSUME NEW pc \in 0 .. 14
  PROVE  /\ Fetched(Slot(Uart8n1Rx), pc) \in Node
         /\ Slot(Uart8n1Rx).csr \in Config
<1> DEFINE p == Slot(Uart8n1Rx)
<1>1. p.csr \in Config
  <2>1. p.csr = [wrap_bot |-> 1, wrap_top |-> 14, side_count |-> FALSE, side_base |-> 0]
    BY RxSlot
  <2> QED BY <2>1, LinkConstants DEF Config
<1>2. /\ Fetched(p, 0) = Plain([op |-> "SET", dst |-> "PINDIRS", imm |-> {1}], 0)
      /\ Fetched(p, 1) = Plain([op |-> "WAIT", pin |-> 0, pol |-> FALSE], 0)
      /\ Fetched(p, 2) = Plain([op |-> "NOP"], 3)
      /\ Fetched(p, 3) = Plain([op |-> "JMP", cond |-> "PIN", target |-> 1], 0)
      /\ Fetched(p, 4) = Plain([op |-> "NOP"], 4)
      /\ Fetched(p, 5) = Plain([op |-> "SET", dst |-> "X", imm |-> {0, 1, 2}], 0)
      /\ Fetched(p, 6) = Plain([op |-> "IN", lsb |-> TRUE], 6)
      /\ Fetched(p, 7) = Plain([op |-> "JMP", cond |-> "X_DEC", target |-> 6], 0)
      /\ Fetched(p, 8) = Plain([op |-> "JMP", cond |-> "PIN", target |-> 12], 0)
      /\ Fetched(p, 9) = Plain([op |-> "SETPIN", dst |-> "BIT", pin |-> 1], 0)
      /\ Fetched(p, 10) = Plain([op |-> "WAIT", pin |-> 0, pol |-> TRUE], 0)
      /\ Fetched(p, 11) = Plain([op |-> "JMP", cond |-> "ALWAYS", target |-> 1], 0)
      /\ Fetched(p, 12) = Plain([op |-> "PUSH"], 0)
      /\ Fetched(p, 13) = Plain([op |-> "SETPIN", dst |-> "CLR", pin |-> 1], 0)
      /\ Fetched(p, 14) = Plain([op |-> "NOP"], 0)
  BY RxSlot
<1> HIDE DEF p
<1>3. /\ Fetched(p, 0) \in Node /\ Fetched(p, 1) \in Node /\ Fetched(p, 2) \in Node
      /\ Fetched(p, 3) \in Node /\ Fetched(p, 4) \in Node /\ Fetched(p, 5) \in Node
      /\ Fetched(p, 6) \in Node /\ Fetched(p, 7) \in Node /\ Fetched(p, 8) \in Node
  BY <1>2, LinkCodes, PlainNode
<1>6. /\ Fetched(p, 9) \in Node /\ Fetched(p, 10) \in Node /\ Fetched(p, 11) \in Node
      /\ Fetched(p, 12) \in Node /\ Fetched(p, 13) \in Node /\ Fetched(p, 14) \in Node
  BY <1>2, LinkCodes, PlainNode
<1>4. pc \in {0, 1, 2, 3, 4, 5, 6, 7, 8, 9, 10, 11, 12, 13, 14}
  OBVIOUS
<1>5. Fetched(p, pc) \in Node
  BY <1>3, <1>4, <1>6
<1> QED BY <1>1, <1>5 DEF p

\* What a clock of A is, from clock t of its frame to clock t2.
AMoves(t, t2) ==
  /\ a' \in Machine /\ SendsAt(a', t2)
  /\ \/ /\ t = 82 /\ t2 = 0 /\ Pulls /\ a.tx # << >> /\ Head(a.tx) \in Reg
        /\ Sends(a', 0, Head(a.tx))
     \/ t = 82 /\ t2 = 82 /\ ~Pulls
     \/ t = 83 /\ t2 = 84 /\ ~Pulls
     \/ t = 84 /\ t2 = 82 /\ ~Pulls
     \/ /\ t \in 0 .. 81 /\ t2 = t + 1 /\ ~Pulls
        /\ \A v \in Reg : Sends(a, t, v) => Sends(a', t2, v)

\* A clock of A takes its frame to the next clock of it, or parks.
LEMMA SenderTicks ==
  ASSUME progA = Slot(Uart8n1Tx), a \in Machine, NEW t \in 0 .. 84, SendsAt(a, t), ClockA
  PROVE  \E t2 \in 0 .. 84 : AMoves(t, t2)
<1>1. SenderClock(a, a', ASees)
  BY DEF ClockA, ANode, SenderClock
<1>2. SenderMoves(a, a', t)
  BY <1>1, SenderSteps
<1>3. a' \in Machine
  <2>1. a.pc \in 0 .. 8
    BY DEF SendsAt, SenderAt
  <2>2. {} \in Reg
    BY DEF Reg
  <2>3. ASees \in Reg
    BY <2>2, PadOfOne DEF ASees
  <2>4. Fetched(Slot(Uart8n1Tx), a.pc) \in Node /\ Slot(Uart8n1Tx).csr \in Config
    BY <2>1, SenderNode
  <2> QED BY <1>1, <2>3, <2>4, EnabledType DEF SenderClock
<1>4. a.tx \in Queue
  BY DEF Machine
<1>5. SendsAt(a', AfterSender(a, t))
  BY <1>2 DEF SenderMoves
<1>6. CASE t = 82 /\ a.tx # << >>
  <2>1. a'.tx = Tail(a.tx) /\ a'.osr = Head(a.tx)
    BY <1>2, <1>6 DEF SenderMoves
  <2>2. Head(a.tx) \in Reg /\ Tail(a.tx) # a.tx
    <3>1. a.tx \in Seq(Reg)
      BY <1>4 DEF Queue
    <3>2. Head(a.tx) \in Reg /\ Len(Tail(a.tx)) = Len(a.tx) - 1 /\ Len(a.tx) \in Nat
      BY <3>1, <1>6
    <3>3. Tail(a.tx) # a.tx
      <4> SUFFICES ASSUME Tail(a.tx) = a.tx PROVE FALSE
        OBVIOUS
      <4>1. Len(a.tx) = Len(a.tx) - 1
        BY <3>2
      <4> QED BY <3>2, <4>1
    <3> QED BY <3>2, <3>3
  <2>3. Sends(a', 0, Head(a.tx))
    BY <2>1, <2>2, FrameBegins
  <2>4. AfterSender(a, t) = 0
    BY <1>6 DEF AfterSender
  <2>5. AMoves(t, 0)
    BY <1>3, <1>5, <1>6, <2>1, <2>2, <2>3, <2>4 DEF AMoves, Pulls
  <2> QED BY <2>5
<1>7. CASE ~(t = 82 /\ a.tx # << >>)
  <2>1. ~Pulls
    BY <1>2, <1>7 DEF SenderMoves, Pulls
  <2>2. CASE t \in 0 .. 81
    <3>1. AfterSender(a, t) = t + 1
      BY <2>2 DEF AfterSender
    <3>2. ASSUME NEW v \in Reg, Sends(a, t, v) PROVE Sends(a', t + 1, v)
      BY <1>1, <2>2, <3>2, FrameGoesOn
    <3>3. AMoves(t, t + 1)
      BY <1>3, <1>5, <2>1, <2>2, <3>1, <3>2 DEF AMoves
    <3> QED BY <2>2, <3>3
  <2>3. CASE t = 82
    <3>1. AfterSender(a, t) = 82
      BY <1>7, <2>3 DEF AfterSender
    <3>2. AMoves(t, 82)
      BY <1>3, <1>5, <2>1, <2>3, <3>1 DEF AMoves
    <3> QED BY <3>2
  <2>4. CASE t = 83
    <3>1. AfterSender(a, t) = 84
      BY <2>4 DEF AfterSender
    <3>2. AMoves(t, 84)
      BY <1>3, <1>5, <2>1, <2>4, <3>1 DEF AMoves
    <3> QED BY <3>2
  <2>5. CASE t = 84
    <3>1. AfterSender(a, t) = 82
      BY <2>5 DEF AfterSender
    <3>2. AMoves(t, 82)
      BY <1>3, <1>5, <2>1, <2>5, <3>1 DEF AMoves
    <3> QED BY <3>2
  <2> QED BY <2>2, <2>3, <2>4, <2>5
<1> QED BY <1>6, <1>7

\* A is parked at the end of its frame, with an empty FIFO, and nowhere else.
LEMMA ParkedAt ==
  ASSUME progA = Slot(Uart8n1Tx), a \in Machine, NEW t \in 0 .. 84, SendsAt(a, t)
  PROVE  /\ AParked <=> t = 82 /\ a.tx = << >>
         /\ t = 82 => a.delay_ctr = 0
<1>1. ANode = Fetched(Slot(Uart8n1Tx), a.pc)
  BY DEF ANode
<1> DEFINE p == Slot(Uart8n1Tx)
<1>2. /\ Fetched(p, 0) = Plain([op |-> "SET", dst |-> "PINS", imm |-> {0}], 0)
      /\ Fetched(p, 1) = Plain([op |-> "SET", dst |-> "PINDIRS", imm |-> {0}], 0)
      /\ Fetched(p, 2) = Plain([op |-> "PULL"], 0)
      /\ Fetched(p, 3) = Plain([op |-> "SET", dst |-> "X", imm |-> {0, 1, 2}], 0)
      /\ Fetched(p, 4) = Plain([op |-> "SET", dst |-> "PINS", imm |-> {}], 7)
      /\ Fetched(p, 5) = Plain([op |-> "OUT", lsb |-> TRUE], 6)
      /\ Fetched(p, 6) = Plain([op |-> "JMP", cond |-> "X_DEC", target |-> 5], 0)
      /\ Fetched(p, 7) = Plain([op |-> "SET", dst |-> "PINS", imm |-> {0}], 7)
      /\ Fetched(p, 8) = Plain([op |-> "NOP"], 0)
  BY TxSlot
<1> HIDE DEF p
<1>3. /\ Fetched(p, 2).code.op = "PULL"
      /\ Fetched(p, 0).code.op # "PULL" /\ Fetched(p, 1).code.op # "PULL"
      /\ Fetched(p, 3).code.op # "PULL" /\ Fetched(p, 4).code.op # "PULL"
      /\ Fetched(p, 5).code.op # "PULL" /\ Fetched(p, 6).code.op # "PULL"
      /\ Fetched(p, 7).code.op # "PULL" /\ Fetched(p, 8).code.op # "PULL"
  BY <1>2 DEF Plain
<1>4. /\ a.pc \in {0, 1, 2, 3, 4, 5, 6, 7, 8} /\ (a.pc = 2 <=> t = 82)
      /\ t = 82 => a.delay_ctr = 0
  <2>1. a.pc \in 0 .. 31 /\ a.delay_ctr \in 0 .. 31
    BY LinkConstants DEF Machine
  <2> QED BY <2>1 DEF SendsAt, SenderAt
<1>5. ANode = Fetched(p, a.pc)
  BY <1>1 DEF p
<1>6. ANode.code.op = "PULL" <=> t = 82
  BY <1>3, <1>4, <1>5
<1> QED BY <1>4, <1>6 DEF AParked

\* The line when A is at clock t of a frame.
LEMMA LineAt ==
  ASSUME NEW t \in 0 .. 84, SendsAt(a, t)
  PROVE  /\ t \in 0 .. 1 \/ t \in 74 .. 84 => (Line <=> runt = 0)
         /\ t \in 2 .. 9 => ~Line
         /\ \A v : t <= 82 /\ Sends(a, t, v) => (Line <=> runt = 0 /\ Level(t, v))
<1>1. /\ 0 \in a.oe_reg <=> t <= 82
      /\ (t \in 0 .. 1 \/ t \in 74 .. 82 \/ t = 84) => 0 \in a.out_reg
      /\ t \in 2 .. 9 => 0 \notin a.out_reg
  BY DEF SendsAt
<1>2. t \in 0 .. 1 \/ t \in 74 .. 84 => (Line <=> runt = 0)
  BY <1>1 DEF Line
<1>3. t \in 2 .. 9 => ~Line
  BY <1>1 DEF Line
<1>4. ASSUME NEW v, t <= 82, Sends(a, t, v) PROVE Line <=> runt = 0 /\ Level(t, v)
  <2>1. t \in 0 .. 82
    BY <1>4
  <2>2. 0 \in a.oe_reg /\ (0 \in a.out_reg <=> Level(t, v))
    BY <1>4, <2>1, LineLevel
  <2> QED BY <2>2 DEF Line
<1> QED BY <1>2, <1>3, <1>4

-----------------------------------------------------------------------------
\* What a clock of B is, from clock u of its frame to clock u2.
BNext(u, u2) ==
  \/ u \in {0, 5} /\ sync1 /\ u2 = 0
  \/ u \in {0, 5} /\ ~sync1 /\ u2 = u + 1
  \/ u = 76 /\ sync1 /\ u2 = 77
  \/ u = 76 /\ ~sync1 /\ u2 = 80
  \/ u = 77 /\ Overrun /\ u2 = 77
  \/ u = 77 /\ ~Overrun /\ u2 = 78
  \/ u = 81 /\ sync1 /\ u2 = 82
  \/ u = 81 /\ ~sync1 /\ u2 = 81
  \/ u \in {79, 82, 83} /\ u2 = 0
  \/ u \notin {0, 5, 76, 77, 79, 81, 82, 83} /\ u2 = u + 1

BMoves(u, u2) ==
  /\ b' \in Machine /\ HearsAt(b', u2)
  /\ u # 80 => (1 \in b'.out_reg => 1 \in b.out_reg)
  /\ BNext(u, u2)
  /\ Overrun => u = 77
  /\ Pushes <=> u = 77 /\ ~Overrun
  /\ Pushes => b'.rx = Append(b.rx, b.isr)
  /\ \A w : /\ u \in 1 .. 76 /\ Got(b, u, w)
            /\ \A k \in 0 .. 7 : u = 12 + 8 * k => (sync1 <=> k \in w)
            => Got(b', u + 1, w)

\* B is kept at its push and nowhere else.
LEMMA OverrunAt ==
  ASSUME progB = Slot(Uart8n1Rx), b \in Machine, NEW u \in 0 .. 83, HearsAt(b, u)
  PROVE  Overrun <=> run /\ u = 77 /\ Len(b.rx) = Depth
<1>1. BNode = Fetched(Slot(Uart8n1Rx), b.pc)
  BY DEF BNode
<1> DEFINE p == Slot(Uart8n1Rx)
<1>2. /\ Fetched(p, 0) = Plain([op |-> "SET", dst |-> "PINDIRS", imm |-> {1}], 0)
      /\ Fetched(p, 1) = Plain([op |-> "WAIT", pin |-> 0, pol |-> FALSE], 0)
      /\ Fetched(p, 2) = Plain([op |-> "NOP"], 3)
      /\ Fetched(p, 3) = Plain([op |-> "JMP", cond |-> "PIN", target |-> 1], 0)
      /\ Fetched(p, 4) = Plain([op |-> "NOP"], 4)
      /\ Fetched(p, 5) = Plain([op |-> "SET", dst |-> "X", imm |-> {0, 1, 2}], 0)
      /\ Fetched(p, 6) = Plain([op |-> "IN", lsb |-> TRUE], 6)
      /\ Fetched(p, 7) = Plain([op |-> "JMP", cond |-> "X_DEC", target |-> 6], 0)
      /\ Fetched(p, 8) = Plain([op |-> "JMP", cond |-> "PIN", target |-> 12], 0)
      /\ Fetched(p, 9) = Plain([op |-> "SETPIN", dst |-> "BIT", pin |-> 1], 0)
      /\ Fetched(p, 10) = Plain([op |-> "WAIT", pin |-> 0, pol |-> TRUE], 0)
      /\ Fetched(p, 11) = Plain([op |-> "JMP", cond |-> "ALWAYS", target |-> 1], 0)
      /\ Fetched(p, 12) = Plain([op |-> "PUSH"], 0)
      /\ Fetched(p, 13) = Plain([op |-> "SETPIN", dst |-> "CLR", pin |-> 1], 0)
      /\ Fetched(p, 14) = Plain([op |-> "NOP"], 0)
  BY RxSlot
<1> HIDE DEF p
<1>3. /\ Fetched(p, 12).code.op = "PUSH"
      /\ Fetched(p, 0).code.op # "PUSH" /\ Fetched(p, 1).code.op # "PUSH"
      /\ Fetched(p, 2).code.op # "PUSH" /\ Fetched(p, 3).code.op # "PUSH"
      /\ Fetched(p, 4).code.op # "PUSH" /\ Fetched(p, 5).code.op # "PUSH"
      /\ Fetched(p, 6).code.op # "PUSH" /\ Fetched(p, 7).code.op # "PUSH"
  BY <1>2 DEF Plain
<1>6. /\ Fetched(p, 8).code.op # "PUSH" /\ Fetched(p, 9).code.op # "PUSH"
      /\ Fetched(p, 10).code.op # "PUSH" /\ Fetched(p, 11).code.op # "PUSH"
      /\ Fetched(p, 13).code.op # "PUSH" /\ Fetched(p, 14).code.op # "PUSH"
  BY <1>2 DEF Plain
<1>4. /\ b.pc \in {0, 1, 2, 3, 4, 5, 6, 7, 8, 9, 10, 11, 12, 13, 14} /\ (b.pc = 12 <=> u = 77)
      /\ u = 77 => b.delay_ctr = 0
  <2>1. b.pc \in 0 .. 31 /\ b.delay_ctr \in 0 .. 31 /\ ReceiverAt(b, u)
    BY LinkConstants DEF Machine, HearsAt
  <2> QED BY <2>1 DEF ReceiverAt
<1>5. BNode = Fetched(p, b.pc)
  BY <1>1 DEF p
<1>7. BNode.code.op = "PUSH" <=> u = 77
  BY <1>3, <1>4, <1>5, <1>6
<1> QED BY <1>4, <1>7 DEF Overrun

\* A clock of B takes its frame to the next clock of it.
LEMMA ReceiverTicks ==
  ASSUME progB = Slot(Uart8n1Rx), b \in Machine, NEW u \in 0 .. 83, HearsAt(b, u),
         run, b' = Enabled(b, BNode, progB.csr, BSees)
  PROVE  \E u2 \in 0 .. 83 : BMoves(u, u2)
<1>1. ReceiverClock(b, b', BSees)
  BY DEF BNode, ReceiverClock
<1>2. ReceiverMoves(b, b', u, BSees)
  BY <1>1, ReceiverSteps
<1>3. b' \in Machine
  <2>1. b.pc \in 0 .. 14
    BY DEF HearsAt, ReceiverAt
  <2>2. Bit(sync1, 0) \in Reg
    BY LinkConstants DEF Reg, Bit
  <2>3. BSees \in Reg
    BY <2>2, PadOfOne DEF BSees
  <2>4. Fetched(Slot(Uart8n1Rx), b.pc) \in Node /\ Slot(Uart8n1Rx).csr \in Config
    BY <2>1, ReceiverNode
  <2> QED BY <1>1, <2>3, <2>4, EnabledType DEF ReceiverClock
<1>4. 0 \in BSees <=> sync1
  <2>1. 0 \notin b.oe_reg
    BY DEF HearsAt
  <2>2. 0 \in BSees <=> 0 \in Bit(sync1, 0)
    BY <2>1, PinSeen DEF BSees
  <2> QED BY <2>2, BitSeen
<1>5. Overrun <=> u = 77 /\ Len(b.rx) = Depth
  BY OverrunAt
<1> DEFINE u2 == AfterReceiver(b, u, BSees)
<1>6. \/ u \in {0, 5} /\ sync1 /\ u2 = 0
      \/ u \in {0, 5} /\ ~sync1 /\ u2 = u + 1
      \/ u = 76 /\ sync1 /\ u2 = 77
      \/ u = 76 /\ ~sync1 /\ u2 = 80
      \/ u = 77 /\ Overrun /\ u2 = 77
      \/ u = 77 /\ ~Overrun /\ u2 = 78
      \/ u = 81 /\ sync1 /\ u2 = 82
      \/ u = 81 /\ ~sync1 /\ u2 = 81
      \/ u \in {79, 82, 83} /\ u2 = 0
      \/ u \notin {0, 5, 76, 77, 79, 81, 82, 83} /\ u2 = u + 1
  BY <1>4, <1>5 DEF AfterReceiver
<1>7. HearsAt(b', u2) /\ (u # 80 => (1 \in b'.out_reg => 1 \in b.out_reg))
  BY <1>2 DEF ReceiverMoves
<1>8. b'.rx = (IF u = 77 /\ Len(b.rx) # Depth THEN Append(b.rx, b.isr) ELSE b.rx)
  BY <1>2 DEF ReceiverMoves
<1>9. b.rx \in Seq(Reg) /\ b.isr \in Reg
  BY DEF Machine, Queue
<1>10. Append(b.rx, b.isr) # b.rx
  <2>1. Len(Append(b.rx, b.isr)) = Len(b.rx) + 1 /\ Len(b.rx) \in Nat
    BY <1>9
  <2> QED BY <2>1
<1>11. (Pushes <=> u = 77 /\ ~Overrun) /\ (Pushes => b'.rx = Append(b.rx, b.isr))
  BY <1>5, <1>8, <1>10 DEF Pushes
<1>12. ASSUME NEW w, u \in 1 .. 76, Got(b, u, w),
              \A k \in 0 .. 7 : u = 12 + 8 * k => (sync1 <=> k \in w)
       PROVE  Got(b', u + 1, w)
  <2>1. \A k \in 0 .. 7 : u = 12 + 8 * k => (0 \in BSees <=> k \in w)
    BY <1>4, <1>12
  <2>2. /\ (\E k \in 0 .. 7 : u = 12 + 8 * k) =>
             \A j : j \in b'.isr <=> (j \in Bits /\ j + 1 \in b.isr) \/ (j = 7 /\ 0 \in BSees)
        /\ (~\E k \in 0 .. 7 : u = 12 + 8 * k) => b'.isr = b.isr
    BY <1>2 DEF ReceiverMoves
  <2> QED BY <1>9, <1>12, <2>1, <2>2, BitTaken
<1>13. u2 \in 0 .. 83
  BY <1>6
<1> HIDE DEF u2
<1>14. BMoves(u, u2)
  BY <1>3, <1>5, <1>6, <1>7, <1>11, <1>12 DEF BMoves, BNext
<1> QED BY <1>13, <1>14

LinkTyped ==
  /\ progA = Slot(Uart8n1Tx) /\ progB = Slot(Uart8n1Rx)
  /\ a \in Machine /\ b \in Machine
  /\ run \in BOOLEAN /\ sync0 \in BOOLEAN /\ sync1 \in BOOLEAN /\ was \in BOOLEAN
  /\ runt \in 0 .. RuntLen /\ gap \in 0 .. Gap
  /\ slipped \in BOOLEAN /\ slips \in 0 .. MaxSlips
  /\ synced \in BOOLEAN /\ calm \in 0 .. Quiet
  /\ due \in Seq(Reg) /\ unsent \in Seq(Reg)

\* A clock the two frames are apart for the slip of this bit.
Lag == IF slipped THEN 1 ELSE 0

\* B has not been in step since it lost it: how long the line has been quiet
\* bounds where the two are.
Unsynced(t, u) ==
  /\ due = << >>
  /\ ~run => u = 83 /\ ~sync0 /\ ~sync1
  /\ calm >= 1 => run /\ sync0 /\ was /\ runt = 0
  /\ calm >= 2 => sync1
  /\ t >= 83 => calm <= t - 83
  /\ t \in 0 .. 2 => calm <= t
  /\ t \in 3 .. 81 => calm <= t - 3
  /\ u = 83 => calm = 0
  /\ u \in 1 .. 5 => calm <= u + 1
  /\ u \in 6 .. 79 => calm <= u - 4
  /\ u \in 80 .. 82 => calm <= u - 78

\* Where a runt may be between the line and B.
Pulse ==
  /\ runt = 1 => was
  /\ ~was => runt >= 2 \/ (runt = 0 /\ gap = 0)
  /\ ~sync0 => runt >= 2 \/ (runt = 0 /\ gap <= 1 + slips)
  /\ ~sync1 => runt >= 3 \/ (runt = 0 /\ gap <= 2 + slips)

\* Nothing is on its way.
Idle(t, u) ==
  /\ due = << >> /\ t = 82 /\ (u \in 0 .. 5 \/ u \in 78 .. 79)
  /\ Pulse
  /\ u \in 1 .. 5 /\ runt = 0 => gap <= u + 2 + slips
  /\ u = 1 => runt = 0 \/ runt = 4
  /\ u \in 2 .. 4 => runt = 0
  /\ u = 3 => was
  /\ u = 4 => was /\ sync0
  /\ u = 5 => sync0 /\ sync1 /\ runt <= 1 /\ (runt = 1 => slips = 2)

\* B has pushed the byte, A is still in its stop bit.
Ending(t, u) ==
  /\ due = << >> /\ t \in 79 .. 81 /\ u \in 78 .. 79 /\ t >= u + 4 - slips
  /\ sync0 /\ sync1 /\ was /\ runt = 0

\* A has begun a frame that B has not.
Coming(t, u) ==
  /\ t \in 0 .. 6 /\ runt = 0
  /\ \/ Len(due) = 1 /\ u \in {0, 5, 78, 79} /\ Sends(a, t, due[1])
     \/ Len(due) = 2 /\ u \in 76 .. 77 /\ Got(b, u, due[1]) /\ Sends(a, t, due[2])
  /\ ~sync0 => ~was /\ t >= 2 /\ t >= 3 - Lag
  /\ ~sync1 => ~sync0 /\ t >= 4 - Lag
  /\ sync0 => t <= 3 + Lag
  /\ sync1 => t <= 4 + Lag
  /\ ~was => t >= 3 - Lag
  /\ was => t <= 2
  /\ u = 0 => t <= 5 + Lag
  /\ u = 5 => t <= 1 /\ sync0 /\ sync1 /\ (t = 1 => slipped)
  /\ u >= 76 => (t = 1 => t <= u - 76 + Lag) /\ (t >= 2 => t <= u - 75 + Lag)

\* B is in the frame of A.
Receiving(t, u) ==
  /\ Len(due) = 1 /\ u \in 1 .. 77 /\ Got(b, u, due[1])
  /\ t <= 73 => Sends(a, t, due[1])
  /\ t <= 9 => u + 4 - Lag <= t /\ t <= u + 5 + Lag
  /\ t \in 10 .. 81 => u + 4 - slips <= t /\ t <= u + 5 + slips
  /\ t = 82 => u >= 77 - slips
  /\ u <= 3 => t <= 9
  /\ u <= 4 => ~sync0
  /\ u <= 5 => ~sync1
  /\ u <= 75 => (was <=> Level(t, due[1])) \/ (was <=> Level(t - 1, due[1]))
  /\ u \in 5 .. 75 => \E w \in u .. u + 6 : sync0 <=> Level(w, due[1])
  /\ u \in 6 .. 76 => \E w \in u - 1 .. u + 5 : sync1 <=> Level(w, due[1])
  /\ u >= 76 => Pulse /\ (t < 82 => sync0 /\ sync1 /\ was /\ runt = 0)
  /\ u = 76 => sync0 /\ sync1
  /\ runt # 0 => t = 82 /\ u >= 76

InStep(t, u) ==
  /\ run /\ t <= 82
  /\ Idle(t, u) \/ Ending(t, u) \/ Coming(t, u) \/ Receiving(t, u)

LinkInv ==
  /\ LinkTyped
  /\ slipped => slips >= 1
  /\ runt # 0 => gap = 0
  /\ synced => calm = 0
  /\ \E t \in 0 .. 84 : SendsAt(a, t) /\
       \E u \in 0 .. 83 : HearsAt(b, u) /\
         IF synced THEN InStep(t, u) ELSE Unsynced(t, u)

-----------------------------------------------------------------------------
Bounds ==
  /\ MaxSlips \in 0 .. 2 /\ RuntLen \in 1 .. 4
  /\ Gap \in Nat /\ Gap >= 8 /\ Quiet \in Nat /\ Quiet >= 80

\* The bounds the instances are within.
LEMMA LinkBounds == Bounds
BY DriftAssumption, RuntAssumption, GapAssumption, QuietAssumption DEF Bounds

\* What happens to the line during a step.
Blows ==
  /\ runt' \in 0 .. RuntLen /\ gap' \in 0 .. Gap
  /\ \/ runt = 0 /\ runt' = 0 /\ gap' = (IF gap < Gap THEN gap + 1 ELSE gap)
     \/ runt = 0 /\ runt' = 1 /\ gap' = 0 /\ synced /\ AParked /\ gap = Gap
     \/ runt # 0 /\ runt' = runt + 1 /\ gap' = 0
     \/ runt # 0 /\ runt' = 0 /\ gap' = gap

\* A step does one of four things to the line.
LEMMA DisturbIs ==
  ASSUME LinkTyped, Disturb
  PROVE  Blows
<1>1. Bounds
  BY LinkBounds
<1>2. runt \in 0 .. RuntLen /\ gap \in 0 .. Gap
  BY DEF LinkTyped
<1>3. CASE runt = 0 /\ runt' = 0 /\ gap' = (IF gap < Gap THEN gap + 1 ELSE gap)
  BY <1>1, <1>2, <1>3 DEF Blows, Bounds
<1>4. CASE /\ (synced /\ runt = 0 /\ AParked /\ gap = Gap) \/ (runt # 0 /\ runt < RuntLen)
           /\ runt' = runt + 1
           /\ gap' = 0
  BY <1>1, <1>2, <1>4 DEF Blows, Bounds
<1>5. CASE runt # 0 /\ runt' = 0 /\ gap' = gap
  BY <1>1, <1>2, <1>5 DEF Blows, Bounds
<1> QED BY <1>3, <1>4, <1>5 DEF Disturb

\* The queue of bytes on their way.
Flows ==
  /\ ~Pulls /\ ~Pushes => due' = due
  /\ Pulls /\ ~Pushes /\ due = << >> => Len(due') = 1 /\ due'[1] = Head(a.tx)
  /\ Pulls /\ ~Pushes /\ Len(due) = 1 =>
       Len(due') = 2 /\ due'[1] = due[1] /\ due'[2] = Head(a.tx)
  /\ Pushes /\ ~Pulls /\ Len(due) = 1 => due' = << >>
  /\ Pushes /\ ~Pulls /\ Len(due) = 2 => Len(due') = 1 /\ due'[1] = due[2]
  /\ Pushes /\ Pulls /\ Len(due) = 1 => Len(due') = 1 /\ due'[1] = Head(a.tx)

\* A step adds what A pulled to the queue and drops what B pushed.
LEMMA DueIs ==
  ASSUME LinkTyped, Watch, synced', Pulls => Head(a.tx) \in Reg
  PROVE  Flows /\ due' \in Seq(Reg)
<1> DEFINE s == SubSeq(due, IF Pushes THEN 2 ELSE 1, Len(due))
           h == Head(a.tx)
<1>1. due \in Seq(Reg) /\ Len(due) \in Nat
  BY DEF LinkTyped
<1>2. due' = s \o (IF Pulls THEN <<h>> ELSE << >>)
  BY DEF Watch
<1>3. ~Pushes => s = due
  BY <1>1
<1>4. Pushes => s = SubSeq(due, 2, Len(due))
  OBVIOUS
<1>5. /\ Len(due) = 1 => SubSeq(due, 2, Len(due)) = << >>
      /\ Len(due) = 2 => /\ Len(SubSeq(due, 2, Len(due))) = 1
                         /\ SubSeq(due, 2, Len(due))[1] = due[2]
  <2>1. Len(due) = 1 => SubSeq(due, 2, Len(due)) = << >>
    BY SubSeqEmpty
  <2>2. ASSUME Len(due) = 2
        PROVE  Len(SubSeq(due, 2, 2)) = 1 /\ SubSeq(due, 2, 2)[1] = due[2]
    <3>5. 2 \in 1 .. Len(due)
      BY <2>2
    <3>6. due[2] \in Reg
      BY <1>1, <3>5
    <3>1. \A i \in 2 .. 2 : due[i] \in Reg
      BY <3>6
    <3>2. /\ Len(SubSeq(due, 2, 2)) = IF 2 <= 2 THEN 2 - 2 + 1 ELSE 0
          /\ \A i \in 1 .. 2 - 2 + 1 : SubSeq(due, 2, 2)[i] = due[2 + i - 1]
      BY <3>1, SubSeqProperties
    <3>3. 1 \in 1 .. 2 - 2 + 1 /\ 2 + 1 - 1 = 2
      OBVIOUS
    <3>4. SubSeq(due, 2, 2)[1] = due[2 + 1 - 1]
      BY <3>2, <3>3
    <3> QED BY <3>2, <3>3, <3>4
  <2> QED BY <2>1, <2>2
<1>6. SubSeq(due, 2, Len(due)) \in Seq(Reg)
  BY <1>1
<1>7. s \in Seq(Reg)
  BY <1>1, <1>3, <1>4, <1>6
<1> HIDE DEF s, h
<1>8. Pulls => h \in Reg
  BY DEF h
<1>9. s \o << >> = s
  BY <1>7
<1>10. ~Pulls => due' = s
  BY <1>2, <1>9
<1>11. Pulls => /\ due' = Append(s, h) /\ due' \in Seq(Reg)
                /\ Len(due') = Len(s) + 1 /\ due'[Len(s) + 1] = h
                /\ \A j \in 1 .. Len(s) : due'[j] = s[j]
  <2> SUFFICES ASSUME Pulls
               PROVE  /\ due' = Append(s, h) /\ due' \in Seq(Reg)
                      /\ Len(due') = Len(s) + 1 /\ due'[Len(s) + 1] = h
                      /\ \A j \in 1 .. Len(s) : due'[j] = s[j]
    OBVIOUS
  <2>1. s \o <<h>> = Append(s, h)
    BY <1>7, <1>8
  <2>2. due' = Append(s, h)
    BY <1>2, <2>1
  <2> QED BY <2>2, <1>7, <1>8
<1>12. due' \in Seq(Reg)
  BY <1>7, <1>10, <1>11
<1>13. ~Pulls /\ ~Pushes => due' = due
  BY <1>3, <1>10
<1>14. Pulls /\ ~Pushes /\ due = << >> => Len(due') = 1 /\ due'[1] = h
  <2>1. due = << >> => Len(due) = 0
    OBVIOUS
  <2> QED BY <1>3, <1>11, <2>1
<1>15. Pulls /\ ~Pushes /\ Len(due) = 1 => Len(due') = 2 /\ due'[1] = due[1] /\ due'[2] = h
  <2> SUFFICES ASSUME Pulls, ~Pushes, Len(due) = 1
               PROVE  Len(due') = 2 /\ due'[1] = due[1] /\ due'[2] = h
    OBVIOUS
  <2>1. Len(s) = 1 /\ s[1] = due[1]
    BY <1>3
  <2>2. Len(due') = Len(s) + 1 /\ due'[Len(s) + 1] = h
    BY <1>11
  <2>3. due'[1] = s[1]
    BY <1>11, <2>1
  <2> QED BY <2>1, <2>2, <2>3
<1>16. Pushes /\ ~Pulls /\ Len(due) = 1 => due' = << >>
  BY <1>4, <1>5, <1>10
<1>17. Pushes /\ ~Pulls /\ Len(due) = 2 => Len(due') = 1 /\ due'[1] = due[2]
  BY <1>4, <1>5, <1>10
<1>18. Pushes /\ Pulls /\ Len(due) = 1 => Len(due') = 1 /\ due'[1] = h
  <2>1. Len(<< >>) = 0
    OBVIOUS
  <2> QED BY <1>4, <1>5, <1>11, <2>1
<1> QED BY <1>12, <1>13, <1>14, <1>15, <1>16, <1>17, <1>18 DEF Flows, h

\* A step after which B is in step still.
Kept ==
  /\ Blows /\ Flows
  /\ run' /\ (was' <=> Line) /\ ~Overrun
  /\ Pulls => runt = 0 /\ gap = Gap

\* A's part and B's part of it.
AClock(t, t2) == AMoves(t, t2)
BClock(u, u2) == /\ BMoves(u, u2)
                 /\ (sync0' <=> was) \/ (sync0' <=> Line)
                 /\ sync1' <=> sync0

LinkTick(t, t2, u, u2) ==
  /\ t \in 0 .. 82 /\ u \in 0 .. 83 /\ SendsAt(a, t) /\ t2 \in 0 .. 84 /\ u2 \in 0 .. 83
  /\ LinkTyped /\ Kept /\ Bounds /\ (slipped => slips >= 1) /\ (runt # 0 => gap = 0)
  /\ AClock(t, t2) /\ BClock(u, u2)
  /\ slips' = (IF Pulls THEN 0 ELSE slips)
  /\ slipped' => slipped /\ a.delay_ctr # 0
  /\ slipped /\ a.delay_ctr # 0 => slipped'

\* A clock of both with nothing on its way.
LEMMA IdleClock ==
  ASSUME NEW t, NEW t2, NEW u, NEW u2, LinkTick(t, t2, u, u2), Idle(t, u)
  PROVE  InStep(t2, u2)'
<1>1. /\ runt \in 0 .. RuntLen /\ RuntLen \in 1 .. 4 /\ gap \in 0 .. Gap /\ Gap \in Nat /\ Gap >= 8
      /\ slips \in 0 .. MaxSlips /\ MaxSlips \in 0 .. 2 /\ (runt # 0 => gap = 0)
  BY DEF LinkTick, LinkTyped, Bounds
<1>2. t = 82 /\ a.delay_ctr = 0 /\ (Line <=> runt = 0) /\ (AParked <=> a.tx = << >>)
  <2>1. t = 82 /\ t \in 0 .. 84 /\ SendsAt(a, t) /\ LinkTyped
    BY DEF Idle, LinkTick
  <2> QED BY <2>1, ParkedAt, LineAt DEF LinkTyped
<1>3. /\ \/ t2 = 0 /\ Pulls /\ a.tx # << >> /\ Sends(a', 0, Head(a.tx))
         \/ t2 = 82 /\ ~Pulls
  BY <1>2 DEF LinkTick, AClock, AMoves
<1>4. /\ \/ u \in {0, 5} /\ sync1 /\ u2 = 0
         \/ u \in {0, 5} /\ ~sync1 /\ u2 = u + 1
         \/ u = 79 /\ u2 = 0
         \/ u \in 1 .. 4 /\ u2 = u + 1
         \/ u = 78 /\ u2 = 79
      /\ ~Pushes
  BY DEF LinkTick, BClock, BMoves, BNext, Idle
<1>5. ((sync0' <=> was) \/ (sync0' <=> Line)) /\ (sync1' <=> sync0) /\ (was' <=> Line) /\ run'
  BY DEF LinkTick, BClock, Kept
<1>6. ~slipped'
  BY <1>2 DEF LinkTick
<1>7. /\ \/ runt = 0 /\ runt' = 0 /\ gap' = (IF gap < Gap THEN gap + 1 ELSE gap)
         \/ runt = 0 /\ runt' = 1 /\ gap' = 0 /\ AParked /\ gap = Gap
         \/ runt # 0 /\ runt' = runt + 1 /\ gap' = 0
         \/ runt # 0 /\ runt' = 0 /\ gap' = gap
      /\ runt' \in 0 .. RuntLen
  BY DEF LinkTick, Kept, Blows
<1>8. CASE Pulls
  <2>1. runt = 0 /\ gap = Gap /\ slips' = 0
    BY <1>8 DEF LinkTick, Kept
  <2>2. runt' = 0
    BY <1>2, <1>3, <1>7, <1>8, <2>1
  <2>3. sync0 /\ sync1 /\ was /\ (u = 5 \/ u = 4 \/ u = 0 \/ u \in 78 .. 79)
    BY <1>1, <2>1 DEF Idle, Pulse
  <2>4. Len(due') = 1 /\ due'[1] = Head(a.tx)
    BY <1>4, <1>8 DEF LinkTick, Kept, Flows, Idle
  <2>5. sync0' /\ sync1' /\ was' /\ u2 \in {0, 5, 79}
    BY <1>2, <1>4, <1>5, <2>1, <2>3
  <2>6. Sends(a', 0, due'[1]) /\ t2 = 0
    BY <1>3, <1>8, <2>4
  <2>7. Coming(0, u2)'
    BY <2>2, <2>4, <2>5, <2>6, <1>6 DEF Coming, Lag
  <2> QED BY <2>6, <2>7, <1>5 DEF InStep
<1>9. CASE ~Pulls
  <2>1. t2 = 82 /\ slips' = slips /\ due' = << >>
    BY <1>3, <1>4, <1>9 DEF LinkTick, Kept, Flows, Idle
  <2>2. Pulse'
    BY <1>1, <1>2, <1>5, <1>7, <2>1 DEF Idle, Pulse
  <2>3. Idle(82, u2)'
    BY <1>1, <1>2, <1>4, <1>5, <1>7, <2>1, <2>2, SMTT(60) DEF Idle, Pulse
  <2> QED BY <2>1, <2>3, <1>5 DEF InStep
<1> QED BY <1>8, <1>9

\* Where A counts a delay at the beginning of a frame.
LEMMA DelayAt ==
  ASSUME a \in Machine, NEW t \in 0 .. 9, SendsAt(a, t)
  PROVE  a.delay_ctr # 0 <=> t \in 2 .. 8
<1>1. a.delay_ctr \in 0 .. 31
  BY LinkConstants DEF Machine
<1> QED BY <1>1 DEF SendsAt, SenderAt

\* A clock of both in A's stop bit.
LEMMA EndingClock ==
  ASSUME NEW t, NEW t2, NEW u, NEW u2, LinkTick(t, t2, u, u2), Ending(t, u)
  PROVE  InStep(t2, u2)'
<1>1. slips \in 0 .. MaxSlips /\ MaxSlips \in 0 .. 2
  BY DEF LinkTick, LinkTyped, Bounds
<1>2. t \in 79 .. 81 /\ t2 = t + 1 /\ ~Pulls /\ Line /\ ~AParked /\ runt = 0
  <2>1. t \in 79 .. 81 /\ t \in 0 .. 84 /\ SendsAt(a, t) /\ LinkTyped /\ runt = 0
    BY DEF Ending, LinkTick
  <2>4. t \in 74 .. 84 /\ t # 82
    BY <2>1
  <2>5. Line
    BY <2>1, <2>4, LineAt
  <2>2. Line /\ ~AParked
    BY <2>1, <2>4, <2>5, ParkedAt DEF LinkTyped
  <2>3. t2 = t + 1 /\ ~Pulls
    BY <2>1 DEF LinkTick, AClock, AMoves
  <2> QED BY <2>1, <2>2, <2>3
<1>3. /\ \/ u = 78 /\ u2 = 79
         \/ u = 79 /\ u2 = 0
      /\ ~Pushes
  <2>1. u = 78 \/ u = 79
    BY DEF Ending
  <2>2. BNext(u, u2) /\ (Pushes <=> u = 77 /\ ~Overrun)
    BY DEF LinkTick, BClock, BMoves
  <2>3. u = 78 => u2 = 79
    BY <2>2 DEF BNext
  <2>4. u = 79 => u2 = 0
    BY <2>2 DEF BNext
  <2> QED BY <2>1, <2>2, <2>3, <2>4
<1>4. sync0' /\ sync1' /\ was' /\ run'
  BY <1>2 DEF LinkTick, BClock, Kept, Ending
<1>5. runt' = 0 /\ slips' = slips /\ due' = << >>
  BY <1>2, <1>3 DEF LinkTick, Kept, Blows, Flows, Ending
<1>6. CASE t2 = 82
  <2>1. Idle(82, u2)'
    BY <1>3, <1>4, <1>5 DEF Idle, Pulse
  <2> QED BY <1>4, <1>6, <2>1 DEF InStep
<1>7. CASE t2 # 82
  <2>1. Ending(t2, u2)'
    BY <1>1, <1>2, <1>3, <1>4, <1>5, <1>7 DEF Ending
  <2> QED BY <1>2, <1>4, <2>1 DEF InStep
<1> QED BY <1>6, <1>7

\* A clock of both between the two beginnings of a frame.
LEMMA ComingClock ==
  ASSUME NEW t, NEW t2, NEW u, NEW u2, LinkTick(t, t2, u, u2), Coming(t, u)
  PROVE  InStep(t2, u2)'
<1>1. slips \in 0 .. MaxSlips /\ MaxSlips \in 0 .. 2
  BY DEF LinkTick, LinkTyped, Bounds
<1>2. /\ t \in 0 .. 6 /\ t2 = t + 1 /\ ~Pulls /\ (Line <=> t <= 1) /\ ~AParked /\ runt = 0
      /\ a.delay_ctr # 0 <=> t >= 2
      /\ \A v \in Reg : Sends(a, t, v) => Sends(a', t2, v)
  <2>1. t \in 0 .. 6 /\ t \in 0 .. 84 /\ t \in 0 .. 9 /\ SendsAt(a, t) /\ LinkTyped /\ runt = 0
    BY DEF Coming, LinkTick
  <2>5. t \in 0 .. 1 => Line
    BY <2>1, LineAt
  <2>6. t \in 2 .. 9 => ~Line
    BY <2>1, LineAt
  <2>8. t # 82
    BY <2>1
  <2>7. ~AParked
    BY <2>1, <2>8, ParkedAt DEF LinkTyped
  <2>2. (Line <=> t <= 1) /\ ~AParked
    BY <2>1, <2>5, <2>6, <2>7
  <2>3. t2 = t + 1 /\ ~Pulls /\ \A v \in Reg : Sends(a, t, v) => Sends(a', t2, v)
    BY <2>1 DEF LinkTick, AClock, AMoves
  <2>4. a.delay_ctr # 0 <=> t \in 2 .. 8
    BY <2>1, DelayAt DEF LinkTyped
  <2> QED BY <2>1, <2>2, <2>3, <2>4
<1>3. ((sync0' <=> was) \/ (sync0' <=> Line)) /\ (sync1' <=> sync0) /\ (was' <=> Line) /\ run'
  BY DEF LinkTick, BClock, Kept
<1>4. runt' = 0 /\ slips' = slips
  BY <1>2 DEF LinkTick, Kept, Blows
<1>5. slipped' <=> slipped /\ t >= 2
  BY <1>2 DEF LinkTick
<1>6. /\ Len(due) \in {1, 2}
      /\ Len(due) = 1 => due[1] \in Reg
      /\ Len(due) = 2 => due[1] \in Reg /\ due[2] \in Reg
  BY DEF LinkTick, LinkTyped, Coming
<1>7. CASE Len(due) = 1
  <2>1. /\ \/ u \in {0, 5} /\ sync1 /\ u2 = 0
           \/ u \in {0, 5} /\ ~sync1 /\ u2 = u + 1
           \/ u = 79 /\ u2 = 0
           \/ u = 78 /\ u2 = 79
        /\ ~Pushes
    <3>1. BNext(u, u2) /\ (Pushes <=> u = 77 /\ ~Overrun)
      BY DEF LinkTick, BClock, BMoves
    <3>2. u \in {0, 5, 78, 79}
      BY <1>7 DEF Coming
    <3> QED BY <3>1, <3>2 DEF BNext
  <2>2. due' = due
    BY <1>2, <2>1 DEF LinkTick, Kept, Flows
  <2>3. Sends(a', t2, due'[1]) /\ Len(due') = 1
    BY <1>2, <1>6, <1>7, <2>2 DEF Coming
  <2>4. CASE u2 = 1
    <3>1. u = 0 /\ ~sync1 /\ ~sync0 /\ ~was /\ t >= 4 - Lag /\ t <= 5 + Lag
      BY <2>1, <2>4 DEF Coming
    <3>7. Lag \in 0 .. 1
      BY DEF Lag
    <3>8. t >= 3
      BY <1>2, <3>1, <3>7
    <3>9. slipped' <=> slipped
      BY <1>2, <1>5, <3>8
    <3>2. Lag' = Lag /\ Lag \in 0 .. 1
      BY <3>7, <3>9 DEF Lag
    <3>3. ~sync0' /\ ~sync1' /\ ~was'
      BY <1>2, <1>3, <3>1, <3>2
    <3>4. ~Level(t2 - 1, due'[1])
      BY <1>2, <3>1, <3>2, Levels
    <3>5. Got(b', 1, due'[1])
      BY DEF Got, Taken8
    <3>6. Receiving(t2, 1)'
      BY <1>1, <1>2, <1>4, <2>3, <3>1, <3>2, <3>3, <3>4, <3>5 DEF Receiving
    <3> QED BY <1>2, <1>3, <2>4, <3>6 DEF InStep
  <2>5. CASE u2 # 1
    <3>1. u2 \in {0, 79} /\ (u2 = 0 => sync1 \/ u = 79)
      BY <2>1, <2>5 DEF Coming
    <3>2. Coming(t2, u2)'
      BY <1>2, <1>3, <1>4, <1>5, <2>1, <2>3, <3>1 DEF Coming, Lag
    <3> QED BY <1>2, <1>3, <3>2 DEF InStep
  <2> QED BY <2>4, <2>5
<1>8. CASE Len(due) = 2
  <2>1. u \in 76 .. 77 /\ (u = 76 => sync1) /\ Got(b, u, due[1]) /\ Sends(a, t, due[2])
    BY <1>2, <1>8 DEF Coming, Lag
  <2>2. CASE u = 76
    <3>1. u2 = 77 /\ ~Pushes
      BY <2>1, <2>2 DEF LinkTick, BClock, BMoves, BNext
    <3>2. due' = due
      BY <1>2, <3>1 DEF LinkTick, Kept, Flows
    <3>3. Got(b', 77, due[1])
      <4>1. \A k \in 0 .. 7 : u = 12 + 8 * k => (sync1 <=> k \in due[1])
        BY <2>2
      <4>2. u \in 1 .. 76 /\ u + 1 = 77
        BY <2>2
      <4> QED BY <2>1, <4>1, <4>2 DEF LinkTick, BClock, BMoves
    <3>4. Sends(a', t2, due[2])
      BY <1>2, <1>6, <1>8, <2>1
    <3>5. Coming(t2, 77)'
      BY <1>2, <1>3, <1>4, <1>5, <1>8, <2>2, <3>2, <3>3, <3>4 DEF Coming, Lag
    <3> QED BY <1>2, <1>3, <3>1, <3>5 DEF InStep
  <2>3. CASE u = 77
    <3>1. u2 = 78 /\ Pushes
      BY <2>3 DEF LinkTick, BClock, BMoves, BNext, Kept
    <3>2. Len(due') = 1 /\ due'[1] = due[2]
      BY <1>2, <1>8, <3>1 DEF LinkTick, Kept, Flows
    <3>3. Sends(a', t2, due'[1])
      BY <1>2, <1>6, <1>8, <2>1, <3>2
    <3>4. Coming(t2, 78)'
      BY <1>2, <1>3, <1>4, <1>5, <2>3, <3>2, <3>3 DEF Coming, Lag
    <3> QED BY <1>2, <1>3, <3>1, <3>4 DEF InStep
  <2> QED BY <2>1, <2>2, <2>3
<1> QED BY <1>6, <1>7, <1>8

\* What the numbers of Receiving say of the levels around it.
LEMMA Windows ==
  ASSUME NEW t \in 0 .. 82, NEW u \in 0 .. 83, Bounds, LinkTyped, slipped => slips >= 1,
         Receiving(t, u)
  PROVE  /\ u \in 5 .. 74 => /\ t \in u + 1 .. u + 7
                             /\ t - 1 \in u + 1 .. u + 7
         /\ u \in 1 .. 3 => t \in 4 .. 9
         /\ t \in 4 .. 82
<1>1. slips \in 0 .. MaxSlips /\ MaxSlips \in 0 .. 2 /\ Lag \in 0 .. 1
  BY DEF LinkTyped, Bounds, Lag
<1>2. /\ t <= 9 => u + 4 - Lag <= t /\ t <= u + 5 + Lag
      /\ t \in 10 .. 81 => u + 4 - slips <= t /\ t <= u + 5 + slips
      /\ t = 82 => u >= 77 - slips
      /\ u <= 3 => t <= 9
      /\ u \in 1 .. 77
  BY DEF Receiving
<1> QED BY <1>1, <1>2

\* A clock of both inside a frame: B samples every bit while it is on the line.
LEMMA ReceivingClock ==
  ASSUME NEW t, NEW t2, NEW u, NEW u2, LinkTick(t, t2, u, u2), Receiving(t, u)
  PROVE  InStep(t2, u2)'
<1>1. /\ slips \in 0 .. MaxSlips /\ MaxSlips \in 0 .. 2 /\ Lag \in 0 .. 1
      /\ gap \in 0 .. Gap /\ Gap \in Nat /\ Gap >= 8 /\ (runt # 0 => gap = 0)
      /\ runt \in 0 .. RuntLen /\ RuntLen \in 1 .. 4
      /\ slipped => slips >= 1
      /\ t \in 0 .. 82 /\ u \in 0 .. 83 /\ Lag <= slips
  BY DEF LinkTick, LinkTyped, Bounds, Lag
<1>2. /\ u \in 5 .. 74 => t \in u + 1 .. u + 7 /\ t - 1 \in u + 1 .. u + 7
      /\ u \in 1 .. 3 => t \in 4 .. 9
      /\ t \in 4 .. 82
  BY Windows DEF LinkTick
<1> DEFINE v == due[1]
<1>3. Len(due) = 1 /\ v \in Reg
  <2>1. due \in Seq(Reg) /\ Len(due) = 1
    BY DEF LinkTick, LinkTyped, Receiving
  <2>2. 1 \in 1 .. Len(due)
    BY <2>1
  <2> QED BY <2>1, <2>2
<1>4. /\ t <= 73 => (Line <=> Level(t, v))
      /\ t >= 74 => (Line <=> runt = 0)
      /\ AParked => t = 82
      /\ t = 82 => a.delay_ctr = 0
      /\ t <= 81 => runt = 0
  <2>1. t \in 0 .. 84 /\ SendsAt(a, t) /\ LinkTyped
    BY <1>1 DEF LinkTick
  <2>2. (AParked => t = 82) /\ (t = 82 => a.delay_ctr = 0)
    BY <2>1, ParkedAt DEF LinkTyped
  <2>3. t <= 81 => runt = 0
    BY DEF Receiving
  <2>4. t <= 73 => (Line <=> Level(t, v))
    <3>1. t <= 73 => Sends(a, t, v)
      BY DEF Receiving
    <3> QED BY <1>1, <2>1, <2>3, <3>1, LineAt
  <2>5. t >= 74 => (Line <=> runt = 0)
    <3>1. t >= 74 => t \in 74 .. 84
      BY <1>1
    <3> QED BY <2>1, <3>1, LineAt
  <2> QED BY <2>2, <2>3, <2>4, <2>5
<1>5. /\ \A j \in 2 .. 9 : ~Level(j, v)
      /\ \A j \in 74 .. 90 : Level(j, v)
      /\ \A k \in 0 .. 7 : \A j \in 10 + 8 * k .. 17 + 8 * k : Level(j, v) <=> k \in v
  BY Levels
<1> HIDE DEF v
<1>6. /\ \/ t = 82 /\ t2 = 0 /\ Pulls /\ Sends(a', 0, Head(a.tx))
         \/ t = 82 /\ t2 = 82 /\ ~Pulls
         \/ t \in 0 .. 81 /\ t2 = t + 1 /\ ~Pulls
      /\ t <= 72 => Sends(a', t2, v)
  <2>1. \/ t = 82 /\ t2 = 0 /\ Pulls /\ Sends(a', 0, Head(a.tx))
        \/ t = 82 /\ t2 = 82 /\ ~Pulls
        \/ t \in 0 .. 81 /\ t2 = t + 1 /\ ~Pulls /\ \A w \in Reg : Sends(a, t, w) => Sends(a', t2, w)
    BY <1>1 DEF LinkTick, AClock, AMoves
  <2>2. t <= 73 => Sends(a, t, v)
    BY DEF Receiving, v
  <2> QED BY <1>1, <1>3, <2>1, <2>2
<1>7. ((sync0' <=> was) \/ (sync0' <=> Line)) /\ (sync1' <=> sync0) /\ (was' <=> Line) /\ run'
  BY DEF LinkTick, BClock, Kept
<1>8. /\ \/ runt = 0 /\ runt' = 0 /\ gap' = (IF gap < Gap THEN gap + 1 ELSE gap)
         \/ runt = 0 /\ runt' = 1 /\ gap' = 0 /\ AParked /\ gap = Gap
         \/ runt # 0 /\ runt' = runt + 1 /\ gap' = 0
         \/ runt # 0 /\ runt' = 0 /\ gap' = gap
      /\ runt' \in 0 .. RuntLen
      /\ slips' = IF Pulls THEN 0 ELSE slips
      /\ Pulls => runt = 0 /\ gap = Gap
  BY DEF LinkTick, Kept, Blows
<1>9. /\ t = 82 => ~slipped'
      /\ t \in 4 .. 8 => Lag' = Lag
  <2>1. t = 82 => ~slipped'
    BY <1>4 DEF LinkTick
  <2>2. ASSUME t \in 4 .. 8 PROVE Lag' = Lag
    <3>1. t \in 0 .. 9 /\ t \in 2 .. 8 /\ SendsAt(a, t) /\ a \in Machine
      BY <2>2 DEF LinkTick, LinkTyped
    <3>2. a.delay_ctr # 0
      BY <3>1, DelayAt
    <3>3. slipped' <=> slipped
      BY <3>2 DEF LinkTick
    <3> QED BY <3>3 DEF Lag
  <2> QED BY <2>1, <2>2
<1>10. BNext(u, u2) /\ (Pushes <=> u = 77) /\ ~Overrun
  BY DEF LinkTick, BClock, BMoves, Kept
<1>11. /\ u \in 1 .. 77
       /\ u <= 4 => ~sync0
       /\ u <= 5 => ~sync1
       /\ u <= 75 => (was <=> Level(t, v)) \/ (was <=> Level(t - 1, v))
       /\ u \in 5 .. 75 => \E w \in u .. u + 6 : sync0 <=> Level(w, v)
       /\ u \in 6 .. 76 => \E w \in u - 1 .. u + 5 : sync1 <=> Level(w, v)
       /\ u >= 76 => Pulse /\ (t < 82 => sync0 /\ sync1 /\ was /\ runt = 0)
       /\ u = 76 => sync0 /\ sync1
       /\ runt # 0 => t = 82 /\ u >= 76
       /\ t <= 9 => u + 4 - Lag <= t /\ t <= u + 5 + Lag
       /\ t \in 10 .. 81 => u + 4 - slips <= t /\ t <= u + 5 + slips
       /\ t = 82 => u >= 77 - slips
       /\ u <= 3 => t <= 9
  BY DEF Receiving, v
<1>12. u # 77 => u2 = u + 1
  BY <1>10, <1>11 DEF BNext
<1>13. u # 77 => Got(b', u2, v)
  <2>1. ASSUME NEW k \in 0 .. 7, u = 12 + 8 * k PROVE sync1 <=> k \in v
    <3>1. PICK w \in u - 1 .. u + 5 : sync1 <=> Level(w, v)
      BY <1>11, <2>1
    <3>2. w \in 10 + 8 * k .. 17 + 8 * k
      BY <2>1
    <3> QED BY <1>5, <3>1, <3>2
  <2>2. Got(b, u, v)
    BY DEF Receiving, v
  <2>3. u # 77 => u \in 1 .. 76
    BY <1>11
  <2>4. u # 77 => Got(b', u + 1, v)
    BY <2>1, <2>2, <2>3 DEF LinkTick, BClock, BMoves
  <2> QED BY <1>12, <2>4
<1>14. /\ u # 77 /\ ~Pulls => Len(due') = 1 /\ due'[1] = v
       /\ u # 77 /\ Pulls => Len(due') = 2 /\ due'[1] = v /\ due'[2] = Head(a.tx)
       /\ u = 77 /\ ~Pulls => due' = << >>
       /\ u = 77 /\ Pulls => Len(due') = 1 /\ due'[1] = Head(a.tx)
  BY <1>3, <1>10 DEF LinkTick, Kept, Flows, v
<1>15. Pulls => slips' = 0 /\ ~slipped' /\ runt' = 0 /\ Line /\ u >= 75
  <2>1. Pulls => t = 82 /\ ~AParked
    <3>1. Pulls => t = 82 /\ a.tx # << >>
      BY <1>1 DEF LinkTick, AClock, AMoves
    <3>2. t \in 0 .. 84 /\ SendsAt(a, t) /\ LinkTyped
      BY <1>1 DEF LinkTick
    <3>3. AParked <=> t = 82 /\ a.tx = << >>
      BY <3>2, ParkedAt DEF LinkTyped
    <3> QED BY <3>1, <3>3
  <2> QED BY <1>1, <1>4, <1>8, <1>9, <1>11, <2>1
<1>16. Pulls => was /\ sync0
  <2>1. u >= 76 /\ Pulls => was /\ sync0
    BY <1>1, <1>8, <1>11 DEF Pulse
  <2>2. u = 75 /\ Pulls => was /\ sync0
    <3> SUFFICES ASSUME u = 75, Pulls PROVE was /\ sync0
      OBVIOUS
    <3>1. t = 82
      BY <1>6
    <3>2. was
      <4>1. 82 - 1 \in 74 .. 90 /\ 82 \in 74 .. 90
        OBVIOUS
      <4> QED BY <1>5, <1>11, <3>1, <4>1
    <3>3. PICK w \in 75 .. 75 + 6 : sync0 <=> Level(w, v)
      BY <1>11
    <3> QED BY <1>5, <3>2, <3>3
  <2> QED BY <1>15, <2>1, <2>2, <1>11
<1>17. CASE Pulls
  <2>1. was' /\ sync0' /\ sync1'
    BY <1>7, <1>15, <1>16, <1>17
  <2>2. t2 = 0 /\ Sends(a', 0, Head(a.tx))
    BY <1>6, <1>17
  <2>3. CASE u = 77
    <3>1. u2 = 78
      BY <1>10, <2>3 DEF BNext
    <3>2. Coming(0, 78)'
      BY <1>14, <1>15, <1>17, <2>1, <2>2, <2>3 DEF Coming, Lag
    <3> QED BY <1>7, <2>2, <3>1, <3>2 DEF InStep
  <2>4. CASE u # 77
    <3>1. u2 \in 76 .. 77
      BY <1>11, <1>12, <1>15, <1>17, <2>4
    <3>2. Coming(0, u2)'
      BY <1>13, <1>14, <1>15, <1>17, <2>1, <2>2, <2>4, <3>1 DEF Coming, Lag
    <3> QED BY <1>7, <2>2, <3>2 DEF InStep
  <2> QED BY <2>3, <2>4
<1>18. CASE ~Pulls /\ u = 77
  <2>1. u2 = 78 /\ due' = << >> /\ slips' = slips
    BY <1>8, <1>10, <1>14, <1>18 DEF BNext
  <2>2. CASE t = 82
    <3>1. t2 = 82
      BY <1>6, <1>18, <2>2
    <3>2. Pulse'
      BY <1>1, <1>4, <1>7, <1>8, <1>11, <1>18, <2>1, <2>2 DEF Pulse
    <3>3. Idle(82, 78)'
      BY <2>1, <3>2 DEF Idle
    <3> QED BY <1>7, <2>1, <3>1, <3>3 DEF InStep
  <2>3. CASE t # 82
    <3>1. t \in 79 .. 81 /\ t2 = t + 1 /\ sync0 /\ sync1 /\ was /\ runt = 0
      BY <1>1, <1>6, <1>11, <1>18, <2>3
    <3>2. sync0' /\ sync1' /\ was' /\ runt' = 0
      BY <1>4, <1>7, <1>8, <3>1
    <3>3. CASE t2 = 82
      <4>1. Idle(82, 78)'
        BY <2>1, <3>2 DEF Idle, Pulse
      <4> QED BY <1>7, <2>1, <3>3, <4>1 DEF InStep
    <3>4. CASE t2 # 82
      <4>1. Ending(t2, 78)'
        BY <1>1, <1>11, <1>18, <2>1, <3>1, <3>2, <3>4 DEF Ending
      <4> QED BY <1>7, <2>1, <3>1, <4>1 DEF InStep
    <3> QED BY <3>3, <3>4
  <2> QED BY <2>2, <2>3
<1>19. CASE ~Pulls /\ u \in 75 .. 76
  <2>1. u2 = u + 1 /\ slips' = slips /\ Len(due') = 1 /\ due'[1] = v /\ Got(b', u2, v)
    BY <1>8, <1>12, <1>13, <1>14, <1>19
  <2>2. t \in 77 .. 82 /\ (t2 = t + 1 \/ (t = 82 /\ t2 = 82)) /\ (Line <=> runt = 0)
    BY <1>1, <1>4, <1>6, <1>11, <1>19
  <2>3. t2 \in 78 .. 82
    BY <1>6, <1>19, <2>2
  <2>4. u = 75 => was /\ sync0 /\ runt = 0
    <3> SUFFICES ASSUME u = 75 PROVE was /\ sync0 /\ runt = 0
      OBVIOUS
    <3>1. was
      <4>1. t - 1 \in 74 .. 90 /\ t \in 74 .. 90
        BY <2>2
      <4> QED BY <1>5, <1>11, <4>1
    <3>2. PICK w \in 75 .. 75 + 6 : sync0 <=> Level(w, v)
      BY <1>11
    <3>3. w \in 74 .. 90
      BY <3>2
    <3>4. runt = 0
      BY <1>11
    <3> QED BY <1>5, <3>1, <3>2, <3>3, <3>4
  <2>5. u = 76 => sync0 /\ sync1 /\ Pulse /\ (t < 82 => was /\ runt = 0)
    BY <1>11
  <2>6. t < 82 => was /\ sync0 /\ runt = 0 /\ runt' = 0
    BY <1>4, <1>8, <1>19, <2>4, <2>5
  <2>7. Pulse'
    <3>1. CASE u = 75
      BY <1>1, <1>7, <1>8, <2>1, <2>2, <2>4, <3>1 DEF Pulse
    <3>2. CASE u = 76
      BY <1>1, <1>7, <1>8, <2>1, <2>2, <2>5, <3>2 DEF Pulse
    <3> QED BY <1>19, <3>1, <3>2
  <2>8. t2 < 82 => sync0' /\ sync1' /\ was' /\ runt' = 0
    BY <1>7, <2>2, <2>3, <2>6
  <2>9. u2 = 76 => sync0' /\ sync1' /\ Level(76, v)
    BY <1>5, <1>7, <1>19, <2>1, <2>2, <2>4
  <2>10. runt' # 0 => t2 = 82
    BY <1>4, <1>6, <1>8, <1>19, <2>2, <2>6
  <2>11. /\ t2 \in 10 .. 81 => u2 + 4 - slips <= t2 /\ t2 <= u2 + 5 + slips
         /\ t2 = 82 => u2 >= 77 - slips
    BY <1>1, <1>11, <1>19, <2>1, <2>2, <2>3
  <2>12. u2 \in 6 .. 76 => \E w \in u2 - 1 .. u2 + 5 : sync1' <=> Level(w, v)
    <3>1. u2 \in 6 .. 76 => 76 \in u2 - 1 .. u2 + 5 /\ (sync1' <=> Level(76, v))
      BY <1>19, <2>1, <2>9
    <3> QED BY <3>1
  <2>13. Receiving(t2, u2)'
    BY <1>1, <1>19, <2>1, <2>3, <2>7, <2>8, <2>9, <2>10, <2>11, <2>12 DEF Receiving
  <2> QED BY <1>7, <2>3, <2>13 DEF InStep
<1>20. CASE u \in 1 .. 74
  <2>1. /\ u2 = u + 1 /\ slips' = slips /\ Len(due') = 1 /\ due'[1] = v /\ Got(b', u2, v)
        /\ ~Pulls /\ t \in 4 .. 81 /\ t2 = t + 1 /\ runt = 0 /\ runt' = 0
    BY <1>1, <1>2, <1>4, <1>6, <1>8, <1>11, <1>12, <1>13, <1>14, <1>15, <1>20
  <2>2. Line <=> Level(t, v)
    <3>1. t \in 74 .. 81 => t \in 74 .. 90
      OBVIOUS
    <3> QED BY <1>4, <1>5, <2>1, <3>1
  <2>3. (sync0' <=> Level(t, v)) \/ (sync0' <=> Level(t - 1, v))
    BY <1>7, <1>11, <1>20, <2>2
  <2>4. u2 <= 4 => ~sync0'
    <3>1. u2 <= 4 => t \in 2 .. 9 /\ t - 1 \in 2 .. 9
      BY <1>2, <1>20, <2>1
    <3> QED BY <1>5, <2>3, <3>1
  <2>5. u2 <= 5 => ~sync1'
    BY <1>7, <1>11, <1>20, <2>1
  <2>6. (was' <=> Level(t2, v)) \/ (was' <=> Level(t2 - 1, v))
    BY <1>7, <2>1, <2>2
  <2>7. u2 \in 5 .. 75 => \E w \in u2 .. u2 + 6 : sync0' <=> Level(w, v)
    <3>1. u \in 4 .. 74 => t \in u + 1 .. u + 7 /\ t - 1 \in u + 1 .. u + 7
      BY <1>1, <1>2, <1>11, <2>1
    <3>2. u2 \in 5 .. 75 => t \in u2 .. u2 + 6 /\ t - 1 \in u2 .. u2 + 6
      BY <1>20, <2>1, <3>1
    <3> QED BY <2>3, <3>2
  <2>8. u2 \in 6 .. 76 => \E w \in u2 - 1 .. u2 + 5 : sync1' <=> Level(w, v)
    BY <1>7, <1>11, <1>20, <2>1
  <2>9. /\ t2 <= 9 => u2 + 4 - Lag' <= t2 /\ t2 <= u2 + 5 + Lag'
        /\ t2 \in 10 .. 81 => u2 + 4 - slips <= t2 /\ t2 <= u2 + 5 + slips
        /\ t2 = 82 => u2 >= 77 - slips
        /\ u2 <= 3 => t2 <= 9
    <3>1. t2 <= 9 => u2 + 4 - Lag' <= t2 /\ t2 <= u2 + 5 + Lag'
      BY <1>1, <1>9, <1>11, <1>20, <2>1
    <3>2. t2 \in 10 .. 81 => u2 + 4 - slips <= t2 /\ t2 <= u2 + 5 + slips
      BY <1>1, <1>11, <1>20, <2>1
    <3>3. t2 = 82 => u2 >= 77 - slips
      BY <1>1, <1>11, <1>20, <2>1
    <3>4. u2 <= 3 => t2 <= 9
      BY <1>1, <1>11, <1>20, <2>1
    <3> QED BY <3>1, <3>2, <3>3, <3>4
  <2>10. t2 <= 73 => Sends(a', t2, v)
    BY <1>6, <2>1
  <2>11. Receiving(t2, u2)'
    BY <1>20, <2>1, <2>4, <2>5, <2>6, <2>7, <2>8, <2>9, <2>10 DEF Receiving
  <2> QED BY <1>7, <2>1, <2>11 DEF InStep
<1>21. u \in 1 .. 74 \/ u \in 75 .. 76 \/ u = 77
  BY <1>11
<1> QED BY <1>17, <1>18, <1>19, <1>20, <1>21

\* A step in which the clocks slip: only A has a clock, or only B has.
SlipTick(t, u) ==
  /\ t \in 0 .. 82 /\ u \in 0 .. 83 /\ SendsAt(a, t)
  /\ LinkTyped /\ Kept /\ Bounds /\ (runt # 0 => gap = 0)
  /\ ~slipped /\ slipped' /\ slips < MaxSlips /\ slips' = slips + 1

SlipTickA(t, t2, u) ==
  /\ SlipTick(t, u) /\ t2 \in 0 .. 84 /\ AMoves(t, t2)
  /\ b' = b /\ (sync0' <=> sync0) /\ (sync1' <=> sync1)

SlipTickB(t, u, u2) ==
  /\ SlipTick(t, u) /\ u2 \in 0 .. 83 /\ BClock(u, u2)
  /\ a' = a /\ ~Pulls

\* A clock of A alone, or of B alone, with nothing on its way.
LEMMA IdleSlipA ==
  ASSUME NEW t, NEW t2, NEW u, SlipTickA(t, t2, u), Idle(t, u)
  PROVE  InStep(t2, u)'
<1>1. /\ runt \in 0 .. RuntLen /\ RuntLen \in 1 .. 4 /\ gap \in 0 .. Gap /\ Gap \in Nat /\ Gap >= 8
      /\ slips \in 0 .. 1 /\ slips' = slips + 1 /\ slipped' /\ (runt # 0 => gap = 0)
  BY DEF SlipTickA, SlipTick, LinkTyped, Bounds
<1>2. t = 82 /\ (Line <=> runt = 0) /\ (AParked <=> a.tx = << >>)
  <2>1. t = 82 /\ t \in 0 .. 84 /\ SendsAt(a, t) /\ LinkTyped
    BY DEF Idle, SlipTickA, SlipTick
  <2> QED BY <2>1, ParkedAt, LineAt DEF LinkTyped
<1>3. /\ \/ t2 = 0 /\ Pulls /\ a.tx # << >> /\ Sends(a', 0, Head(a.tx))
         \/ t2 = 82 /\ ~Pulls
      /\ ~Pushes
  BY <1>2 DEF SlipTickA, AMoves, Pushes
<1>4. (sync0' <=> sync0) /\ (sync1' <=> sync1) /\ (was' <=> Line) /\ run'
  BY DEF SlipTickA, SlipTick, Kept
<1>5. /\ \/ runt = 0 /\ runt' = 0 /\ gap' = (IF gap < Gap THEN gap + 1 ELSE gap)
         \/ runt = 0 /\ runt' = 1 /\ gap' = 0 /\ AParked /\ gap = Gap
         \/ runt # 0 /\ runt' = runt + 1 /\ gap' = 0
         \/ runt # 0 /\ runt' = 0 /\ gap' = gap
      /\ runt' \in 0 .. RuntLen
      /\ Pulls => runt = 0 /\ gap = Gap
  BY DEF SlipTickA, SlipTick, Kept, Blows
<1>6. CASE Pulls
  <2>1. runt = 0 /\ gap = Gap /\ runt' = 0
    BY <1>2, <1>3, <1>5, <1>6
  <2>2. sync0 /\ sync1 /\ was /\ u \in {0, 5, 78, 79}
    BY <1>1, <2>1 DEF Idle, Pulse
  <2>3. Len(due') = 1 /\ due'[1] = Head(a.tx)
    BY <1>3, <1>6 DEF SlipTickA, SlipTick, Kept, Flows, Idle
  <2>4. sync0' /\ sync1' /\ was'
    BY <1>2, <1>4, <2>1, <2>2
  <2>5. Sends(a', 0, due'[1]) /\ t2 = 0
    BY <1>3, <1>6, <2>3
  <2>6. Coming(0, u)'
    BY <1>1, <2>1, <2>2, <2>3, <2>4, <2>5 DEF Coming, Lag
  <2> QED BY <1>4, <2>5, <2>6 DEF InStep
<1>7. CASE ~Pulls
  <2>1. t2 = 82 /\ due' = << >>
    BY <1>3, <1>7 DEF SlipTickA, SlipTick, Kept, Flows, Idle
  <2>2. Pulse'
    BY <1>1, <1>2, <1>4, <1>5, <2>1 DEF Idle, Pulse
  <2>3. Idle(82, u)'
    BY <1>1, <1>2, <1>4, <1>5, <2>1, <2>2, SMTT(60) DEF Idle, Pulse
  <2> QED BY <1>4, <2>1, <2>3 DEF InStep
<1> QED BY <1>6, <1>7

\* A clock of B alone, with nothing on its way.
LEMMA IdleSlipB ==
  ASSUME NEW t, NEW u, NEW u2, SlipTickB(t, u, u2), Idle(t, u)
  PROVE  InStep(t, u2)'
<1>1. /\ runt \in 0 .. RuntLen /\ RuntLen \in 1 .. 4 /\ gap \in 0 .. Gap /\ Gap \in Nat /\ Gap >= 8
      /\ slips \in 0 .. 1 /\ slips' = slips + 1 /\ (runt # 0 => gap = 0)
  BY DEF SlipTickB, SlipTick, LinkTyped, Bounds
<1>2. t = 82 /\ (Line <=> runt = 0)
  <2>1. t = 82 /\ t \in 0 .. 84 /\ SendsAt(a, t) /\ LinkTyped
    BY DEF Idle, SlipTickB, SlipTick
  <2> QED BY <2>1, LineAt
<1>3. /\ \/ u \in {0, 5} /\ sync1 /\ u2 = 0
         \/ u \in {0, 5} /\ ~sync1 /\ u2 = u + 1
         \/ u = 79 /\ u2 = 0
         \/ u \in 1 .. 4 /\ u2 = u + 1
         \/ u = 78 /\ u2 = 79
      /\ ~Pushes
  BY DEF SlipTickB, BClock, BMoves, BNext, Idle
<1>4. ((sync0' <=> was) \/ (sync0' <=> Line)) /\ (sync1' <=> sync0) /\ (was' <=> Line) /\ run'
  BY DEF SlipTickB, SlipTick, BClock, Kept
<1>5. /\ \/ runt = 0 /\ runt' = 0 /\ gap' = (IF gap < Gap THEN gap + 1 ELSE gap)
         \/ runt = 0 /\ runt' = 1 /\ gap' = 0 /\ AParked /\ gap = Gap
         \/ runt # 0 /\ runt' = runt + 1 /\ gap' = 0
         \/ runt # 0 /\ runt' = 0 /\ gap' = gap
      /\ runt' \in 0 .. RuntLen
  BY DEF SlipTickB, SlipTick, Kept, Blows
<1>6. due' = << >>
  BY <1>3 DEF SlipTickB, SlipTick, Kept, Flows, Idle
<1>7. Pulse'
  BY <1>1, <1>2, <1>4, <1>5 DEF Idle, Pulse
<1>8. Idle(82, u2)'
  BY <1>1, <1>2, <1>3, <1>4, <1>5, <1>6, <1>7, SMTT(60) DEF Idle, Pulse
<1> QED BY <1>2, <1>4, <1>8 DEF InStep

\* The same in A's stop bit,
LEMMA EndingSlipA ==
  ASSUME NEW t, NEW t2, NEW u, SlipTickA(t, t2, u), Ending(t, u)
  PROVE  InStep(t2, u)'
<1>1. slips \in 0 .. 1 /\ slips' = slips + 1
  BY DEF SlipTickA, SlipTick, LinkTyped, Bounds
<1>2. t \in 79 .. 81 /\ t2 = t + 1 /\ ~Pulls /\ Line /\ ~AParked /\ runt = 0
  <2>1. t \in 79 .. 81 /\ t \in 0 .. 84 /\ SendsAt(a, t) /\ LinkTyped /\ runt = 0
    BY DEF Ending, SlipTickA, SlipTick
  <2>4. t \in 74 .. 84 /\ t # 82
    BY <2>1
  <2>5. Line
    BY <2>1, <2>4, LineAt
  <2>2. ~AParked
    BY <2>1, <2>4, ParkedAt DEF LinkTyped
  <2>3. t2 = t + 1 /\ ~Pulls
    BY <2>1 DEF SlipTickA, AMoves
  <2> QED BY <2>1, <2>2, <2>3, <2>5
<1>3. ~Pushes /\ sync0' /\ sync1' /\ was' /\ run'
  BY <1>2 DEF SlipTickA, SlipTick, Kept, Ending, Pushes
<1>4. runt' = 0 /\ due' = << >>
  BY <1>2, <1>3 DEF SlipTickA, SlipTick, Kept, Blows, Flows, Ending
<1>5. CASE t2 = 82
  <2>1. Idle(82, u)'
    BY <1>3, <1>4 DEF Idle, Pulse, Ending
  <2> QED BY <1>3, <1>5, <2>1 DEF InStep
<1>6. CASE t2 # 82
  <2>1. Ending(t2, u)'
    BY <1>1, <1>2, <1>3, <1>4, <1>6 DEF Ending
  <2> QED BY <1>2, <1>3, <2>1 DEF InStep
<1> QED BY <1>5, <1>6

\* A clock of B alone, in the stop bit of A.
LEMMA EndingSlipB ==
  ASSUME NEW t, NEW u, NEW u2, SlipTickB(t, u, u2), Ending(t, u)
  PROVE  InStep(t, u2)'
<1>1. slips \in 0 .. 1 /\ slips' = slips + 1
  BY DEF SlipTickB, SlipTick, LinkTyped, Bounds
<1>2. t \in 79 .. 81 /\ Line /\ ~AParked /\ runt = 0
  <2>1. t \in 79 .. 81 /\ t \in 0 .. 84 /\ SendsAt(a, t) /\ LinkTyped /\ runt = 0
    BY DEF Ending, SlipTickB, SlipTick
  <2>4. t \in 74 .. 84 /\ t # 82
    BY <2>1
  <2>5. Line
    BY <2>1, <2>4, LineAt
  <2>2. ~AParked
    BY <2>1, <2>4, ParkedAt DEF LinkTyped
  <2> QED BY <2>1, <2>2, <2>5
<1>3. u = 78 /\ ~Pushes /\ u2 = 79
  <2>1. BNext(u, u2) /\ (Pushes <=> u = 77 /\ ~Overrun)
    BY DEF SlipTickB, BClock, BMoves
  <2>2. u = 78
    BY <1>1, <1>2 DEF Ending
  <2> QED BY <2>1, <2>2 DEF BNext
<1>4. sync0' /\ sync1' /\ was' /\ run'
  BY <1>2 DEF SlipTickB, SlipTick, BClock, Kept, Ending
<1>5. runt' = 0 /\ due' = << >>
  BY <1>2, <1>3 DEF SlipTickB, SlipTick, Kept, Blows, Flows, Ending
<1>6. Ending(t, 79)'
  BY <1>1, <1>2, <1>3, <1>4, <1>5 DEF Ending
<1> QED BY <1>2, <1>3, <1>4, <1>6 DEF InStep

\* between the two beginnings of a frame,
LEMMA ComingSlipA ==
  ASSUME NEW t, NEW t2, NEW u, SlipTickA(t, t2, u), Coming(t, u)
  PROVE  InStep(t2, u)'
<1>1. slipped' /\ Lag = 0 /\ Lag' = 1
  BY DEF SlipTickA, SlipTick, Lag
<1>2. /\ t \in 0 .. 6 /\ t2 = t + 1 /\ ~Pulls /\ (Line <=> t <= 1) /\ ~AParked /\ runt = 0
      /\ \A v \in Reg : Sends(a, t, v) => Sends(a', t2, v)
  <2>1. t \in 0 .. 6 /\ t \in 0 .. 84 /\ SendsAt(a, t) /\ LinkTyped /\ runt = 0
    BY DEF Coming, SlipTickA, SlipTick
  <2>2. t \in 0 .. 1 => Line
    BY <2>1, LineAt
  <2>3. t \in 2 .. 9 => ~Line
    BY <2>1, LineAt
  <2>4. t # 82
    BY <2>1
  <2>5. ~AParked
    BY <2>1, <2>4, ParkedAt DEF LinkTyped
  <2>6. t2 = t + 1 /\ ~Pulls /\ \A v \in Reg : Sends(a, t, v) => Sends(a', t2, v)
    BY <2>1 DEF SlipTickA, AMoves
  <2> QED BY <2>1, <2>2, <2>3, <2>5, <2>6
<1>3. /\ (sync0' <=> sync0) /\ (sync1' <=> sync1) /\ (was' <=> Line) /\ run'
      /\ ~Pushes /\ b' = b
  BY DEF SlipTickA, SlipTick, Kept, Pushes
<1>4. runt' = 0 /\ due' = due
  BY <1>2, <1>3 DEF SlipTickA, SlipTick, Kept, Blows, Flows
<1>5. /\ Len(due) \in {1, 2}
      /\ Len(due) = 1 => due[1] \in Reg
      /\ Len(due) = 2 => due[1] \in Reg /\ due[2] \in Reg
  BY DEF SlipTickA, SlipTick, LinkTyped, Coming
<1>6. \/ Len(due) = 1 /\ u \in {0, 5, 78, 79} /\ Sends(a', t2, due[1])
      \/ Len(due) = 2 /\ u \in 76 .. 77 /\ Got(b, u, due[1]) /\ Sends(a', t2, due[2])
  BY <1>2, <1>5 DEF Coming
<1>7. /\ ~sync0 => ~was /\ t >= 2 /\ t >= 3
      /\ ~sync1 => ~sync0 /\ t >= 4
      /\ sync0 => t <= 3
      /\ sync1 => t <= 4
      /\ ~was => t >= 3
      /\ was => t <= 2
      /\ u = 0 => t <= 5
      /\ u = 5 => t <= 1 /\ sync0 /\ sync1 /\ t # 1
      /\ u >= 76 => (t = 1 => t <= u - 76) /\ (t >= 2 => t <= u - 75)
  <2>1. ~slipped
    BY DEF SlipTickA, SlipTick
  <2> QED BY <1>1, <2>1 DEF Coming
<1>8. t2 \in 0 .. 6
  BY <1>2, <1>6, <1>7
<1>9. /\ ~sync0' => ~was' /\ t2 >= 2 /\ t2 >= 3 - 1
      /\ ~sync1' => ~sync0' /\ t2 >= 4 - 1
      /\ sync0' => t2 <= 3 + 1
      /\ sync1' => t2 <= 4 + 1
      /\ ~was' => t2 >= 3 - 1
      /\ was' => t2 <= 2
      /\ u = 0 => t2 <= 5 + 1
      /\ u = 5 => t2 <= 1 /\ sync0' /\ sync1' /\ (t2 = 1 => slipped')
      /\ u >= 76 => (t2 = 1 => t2 <= u - 76 + 1) /\ (t2 >= 2 => t2 <= u - 75 + 1)
  <2>1. u \in {0, 5, 76, 77, 78, 79}
    BY <1>6
  <2> QED BY <1>1, <1>2, <1>3, <1>7, <2>1
<1>10. Coming(t2, u)'
  BY <1>1, <1>3, <1>4, <1>6, <1>8, <1>9 DEF Coming
<1> QED BY <1>3, <1>8, <1>10 DEF InStep

\* A clock of B alone, at the beginning of a frame.
LEMMA ComingSlipB ==
  ASSUME NEW t, NEW u, NEW u2, SlipTickB(t, u, u2), Coming(t, u)
  PROVE  InStep(t, u2)'
<1>1. /\ slipped' /\ Lag = 0 /\ Lag' = 1 /\ ~slipped /\ a' = a /\ ~Pulls
      /\ slips \in 0 .. 1 /\ slips' = slips + 1
  BY DEF SlipTickB, SlipTick, Lag, LinkTyped, Bounds
<1>2. t \in 0 .. 6 /\ (Line <=> t <= 1) /\ ~AParked /\ runt = 0
  <2>1. t \in 0 .. 6 /\ t \in 0 .. 84 /\ SendsAt(a, t) /\ LinkTyped /\ runt = 0
    BY DEF Coming, SlipTickB, SlipTick
  <2>2. t \in 0 .. 1 => Line
    BY <2>1, LineAt
  <2>3. t \in 2 .. 9 => ~Line
    BY <2>1, LineAt
  <2>4. t # 82
    BY <2>1
  <2>5. ~AParked
    BY <2>1, <2>4, ParkedAt DEF LinkTyped
  <2> QED BY <2>1, <2>2, <2>3, <2>5
<1>3. ((sync0' <=> was) \/ (sync0' <=> Line)) /\ (sync1' <=> sync0) /\ (was' <=> Line) /\ run'
  BY DEF SlipTickB, SlipTick, BClock, Kept
<1>4. runt' = 0
  BY <1>2 DEF SlipTickB, SlipTick, Kept, Blows
<1>5. BNext(u, u2) /\ (Pushes <=> u = 77) /\ ~Overrun
  BY DEF SlipTickB, SlipTick, BClock, BMoves, Kept
<1>6. /\ Len(due) \in {1, 2}
      /\ Len(due) = 1 => due[1] \in Reg
      /\ Len(due) = 2 => due[1] \in Reg /\ due[2] \in Reg
  BY DEF SlipTickB, SlipTick, LinkTyped, Coming
<1>7. /\ ~sync0 => ~was /\ t >= 2 /\ t >= 3
      /\ ~sync1 => ~sync0 /\ t >= 4
      /\ sync0 => t <= 3
      /\ sync1 => t <= 4
      /\ ~was => t >= 3
      /\ was => t <= 2
      /\ u = 0 => t <= 5
      /\ u = 5 => t <= 1 /\ sync0 /\ sync1 /\ t # 1
      /\ u >= 76 => (t = 1 => t <= u - 76) /\ (t >= 2 => t <= u - 75)
  BY <1>1 DEF Coming
<1>8. CASE Len(due) = 1
  <2>1. u \in {0, 5, 78, 79} /\ Sends(a', t, due[1])
    BY <1>1, <1>8 DEF Coming
  <2>2. due' = due
    BY <1>1, <1>5, <2>1 DEF SlipTickB, SlipTick, Kept, Flows
  <2>3. \/ u \in {0, 5} /\ sync1 /\ u2 = 0
        \/ u = 0 /\ ~sync1 /\ u2 = 1
        \/ u = 79 /\ u2 = 0
        \/ u = 78 /\ u2 = 79
    BY <1>5, <1>7, <2>1 DEF BNext
  <2>4. CASE u2 = 1
    <3>1. u = 0 /\ ~sync1 /\ ~sync0 /\ ~was /\ t >= 4 /\ t <= 5
      BY <1>7, <2>3, <2>4
    <3>2. ~sync0' /\ ~sync1' /\ ~was'
      BY <1>2, <1>3, <3>1
    <3>3. ~Level(t - 1, due'[1])
      BY <1>2, <3>1, Levels
    <3>4. Got(b', 1, due'[1])
      BY DEF Got, Taken8
    <3>5. Receiving(t, 1)'
      BY <1>1, <1>2, <1>4, <1>8, <2>1, <2>2, <3>1, <3>2, <3>3, <3>4 DEF Receiving
    <3> QED BY <1>2, <1>3, <2>4, <3>5 DEF InStep
  <2>5. CASE u2 # 1
    <3>1. u2 \in {0, 79}
      BY <2>3, <2>5
    <3>2. Coming(t, u2)'
      BY <1>1, <1>2, <1>3, <1>4, <1>7, <1>8, <2>1, <2>2, <2>3, <3>1 DEF Coming
    <3> QED BY <1>2, <1>3, <3>2 DEF InStep
  <2> QED BY <2>4, <2>5
<1>9. CASE Len(due) = 2
  <2>1. u \in 76 .. 77 /\ (u = 76 => sync1) /\ Got(b, u, due[1]) /\ Sends(a', t, due[2])
    BY <1>1, <1>2, <1>7, <1>9 DEF Coming
  <2>2. CASE u = 76
    <3>1. u2 = 77 /\ ~Pushes
      BY <1>5, <2>1, <2>2 DEF BNext
    <3>2. due' = due
      BY <1>1, <3>1 DEF SlipTickB, SlipTick, Kept, Flows
    <3>3. Got(b', 77, due[1])
      <4>1. \A k \in 0 .. 7 : u = 12 + 8 * k => (sync1 <=> k \in due[1])
        BY <2>2
      <4>2. u \in 1 .. 76 /\ u + 1 = 77
        BY <2>2
      <4> QED BY <2>1, <4>1, <4>2 DEF SlipTickB, BClock, BMoves
    <3>4. Coming(t, 77)'
      BY <1>1, <1>2, <1>3, <1>4, <1>7, <1>9, <2>1, <2>2, <3>2, <3>3 DEF Coming
    <3> QED BY <1>2, <1>3, <3>1, <3>4 DEF InStep
  <2>3. CASE u = 77
    <3>1. u2 = 78 /\ Pushes
      BY <1>5, <2>3 DEF BNext
    <3>2. Len(due') = 1 /\ due'[1] = due[2]
      BY <1>1, <1>9, <3>1 DEF SlipTickB, SlipTick, Kept, Flows
    <3>3. Coming(t, 78)'
      BY <1>1, <1>2, <1>3, <1>4, <1>7, <2>1, <2>3, <3>2 DEF Coming
    <3> QED BY <1>2, <1>3, <3>1, <3>3 DEF InStep
  <2> QED BY <2>1, <2>2, <2>3
<1> QED BY <1>6, <1>8, <1>9

\* Receiving, with the numbers and levels of a step in which the clocks slip.
Slipping(t, u, v) ==
  /\ v = due[1] /\ v \in Reg /\ Len(due) = 1
  /\ slips \in 0 .. 1 /\ slips' = slips + 1 /\ Lag = 0 /\ Lag' = 1
  /\ gap \in 0 .. Gap /\ Gap \in Nat /\ Gap >= 8 /\ (runt # 0 => gap = 0)
  /\ runt \in 0 .. RuntLen /\ RuntLen \in 1 .. 4
  /\ t \in 4 .. 82 /\ u \in 1 .. 77
  /\ t <= 73 => (Line <=> Level(t, v))
  /\ t >= 74 => (Line <=> runt = 0)
  /\ t \in 74 .. 81 => Line
  /\ AParked <=> t = 82 /\ a.tx = << >>
  /\ \A j \in 2 .. 9 : ~Level(j, v)
  /\ \A j \in 74 .. 90 : Level(j, v)
  /\ \A k \in 0 .. 7 : \A j \in 10 + 8 * k .. 17 + 8 * k : Level(j, v) <=> k \in v
  /\ \/ runt = 0 /\ runt' = 0 /\ gap' = (IF gap < Gap THEN gap + 1 ELSE gap)
     \/ runt = 0 /\ runt' = 1 /\ gap' = 0 /\ AParked /\ gap = Gap
     \/ runt # 0 /\ runt' = runt + 1 /\ gap' = 0
     \/ runt # 0 /\ runt' = 0 /\ gap' = gap
  /\ runt' \in 0 .. RuntLen
  /\ Pulls => runt = 0 /\ gap = Gap
  /\ u <= 4 => ~sync0
  /\ u <= 5 => ~sync1
  /\ u <= 75 => (was <=> Level(t, v)) \/ (was <=> Level(t - 1, v))
  /\ u \in 5 .. 75 => \E w \in u .. u + 6 : sync0 <=> Level(w, v)
  /\ u \in 6 .. 76 => \E w \in u - 1 .. u + 5 : sync1 <=> Level(w, v)
  /\ u >= 76 => Pulse /\ (t < 82 => sync0 /\ sync1 /\ was /\ runt = 0)
  /\ u = 76 => sync0 /\ sync1
  /\ runt # 0 => t = 82 /\ u >= 76
  /\ t <= 9 => u + 4 <= t /\ t <= u + 5
  /\ t \in 10 .. 81 => u + 4 - slips <= t /\ t <= u + 5 + slips
  /\ t = 82 => u >= 77 - slips
  /\ u <= 3 => t <= 9
  /\ Got(b, u, v)
  /\ t <= 73 => Sends(a, t, v)
  /\ (was' <=> Line) /\ run' /\ ~Overrun /\ slipped'

\* and inside it: where the two may be when their clocks slip,
LEMMA SlippingIs ==
  ASSUME NEW t, NEW u, SlipTick(t, u), Receiving(t, u)
  PROVE  Slipping(t, u, due[1])
<1> DEFINE v == due[1]
<1>1. /\ slips \in 0 .. 1 /\ slips' = slips + 1 /\ Lag = 0 /\ Lag' = 1
      /\ gap \in 0 .. Gap /\ Gap \in Nat /\ Gap >= 8 /\ (runt # 0 => gap = 0)
      /\ runt \in 0 .. RuntLen /\ RuntLen \in 1 .. 4 /\ t \in 0 .. 82 /\ u \in 0 .. 83
  BY DEF SlipTick, LinkTyped, Bounds, Lag
<1>2. t \in 4 .. 82
  BY Windows DEF SlipTick
<1>3. Len(due) = 1 /\ v \in Reg
  <2>1. due \in Seq(Reg) /\ Len(due) = 1
    BY DEF SlipTick, LinkTyped, Receiving
  <2>2. 1 \in 1 .. Len(due)
    BY <2>1
  <2> QED BY <2>1, <2>2
<1>4. /\ t <= 73 => (Line <=> Level(t, v))
      /\ t >= 74 => (Line <=> runt = 0)
      /\ AParked <=> t = 82 /\ a.tx = << >>
      /\ t \in 74 .. 81 => Line
  <2>1. t \in 0 .. 84 /\ SendsAt(a, t) /\ LinkTyped
    BY <1>1 DEF SlipTick
  <2>2. AParked <=> t = 82 /\ a.tx = << >>
    BY <2>1, ParkedAt DEF LinkTyped
  <2>3. t <= 81 => runt = 0
    BY DEF Receiving
  <2>4. t <= 73 => (Line <=> Level(t, v))
    <3>1. t <= 73 => Sends(a, t, v)
      BY DEF Receiving
    <3> QED BY <1>1, <2>1, <2>3, <3>1, LineAt
  <2>5. t >= 74 => (Line <=> runt = 0)
    <3>1. t >= 74 => t \in 74 .. 84
      BY <1>1
    <3> QED BY <2>1, <3>1, LineAt
  <2> QED BY <2>2, <2>3, <2>4, <2>5
<1>5. /\ \A j \in 2 .. 9 : ~Level(j, v)
      /\ \A j \in 74 .. 90 : Level(j, v)
      /\ \A k \in 0 .. 7 : \A j \in 10 + 8 * k .. 17 + 8 * k : Level(j, v) <=> k \in v
  BY Levels
<1>6. /\ \/ runt = 0 /\ runt' = 0 /\ gap' = (IF gap < Gap THEN gap + 1 ELSE gap)
         \/ runt = 0 /\ runt' = 1 /\ gap' = 0 /\ AParked /\ gap = Gap
         \/ runt # 0 /\ runt' = runt + 1 /\ gap' = 0
         \/ runt # 0 /\ runt' = 0 /\ gap' = gap
      /\ runt' \in 0 .. RuntLen
      /\ Pulls => runt = 0 /\ gap = Gap
      /\ (was' <=> Line) /\ run' /\ ~Overrun
  BY DEF SlipTick, Kept, Blows
<1>7. /\ u \in 1 .. 77
      /\ u <= 4 => ~sync0
      /\ u <= 5 => ~sync1
      /\ u <= 75 => (was <=> Level(t, v)) \/ (was <=> Level(t - 1, v))
      /\ u \in 5 .. 75 => \E w \in u .. u + 6 : sync0 <=> Level(w, v)
      /\ u \in 6 .. 76 => \E w \in u - 1 .. u + 5 : sync1 <=> Level(w, v)
      /\ u >= 76 => Pulse /\ (t < 82 => sync0 /\ sync1 /\ was /\ runt = 0)
      /\ u = 76 => sync0 /\ sync1
      /\ runt # 0 => t = 82 /\ u >= 76
      /\ t <= 9 => u + 4 - Lag <= t /\ t <= u + 5 + Lag
      /\ t \in 10 .. 81 => u + 4 - slips <= t /\ t <= u + 5 + slips
      /\ t = 82 => u >= 77 - slips
      /\ u <= 3 => t <= 9
      /\ Got(b, u, v)
      /\ t <= 73 => Sends(a, t, v)
  BY DEF Receiving
<1>8. slipped'
  BY DEF SlipTick
<1> HIDE DEF v
<1>9. t <= 9 => u + 4 <= t /\ t <= u + 5
  BY <1>1, <1>7
<1>10. v = due[1]
  BY DEF v
<1> QED
  BY <1>1, <1>2, <1>3, <1>4, <1>5, <1>6, <1>7, <1>8, <1>9, <1>10 DEF Slipping

\* when only A has a clock,
LEMMA ReceivingSlipA ==
  ASSUME NEW t, NEW t2, NEW u, SlipTickA(t, t2, u), Receiving(t, u)
  PROVE  InStep(t2, u)'
<1> DEFINE v == due[1]
<1>1. Slipping(t, u, v)
  BY SlippingIs DEF SlipTickA
<1>20. /\ slips \in 0 .. 1 /\ slips' = slips + 1 /\ Lag = 0 /\ Lag' = 1
       /\ gap \in 0 .. Gap /\ Gap \in Nat /\ Gap >= 8 /\ (runt # 0 => gap = 0)
       /\ runt \in 0 .. RuntLen /\ RuntLen \in 1 .. 4
       /\ t \in 4 .. 82 /\ u \in 1 .. 77
       /\ (was' <=> Line) /\ run' /\ ~Overrun /\ slipped' /\ v \in Reg
  BY <1>1 DEF Slipping
<1>21. /\ t <= 73 => (Line <=> Level(t, v))
       /\ t >= 74 => (Line <=> runt = 0)
       /\ t \in 74 .. 81 => Line
       /\ AParked <=> t = 82 /\ a.tx = << >>
  BY <1>1 DEF Slipping
<1>22. /\ \A j \in 2 .. 9 : ~Level(j, v)
       /\ \A j \in 74 .. 90 : Level(j, v)
       /\ \A k \in 0 .. 7 : \A j \in 10 + 8 * k .. 17 + 8 * k : Level(j, v) <=> k \in v
  BY <1>1 DEF Slipping
<1>23. /\ \/ runt = 0 /\ runt' = 0 /\ gap' = (IF gap < Gap THEN gap + 1 ELSE gap)
          \/ runt = 0 /\ runt' = 1 /\ gap' = 0 /\ AParked /\ gap = Gap
          \/ runt # 0 /\ runt' = runt + 1 /\ gap' = 0
          \/ runt # 0 /\ runt' = 0 /\ gap' = gap
       /\ runt' \in 0 .. RuntLen
       /\ Pulls => runt = 0 /\ gap = Gap
  BY <1>1 DEF Slipping
<1>24. /\ u <= 4 => ~sync0
       /\ u <= 5 => ~sync1
       /\ u <= 75 => (was <=> Level(t, v)) \/ (was <=> Level(t - 1, v))
       /\ u \in 5 .. 75 => \E w \in u .. u + 6 : sync0 <=> Level(w, v)
       /\ u \in 6 .. 76 => \E w \in u - 1 .. u + 5 : sync1 <=> Level(w, v)
       /\ u = 76 => sync0 /\ sync1
  BY <1>1 DEF Slipping
<1>25. /\ runt # 0 => t = 82 /\ u >= 76
       /\ u >= 76 => Pulse /\ (t < 82 => sync0 /\ sync1 /\ was /\ runt = 0)
       /\ t <= 9 => u + 4 <= t /\ t <= u + 5
       /\ t \in 10 .. 81 => u + 4 - slips <= t /\ t <= u + 5 + slips
       /\ t = 82 => u >= 77 - slips
       /\ u <= 3 => t <= 9
  BY <1>1 DEF Slipping
<1>26. Got(b, u, v) /\ (t <= 73 => Sends(a, t, v))
  BY <1>1 DEF Slipping
<1>2. /\ (sync0' <=> sync0) /\ (sync1' <=> sync1) /\ b' = b /\ ~Pushes
  BY DEF SlipTickA, Pushes
<1>3. Len(due) = 1
  BY DEF Receiving
<1>4. /\ ~Pulls => due' = due
      /\ Pulls => Len(due') = 2 /\ due'[1] = v /\ due'[2] = Head(a.tx)
  BY <1>2, <1>3 DEF SlipTickA, SlipTick, Kept, Flows
<1>5. /\ \/ t = 82 /\ t2 = 0 /\ Pulls /\ a.tx # << >> /\ Sends(a', 0, Head(a.tx))
         \/ t = 82 /\ t2 = 82 /\ ~Pulls
         \/ t \in 0 .. 81 /\ t2 = t + 1 /\ ~Pulls
      /\ t <= 72 => Sends(a', t2, v)
  <2>1. \/ t = 82 /\ t2 = 0 /\ Pulls /\ a.tx # << >> /\ Sends(a', 0, Head(a.tx))
        \/ t = 82 /\ t2 = 82 /\ ~Pulls
        \/ t \in 0 .. 81 /\ t2 = t + 1 /\ ~Pulls /\ \A w \in Reg : Sends(a, t, w) => Sends(a', t2, w)
    BY <1>20 DEF SlipTickA, AMoves
  <2>2. t <= 73 => Sends(a, t, v)
    BY DEF Receiving
  <2>3. v \in Reg /\ t \in 4 .. 82
    BY <1>20
  <2>4. t <= 72 => Sends(a', t2, v)
    <3>1. t <= 72 => t <= 73 /\ t # 82
      BY <2>3
    <3>2. t <= 72 => \A w \in Reg : Sends(a, t, w) => Sends(a', t2, w)
      BY <2>1, <3>1
    <3> QED BY <2>2, <2>3, <3>1, <3>2
  <2> QED BY <2>1, <2>4
<1> HIDE DEF v
<1>8. /\ Pulls => t = 82 /\ t2 = 0 /\ a.tx # << >>
      /\ ~Pulls => (t = 82 /\ t2 = 82) \/ (t <= 81 /\ t2 = t + 1)
  BY <1>20, <1>5
<1>6. CASE Pulls
  <2>1. t = 82 /\ t2 = 0 /\ runt = 0 /\ gap = Gap /\ u \in 76 .. 77 /\ ~AParked
    <3>1. t = 82 /\ t2 = 0 /\ a.tx # << >> /\ runt = 0 /\ gap = Gap
      BY <1>6, <1>8, <1>23
    <3>2. u \in 76 .. 77
      BY <1>20, <1>25, <3>1
    <3>3. ~AParked
      BY <1>21, <3>1
    <3> QED BY <3>1, <3>2, <3>3
  <2>2. sync0 /\ sync1
    BY <1>20, <1>25, <2>1 DEF Pulse
  <2>3. sync0' /\ sync1' /\ was' /\ runt' = 0 /\ run'
    BY <1>20, <1>21, <1>23, <1>2, <2>1, <2>2
  <2>4. Got(b', u, due'[1]) /\ Sends(a', 0, due'[2]) /\ Len(due') = 2
    BY <1>26, <1>2, <1>4, <1>5, <1>6, <2>1
  <2>5. Coming(0, u)'
    BY <1>20, <2>1, <2>3, <2>4 DEF Coming
  <2> QED BY <2>1, <2>3, <2>5 DEF InStep
<1>7. CASE ~Pulls
  <2>1. /\ due' = due /\ Len(due') = 1 /\ due'[1] = v /\ Got(b', u, v) /\ run'
        /\ t2 \in 5 .. 82 /\ (t2 <= 73 => Sends(a', t2, v))
    <3>1. due' = due /\ Len(due') = 1 /\ due'[1] = v
      BY <1>3, <1>4, <1>7 DEF v
    <3>2. Got(b', u, v) /\ run'
      BY <1>2, <1>20, <1>26
    <3>3. t2 \in 5 .. 82 /\ (t2 <= 73 => t <= 72)
      <4>1. t \in 4 .. 82
        BY <1>20
      <4>2. (t = 82 /\ t2 = 82) \/ (t <= 81 /\ t2 = t + 1)
        BY <1>7, <1>8
      <4> QED BY <4>1, <4>2
    <3> QED BY <1>5, <3>1, <3>2, <3>3
  <2>2. /\ t2 <= 9 => u + 4 - Lag' <= t2 /\ t2 <= u + 5 + Lag'
        /\ t2 \in 10 .. 81 => u + 4 - slips' <= t2 /\ t2 <= u + 5 + slips'
        /\ t2 = 82 => u >= 77 - slips'
        /\ u <= 3 => t2 <= 9
    BY <1>20, <1>25, <1>5, <1>7
  <2>3. /\ u <= 4 => ~sync0'
        /\ u <= 5 => ~sync1'
        /\ u \in 5 .. 75 => \E w \in u .. u + 6 : sync0' <=> Level(w, v)
        /\ u \in 6 .. 76 => \E w \in u - 1 .. u + 5 : sync1' <=> Level(w, v)
        /\ u = 76 => sync0' /\ sync1'
        /\ u \in 1 .. 77
    BY <1>20, <1>24, <1>2
  <2>4. u <= 75 => (was' <=> Level(t2, v)) \/ (was' <=> Level(t2 - 1, v))
    <3>1. u <= 75 => t <= 81
      BY <1>20, <1>25
    <3>2. t <= 81 => (Line <=> Level(t, v))
      <4>1. t \in 74 .. 81 => t \in 74 .. 90
        OBVIOUS
      <4>2. t \in 4 .. 82
        BY <1>20
      <4>3. t \in 74 .. 81 => Level(t, v)
        BY <1>22, <4>1
      <4> QED BY <1>21, <4>2, <4>3
    <3>3. t <= 81 => t2 - 1 = t /\ t2 = t + 1
      BY <1>20, <1>7, <1>8
    <3> QED BY <1>20, <3>1, <3>2, <3>3
  <2>5. runt' # 0 => t2 = 82 /\ u >= 76
    BY <1>20, <1>21, <1>23, <1>25, <1>5, <1>7
  <2>6. u >= 76 => Pulse' /\ (t2 < 82 => sync0' /\ sync1' /\ was' /\ runt' = 0)
    <3> SUFFICES ASSUME u >= 76
                 PROVE  Pulse' /\ (t2 < 82 => sync0' /\ sync1' /\ was' /\ runt' = 0)
      OBVIOUS
    <3>1. Pulse /\ (t < 82 => sync0 /\ sync1 /\ was /\ runt = 0) /\ t \in 75 .. 82
      BY <1>20, <1>25
    <3>2. (Line <=> runt = 0) /\ (t # 82 => runt' = 0)
      BY <1>20, <1>21, <1>23, <3>1
    <3>3. Pulse'
      BY <1>20, <1>21, <1>23, <1>2, <3>1, <3>2 DEF Pulse
    <3>4. t2 < 82 => sync0' /\ sync1' /\ was' /\ runt' = 0
      <4>1. t2 < 82 => t # 82 /\ runt = 0
        BY <1>5, <1>7, <3>1
      <4> QED BY <1>20, <1>2, <3>1, <3>2, <4>1
    <3> QED BY <3>3, <3>4
  <2>7. Receiving(t2, u)'
    BY <2>1, <2>2, <2>3, <2>4, <2>5, <2>6 DEF Receiving
  <2> QED BY <2>1, <2>7 DEF InStep
<1> QED BY <1>6, <1>7

\* and when only B has one.
LEMMA ReceivingSlipB ==
  ASSUME NEW t, NEW u, NEW u2, SlipTickB(t, u, u2), Receiving(t, u)
  PROVE  InStep(t, u2)'
<1> DEFINE v == due[1]
<1>1. Slipping(t, u, v)
  BY SlippingIs DEF SlipTickB
<1>20. /\ slips \in 0 .. 1 /\ slips' = slips + 1 /\ Lag = 0 /\ Lag' = 1
       /\ gap \in 0 .. Gap /\ Gap \in Nat /\ Gap >= 8 /\ (runt # 0 => gap = 0)
       /\ runt \in 0 .. RuntLen /\ RuntLen \in 1 .. 4
       /\ t \in 4 .. 82 /\ u \in 1 .. 77
       /\ (was' <=> Line) /\ run' /\ ~Overrun /\ slipped' /\ v \in Reg
  BY <1>1 DEF Slipping
<1>21. /\ t <= 73 => (Line <=> Level(t, v))
       /\ t >= 74 => (Line <=> runt = 0)
       /\ t \in 74 .. 81 => Line
       /\ AParked <=> t = 82 /\ a.tx = << >>
  BY <1>1 DEF Slipping
<1>22. /\ \A j \in 2 .. 9 : ~Level(j, v)
       /\ \A j \in 74 .. 90 : Level(j, v)
       /\ \A k \in 0 .. 7 : \A j \in 10 + 8 * k .. 17 + 8 * k : Level(j, v) <=> k \in v
  BY <1>1 DEF Slipping
<1>23. /\ \/ runt = 0 /\ runt' = 0 /\ gap' = (IF gap < Gap THEN gap + 1 ELSE gap)
          \/ runt = 0 /\ runt' = 1 /\ gap' = 0 /\ AParked /\ gap = Gap
          \/ runt # 0 /\ runt' = runt + 1 /\ gap' = 0
          \/ runt # 0 /\ runt' = 0 /\ gap' = gap
       /\ runt' \in 0 .. RuntLen
       /\ Pulls => runt = 0 /\ gap = Gap
  BY <1>1 DEF Slipping
<1>24. /\ u <= 4 => ~sync0
       /\ u <= 5 => ~sync1
       /\ u <= 75 => (was <=> Level(t, v)) \/ (was <=> Level(t - 1, v))
       /\ u \in 5 .. 75 => \E w \in u .. u + 6 : sync0 <=> Level(w, v)
       /\ u \in 6 .. 76 => \E w \in u - 1 .. u + 5 : sync1 <=> Level(w, v)
       /\ u = 76 => sync0 /\ sync1
  BY <1>1 DEF Slipping
<1>25. /\ runt # 0 => t = 82 /\ u >= 76
       /\ u >= 76 => Pulse /\ (t < 82 => sync0 /\ sync1 /\ was /\ runt = 0)
       /\ t <= 9 => u + 4 <= t /\ t <= u + 5
       /\ t \in 10 .. 81 => u + 4 - slips <= t /\ t <= u + 5 + slips
       /\ t = 82 => u >= 77 - slips
       /\ u <= 3 => t <= 9
  BY <1>1 DEF Slipping
<1>26. Got(b, u, v) /\ (t <= 73 => Sends(a, t, v))
  BY <1>1 DEF Slipping
<1>2. /\ (sync0' <=> was) \/ (sync0' <=> Line)
      /\ sync1' <=> sync0
      /\ a' = a /\ ~Pulls
  BY DEF SlipTickB, BClock
<1>3. BNext(u, u2) /\ (Pushes <=> u = 77 /\ ~Overrun)
  BY DEF SlipTickB, BClock, BMoves
<1>4. /\ u # 77 => due' = due
      /\ u = 77 => due' = << >>
  <2>1. Len(due) = 1
    BY DEF Receiving
  <2>2. Flows /\ ~Overrun
    BY DEF SlipTickB, SlipTick, Kept
  <2> QED BY <1>2, <1>3, <2>1, <2>2 DEF Flows
<1>5. u # 77 => u2 = u + 1
  <2>1. u \in 1 .. 77 /\ (u = 5 => ~sync1) /\ (u = 76 => sync1)
    BY <1>20, <1>24
  <2> QED BY <1>3, <2>1 DEF BNext
<1>6. u # 77 => Got(b', u2, v)
  <2>1. ASSUME NEW k \in 0 .. 7, u = 12 + 8 * k PROVE sync1 <=> k \in v
    <3>1. PICK w \in u - 1 .. u + 5 : sync1 <=> Level(w, v)
      BY <1>20, <1>24, <2>1
    <3>2. w \in 10 + 8 * k .. 17 + 8 * k
      BY <2>1
    <3> QED BY <1>22, <3>1, <3>2
  <2>2. Got(b, u, v)
    BY <1>26
  <2>3. u # 77 => u \in 1 .. 76
    BY <1>20
  <2>4. u # 77 => Got(b', u + 1, v)
    BY <2>1, <2>2, <2>3 DEF SlipTickB, BClock, BMoves
  <2> QED BY <1>5, <2>4
<1>7. v = due[1]
  OBVIOUS
<1> HIDE DEF v
<1>8. CASE u = 77
  <2>1. u2 = 78 /\ due' = << >> /\ run'
    BY <1>20, <1>3, <1>4, <1>8 DEF BNext
  <2>2. CASE t = 82
    <3>1. Pulse'
      BY <1>20, <1>21, <1>23, <1>25, <1>2, <1>8, <2>2 DEF Pulse
    <3>2. Idle(82, 78)'
      BY <2>1, <3>1 DEF Idle
    <3> QED BY <2>1, <2>2, <3>2 DEF InStep
  <2>3. CASE t # 82
    <3>1. t \in 79 .. 81 /\ t >= 78 + 4 - slips' /\ sync0' /\ sync1' /\ was' /\ runt' = 0
      <4>1. t \in 79 .. 81 /\ t >= 78 + 4 - slips' /\ t < 82 /\ u >= 76
        BY <1>20, <1>25, <1>8, <2>3
      <4>2. sync0 /\ sync1 /\ was /\ runt = 0
        BY <1>25, <4>1
      <4>3. Line /\ ~AParked
        BY <1>21, <4>1
      <4>4. sync0' /\ sync1' /\ was'
        BY <1>20, <1>2, <4>2, <4>3, Zenon
      <4>5. runt' = 0
        BY <1>23, <4>2, <4>3
      <4> QED BY <4>1, <4>4, <4>5
    <3>2. Ending(t, 78)'
      BY <2>1, <3>1 DEF Ending
    <3> QED BY <2>1, <3>1, <3>2 DEF InStep
  <2> QED BY <2>2, <2>3
<1>9. CASE u # 77
  <2>1. /\ u2 = u + 1 /\ Len(due') = 1 /\ due'[1] = v /\ Got(b', u2, v) /\ run'
        /\ u \in 1 .. 76 /\ u2 \in 2 .. 77 /\ t \in 4 .. 82 /\ (t <= 73 => Sends(a', t, v))
    <3>1. due' = due /\ u2 = u + 1 /\ Got(b', u2, v)
      BY <1>4, <1>5, <1>6, <1>9
    <3>2. Len(due') = 1 /\ due'[1] = v
      BY <1>7, <3>1 DEF Receiving
    <3>3. u \in 1 .. 76 /\ u2 \in 2 .. 77 /\ t \in 4 .. 82 /\ run'
      BY <1>9, <1>20, <3>1
    <3>4. t <= 73 => Sends(a', t, v)
      BY <1>2, <1>26
    <3> QED BY <3>1, <3>2, <3>3, <3>4
  <2>2. t <= 9 => u2 + 4 - Lag' <= t /\ t <= u2 + 5 + Lag'
    BY <1>20, <1>25, <2>1
  <2>3. t \in 10 .. 81 => u2 + 4 - slips' <= t /\ t <= u2 + 5 + slips'
    BY <1>20, <1>25, <2>1
  <2>4. /\ t = 82 => u2 >= 77 - slips'
        /\ u2 <= 3 => t <= 9
    BY <1>20, <1>25, <2>1
  <2>5. u <= 75 => (was' <=> Level(t, v)) /\ runt = 0 /\ runt' = 0
                   /\ ((sync0' <=> Level(t, v)) \/ (sync0' <=> Level(t - 1, v)))
    <3> SUFFICES ASSUME u <= 75
                 PROVE  (was' <=> Level(t, v)) /\ runt = 0 /\ runt' = 0
                        /\ ((sync0' <=> Level(t, v)) \/ (sync0' <=> Level(t - 1, v)))
      OBVIOUS
    <3>1. t <= 81 /\ runt = 0 /\ t \in 4 .. 82
      BY <1>20, <1>25
    <3>2. t \in 74 .. 81 => Level(t, v)
      <4>1. t \in 74 .. 81 => t \in 74 .. 90
        OBVIOUS
      <4> QED BY <1>22, <4>1
    <3>3. Line <=> Level(t, v)
      BY <1>21, <3>1, <3>2
    <3>4. runt' = 0
      BY <1>21, <1>23, <3>1
    <3> QED BY <1>20, <1>24, <1>2, <3>1, <3>3, <3>4
  <2>6. u2 <= 4 => ~sync0'
    <3>1. u2 <= 4 => t \in 2 .. 9 /\ t - 1 \in 2 .. 9 /\ u <= 75
      BY <1>20, <1>25, <2>1
    <3> QED BY <1>22, <2>5, <3>1
  <2>7. u2 <= 5 => ~sync1'
    BY <1>24, <1>2, <2>1
  <2>8. u2 \in 5 .. 75 => \E w \in u2 .. u2 + 6 : sync0' <=> Level(w, v)
    <3>1. u2 \in 5 .. 75 => t \in u2 .. u2 + 6 /\ t - 1 \in u2 .. u2 + 6 /\ u <= 75
      BY <1>20, <1>25, <2>1
    <3> QED BY <2>5, <3>1
  <2>9. u2 \in 6 .. 76 => \E w \in u2 - 1 .. u2 + 5 : sync1' <=> Level(w, v)
    BY <1>24, <1>2, <2>1
  <2>10. u2 <= 75 => (was' <=> Level(t, v)) \/ (was' <=> Level(t - 1, v))
    BY <2>1, <2>5
  <2>11. u = 75 => sync0' /\ sync1' /\ was' /\ was /\ runt = 0 /\ runt' = 0
    <3> SUFFICES ASSUME u = 75
                 PROVE  sync0' /\ sync1' /\ was' /\ was /\ runt = 0 /\ runt' = 0
      OBVIOUS
    <3>1. t \in 78 .. 82 /\ t - 1 \in 74 .. 90 /\ t \in 74 .. 90
      BY <1>20, <1>25
    <3>2. PICK w \in 75 .. 75 + 6 : sync0 <=> Level(w, v)
      BY <1>24
    <3>3. w \in 74 .. 90
      BY <3>2
    <3>4. sync0 /\ was
      <4>1. sync0
        BY <1>22, <3>2, <3>3
      <4>2. was
        BY <1>22, <1>24, <3>1
      <4> QED BY <4>1, <4>2
    <3>5. was' /\ runt = 0 /\ runt' = 0
      BY <1>22, <2>5, <3>1
    <3>6. sync0'
      BY <1>2, <1>20, <3>4, <3>5
    <3> QED BY <1>2, <3>4, <3>5, <3>6
  <2>12. u2 = 76 => sync0' /\ sync1'
    BY <2>1, <2>11
  <2>13. runt' # 0 => t = 82 /\ u2 >= 76
    <3>1. runt' # 0 => t = 82
      BY <1>21, <1>23, <1>25
    <3>2. t = 82 => u2 >= 76
      BY <1>20, <1>25, <2>1
    <3> QED BY <3>1, <3>2
  <2>14. u2 >= 76 => Pulse' /\ (t < 82 => sync0' /\ sync1' /\ was' /\ runt' = 0)
    <3>1. CASE u = 75
      BY <2>11, <3>1 DEF Pulse
    <3>2. CASE u = 76
      <4>1. t \in 78 .. 82 /\ (Line <=> runt = 0)
        <5>1. t \in 78 .. 82
          BY <1>20, <1>25, <3>2
        <5> QED BY <1>21, <5>1
      <4>2. Pulse'
        BY <1>20, <1>23, <1>25, <1>2, <3>2, <4>1 DEF Pulse
      <4>3. t < 82 => sync0' /\ sync1' /\ was' /\ runt' = 0
        <5>1. t < 82 => sync0 /\ sync1 /\ was /\ runt = 0 /\ ~AParked
          BY <1>21, <1>25, <3>2, <4>1
        <5>2. t < 82 => sync0' /\ sync1' /\ was'
          BY <1>2, <1>20, <4>1, <5>1
        <5> QED BY <1>23, <5>1, <5>2
      <4> QED BY <4>2, <4>3
    <3>3. u2 >= 76 => u = 75 \/ u = 76
      BY <2>1
    <3> QED BY <3>1, <3>2, <3>3
  <2>15. Receiving(t, u2)'
    BY <2>1, <2>2, <2>3, <2>4, <2>6, <2>7, <2>8, <2>9, <2>10, <2>12, <2>13, <2>14 DEF Receiving
  <2> QED BY <2>1, <2>15 DEF InStep
<1> QED BY <1>8, <1>9

-----------------------------------------------------------------------------
\* What a step of the clocks does to the line and to the ghosts.
Keeps ==
  /\ progA' = progA /\ progB' = progB /\ run' = run /\ unsent' = unsent
  /\ was' \in BOOLEAN /\ (was' <=> Line)
  /\ runt' \in 0 .. RuntLen /\ gap' \in 0 .. Gap
  /\ synced' \in BOOLEAN /\ calm' \in 0 .. Quiet /\ due' \in Seq(Reg)
  /\ runt' # 0 => gap' = 0
  /\ synced' => calm' = 0

\* Types and bookkeeping of a step of the clocks.
LEMMA PassesIs ==
  ASSUME LinkTyped, Passes, synced => calm = 0, Pulls => Head(a.tx) \in Reg
  PROVE  Keeps /\ Blows /\ (synced' => Flows)
<1>1. Bounds /\ Blows
  BY LinkBounds, DisturbIs DEF Passes
<1>2. synced \in BOOLEAN /\ calm \in 0 .. Quiet /\ Quiet \in Nat
  BY <1>1 DEF LinkTyped, Bounds
<1>3. Watch
  BY DEF Passes
<1>4. synced' \in BOOLEAN
  BY <1>3 DEF Watch
<1>5. (synced' => calm' = 0) /\ calm' \in 0 .. Quiet
  <2>1. calm' = 0 \/ (~synced' /\ ~Overrun /\ ~Pulls /\ calm' = calm + 1)
    BY <1>3 DEF Watch
  <2>2. ~synced' /\ ~Overrun /\ ~Pulls => calm # Quiet
    BY <1>3 DEF Watch
  <2>3. synced' => calm' = 0
    BY <1>3 DEF Watch
  <2> QED BY <1>2, <2>1, <2>2, <2>3
<1>6. due' \in Seq(Reg) /\ (synced' => Flows)
  <2>1. CASE synced'
    BY <1>3, <2>1, DueIs
  <2>2. CASE ~synced'
    BY <1>3, <2>2 DEF Watch
  <2> QED BY <2>1, <2>2
<1>7. runt' \in 0 .. RuntLen /\ gap' \in 0 .. Gap /\ (runt' # 0 => gap' = 0)
  BY <1>1 DEF Blows
<1>8. was' \in BOOLEAN /\ (was' <=> Line)
  BY DEF Passes, Line
<1>9. progA' = progA /\ progB' = progB /\ run' = run /\ unsent' = unsent
  BY DEF Passes
<1> QED BY <1>1, <1>4, <1>5, <1>6, <1>7, <1>8, <1>9 DEF Keeps

\* A step that leaves B in step.
LEMMA KeptIs ==
  ASSUME LinkTyped, Passes, synced, synced', run, synced => calm = 0,
         Pulls => Head(a.tx) \in Reg
  PROVE  Kept
<1>1. Keeps /\ Blows /\ Flows
  BY PassesIs
<1>2. ~Overrun /\ ~(Pulls /\ (runt # 0 \/ gap < Gap))
  BY DEF Passes, Watch
<1>3. gap \in 0 .. Gap /\ Gap \in Nat
  BY LinkBounds DEF LinkTyped, Bounds
<1>4. Pulls => runt = 0 /\ gap = Gap
  BY <1>2, <1>3
<1> QED BY <1>1, <1>2, <1>4 DEF Kept, Keeps

\* B out of step from now on.
LEMMA LosesStep ==
  ASSUME LinkTyped, Passes, synced, ~synced', run,
         NEW t2 \in 0 .. 84, NEW u2 \in 0 .. 83
  PROVE  Unsynced(t2, u2)'
<1>1. Watch /\ run'
  BY DEF Passes
<1>2. due' = << >>
  BY <1>1 DEF Watch
<1>3. Overrun \/ Pulls
  BY <1>1 DEF Watch
<1>4. calm' = 0
  BY <1>1, <1>3 DEF Watch
<1> QED BY <1>1, <1>2, <1>4 DEF Unsynced

\* The clocks before B is in step: nothing is too late or too early.
LEMMA UnsyncedTurns ==
  ASSUME LinkTyped, Passes, ~synced, ~synced', run,
         NEW t \in 0 .. 84, NEW t2 \in 0 .. 84, NEW u \in 0 .. 83, NEW u2 \in 0 .. 83,
         SendsAt(a, t), Unsynced(t, u), AMoves(t, t2), BNext(u, u2),
         sync0' <=> Line, sync1' <=> sync0
  PROVE  Unsynced(t2, u2)'
<1>1. Watch /\ Disturb /\ run' /\ (was' <=> Line)
  BY DEF Passes
<1>2. due' = << >>
  BY <1>1 DEF Watch
<1>3. CASE calm' = 0
  BY <1>1, <1>2, <1>3 DEF Unsynced
<1>4. CASE calm' # 0
  <2>1. ~Overrun /\ Line /\ ~Pulls /\ calm' = calm + 1
    BY <1>1, <1>4 DEF Watch
  <2>2. runt = 0
    BY <2>1 DEF Line
  <2>3. runt' = 0
    BY <1>1, <2>2 DEF Disturb
  <2>4. calm \in Nat
    BY LinkBounds DEF LinkTyped, Bounds
  <2>5. t \notin 2 .. 9
    BY <2>1, LineAt
  <2>6. /\ t >= 83 => calm <= t - 83
        /\ t \in 0 .. 2 => calm <= t
        /\ t \in 3 .. 81 => calm <= t - 3
        /\ u = 83 => calm = 0
        /\ u \in 1 .. 5 => calm <= u + 1
        /\ u \in 6 .. 79 => calm <= u - 4
        /\ u \in 80 .. 82 => calm <= u - 78
        /\ calm >= 1 => sync0
        /\ ~sync1 => calm <= 1
    BY <2>4 DEF Unsynced
  <2>7. /\ t2 >= 83 => calm + 1 <= t2 - 83
        /\ t2 \in 0 .. 2 => calm + 1 <= t2
        /\ t2 \in 3 .. 81 => calm + 1 <= t2 - 3
    <3>1. \/ t = 82 /\ t2 = 82
          \/ t = 83 /\ t2 = 84
          \/ t = 84 /\ t2 = 82
          \/ t \in 0 .. 81 /\ t2 = t + 1
      BY <2>1 DEF AMoves
    <3> QED BY <2>4, <2>5, <2>6, <3>1
  <2>8. /\ u2 = 83 => calm + 1 = 0
        /\ u2 \in 1 .. 5 => calm + 1 <= u2 + 1
        /\ u2 \in 6 .. 79 => calm + 1 <= u2 - 4
        /\ u2 \in 80 .. 82 => calm + 1 <= u2 - 78
    <3>1. \/ u2 = 0
          \/ u \in {0, 5} /\ ~sync1 /\ u2 = u + 1
          \/ u = 76 /\ u2 = 77
          \/ u = 76 /\ ~sync1 /\ u2 = 80
          \/ u = 77 /\ u2 = 78
          \/ u = 81 /\ u2 = 82
          \/ u = 81 /\ ~sync1 /\ u2 = 81
          \/ u \notin {0, 5, 76, 77, 79, 81, 82, 83} /\ u2 = u + 1
      BY <2>1 DEF BNext
    <3> QED BY <2>4, <2>6, <3>1
  <2>9. sync0' /\ was' /\ (calm + 1 >= 2 => sync1')
    BY <1>1, <2>1, <2>4, <2>6
  <2> QED BY <1>1, <1>2, <2>1, <2>3, <2>4, <2>7, <2>8, <2>9 DEF Unsynced
<1> QED BY <1>3, <1>4

\* After a line quiet for a whole frame B waits for a start bit.
LEMMA GetsInStep ==
  ASSUME LinkTyped, Passes, ~synced, synced', synced => calm = 0,
         NEW t \in 0 .. 84, NEW t2 \in 0 .. 84, NEW u \in 0 .. 83, NEW u2 \in 0 .. 83,
         SendsAt(a, t), Unsynced(t, u), AMoves(t, t2), BMoves(u, u2),
         sync0' <=> Line, sync1' <=> sync0
  PROVE  InStep(t2, u2)'
<1>1. Watch /\ Disturb /\ run' = run /\ (was' <=> Line)
  BY DEF Passes
<1>2. calm = Quiet /\ Quiet >= 80 /\ Quiet \in Nat
  BY <1>1, LinkBounds DEF Watch, Bounds
<1>3. t = 82 /\ u = 0
  BY <1>2 DEF Unsynced
<1>4. run /\ sync0 /\ sync1 /\ was /\ runt = 0 /\ due = << >>
  BY <1>2 DEF Unsynced
<1>5. Line
  <2>1. t \in 74 .. 84
    BY <1>3
  <2> QED BY <1>4, <2>1, LineAt
<1>6. runt' = 0 /\ run' /\ was' /\ sync0' /\ sync1'
  BY <1>1, <1>4, <1>5 DEF Disturb
<1>7. u2 = 0 /\ ~Pushes
  BY <1>3, <1>4 DEF BMoves, BNext
<1>8. CASE Pulls
  <2>1. t2 = 0 /\ Head(a.tx) \in Reg /\ Sends(a', 0, Head(a.tx))
    BY <1>3, <1>8 DEF AMoves
  <2>2. Flows
    BY <2>1, PassesIs
  <2>3. Len(due') = 1 /\ due'[1] = Head(a.tx)
    BY <1>4, <1>7, <1>8, <2>2 DEF Flows
  <2>4. Coming(0, 0)'
    BY <1>6, <2>1, <2>3 DEF Coming, Lag
  <2> QED BY <1>6, <1>7, <2>1, <2>4 DEF InStep
<1>9. CASE ~Pulls
  <2>1. t2 = 82
    BY <1>3, <1>9 DEF AMoves
  <2>2. Flows
    BY <1>9, PassesIs
  <2>3. due' = << >>
    BY <1>4, <1>7, <1>9, <2>2 DEF Flows
  <2>4. Idle(82, 0)'
    BY <1>6, <2>3 DEF Idle, Pulse
  <2> QED BY <1>6, <1>7, <2>1, <2>4 DEF InStep
<1> QED BY <1>8, <1>9

\* The invariant after a step of the clocks, from its parts.
LEMMA NextInv ==
  ASSUME LinkTyped, Keeps, a' \in Machine, b' \in Machine,
         sync0' \in BOOLEAN, sync1' \in BOOLEAN, slipped' \in BOOLEAN,
         slips' \in 0 .. MaxSlips, slipped' => slips' >= 1,
         NEW t2 \in 0 .. 84, NEW u2 \in 0 .. 83, SendsAt(a', t2), HearsAt(b', u2),
         synced' => InStep(t2, u2)', ~synced' => Unsynced(t2, u2)'
  PROVE  LinkInv'
<1>1. LinkTyped'
  BY DEF LinkTyped, Keeps
<1>2. (runt' # 0 => gap' = 0) /\ (synced' => calm' = 0)
  BY DEF Keeps
<1>3. IF synced' THEN InStep(t2, u2)' ELSE Unsynced(t2, u2)'
  BY <1>1 DEF LinkTyped
<1> QED BY <1>1, <1>2, <1>3 DEF LinkInv

\* What the invariant says of a moment.
AtMoment(t, u) ==
  /\ SendsAt(a, t) /\ HearsAt(b, u)
  /\ synced => InStep(t, u)
  /\ ~synced => Unsynced(t, u)

\* The invariant is about some moment of the two frames.
LEMMA HoldsAt ==
  ASSUME LinkInv
  PROVE  /\ LinkTyped /\ (slipped => slips >= 1) /\ (runt # 0 => gap = 0)
         /\ (synced => calm = 0)
         /\ \E t \in 0 .. 84 : \E u \in 0 .. 83 : AtMoment(t, u)
<1>1. LinkTyped /\ (slipped => slips >= 1) /\ (runt # 0 => gap = 0) /\ (synced => calm = 0)
  BY DEF LinkInv
<1>2. PICK t \in 0 .. 84 : SendsAt(a, t) /\
        \E u \in 0 .. 83 : HearsAt(b, u) /\
          IF synced THEN InStep(t, u) ELSE Unsynced(t, u)
  BY DEF LinkInv
<1>3. PICK u \in 0 .. 83 : HearsAt(b, u) /\ IF synced THEN InStep(t, u) ELSE Unsynced(t, u)
  BY <1>2
<1>4. AtMoment(t, u)
  BY <1>2, <1>3 DEF AtMoment
<1> QED BY <1>1, <1>4

\* A's part of a step.
LEMMA SenderGoes ==
  ASSUME LinkTyped, ClockA, NEW t \in 0 .. 84, SendsAt(a, t)
  PROVE  \E t2 \in 0 .. 84 : AMoves(t, t2) /\ (Pulls => t = 82 /\ Head(a.tx) \in Reg)
<1>1. progA = Slot(Uart8n1Tx) /\ a \in Machine
  BY DEF LinkTyped
<1>2. PICK t2 \in 0 .. 84 : AMoves(t, t2)
  BY <1>1, SenderTicks
<1>3. Pulls => t = 82 /\ Head(a.tx) \in Reg
  BY <1>2 DEF AMoves
<1> QED BY <1>2, <1>3

\* B's part of one.
LEMMA ReceiverGoes ==
  ASSUME LinkTyped, run, NEW seen \in Seen, ClockB(seen), NEW u \in 0 .. 83, HearsAt(b, u)
  PROVE  /\ \E u2 \in 0 .. 83 : BClock(u, u2)
         /\ sync0' \in BOOLEAN /\ sync1' \in BOOLEAN
         /\ ~synced => (sync0' <=> Line)
         /\ sync1' <=> sync0
<1>1. progB = Slot(Uart8n1Rx) /\ b \in Machine /\ sync0 \in BOOLEAN /\ was \in BOOLEAN
  BY DEF LinkTyped
<1>2. b' = Enabled(b, BNode, progB.csr, BSees) /\ sync0' = (run /\ seen) /\ sync1' = (run /\ sync0)
  BY DEF ClockB
<1>3. PICK u2 \in 0 .. 83 : BMoves(u, u2)
  BY <1>1, <1>2, ReceiverTicks
<1>4. (seen <=> was) \/ (seen <=> Line)
  BY DEF Seen
<1>5. ~synced => (seen <=> Line)
  BY DEF Seen
<1>6. (sync0' <=> seen) /\ (sync1' <=> sync0) /\ sync0' \in BOOLEAN /\ sync1' \in BOOLEAN
  BY <1>2
<1>7. BClock(u, u2)
  BY <1>3, <1>4, <1>6 DEF BClock
<1> QED BY <1>5, <1>6, <1>7

\* The three steps of the clocks keep the invariant.
LEMMA ClockHolds ==
  ASSUME LinkInv, Clock
  PROVE  LinkInv'
<1>1. /\ LinkTyped /\ (slipped => slips >= 1) /\ (runt # 0 => gap = 0) /\ (synced => calm = 0)
      /\ \E t \in 0 .. 84 : \E u \in 0 .. 83 : AtMoment(t, u)
  BY HoldsAt
<1>2. PICK t \in 0 .. 84 : \E u \in 0 .. 83 : AtMoment(t, u)
  BY <1>1
<1>3. PICK u \in 0 .. 83 : AtMoment(t, u)
  BY <1>2
<1>4. SendsAt(a, t) /\ HearsAt(b, u)
  BY <1>3 DEF AtMoment
<1>5. ClockA /\ Passes /\ (\E seen \in Seen : ClockB(seen))
  BY DEF Clock
<1>6. PICK t2 \in 0 .. 84 : AMoves(t, t2) /\ (Pulls => t = 82 /\ Head(a.tx) \in Reg)
  BY <1>1, <1>4, <1>5, SenderGoes
<1>7. Pulls => Head(a.tx) \in Reg
  BY <1>6
<1>8. PICK seen \in Seen : ClockB(seen)
  BY <1>5
<1>9. Keeps /\ Blows /\ (synced' => Flows)
  BY <1>1, <1>5, <1>7, PassesIs
<1>10. /\ slips' = (IF Pulls THEN 0 ELSE slips)
       /\ slipped' = (slipped /\ a.delay_ctr # 0)
  BY DEF Clock
<1>11. slipped' \in BOOLEAN /\ slips' \in 0 .. MaxSlips /\ (slipped' => slips' >= 1)
  <2>1. slipped' \in BOOLEAN
    BY <1>10
  <2>2. slips' \in 0 .. MaxSlips
    BY <1>1, <1>10, LinkBounds DEF LinkTyped, Bounds
  <2>3. Pulls => a.delay_ctr = 0
    BY <1>1, <1>4, <1>6, ParkedAt DEF LinkTyped
  <2> QED BY <1>1, <1>10, <2>1, <2>2, <2>3
<1>12. a' \in Machine /\ SendsAt(a', t2)
  BY <1>6 DEF AMoves
<1>13. CASE run
  <2>1. /\ \E u2 \in 0 .. 83 : BClock(u, u2)
        /\ sync0' \in BOOLEAN /\ sync1' \in BOOLEAN
        /\ ~synced => (sync0' <=> Line)
        /\ sync1' <=> sync0
    BY <1>1, <1>4, <1>8, <1>13, ReceiverGoes
  <2>2. PICK u2 \in 0 .. 83 : BClock(u, u2)
    BY <2>1
  <2>3. BMoves(u, u2)
    BY <2>2 DEF BClock
  <2>4. b' \in Machine /\ HearsAt(b', u2) /\ BNext(u, u2)
    BY <2>3 DEF BMoves
  <2>5. ASSUME synced, synced' PROVE InStep(t2, u2)'
    <3>1. Kept
      BY <1>1, <1>5, <1>7, <1>13, <2>5, KeptIs
    <3>2. InStep(t, u)
      BY <1>3, <2>5 DEF AtMoment
    <3>3. t \in 0 .. 82
      BY <3>2 DEF InStep
    <3>4. LinkTick(t, t2, u, u2)
      BY <1>1, <1>4, <1>6, <1>10, <2>2, <3>1, <3>3, LinkBounds DEF LinkTick, AClock
    <3> QED
      BY <3>2, <3>4, IdleClock, EndingClock, ComingClock, ReceivingClock DEF InStep
  <2>6. ASSUME synced, ~synced' PROVE Unsynced(t2, u2)'
    BY <1>1, <1>5, <1>13, <2>6, LosesStep
  <2>7. ASSUME ~synced, synced' PROVE InStep(t2, u2)'
    <3>1. Unsynced(t, u)
      BY <1>3, <2>7 DEF AtMoment
    <3> QED BY <1>1, <1>4, <1>5, <1>6, <2>1, <2>3, <2>7, <3>1, GetsInStep
  <2>8. ASSUME ~synced, ~synced' PROVE Unsynced(t2, u2)'
    <3>1. Unsynced(t, u)
      BY <1>3, <2>8 DEF AtMoment
    <3> QED BY <1>1, <1>4, <1>5, <1>6, <1>13, <2>1, <2>4, <2>8, <3>1, UnsyncedTurns
  <2>9. (synced' => InStep(t2, u2)') /\ (~synced' => Unsynced(t2, u2)')
    BY <2>5, <2>6, <2>7, <2>8
  <2> QED BY <1>1, <1>9, <1>11, <1>12, <2>1, <2>4, <2>9, NextInv
<1>14. CASE ~run
  <2>1. ~synced /\ Unsynced(t, u)
    BY <1>3, <1>14 DEF AtMoment, InStep
  <2>2. u = 83 /\ calm = 0
    BY <1>1, <1>14, <2>1, LinkBounds DEF Unsynced, LinkTyped, Bounds
  <2>3. b' = b /\ ~sync0' /\ ~sync1' /\ sync0' \in BOOLEAN /\ sync1' \in BOOLEAN
    BY <1>8, <1>14 DEF ClockB
  <2>4. ~synced'
    BY <1>5, <2>1, <2>2, LinkBounds DEF Passes, Watch, Bounds
  <2>5. due' = << >> /\ calm' = 0
    BY <1>5, <1>14, <2>4 DEF Passes, Watch
  <2>6. Unsynced(t2, 83)'
    BY <2>3, <2>5 DEF Unsynced
  <2>7. b' \in Machine /\ HearsAt(b', 83)
    BY <1>1, <1>4, <2>2, <2>3 DEF LinkTyped
  <2>8. (synced' => InStep(t2, 83)') /\ (~synced' => Unsynced(t2, 83)')
    BY <2>4, <2>6
  <2>9. LinkTyped /\ Keeps /\ 83 \in 0 .. 83 /\ t2 \in 0 .. 84
    BY <1>1, <1>9
  <2>10. sync0' \in BOOLEAN /\ sync1' \in BOOLEAN
    BY <2>3
  <2> QED BY <1>11, <1>12, <2>7, <2>8, <2>9, <2>10, NextInv
<1> QED BY <1>13, <1>14

\* A slip is one of those the bound allows.
LEMMA SlipIs ==
  ASSUME LinkTyped, Slips
  PROVE  /\ synced /\ ~slipped /\ slips < MaxSlips /\ slips' = slips + 1 /\ slipped'
         /\ slipped' \in BOOLEAN /\ slips' \in 0 .. MaxSlips /\ slips' >= 1
BY LinkBounds DEF LinkTyped, Slips, Bounds

\* A clock of A alone keeps the invariant.
LEMMA SlipAHolds ==
  ASSUME LinkInv, SlipA
  PROVE  LinkInv'
<1>1. /\ LinkTyped /\ (slipped => slips >= 1) /\ (runt # 0 => gap = 0) /\ (synced => calm = 0)
      /\ \E t \in 0 .. 84 : \E u \in 0 .. 83 : AtMoment(t, u)
  BY HoldsAt
<1>2. PICK t \in 0 .. 84 : \E u \in 0 .. 83 : AtMoment(t, u)
  BY <1>1
<1>3. PICK u \in 0 .. 83 : AtMoment(t, u)
  BY <1>2
<1>4. SendsAt(a, t) /\ HearsAt(b, u)
  BY <1>3 DEF AtMoment
<1>5. ClockA /\ Passes /\ Slips /\ b' = b /\ sync0' = sync0 /\ sync1' = sync1
  BY DEF SlipA
<1>6. PICK t2 \in 0 .. 84 : AMoves(t, t2) /\ (Pulls => t = 82 /\ Head(a.tx) \in Reg)
  BY <1>1, <1>4, <1>5, SenderGoes
<1>7. Pulls => Head(a.tx) \in Reg
  BY <1>6
<1>8. /\ synced /\ ~slipped /\ slips < MaxSlips /\ slips' = slips + 1 /\ slipped'
      /\ slipped' \in BOOLEAN /\ slips' \in 0 .. MaxSlips /\ slips' >= 1
  BY <1>1, <1>5, SlipIs
<1>9. Keeps
  BY <1>1, <1>5, <1>7, PassesIs
<1>10. InStep(t, u)
  BY <1>3, <1>8 DEF AtMoment
<1>11. run /\ t \in 0 .. 82
  BY <1>10 DEF InStep
<1>12. /\ a' \in Machine /\ SendsAt(a', t2) /\ b' \in Machine /\ HearsAt(b', u)
       /\ sync0' \in BOOLEAN /\ sync1' \in BOOLEAN
  BY <1>1, <1>4, <1>5, <1>6 DEF AMoves, LinkTyped
<1>13. ASSUME synced' PROVE InStep(t2, u)'
  <2>1. Kept
    BY <1>1, <1>5, <1>7, <1>8, <1>11, <1>13, KeptIs
  <2>2. SlipTickA(t, t2, u)
    BY <1>1, <1>4, <1>5, <1>6, <1>8, <1>11, <2>1, LinkBounds DEF SlipTickA, SlipTick
  <2> QED BY <1>10, <2>2, IdleSlipA, EndingSlipA, ComingSlipA, ReceivingSlipA DEF InStep
<1>14. ASSUME ~synced' PROVE Unsynced(t2, u)'
  BY <1>1, <1>5, <1>8, <1>11, <1>14, LosesStep
<1> QED BY <1>1, <1>8, <1>9, <1>12, <1>13, <1>14, NextInv

\* So does a clock of B alone.
LEMMA SlipBHolds ==
  ASSUME LinkInv, SlipB
  PROVE  LinkInv'
<1>1. /\ LinkTyped /\ (slipped => slips >= 1) /\ (runt # 0 => gap = 0) /\ (synced => calm = 0)
      /\ \E t \in 0 .. 84 : \E u \in 0 .. 83 : AtMoment(t, u)
  BY HoldsAt
<1>2. PICK t \in 0 .. 84 : \E u \in 0 .. 83 : AtMoment(t, u)
  BY <1>1
<1>3. PICK u \in 0 .. 83 : AtMoment(t, u)
  BY <1>2
<1>4. SendsAt(a, t) /\ HearsAt(b, u)
  BY <1>3 DEF AtMoment
<1>5. (\E seen \in Seen : ClockB(seen)) /\ Passes /\ Slips /\ a' = a
  BY DEF SlipB
<1>6. PICK seen \in Seen : ClockB(seen)
  BY <1>5
<1>7. ~Pulls
  BY <1>5 DEF Pulls
<1>8. /\ synced /\ ~slipped /\ slips < MaxSlips /\ slips' = slips + 1 /\ slipped'
      /\ slipped' \in BOOLEAN /\ slips' \in 0 .. MaxSlips /\ slips' >= 1
  BY <1>1, <1>5, SlipIs
<1>9. Keeps
  BY <1>1, <1>5, <1>7, PassesIs
<1>10. InStep(t, u)
  BY <1>3, <1>8 DEF AtMoment
<1>11. run /\ t \in 0 .. 82
  BY <1>10 DEF InStep
<1>12. /\ \E u2 \in 0 .. 83 : BClock(u, u2)
       /\ sync0' \in BOOLEAN /\ sync1' \in BOOLEAN
  BY <1>1, <1>4, <1>6, <1>11, ReceiverGoes
<1>13. PICK u2 \in 0 .. 83 : BClock(u, u2)
  BY <1>12
<1>14. a' \in Machine /\ SendsAt(a', t) /\ b' \in Machine /\ HearsAt(b', u2)
  BY <1>1, <1>4, <1>5, <1>13 DEF BClock, BMoves, LinkTyped
<1>15. ASSUME synced' PROVE InStep(t, u2)'
  <2>1. Kept
    BY <1>1, <1>5, <1>7, <1>8, <1>11, <1>15, KeptIs
  <2>2. SlipTickB(t, u, u2)
    BY <1>1, <1>4, <1>5, <1>7, <1>8, <1>11, <1>13, <2>1, LinkBounds DEF SlipTickB, SlipTick
  <2> QED BY <1>10, <2>2, IdleSlipB, EndingSlipB, ComingSlipB, ReceivingSlipB DEF InStep
<1>16. ASSUME ~synced' PROVE Unsynced(t, u2)'
  BY <1>1, <1>5, <1>8, <1>11, <1>16, LosesStep
<1> QED BY <1>1, <1>8, <1>9, <1>12, <1>14, <1>15, <1>16, NextInv

\* The hosts, and A's host in particular, change nothing a moment is about.
LEMMA Unheard ==
  ASSUME NEW t \in 0 .. 84, NEW u \in 0 .. 83, AtMoment(t, u),
         SendsAt(a', t), HearsAt(b', u),
         \A v : t # 82 /\ Sends(a, t, v) => Sends(a', t, v),
         \A v : Got(b, u, v) => Got(b', u, v),
         run => run', run' \in BOOLEAN, ~run => calm = 0, run \in BOOLEAN,
         UNCHANGED <<sync0, sync1, was, runt, gap, slipped, slips, ghost>>
  PROVE  AtMoment(t, u)'
<1>1. /\ sync0' = sync0 /\ sync1' = sync1 /\ was' = was /\ runt' = runt /\ gap' = gap
      /\ slipped' = slipped /\ slips' = slips
      /\ synced' = synced /\ calm' = calm /\ due' = due
  BY DEF ghost
<1>2. Pulse' <=> Pulse
  BY <1>1 DEF Pulse
<1>3. Lag' = Lag
  BY <1>1 DEF Lag
<1>4. ASSUME InStep(t, u) PROVE InStep(t, u)'
  <2>1. run' /\ t <= 82
    BY <1>4 DEF InStep
  <2>2. Idle(t, u) => Idle(t, u)'
    BY <1>1, <1>2 DEF Idle
  <2>3. Ending(t, u) => Ending(t, u)'
    BY <1>1 DEF Ending
  <2>4. Coming(t, u) => Coming(t, u)'
    <3> SUFFICES ASSUME Coming(t, u) PROVE Coming(t, u)'
      OBVIOUS
    <3>1. \/ Len(due) = 1 /\ u \in {0, 5, 78, 79} /\ Sends(a', t, due[1])
          \/ Len(due) = 2 /\ u \in 76 .. 77 /\ Got(b', u, due[1]) /\ Sends(a', t, due[2])
      BY DEF Coming
    <3> QED BY <1>1, <1>3, <3>1 DEF Coming
  <2>5. Receiving(t, u) => Receiving(t, u)'
    <3> SUFFICES ASSUME Receiving(t, u) PROVE Receiving(t, u)'
      OBVIOUS
    <3>1. Got(b', u, due[1]) /\ (t <= 73 => Sends(a', t, due[1]))
      BY DEF Receiving
    <3> QED BY <1>1, <1>2, <1>3, <3>1 DEF Receiving
  <2> QED BY <1>4, <2>1, <2>2, <2>3, <2>4, <2>5 DEF InStep
<1>5. ASSUME Unsynced(t, u) PROVE Unsynced(t, u)'
  BY <1>1, <1>5 DEF Unsynced
<1> QED BY <1>1, <1>4, <1>5 DEF AtMoment

\* The invariant from a moment it holds at.
LEMMA HoldsThen ==
  ASSUME LinkTyped', (slipped => slips >= 1)', (runt # 0 => gap = 0)', (synced => calm = 0)',
         NEW t \in 0 .. 84, NEW u \in 0 .. 83, AtMoment(t, u)'
  PROVE  LinkInv'
<1>1. IF synced' THEN InStep(t, u)' ELSE Unsynced(t, u)'
  BY DEF LinkTyped, AtMoment
<1> QED BY <1>1 DEF LinkInv, AtMoment

\* So do the steps of the hosts, and none.
LEMMA HostPushHolds ==
  ASSUME LinkInv, HostPush
  PROVE  LinkInv'
<1>1. /\ LinkTyped /\ (slipped => slips >= 1) /\ (runt # 0 => gap = 0) /\ (synced => calm = 0)
      /\ \E t \in 0 .. 84 : \E u \in 0 .. 83 : AtMoment(t, u)
  BY HoldsAt
<1>2. PICK t \in 0 .. 84 : \E u \in 0 .. 83 : AtMoment(t, u)
  BY <1>1
<1>3. PICK u \in 0 .. 83 : AtMoment(t, u)
  BY <1>2
<1>4. SendsAt(a, t) /\ HearsAt(b, u)
  BY <1>3 DEF AtMoment
<1>5. /\ AParked /\ unsent # << >> /\ a' = [a EXCEPT !.tx = <<Head(unsent)>>]
      /\ unsent' = Tail(unsent)
      /\ UNCHANGED <<progA, progB, b, run, sync0, sync1, was, runt, gap, slipped, slips, runts, ghost>>
  BY DEF HostPush
<1>6. t = 82
  BY <1>1, <1>4, <1>5, ParkedAt DEF LinkTyped
<1>7. a \in Machine /\ unsent \in Seq(Reg)
  BY <1>1 DEF LinkTyped
<1>8. Head(unsent) \in Reg /\ Tail(unsent) \in Seq(Reg)
  BY <1>5, <1>7
<1>9. <<Head(unsent)>> \in Queue
  <2>1. <<Head(unsent)>> \in Seq(Reg) /\ Len(<<Head(unsent)>>) = 1
    BY <1>8
  <2> QED BY <2>1, LinkConstants DEF Queue
<1>10. a' \in Machine
  BY <1>5, <1>7, <1>9 DEF Machine
<1>11. /\ a'.pc = a.pc /\ a'.delay_ctr = a.delay_ctr /\ a'.x = a.x /\ a'.out_pin = a.out_pin
       /\ a'.oe_reg = a.oe_reg /\ a'.out_reg = a.out_reg
  BY <1>5, <1>7 DEF Machine
<1>12. SendsAt(a', t)
  BY <1>4, <1>11 DEF SendsAt, SenderAt
<1>13. LinkTyped'
  BY <1>1, <1>5, <1>8, <1>10 DEF LinkTyped, ghost
<1>14. (slipped => slips >= 1)' /\ (runt # 0 => gap = 0)' /\ (synced => calm = 0)'
  BY <1>1, <1>5 DEF ghost
<1>15. ~run => calm = 0
  <2>1. ~run => Unsynced(t, u) /\ calm \in Nat
    BY <1>1, <1>3, LinkBounds DEF AtMoment, InStep, LinkTyped, Bounds
  <2> QED BY <2>1 DEF Unsynced
<1>16. AtMoment(t, u)'
  <2>1. run \in BOOLEAN /\ run' = run /\ b' = b
    BY <1>1, <1>5 DEF LinkTyped
  <2>2. UNCHANGED <<sync0, sync1, was, runt, gap, slipped, slips, ghost>>
    BY <1>5
  <2> QED BY <1>3, <1>4, <1>6, <1>12, <1>15, <2>1, <2>2, Unheard
<1> QED BY <1>13, <1>14, <1>16, HoldsThen

\* So does a byte popped from B.
LEMMA HostPopHolds ==
  ASSUME LinkInv, HostPop
  PROVE  LinkInv'
<1>1. /\ LinkTyped /\ (slipped => slips >= 1) /\ (runt # 0 => gap = 0) /\ (synced => calm = 0)
      /\ \E t \in 0 .. 84 : \E u \in 0 .. 83 : AtMoment(t, u)
  BY HoldsAt
<1>2. PICK t \in 0 .. 84 : \E u \in 0 .. 83 : AtMoment(t, u)
  BY <1>1
<1>3. PICK u \in 0 .. 83 : AtMoment(t, u)
  BY <1>2
<1>4. SendsAt(a, t) /\ HearsAt(b, u)
  BY <1>3 DEF AtMoment
<1>5. /\ Overrun /\ b' = [b EXCEPT !.rx = Tail(b.rx)]
      /\ UNCHANGED <<progA, progB, a, run, sync0, sync1, was, runt, gap, slipped, slips, runts,
                     unsent, ghost>>
  BY DEF HostPop
<1>6. b \in Machine /\ b.rx \in Seq(Reg) /\ Len(b.rx) = Depth
  BY <1>1, <1>5 DEF LinkTyped, Machine, Queue, Overrun
<1>7. b' \in Machine
  <2>1. Tail(b.rx) \in Seq(Reg) /\ Len(Tail(b.rx)) = Len(b.rx) - 1
    BY <1>6, LinkConstants
  <2>2. Tail(b.rx) \in Queue
    BY <1>6, <2>1, LinkConstants DEF Queue
  <2> QED BY <1>5, <1>6, <2>2 DEF Machine
<1>8. /\ b'.pc = b.pc /\ b'.delay_ctr = b.delay_ctr /\ b'.x = b.x /\ b'.in_pin = b.in_pin
      /\ b'.oe_reg = b.oe_reg /\ b'.isr = b.isr
  BY <1>5, <1>6 DEF Machine
<1>9. HearsAt(b', u) /\ \A v : Got(b, u, v) => Got(b', u, v)
  BY <1>4, <1>8 DEF HearsAt, ReceiverAt, Got
<1>10. LinkTyped'
  BY <1>1, <1>5, <1>7 DEF LinkTyped, ghost
<1>11. (slipped => slips >= 1)' /\ (runt # 0 => gap = 0)' /\ (synced => calm = 0)'
  BY <1>1, <1>5 DEF ghost
<1>12. AtMoment(t, u)'
  <2>1. run /\ run' = run /\ run' \in BOOLEAN /\ run \in BOOLEAN /\ a' = a
    BY <1>1, <1>5 DEF LinkTyped, Overrun
  <2>2. UNCHANGED <<sync0, sync1, was, runt, gap, slipped, slips, ghost>>
    BY <1>5
  <2> QED BY <1>3, <1>4, <1>9, <2>1, <2>2, Unheard
<1> QED BY <1>10, <1>11, <1>12, HoldsThen

\* So does the start of B, at any clock of A.
LEMMA HostStartHolds ==
  ASSUME LinkInv, HostStart
  PROVE  LinkInv'
<1>1. /\ LinkTyped /\ (slipped => slips >= 1) /\ (runt # 0 => gap = 0) /\ (synced => calm = 0)
      /\ \E t \in 0 .. 84 : \E u \in 0 .. 83 : AtMoment(t, u)
  BY HoldsAt
<1>2. PICK t \in 0 .. 84 : \E u \in 0 .. 83 : AtMoment(t, u)
  BY <1>1
<1>3. PICK u \in 0 .. 83 : AtMoment(t, u)
  BY <1>2
<1>4. SendsAt(a, t) /\ HearsAt(b, u)
  BY <1>3 DEF AtMoment
<1>5. /\ ~run /\ run' = TRUE
      /\ UNCHANGED <<progA, progB, a, b, sync0, sync1, was, runt, gap, slipped, slips, runts,
                     unsent, ghost>>
  BY DEF HostStart
<1>6. LinkTyped'
  BY <1>1, <1>5 DEF LinkTyped, ghost
<1>7. (slipped => slips >= 1)' /\ (runt # 0 => gap = 0)' /\ (synced => calm = 0)'
  BY <1>1, <1>5 DEF ghost
<1>8. calm = 0
  <2>1. Unsynced(t, u) /\ calm \in Nat
    BY <1>1, <1>3, <1>5, LinkBounds DEF AtMoment, InStep, LinkTyped, Bounds
  <2> QED BY <1>5, <2>1 DEF Unsynced
<1>9. AtMoment(t, u)'
  <2>1. run \in BOOLEAN /\ run' /\ run' \in BOOLEAN /\ a' = a /\ b' = b
    BY <1>1, <1>5 DEF LinkTyped
  <2>2. UNCHANGED <<sync0, sync1, was, runt, gap, slipped, slips, ghost>>
    BY <1>5
  <2> QED BY <1>3, <1>4, <1>8, <2>1, <2>2, Unheard
<1> QED BY <1>6, <1>7, <1>9, HoldsThen

\* So does a step that changes nothing.
LEMMA NothingHolds ==
  ASSUME LinkInv, UNCHANGED linkVars
  PROVE  LinkInv'
<1>1. /\ LinkTyped /\ (slipped => slips >= 1) /\ (runt # 0 => gap = 0) /\ (synced => calm = 0)
      /\ \E t \in 0 .. 84 : \E u \in 0 .. 83 : AtMoment(t, u)
  BY HoldsAt
<1>2. PICK t \in 0 .. 84 : \E u \in 0 .. 83 : AtMoment(t, u)
  BY <1>1
<1>3. PICK u \in 0 .. 83 : AtMoment(t, u)
  BY <1>2
<1>4. SendsAt(a, t) /\ HearsAt(b, u)
  BY <1>3 DEF AtMoment
<1>5. UNCHANGED <<progA, progB, a, b, run, sync0, sync1, was, runt, gap, slipped, slips, runts,
                  unsent, ghost>>
  BY DEF linkVars
<1>6. LinkTyped'
  BY <1>1, <1>5 DEF LinkTyped, ghost
<1>7. (slipped => slips >= 1)' /\ (runt # 0 => gap = 0)' /\ (synced => calm = 0)'
  BY <1>1, <1>5 DEF ghost
<1>8. ~run => calm = 0
  <2>1. ~run => Unsynced(t, u) /\ calm \in Nat
    BY <1>1, <1>3, LinkBounds DEF AtMoment, InStep, LinkTyped, Bounds
  <2> QED BY <2>1 DEF Unsynced
<1>9. AtMoment(t, u)'
  <2>1. run \in BOOLEAN /\ run' = run /\ a' = a /\ b' = b
    BY <1>1, <1>5 DEF LinkTyped
  <2>2. UNCHANGED <<sync0, sync1, was, runt, gap, slipped, slips, ghost>>
    BY <1>5
  <2> QED BY <1>3, <1>4, <1>8, <2>1, <2>2, Unheard
<1> QED BY <1>6, <1>7, <1>9, HoldsThen

\* Two chips out of reset satisfy it,
LEMMA LinkBegins == LinkInit => LinkInv
<1> SUFFICES ASSUME LinkInit PROVE LinkInv
  OBVIOUS
<1>1. LinkTyped
  <2>1. a \in Machine /\ b \in Machine
    BY ResetType DEF LinkInit
  <2>2. unsent \in Seq(Reg)
    BY MessagesAssumption DEF LinkInit
  <2>3. << >> \in Seq(Reg)
    OBVIOUS
  <2>4. /\ runt \in 0 .. RuntLen /\ gap \in 0 .. Gap
        /\ slips \in 0 .. MaxSlips /\ calm \in 0 .. Quiet
    BY LinkBounds DEF LinkInit, Bounds
  <2>5. /\ progA = Slot(Uart8n1Tx) /\ progB = Slot(Uart8n1Rx)
        /\ run \in BOOLEAN /\ sync0 \in BOOLEAN /\ sync1 \in BOOLEAN /\ was \in BOOLEAN
        /\ slipped \in BOOLEAN /\ synced \in BOOLEAN /\ due = << >>
    BY DEF LinkInit
  <2> QED BY <2>1, <2>2, <2>3, <2>4, <2>5 DEF LinkTyped
<1>2. SendsAt(a, 83)
  <2>1. /\ a.pc = 0 /\ a.delay_ctr = 0 /\ a.out_pin = 0 /\ a.oe_reg = {}
    BY DEF LinkInit, ResetMachine
  <2> QED BY <2>1 DEF SendsAt, SenderAt
<1>3. HearsAt(b, 83)
  <2>1. /\ b.pc = 0 /\ b.delay_ctr = 0 /\ b.in_pin = 0 /\ b.oe_reg = {}
    BY DEF LinkInit, ResetMachine
  <2> QED BY <2>1 DEF HearsAt, ReceiverAt
<1>4. Unsynced(83, 83) /\ ~synced
  BY DEF LinkInit, Unsynced
<1>5. (slipped => slips >= 1) /\ (runt # 0 => gap = 0) /\ (synced => calm = 0)
  BY DEF LinkInit
<1>6. 83 \in 0 .. 84 /\ 83 \in 0 .. 83
  OBVIOUS
<1>7. IF synced THEN InStep(83, 83) ELSE Unsynced(83, 83)
  BY <1>4
<1> QED BY <1>1, <1>2, <1>3, <1>5, <1>6, <1>7 DEF LinkInv

\* and every step keeps it.
LEMMA LinkGoesOn == LinkInv /\ [LinkNext]_linkVars => LinkInv'
<1> SUFFICES ASSUME LinkInv, [LinkNext]_linkVars PROVE LinkInv'
  OBVIOUS
<1>1. CASE Clock
  BY <1>1, ClockHolds
<1>2. CASE SlipA
  BY <1>2, SlipAHolds
<1>3. CASE SlipB
  BY <1>3, SlipBHolds
<1>4. CASE HostPush
  BY <1>4, HostPushHolds
<1>5. CASE HostPop
  BY <1>5, HostPopHolds
<1>6. CASE HostStart
  BY <1>6, HostStartHolds
<1>7. CASE UNCHANGED linkVars
  BY <1>7, NothingHolds
<1> QED BY <1>1, <1>2, <1>3, <1>4, <1>5, <1>6, <1>7 DEF LinkNext

\* Once B has seen a quiet line, its frame and A's stay within the slips of
\* each other, for every list of messages, any number of runts and any depth
\* of the FIFOs (uart_8n1_tx.toml, uart_8n1_rx.toml, project.v:81).
THEOREM LinkStaysInStep == LinkSpec => []LinkInv
<1>1. LinkInit => LinkInv
  BY LinkBegins
<1>2. LinkInv /\ [LinkNext]_linkVars => LinkInv'
  BY LinkGoesOn
<1> QED BY <1>1, <1>2, PTL DEF LinkSpec

\* Every register of both machines keeps to its width, and every bound of the
\* link to its range.
THEOREM LinkTypeCorrect == LinkSpec => []LinkTypeOK
<1>1. LinkInv => LinkTypeOK
  BY DEF LinkInv, LinkTyped, LinkTypeOK
<1> QED BY <1>1, LinkStaysInStep, PTL

\* What B does in a step, when it is in step.
LEMMA PushesTheByte ==
  ASSUME LinkInv, synced, \E seen \in Seen : ClockB(seen)
  PROVE  /\ 1 \in b'.out_reg => 1 \in b.out_reg
         /\ b'.rx # b.rx => due # << >> /\ b'.rx = Append(b.rx, Head(due))
<1>1. /\ LinkTyped
      /\ \E t \in 0 .. 84 : \E u \in 0 .. 83 : AtMoment(t, u)
  BY HoldsAt
<1>2. PICK t \in 0 .. 84 : \E u \in 0 .. 83 : AtMoment(t, u)
  BY <1>1
<1>3. PICK u \in 0 .. 83 : AtMoment(t, u)
  BY <1>2
<1>4. HearsAt(b, u) /\ InStep(t, u)
  BY <1>3 DEF AtMoment
<1>5. run
  BY <1>4 DEF InStep
<1>6. PICK seen \in Seen : ClockB(seen)
  OBVIOUS
<1>7. PICK u2 \in 0 .. 83 : BClock(u, u2)
  BY <1>1, <1>4, <1>5, <1>6, ReceiverGoes
<1>8. BMoves(u, u2)
  BY <1>7 DEF BClock
<1>9. u # 80
  BY <1>4 DEF InStep, Idle, Ending, Coming, Receiving
<1>10. 1 \in b'.out_reg => 1 \in b.out_reg
  BY <1>8, <1>9 DEF BMoves
<1>11. ASSUME b'.rx # b.rx PROVE due # << >> /\ b'.rx = Append(b.rx, Head(due))
  <2>1. u = 77 /\ b'.rx = Append(b.rx, b.isr)
    BY <1>8, <1>11 DEF BMoves, Pushes
  <2>2. Len(due) \in {1, 2} /\ Got(b, 77, due[1])
    BY <1>4, <2>1 DEF InStep, Idle, Ending, Coming, Receiving
  <2>3. due \in Seq(Reg) /\ b.isr \in Reg
    BY <1>1 DEF LinkTyped, Machine
  <2>4. due # << >> /\ Head(due) = due[1] /\ due[1] \in Reg
    BY <2>2, <2>3
  <2>5. b.isr = due[1]
    BY <2>2, <2>3, <2>4, ByteTaken
  <2> QED BY <2>1, <2>4, <2>5
<1> QED BY <1>10, <1>11

\* The invariant forbids a step that pushes what is not due or raises the flag.
LEMMA NothingFalse ==
  ASSUME LinkInv, [LinkNext]_linkVars, synced
  PROVE  /\ 1 \in b'.out_reg => 1 \in b.out_reg
         /\ b'.rx # b.rx /\ Len(b'.rx) > Len(b.rx) =>
              due # << >> /\ b'.rx = Append(b.rx, Head(due))
<1>1. CASE \E seen \in Seen : ClockB(seen)
  BY <1>1, PushesTheByte
<1>2. CASE b' = b
  BY <1>2
<1>3. CASE HostPop
  <2>1. b \in Machine /\ b.rx \in Seq(Reg) /\ Len(b.rx) = Depth
    BY <1>3 DEF LinkInv, LinkTyped, Machine, Queue, HostPop, Overrun
  <2>2. b'.rx = Tail(b.rx) /\ b'.out_reg = b.out_reg
    BY <1>3, <2>1 DEF HostPop, Machine
  <2>3. Len(Tail(b.rx)) = Len(b.rx) - 1
    BY <2>1, LinkConstants
  <2>4. ~(Len(b'.rx) > Len(b.rx))
    BY <2>1, <2>2, <2>3, LinkConstants
  <2> QED BY <2>2, <2>4
<1>4. (\E seen \in Seen : ClockB(seen)) \/ b' = b \/ HostPop
  BY DEF LinkNext, Clock, SlipA, SlipB, HostPush, HostStart, linkVars
<1> QED BY <1>1, <1>2, <1>3, <1>4

\* What B pushes while in step is the oldest byte A pulled that B has not
\* pushed, for every list of messages, whatever the drift, the runts and the
\* moment B was started (uart_8n1_rx.toml).
THEOREM NoFalseByteEver == LinkSpec => NoFalseByte
<1>1. LinkInv /\ [LinkNext]_linkVars =>
        [synced /\ b'.rx # b.rx /\ Len(b'.rx) > Len(b.rx) =>
           due # << >> /\ b'.rx = Append(b.rx, Head(due))]_linkVars
  BY NothingFalse
<1> QED BY <1>1, LinkStaysInStep, PTL DEF LinkSpec, NoFalseByte

\* And it raises no frame error while in step (uart_8n1_rx.toml).
THEOREM NoFalseAlarmEver == LinkSpec => NoFalseAlarm
<1>1. LinkInv /\ [LinkNext]_linkVars =>
        [synced /\ 1 \in b'.out_reg => 1 \in b.out_reg]_linkVars
  BY NothingFalse
<1> QED BY <1>1, LinkStaysInStep, PTL DEF LinkSpec, NoFalseAlarm
=============================================================================
