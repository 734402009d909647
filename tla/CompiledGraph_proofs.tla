------------------------ MODULE CompiledGraph_proofs ------------------------
(***************************************************************************)
(* The compiler is right, for every plan, every input and every width of   *)
(* the registers: the program is, on every clock, where the graph is.      *)
(***************************************************************************)
EXTENDS CompiledGraph, Sm_proofs, SequenceTheorems

-----------------------------------------------------------------------------
\* What the compiler makes of a plan it accepts, for every plan: where the
\* instruction of each step and its pads lie, that every field fits, and that
\* the decoder gets back what was encoded.

\* A sum that is built up step by step exists as a function.
LEMMA RunningSum ==
  ASSUME NEW d, NEW n \in Nat
  PROVE  \E f : f = [k \in 1 .. n + 1 |-> IF k = 1 THEN 0 ELSE f[k - 1] + 1 + d[k - 1]]
<1> DEFINE Has(i, f) ==
             f = [k \in 1 .. i + 1 |-> IF k = 1 THEN 0 ELSE f[k - 1] + 1 + d[k - 1]]
           S == {i \in Nat : \E f : Has(i, f)}
<1>1. 0 \in S
  <2>1. Has(0, [k \in 1 .. 1 |-> 0])
    OBVIOUS
  <2> QED BY <2>1
<1>2. ASSUME NEW i \in S PROVE i + 1 \in S
  <2>1. PICK f : Has(i, f)
    OBVIOUS
  <2> DEFINE h == [k \in 1 .. i + 2 |-> IF k = 1 THEN 0 ELSE f[k - 1] + 1 + d[k - 1]]
  <2>2. ASSUME NEW k \in 1 .. i + 2, k # 1 PROVE h[k - 1] = f[k - 1]
    <3>1. k - 1 \in 1 .. i + 1 /\ k - 1 \in 1 .. i + 2
      BY <2>2
    <3>2. f[k - 1] = IF k - 1 = 1 THEN 0 ELSE f[k - 1 - 1] + 1 + d[k - 1 - 1]
      BY <2>1, <3>1
    <3> QED BY <3>1, <3>2
  <2>3. h = [k \in 1 .. i + 2 |-> IF k = 1 THEN 0 ELSE h[k - 1] + 1 + d[k - 1]]
    <3> HIDE DEF h
    <3>1. \A k \in 1 .. i + 2 : (IF k = 1 THEN 0 ELSE f[k - 1] + 1 + d[k - 1])
                              = (IF k = 1 THEN 0 ELSE h[k - 1] + 1 + d[k - 1])
      BY <2>2
    <3> QED BY <3>1 DEF h
  <2>4. Has(i + 1, h)
    <3>1. i + 1 + 1 = i + 2
      OBVIOUS
    <3> HIDE DEF h
    <3> QED BY <2>3, <3>1
  <2>5. i + 1 \in Nat
    OBVIOUS
  <2> HIDE DEF Has, h
  <2> QED BY <2>4, <2>5
<1>3. S = Nat
  <2>1. S \in SUBSET Nat
    OBVIOUS
  <2> HIDE DEF S
  <2> QED BY <1>1, <1>2, <2>1, SetInduction
<1> QED BY <1>3

LEMMA LabelsExist ==
  ASSUME NEW p, Len(p.steps) \in Nat, DOMAIN p.steps = 1 .. Len(p.steps)
  PROVE  Labels(p) = [k \in 1 .. Len(p.steps) + 1 |->
           IF k = 1 THEN 0 ELSE Labels(p)[k - 1] + 1 + Pads(p, p.steps[k - 1])]
<1> DEFINE d == [j \in DOMAIN p.steps |-> Pads(p, p.steps[j])]
           n == Len(p.steps)
           Has(f) == f = [k \in 1 .. n + 1 |->
             IF k = 1 THEN 0 ELSE f[k - 1] + 1 + Pads(p, p.steps[k - 1])]
<1>1. PICK f : f = [k \in 1 .. n + 1 |-> IF k = 1 THEN 0 ELSE f[k - 1] + 1 + d[k - 1]]
  <2> HIDE DEF d
  <2> QED BY RunningSum
<1>2. Has(f)
  <2>1. \A k \in 1 .. n + 1 : k # 1 => d[k - 1] = Pads(p, p.steps[k - 1])
    OBVIOUS
  <2> HIDE DEF d
  <2> QED BY <1>1, <2>1
<1>3. Labels(p) = CHOOSE f1 : Has(f1)
  BY DEF Labels
<1> HIDE DEF Has
<1>4. Has(Labels(p))
  BY <1>2, <1>3
<1> QED BY <1>4 DEF Has

-----------------------------------------------------------------------------
\* A plan after it was read: the types of its fields, and the inputs of a
\* jump are labels.
Input == [kind : {"label", "step_ref", "literal"}, value : STRING]
Step == [name : STRING, function : STRING, inputs : Seq(Input), delay : Int,
         sideset : {s \in Seq(Int) : Len(s) <= 1}]
Graph == [steps : Seq(Step), sideset_count : Int, side_base : Bits,
          wrap_bottom : Int, wrap_top : Int]
Parsed ==
  {p \in Graph : \A k \in DOMAIN p.steps : p.steps[k].function \in Control =>
     \A j \in DOMAIN p.steps[k].inputs : p.steps[k].inputs[j].kind = "label"}

LEMMA StepsAre ==
  ASSUME NEW p \in Graph
  PROVE  /\ Len(p.steps) \in Nat
         /\ DOMAIN p.steps = 1 .. Len(p.steps)
         /\ \A k \in 1 .. Len(p.steps) : p.steps[k] \in Step
<1>1. p.steps \in Seq(Step)
  BY DEF Graph
<1> QED BY <1>1

LEMMA PadsType ==
  ASSUME NEW p, NEW s \in Step
  PROVE  Pads(p, s) \in Nat
<1>1. s.delay \in Int /\ MaxDelay(p) \in {15, 31}
  BY DEF Step, MaxDelay
<1> QED BY <1>1 DEF Pads

\* The labels of a plan: its steps follow each other without a gap.
LEMMA LabelsAre ==
  ASSUME NEW p \in Graph
  PROVE  /\ DOMAIN Labels(p) = 1 .. Len(p.steps) + 1
         /\ Labels(p)[1] = 0
         /\ \A k \in 1 .. Len(p.steps) :
              Labels(p)[k + 1] = Labels(p)[k] + 1 + Pads(p, p.steps[k])
         /\ \A k \in 1 .. Len(p.steps) + 1 : Labels(p)[k] \in Nat
<1> DEFINE n == Len(p.steps)
           at == Labels(p)
<1>1. n \in Nat /\ DOMAIN p.steps = 1 .. n
  BY StepsAre
<1>2. at = [k \in 1 .. n + 1 |-> IF k = 1 THEN 0 ELSE at[k - 1] + 1 + Pads(p, p.steps[k - 1])]
  BY <1>1, LabelsExist
<1> HIDE DEF at
<1>3. DOMAIN at = 1 .. n + 1
  BY <1>2
<1>4. 1 \in 1 .. n + 1 /\ at[1] = 0
  BY <1>1, <1>2
<1>5. ASSUME NEW k \in 1 .. n PROVE at[k + 1] = at[k] + 1 + Pads(p, p.steps[k])
  <2>1. k + 1 \in 1 .. n + 1 /\ k + 1 # 1 /\ (k + 1) - 1 = k
    BY <1>1
  <2>2. at[k + 1] = at[(k + 1) - 1] + 1 + Pads(p, p.steps[(k + 1) - 1])
    BY <1>2, <2>1
  <2> QED BY <2>1, <2>2
<1>6. \A k \in 1 .. n : Pads(p, p.steps[k]) \in Nat
  BY StepsAre, PadsType
<1> DEFINE S == {i \in Nat : i <= n => at[i + 1] \in Nat}
<1>7. 0 \in S
  BY <1>4
<1>8. ASSUME NEW i \in S PROVE i + 1 \in S
  <2>1. i \in Nat
    OBVIOUS
  <2>2. CASE i + 1 <= n
    <3>1. i + 1 \in 1 .. n /\ at[i + 1] \in Nat
      BY <1>1, <2>1, <2>2
    <3>2. at[(i + 1) + 1] = at[i + 1] + 1 + Pads(p, p.steps[i + 1])
      BY <3>1, <1>5
    <3>3. at[(i + 1) + 1] \in Nat
      BY <3>1, <3>2, <1>6
    <3> QED BY <2>1, <3>3
  <2>3. CASE ~(i + 1 <= n)
    BY <2>1, <2>3
  <2> QED BY <2>2, <2>3
<1>9. S = Nat
  <2>1. S \in SUBSET Nat
    OBVIOUS
  <2> HIDE DEF S
  <2> QED BY <1>7, <1>8, <2>1, SetInduction
<1>10. ASSUME NEW k \in 1 .. n + 1 PROVE at[k] \in Nat
  <2>1. k - 1 \in Nat /\ k - 1 <= n /\ (k - 1) + 1 = k
    BY <1>1
  <2>2. k - 1 \in S
    BY <1>9, <2>1
  <2> QED BY <2>1, <2>2
<1> QED BY <1>3, <1>4, <1>5, <1>10 DEF at

\* They grow, by one at least.
LEMMA LabelsGrow ==
  ASSUME NEW p \in Graph, NEW j \in 1 .. Len(p.steps) + 1,
         NEW k \in 1 .. Len(p.steps) + 1, j < k
  PROVE  Labels(p)[j] < Labels(p)[k] /\ Labels(p)[j + 1] <= Labels(p)[k]
<1> DEFINE n == Len(p.steps)
           at == Labels(p)
<1>1. n \in Nat /\ (\A i \in 1 .. n : Pads(p, p.steps[i]) \in Nat)
  BY StepsAre, PadsType
<1>2. /\ \A i \in 1 .. n : at[i + 1] = at[i] + 1 + Pads(p, p.steps[i])
      /\ \A i \in 1 .. n + 1 : at[i] \in Nat
  BY LabelsAre
<1> HIDE DEF at, n
<1>3. j \in 1 .. n + 1 /\ k \in 1 .. n + 1
  BY DEF n
<1> DEFINE S == {i \in Nat : j + 1 + i <= n + 1 => at[j + 1] <= at[j + 1 + i]}
<1>4. 0 \in S
  <2>1. j + 1 + 0 = j + 1
    BY <1>3
  <2>2. j + 1 <= n + 1 => at[j + 1] <= at[j + 1]
    <3>1. j + 1 <= n + 1 => j + 1 \in 1 .. n + 1
      BY <1>1, <1>3
    <3> QED BY <3>1, <1>2
  <2> QED BY <2>1, <2>2
<1>5. ASSUME NEW i \in S PROVE i + 1 \in S
  <2>1. i \in Nat
    OBVIOUS
  <2>2. CASE j + 1 + (i + 1) <= n + 1
    <3>1. /\ j + 1 + i \in 1 .. n /\ j + 1 + i <= n + 1
          /\ (j + 1 + i) + 1 = j + 1 + (i + 1)
          /\ j + 1 \in 1 .. n + 1 /\ j + 1 + i \in 1 .. n + 1
      BY <1>1, <1>3, <2>1, <2>2
    <3>2. at[j + 1] <= at[j + 1 + i]
      BY <3>1
    <3>3. at[(j + 1 + i) + 1] = at[j + 1 + i] + 1 + Pads(p, p.steps[j + 1 + i])
      BY <1>2, <3>1
    <3>4. at[j + 1] \in Nat /\ at[j + 1 + i] \in Nat /\ Pads(p, p.steps[j + 1 + i]) \in Nat
      BY <1>1, <1>2, <3>1
    <3>5. at[j + 1] <= at[j + 1 + (i + 1)]
      BY <3>1, <3>2, <3>3, <3>4
    <3> QED BY <2>1, <3>5
  <2>3. CASE ~(j + 1 + (i + 1) <= n + 1)
    BY <2>1, <2>3
  <2> QED BY <2>2, <2>3
<1>6. S = Nat
  <2>1. S \in SUBSET Nat
    OBVIOUS
  <2> HIDE DEF S
  <2> QED BY <1>4, <1>5, <2>1, SetInduction
<1>7. /\ k - j - 1 \in Nat /\ j + 1 + (k - j - 1) = k /\ k <= n + 1
      /\ j \in 1 .. n /\ j \in 1 .. n + 1
  BY <1>1, <1>3
<1>8. at[j + 1] <= at[k]
  <2>1. k - j - 1 \in S
    BY <1>6, <1>7
  <2> QED BY <1>7, <2>1
<1>9. at[j + 1] = at[j] + 1 + Pads(p, p.steps[j]) /\ at[j] \in Nat /\ at[k] \in Nat
  BY <1>2, <1>3, <1>7
<1>10. at[j] < at[k]
  <2>1. Pads(p, p.steps[j]) \in Nat
    BY <1>1, <1>7
  <2> QED BY <1>8, <1>9, <2>1
<1> QED BY <1>8, <1>10 DEF at

\* An address belongs to one step.
LEMMA StepAtIs ==
  ASSUME NEW p \in Graph, NEW a \in Nat, NEW k \in 1 .. Len(p.steps) + 1,
         Labels(p)[k] <= a, k <= Len(p.steps) => a < Labels(p)[k + 1]
  PROVE  StepAt(p, a) = k
<1> DEFINE n == Len(p.steps)
           at == Labels(p)
           Is(i) == at[i] <= a /\ (i <= n => a < at[i + 1])
<1>1. n \in Nat /\ \A i \in 1 .. n + 1 : at[i] \in Nat
  BY StepsAre, LabelsAre
<1>2. \A i, j \in 1 .. n + 1 : i < j => at[i + 1] <= at[j]
  BY LabelsGrow
<1> HIDE DEF at
<1>3. ASSUME NEW i \in 1 .. n + 1, NEW j \in 1 .. n + 1, Is(i), Is(j) PROVE ~(i < j)
  <2>1. SUFFICES ASSUME i < j PROVE FALSE
    OBVIOUS
  <2>2. i <= n /\ i + 1 \in 1 .. n + 1
    BY <1>1, <2>1
  <2>3. a < at[i + 1] /\ at[i + 1] <= at[j] /\ at[j] <= a
    BY <1>2, <1>3, <2>1, <2>2
  <2> QED BY <1>1, <2>2, <2>3
<1>4. Is(k)
  BY DEF at
<1>5. StepAt(p, a) = CHOOSE i \in 1 .. n + 1 : Is(i)
  BY DEF StepAt, at
<1> HIDE DEF Is
<1>6. Is(StepAt(p, a)) /\ StepAt(p, a) \in 1 .. n + 1
  BY <1>4, <1>5
<1>7. ~(StepAt(p, a) < k) /\ ~(k < StepAt(p, a))
  BY <1>3, <1>4, <1>6
<1> QED BY <1>1, <1>6, <1>7

LEMMA StepAtExists ==
  ASSUME NEW p \in Graph, NEW a \in Nat
  PROVE  /\ StepAt(p, a) \in 1 .. Len(p.steps) + 1
         /\ Labels(p)[StepAt(p, a)] <= a
         /\ StepAt(p, a) <= Len(p.steps) => a < Labels(p)[StepAt(p, a) + 1]
<1> DEFINE n == Len(p.steps)
           at == Labels(p)
           Is(i) == at[i] <= a /\ (i <= n => a < at[i + 1])
           Above == {i \in 1 .. n + 1 : a < at[i]}
<1>1. n \in Nat /\ at[1] = 0 /\ (\A i \in 1 .. n + 1 : at[i] \in Nat)
  BY StepsAre, LabelsAre
<1> HIDE DEF at
<1>2. \E i \in 1 .. n + 1 : Is(i)
  <2>1. CASE Above = {}
    <3>1. n + 1 \in 1 .. n + 1 /\ ~(n + 1 <= n)
      BY <1>1
    <3>2. at[n + 1] <= a
      BY <1>1, <2>1, <3>1
    <3> QED BY <3>1, <3>2
  <2>2. CASE Above # {}
    <3>1. PICK x \in Above : \A y \in Above : x <= y
      <4>1. Above \in SUBSET Nat
        OBVIOUS
      <4> HIDE DEF Above
      <4> QED BY <2>2, <4>1, LeastElement
    <3>2. x \in 1 .. n + 1 /\ a < at[x] /\ x # 1
      BY <1>1
    <3>3. x - 1 \in 1 .. n + 1 /\ (x - 1) + 1 = x /\ ~(x <= x - 1)
      BY <1>1, <3>2
    <3>4. x - 1 \notin Above
      BY <3>1, <3>3
    <3>5. at[x - 1] <= a
      BY <1>1, <3>3, <3>4
    <3>6. Is(x - 1)
      BY <3>2, <3>3, <3>5
    <3> HIDE DEF Is
    <3> QED BY <3>3, <3>6
  <2> QED BY <2>1, <2>2
<1>3. StepAt(p, a) = CHOOSE i \in 1 .. n + 1 : Is(i)
  BY DEF StepAt, at
<1> HIDE DEF Is
<1>4. Is(StepAt(p, a)) /\ StepAt(p, a) \in 1 .. n + 1
  BY <1>2, <1>3
<1> QED BY <1>4 DEF Is, at

-----------------------------------------------------------------------------
\* An accepted plan has passed every test.
LEMMA LeastIsOne ==
  ASSUME NEW wrong \in SUBSET Nat, wrong # {}
  PROVE  (CHOOSE k \in wrong : \A j \in wrong : k <= j) \in wrong
<1>1. \E k \in wrong : \A j \in wrong : k <= j
  BY LeastElement
<1> QED BY <1>1

LEMMA FirstErrorIs ==
  ASSUME NEW E, NEW errors \in Seq(E), FirstError(errors) = "ok"
  PROVE  \A k \in DOMAIN errors : errors[k] = "ok"
<1> DEFINE wrong == {k \in DOMAIN errors : errors[k] # "ok"}
           least == CHOOSE k \in wrong : \A j \in wrong : k <= j
<1>1. DOMAIN errors \in SUBSET Nat
  BY LenProperties
<1>2. wrong # {} => least \in wrong
  <2>1. wrong \in SUBSET Nat
    BY <1>1
  <2> HIDE DEF wrong
  <2> QED BY <2>1, LeastIsOne
<1>3. FirstError(errors) = IF wrong = {} THEN "ok" ELSE errors[least]
  BY DEF FirstError
<1> HIDE DEF least
<1> QED BY <1>2, <1>3

LEMMA NoneWrong ==
  ASSUME NEW E, NEW s \in Seq(E), NEW t \in Seq(E), FirstError(s \o t) = "ok"
  PROVE  /\ \A k \in DOMAIN s : s[k] = "ok"
         /\ \A k \in DOMAIN t : t[k] = "ok"
<1>1. s \o t \in Seq(E) /\ Len(s \o t) = Len(s) + Len(t)
  BY ConcatProperties
<1>2. /\ Len(s) \in Nat /\ Len(t) \in Nat
      /\ DOMAIN s = 1 .. Len(s) /\ DOMAIN t = 1 .. Len(t)
      /\ DOMAIN (s \o t) = 1 .. Len(s) + Len(t)
  BY <1>1, LenProperties
<1>3. \A k \in DOMAIN s : k \in DOMAIN (s \o t) /\ (s \o t)[k] = s[k]
  BY <1>2, ConcatProperties
<1>4. \A k \in DOMAIN t : Len(s) + k \in DOMAIN (s \o t) /\ (s \o t)[Len(s) + k] = t[k]
  <2>1. ASSUME NEW k \in 1 .. Len(t)
        PROVE  /\ Len(s) + k \in 1 .. Len(s) + Len(t)
               /\ ~(Len(s) + k <= Len(s)) /\ (Len(s) + k) - Len(s) = k
    BY <1>2
  <2> QED BY <1>2, <2>1, ConcatProperties
<1>5. \A k \in DOMAIN (s \o t) : (s \o t)[k] = "ok"
  BY <1>1, FirstErrorIs
<1> QED BY <1>3, <1>4, <1>5

\* What validate leaves of a plan.
Sound(p) ==
  /\ p.sideset_count \in {0, 1}
  /\ p.wrap_bottom \in 0 .. 31 /\ p.wrap_top \in 0 .. 31
  /\ \A k \in 1 .. Len(p.steps) :
       /\ p.steps[k].function \in Primitives
       /\ p.steps[k].delay \in Nat
       /\ Side(p.steps[k]) \in {0, 1}
       /\ \A j \in Kinds(p.steps[k], "label") : p.steps[k].inputs[j].value \in StepNames(p)

LEMMA ValidIsSound ==
  ASSUME NEW p \in Graph, ValidateError(p) = "ok"
  PROVE  Sound(p)
<1> DEFINE n == Len(p.steps)
           names == StepNames(p)
           s == [k \in DOMAIN p.steps |-> StepError(p.steps[k], names)]
           t1 == IF p.sideset_count \in {0, 1} THEN "ok" ELSE "sideset_count must be 0 or 1"
           t2 == IF {p.wrap_bottom, p.wrap_top} \subseteq 0 .. 31 THEN "ok"
                 ELSE "wrap bounds must be 0..31"
           t3 == IF Circular(p) THEN "circular data dependency" ELSE "ok"
           E == {s[k] : k \in 1 .. n} \cup {t1, t2, t3}
<1>1. n \in Nat /\ DOMAIN p.steps = 1 .. n /\ \A k \in 1 .. n : p.steps[k] \in Step
  BY StepsAre
<1>2. s \in Seq(E) /\ DOMAIN s = 1 .. n
  <2>1. s \in [1 .. n -> E]
    BY <1>1
  <2>2. DOMAIN s = 1 .. n
    BY <1>1
  <2> HIDE DEF s, E
  <2> QED BY <1>1, <2>1, <2>2
<1>3. <<t1, t2, t3>> \in Seq(E) /\ DOMAIN <<t1, t2, t3>> = 1 .. 3
  <2> HIDE DEF t1, t2, t3, s
  <2> QED OBVIOUS
<1>4. FirstError(s \o <<t1, t2, t3>>) = "ok"
  BY DEF ValidateError
<1>5. (\A k \in 1 .. n : s[k] = "ok") /\ t1 = "ok" /\ t2 = "ok"
  <2> HIDE DEF s, t1, t2, t3, E
  <2>1. /\ \A k \in DOMAIN s : s[k] = "ok"
        /\ \A k \in DOMAIN <<t1, t2, t3>> : <<t1, t2, t3>>[k] = "ok"
    BY <1>2, <1>3, <1>4, NoneWrong
  <2>2. /\ 1 \in DOMAIN <<t1, t2, t3>> /\ <<t1, t2, t3>>[1] = t1
        /\ 2 \in DOMAIN <<t1, t2, t3>> /\ <<t1, t2, t3>>[2] = t2
    BY <1>3
  <2> QED BY <1>2, <2>1, <2>2
<1>6. p.sideset_count \in {0, 1} /\ p.wrap_bottom \in 0 .. 31 /\ p.wrap_top \in 0 .. 31
  BY <1>5
<1>7. ASSUME NEW k \in 1 .. n
      PROVE  /\ p.steps[k].function \in Primitives
             /\ p.steps[k].delay \in Nat
             /\ Side(p.steps[k]) \in {0, 1}
             /\ \A j \in Kinds(p.steps[k], "label") :
                  p.steps[k].inputs[j].value \in names
  <2>1. StepError(p.steps[k], names) = "ok" /\ p.steps[k] \in Step
    BY <1>1, <1>5
  <2>2. /\ p.steps[k].function \in Primitives
        /\ ~(p.steps[k].delay < 0)
        /\ \A j \in DOMAIN p.steps[k].sideset : p.steps[k].sideset[j] \in {0, 1}
        /\ \A j \in Kinds(p.steps[k], "label") : p.steps[k].inputs[j].value \in names
    BY <2>1 DEF StepError
  <2>3. p.steps[k].delay \in Int /\ p.steps[k].sideset \in Seq(Int)
    BY <2>1 DEF Step
  <2>4. p.steps[k].sideset # << >> => 1 \in DOMAIN p.steps[k].sideset
    BY <2>3
  <2> QED BY <2>2, <2>3, <2>4 DEF Side
<1> QED BY <1>6, <1>7 DEF Sound

\* The program: the instruction of a step where its label is, pads behind it.
LEMMA InstrsAre ==
  ASSUME NEW p \in Graph
  PROVE  /\ DOMAIN Instrs(p) = 1 .. Labels(p)[Len(p.steps) + 1]
         /\ Len(Instrs(p)) = Labels(p)[Len(p.steps) + 1]
         /\ \A k \in 1 .. Len(p.steps) :
              /\ Labels(p)[k] + 1 \in DOMAIN Instrs(p)
              /\ Instrs(p)[Labels(p)[k] + 1] = Emit(p, p.steps[k])
         /\ \A k \in 1 .. Len(p.steps) : \A a \in Nat :
              Labels(p)[k] < a /\ a < Labels(p)[k + 1] =>
                a + 1 \in DOMAIN Instrs(p) /\ Instrs(p)[a + 1] = Instr(7, 0, 0, 0)
<1> DEFINE n == Len(p.steps)
           at == Labels(p)
           N == at[n + 1]
           At(a) == IF a = at[StepAt(p, a)] THEN Emit(p, p.steps[StepAt(p, a)])
                    ELSE Instr(7, 0, 0, 0)
<1>1. n \in Nat /\ (\A i \in 1 .. n + 1 : at[i] \in Nat) /\ n + 1 \in 1 .. n + 1
  BY StepsAre, LabelsAre
<1>2. \A k \in 1 .. n : at[k] < at[k + 1] /\ at[k + 1] <= N
  <2>1. ASSUME NEW k \in 1 .. n PROVE at[k] < at[k + 1] /\ at[k + 1] <= N
    <3>1. k \in 1 .. n + 1 /\ k + 1 \in 1 .. n + 1 /\ k < k + 1 /\ k < n + 1
      BY <1>1
    <3> QED BY <3>1, <1>1, LabelsGrow
  <2> QED BY <2>1
<1>3. \A k \in 1 .. n : \A a \in Nat : at[k] <= a /\ a < at[k + 1] => StepAt(p, a) = k
  <2>1. ASSUME NEW k \in 1 .. n, NEW a \in Nat, at[k] <= a, a < at[k + 1]
        PROVE  StepAt(p, a) = k
    <3>1. k \in 1 .. n + 1
      BY <1>1
    <3> QED BY <2>1, <3>1, StepAtIs
  <2> QED BY <2>1
<1>4. Instrs(p) = [i \in 1 .. N |-> At(i - 1)]
  BY DEF Instrs
<1> HIDE DEF at, N
<1>5. N \in Nat
  BY <1>1 DEF N
<1>6. DOMAIN Instrs(p) = 1 .. N /\ Len(Instrs(p)) = N
  <2> HIDE DEF At
  <2> QED BY <1>4, <1>5
<1>7. \A a \in Nat : a < N => a + 1 \in DOMAIN Instrs(p) /\ Instrs(p)[a + 1] = At(a)
  <2>1. ASSUME NEW a \in Nat, a < N PROVE a + 1 \in 1 .. N /\ Instrs(p)[a + 1] = At(a)
    <3>1. a + 1 \in 1 .. N /\ (a + 1) - 1 = a
      BY <1>5, <2>1
    <3> HIDE DEF At
    <3>2. Instrs(p)[a + 1] = At((a + 1) - 1)
      BY <1>4, <3>1
    <3> QED BY <3>1, <3>2
  <2> QED BY <1>6, <2>1
<1>8. ASSUME NEW k \in 1 .. n
      PROVE  at[k] + 1 \in DOMAIN Instrs(p) /\ Instrs(p)[at[k] + 1] = Emit(p, p.steps[k])
  <2>1. at[k] \in Nat /\ at[k + 1] \in Nat /\ at[k] < at[k + 1] /\ at[k + 1] <= N
    <3>1. k \in 1 .. n + 1 /\ k + 1 \in 1 .. n + 1
      BY <1>1
    <3> QED BY <1>1, <1>2, <3>1
  <2>2. at[k] < N /\ StepAt(p, at[k]) = k
    BY <1>3, <1>5, <2>1
  <2>3. At(at[k]) = Emit(p, p.steps[k])
    BY <2>2
  <2> HIDE DEF At
  <2> QED BY <1>7, <2>1, <2>2, <2>3
<1>9. ASSUME NEW k \in 1 .. n, NEW a \in Nat, at[k] < a, a < at[k + 1]
      PROVE  a + 1 \in DOMAIN Instrs(p) /\ Instrs(p)[a + 1] = Instr(7, 0, 0, 0)
  <2>1. at[k] \in Nat /\ at[k + 1] \in Nat /\ at[k] < at[k + 1] /\ at[k + 1] <= N
    <3>1. k \in 1 .. n + 1 /\ k + 1 \in 1 .. n + 1
      BY <1>1
    <3> QED BY <1>1, <1>2, <3>1
  <2>2. at[k] <= a /\ a # at[k] /\ a < N
    BY <1>5, <1>9, <2>1
  <2>3. StepAt(p, a) = k
    BY <1>3, <1>9, <2>2
  <2>4. At(a) = Instr(7, 0, 0, 0)
    BY <2>2, <2>3
  <2> HIDE DEF At
  <2> QED BY <1>7, <2>2, <2>4
<1> QED BY <1>6, <1>8, <1>9 DEF at, N

\* What an accepted plan is: sound, every operand a number and every jump
\* with a target, every field within its width, and room for the program.
LEMMA AcceptedIs ==
  ASSUME NEW p \in Graph, AssembleError(p) = "ok"
  PROVE  /\ Sound(p)
         /\ \A k \in 1 .. Len(p.steps) :
              /\ EmitError(p, p.steps[k]) = "ok"
              /\ EncodeError(Resolve(p, Emit(p, p.steps[k]))) = "ok"
         /\ \A k \in DOMAIN Instrs(p) : EncodeError(Resolve(p, Instrs(p)[k])) = "ok"
         /\ Labels(p)[Len(p.steps) + 1] <= 32
<1> DEFINE n == Len(p.steps)
           N == Labels(p)[n + 1]
<1>0. /\ n \in Nat /\ DOMAIN p.steps = 1 .. n
      /\ N \in Nat /\ DOMAIN Instrs(p) = 1 .. N /\ Len(Instrs(p)) = N
  <2>1. n \in Nat /\ n + 1 \in 1 .. n + 1
    BY StepsAre
  <2> QED BY <2>1, StepsAre, InstrsAre, LabelsAre
<1>1. CompileError(p) = "ok"
  BY DEF AssembleError
<1>2. ValidateError(p) = "ok" /\ \A k \in 1 .. n : EmitError(p, p.steps[k]) = "ok"
  <2> DEFINE s == <<ValidateError(p)>>
             u == [k \in DOMAIN p.steps |-> EmitError(p, p.steps[k])]
             t == IF ValidateError(p) # "ok" THEN << >> ELSE u
             E == {ValidateError(p)} \cup {EmitError(p, p.steps[k]) : k \in 1 .. n}
  <2>1. s \in Seq(E) /\ 1 \in DOMAIN s /\ s[1] = ValidateError(p)
    OBVIOUS
  <2>2. u \in Seq(E)
    <3>1. u \in [1 .. n -> E]
      BY <1>0
    <3> HIDE DEF u, E
    <3> QED BY <1>0, <3>1
  <2>3. t \in Seq(E)
    <3> HIDE DEF E, u
    <3> QED BY <2>2
  <2>4. FirstError(s \o t) = "ok"
    BY <1>1 DEF CompileError
  <2>5. (\A k \in DOMAIN s : s[k] = "ok") /\ (\A k \in DOMAIN t : t[k] = "ok")
    <3>1. s \in Seq(E)
      BY <2>1
    <3> HIDE DEF s, t, E
    <3> QED BY <3>1, <2>3, <2>4, NoneWrong
  <2>6. ValidateError(p) = "ok"
    <3> HIDE DEF s
    <3> QED BY <2>1, <2>5
  <2>7. t = [k \in 1 .. n |-> EmitError(p, p.steps[k])]
    BY <1>0, <2>6
  <2> HIDE DEF t
  <2>8. \A k \in 1 .. n : k \in DOMAIN t /\ t[k] = EmitError(p, p.steps[k])
    BY <2>7
  <2> QED BY <2>5, <2>6, <2>8
<1>3. (\A k \in 1 .. N : EncodeError(Resolve(p, Instrs(p)[k])) = "ok") /\ N <= 32
  <2> DEFINE s == [k \in DOMAIN Instrs(p) |-> EncodeError(Resolve(p, Instrs(p)[k]))]
             t == IF Len(Instrs(p)) > 32 THEN "too many instructions" ELSE "ok"
             E == {t} \cup {EncodeError(Resolve(p, Instrs(p)[k])) : k \in 1 .. N}
  <2>1. s \in Seq(E) /\ DOMAIN s = 1 .. N
    <3>1. s \in [1 .. N -> E] /\ DOMAIN s = 1 .. N
      BY <1>0
    <3> HIDE DEF s, E
    <3> QED BY <1>0, <3>1
  <2>2. <<t>> \in Seq(E) /\ 1 \in DOMAIN <<t>> /\ <<t>>[1] = t
    <3> HIDE DEF t
    <3> QED OBVIOUS
  <2>3. FirstError(s \o <<t>>) = "ok"
    BY <1>1 DEF AssembleError
  <2>4. (\A k \in DOMAIN s : s[k] = "ok") /\ t = "ok"
    <3> HIDE DEF s, t, E
    <3>1. (\A k \in DOMAIN s : s[k] = "ok") /\ (\A k \in DOMAIN <<t>> : <<t>>[k] = "ok")
      BY <2>1, <2>2, <2>3, NoneWrong
    <3> QED BY <2>2, <3>1
  <2>5. \A k \in 1 .. N : s[k] = EncodeError(Resolve(p, Instrs(p)[k]))
    BY <1>0
  <2>6. N <= 32
    BY <1>0, <2>4
  <2> HIDE DEF s
  <2> QED BY <2>1, <2>4, <2>5, <2>6
<1>4. \A k \in 1 .. n : EncodeError(Resolve(p, Emit(p, p.steps[k]))) = "ok"
  <2>1. \A k \in 1 .. n : /\ Labels(p)[k] + 1 \in 1 .. N
                        /\ Instrs(p)[Labels(p)[k] + 1] = Emit(p, p.steps[k])
    BY <1>0, InstrsAre
  <2> QED BY <1>3, <2>1
<1> QED BY <1>0, <1>2, <1>3, <1>4, ValidIsSound

-----------------------------------------------------------------------------
\* The decoder gets back what was encoded.
Word(op, d, f, pl) == 8192 * op + 256 * d + 32 * f + pl

LEMMA DecodeWord ==
  ASSUME NEW op \in 0 .. 7, NEW d \in 0 .. 31, NEW f \in 0 .. 7, NEW pl \in 0 .. 31
  PROVE  Decode(Word(op, d, f, pl)) =
           [code |-> DecodeCode(op, f, pl), top |-> d >= 16,
            low |-> IF d >= 16 THEN d - 16 ELSE d]
<1> DEFINE w == Word(op, d, f, pl)
<1>0. w \in Nat /\ w = 8192 * op + 256 * d + 32 * f + pl
  BY DEF Word
<1> HIDE DEF w
<1>1. w \div 8192 = op
  BY <1>0, Z3
<1>2. w % 32 = pl
  BY <1>0, Z3
<1>3. (w \div 32) % 8 = f
  <2>1. w \div 32 = 256 * op + 8 * d + f
    BY <1>0, Z3
  <2> QED BY <2>1, Z3
<1>4. w \div 256 = 32 * op + d
  BY <1>0, Z3
<1>5. (w \div 256) % 16 = IF d >= 16 THEN d - 16 ELSE d
  BY <1>4, Z3
<1>6. w \div 4096 = 2 * op + (IF d >= 16 THEN 1 ELSE 0)
  BY <1>0, Z3
<1>7. ((w \div 4096) % 2 = 1) = (d >= 16)
  BY <1>6, Z3
<1>8. Decode(w) = [code |-> DecodeCode(op, f, pl), top |-> d >= 16,
                   low |-> IF d >= 16 THEN d - 16 ELSE d]
  BY <1>1, <1>2, <1>3, <1>5, <1>7 DEF Decode
<1> QED BY <1>8 DEF w

\* The machine decodes a word to what encode was given (isa.encode, isa.decode).
THEOREM DecodeEncode ==
  ASSUME NEW i, EncodeError(i) = "ok"
  PROVE  /\ i.op \in 0 .. 7 /\ i.delay \in 0 .. 31 /\ i.field \in 0 .. 7 /\ i.payload \in 0 .. 31
         /\ Decode(Encode(i)) =
              [code |-> DecodeCode(i.op, i.field, i.payload), top |-> i.delay >= 16,
               low |-> IF i.delay >= 16 THEN i.delay - 16 ELSE i.delay]
<1>1. i.op \in 0 .. 7 /\ i.delay \in 0 .. 31 /\ i.field \in 0 .. 7 /\ i.payload \in 0 .. 31
  BY DEF EncodeError
<1>2. Encode(i) = Word(i.op, i.delay, i.field, i.payload)
  BY DEF Encode, Word
<1>3. Decode(Word(i.op, i.delay, i.field, i.payload)) =
        [code |-> DecodeCode(i.op, i.field, i.payload), top |-> i.delay >= 16,
         low |-> IF i.delay >= 16 THEN i.delay - 16 ELSE i.delay]
  BY <1>1, DecodeWord, Zenon
<1> QED BY <1>1, <1>2, <1>3

LEMMA BitsOfFive ==
  ASSUME NEW n \in 0 .. 31
  PROVE  BitsOf(n) \subseteq 0 .. 4
<1>1. 2^5 = 32 /\ 2^6 = 64 /\ 2^7 = 128
  OBVIOUS
<1>2. n \div 32 = 0 /\ n \div 64 = 0 /\ n \div 128 = 0
  BY Z3
<1>3. 5 \notin BitsOf(n) /\ 6 \notin BitsOf(n) /\ 7 \notin BitsOf(n)
  BY <1>1, <1>2 DEF BitsOf
<1>4. BitsOf(n) \subseteq 0 .. 7
  BY DEF BitsOf
<1> QED BY <1>3, <1>4

LEMMA CodeType ==
  ASSUME NEW op \in 0 .. 7, NEW f \in 0 .. 7, NEW pl \in 0 .. 31
  PROVE  DecodeCode(op, f, pl) \in Code
<1> USE FieldsAssumption
<1>1. CASE op = 0
  <2>1. CondNames[f + 1] \in Condition
    BY DEF CondNames, Condition
  <2> QED BY <1>1, <2>1 DEF DecodeCode, Code, Addr
<1>2. CASE op = 1
  <2>1. pl % 16 \in 0 .. 2 * W - 1
    <3>1. pl % 16 \in 0 .. 15
      OBVIOUS
    <3> QED BY <3>1, IsaAssumption
  <2> QED BY <1>2, <2>1 DEF DecodeCode, Code
<1>3. CASE op \in {2, 3}
  BY <1>3 DEF DecodeCode, Code
<1>4. CASE op = 4
  BY <1>4 DEF DecodeCode, Code
<1>5. CASE op = 5
  <2>1. RegNames[f + 1] \in Dest
    BY DEF RegNames, Dest
  <2>2. (IF pl < 12 THEN SrcNames[pl + 1] ELSE "NULL") \in Source
    BY DEF SrcNames, Source
  <2> QED BY <1>5, <2>1, <2>2 DEF DecodeCode, Code
<1>6. CASE op = 6 /\ f < 4
  <2>1. SetNames[f + 1] \in {"PINS", "PINDIRS", "X", "Y"}
    BY <1>6 DEF SetNames
  <2>2. BitsOf(pl) \in SUBSET ImmBits
    BY BitsOfFive, IsaAssumption DEF ImmBits
  <2> QED BY <1>6, <2>1, <2>2 DEF DecodeCode, Code
<1>7. CASE op = 6 /\ f >= 4
  <2>1. SetNames[f + 1] \in {"BIT", "CLR", "OUTPIN", "INPIN"}
    BY <1>7 DEF SetNames
  <2>2. pl % 8 \in Bits
    BY IsaAssumption DEF Bits
  <2> QED BY <1>7, <2>1, <2>2 DEF DecodeCode, Code
<1>8. CASE op = 7
  BY <1>8 DEF DecodeCode, Code
<1> QED BY <1>1, <1>2, <1>3, <1>4, <1>5, <1>6, <1>7, <1>8

-----------------------------------------------------------------------------
\* The instruction of a step.
LEMMA EmitIs ==
  ASSUME NEW p, NEW s \in Step, s.function \in Primitives
  PROVE  /\ Emit(p, s).op \in 0 .. 7
         /\ Emit(p, s).op = 0 <=> s.function \in Control
         /\ Emit(p, s).delay = IF s.function = "delay" /\ DelayField(p, s) = 0
                               THEN Operand(s, 1, 0) ELSE DelayField(p, s)
         /\ Emit(p, s).label = IF s.function \in Control /\ s.inputs # << >>
                               THEN <<s.inputs[1].value>> ELSE << >>
         /\ s.function = "delay" => Emit(p, s).op = 7
         /\ s.function \in Control => Emit(p, s).payload = 0
<1> DEFINE fn == s.function
           d == DelayField(p, s)
<1>1. CASE fn \in {"pull", "push"}
  BY <1>1 DEF Emit, Instr, Control
<1>2. CASE fn \in DOMAIN Immediates
  <2>1. Immediates[fn][1] \in {6, 3, 2}
    BY <1>2 DEF Immediates
  <2>2. fn \notin {"pull", "push", "delay"} /\ fn \notin Control
    BY <1>2 DEF Immediates, Control
  <2>3. Emit(p, s) = LET v == Operand(s, 1, Immediates[fn][4])
                     IN  Instr(Immediates[fn][1], d, Immediates[fn][2],
                               IF v < 0 THEN v ELSE v % Immediates[fn][3])
    BY <1>2, <2>2 DEF Emit
  <2> QED BY <2>1, <2>2, <2>3 DEF Instr
<1>3. CASE fn = "wait_pin"
  <2>1. fn \notin DOMAIN Immediates
    BY <1>3 DEF Immediates
  <2> QED BY <1>3, <2>1 DEF Emit, Instr, Control
<1>4. CASE fn = "delay"
  <2>1. fn \notin DOMAIN Immediates
    BY <1>4 DEF Immediates
  <2> QED BY <1>4, <2>1 DEF Emit, Instr, Control
<1>5. CASE fn = "mov"
  <2>1. fn \notin DOMAIN Immediates
    BY <1>5 DEF Immediates
  <2> QED BY <1>5, <2>1 DEF Emit, Instr, Control
<1>6. CASE fn \in Control
  <2>1. fn \notin DOMAIN Immediates
    BY <1>6 DEF Immediates, Control
  <2>2. fn \notin {"pull", "push", "wait_pin", "delay", "mov"}
    BY <1>6 DEF Control
  <2>3. Emit(p, s) =
          [Instr(0, d, (CHOOSE k \in 1 .. 8 : JumpNames[k] = fn) - 1, 0)
             EXCEPT !.label = IF s.inputs = << >> THEN << >> ELSE <<s.inputs[1].value>>]
    BY <1>6, <2>1, <2>2 DEF Emit
  <2> QED BY <1>6, <2>2, <2>3 DEF Instr
<1> QED BY <1>1, <1>2, <1>3, <1>4, <1>5, <1>6 DEF Primitives, Immediates

\* It does what the function and the inputs say, whatever the delay and the
\* settings of the plan are.
SameCode(s, t) ==
  /\ s.function = t.function
  /\ Len(s.inputs) = Len(t.inputs)
  /\ \A j \in 1 .. Len(s.inputs) : s.inputs[j].value = t.inputs[j].value

LEMMA EmitSame ==
  ASSUME NEW p, NEW q, NEW s \in Step, NEW t \in Step, SameCode(s, t),
         s.function \in Primitives
  PROVE  /\ Emit(p, s).op = Emit(q, t).op
         /\ Emit(p, s).field = Emit(q, t).field
         /\ Emit(p, s).payload = Emit(q, t).payload
         /\ Emit(p, s).label = Emit(q, t).label
<1> DEFINE fn == s.function
<1>1. /\ t.function = fn /\ Len(t.inputs) = Len(s.inputs) /\ Len(s.inputs) \in Nat
      /\ \A j \in 1 .. Len(s.inputs) : s.inputs[j].value = t.inputs[j].value
      /\ s.inputs = << >> <=> t.inputs = << >>
  BY DEF SameCode, Step
<1>2. \A j \in {1, 2} : \A x : Operand(s, j, x) = Operand(t, j, x)
  BY <1>1 DEF Operand
<1>3. \A j \in {1, 2} : \A x : Register(s, j, x) = Register(t, j, x)
  BY <1>1 DEF Register
<1>4. s.inputs # << >> => s.inputs[1].value = t.inputs[1].value
  <2>1. s.inputs # << >> => 1 \in 1 .. Len(s.inputs)
    BY <1>1 DEF Step
  <2> QED BY <1>1, <2>1
<1>5. CASE fn \in {"pull", "push"}
  BY <1>1, <1>5 DEF Emit, Instr
<1>6. CASE fn \in DOMAIN Immediates
  <2>1. fn \notin {"pull", "push"}
    BY <1>6 DEF Immediates
  <2> DEFINE e == Immediates[fn]
             v == Operand(s, 1, e[4])
             pl == IF v < 0 THEN v ELSE v % e[3]
  <2>2. v = Operand(t, 1, e[4])
    BY <1>2
  <2>3. Emit(p, s) = Instr(e[1], DelayField(p, s), e[2], pl)
    BY <1>6, <2>1 DEF Emit
  <2>4. Emit(q, t) = Instr(e[1], DelayField(q, t), e[2], pl)
    <3> HIDE DEF v, e
    <3>1. Emit(q, t) = LET w == Operand(t, 1, e[4])
                       IN  Instr(e[1], DelayField(q, t), e[2], IF w < 0 THEN w ELSE w % e[3])
      BY <1>1, <1>6, <2>1 DEF Emit, e
    <3> QED BY <2>2, <3>1
  <2> HIDE DEF pl, e
  <2> QED BY <2>3, <2>4 DEF Instr
<1>7. CASE fn \in {"wait_pin", "delay", "mov"}
  <2>1. fn \notin DOMAIN Immediates
    BY <1>7 DEF Immediates
  <2> HIDE DEF fn
  <2> QED BY <1>1, <1>2, <1>3, <1>7, <2>1 DEF Emit, Instr, fn
<1>8. CASE fn \in Control
  <2>1. fn \notin DOMAIN Immediates
    BY <1>8 DEF Immediates, Control
  <2>2. fn \notin {"pull", "push", "wait_pin", "delay", "mov"}
    BY <1>8 DEF Control
  <2>3. Emit(p, s) =
          [Instr(0, DelayField(p, s), (CHOOSE k \in 1 .. 8 : JumpNames[k] = fn) - 1, 0)
             EXCEPT !.label = IF s.inputs = << >> THEN << >> ELSE <<s.inputs[1].value>>]
    BY <1>8, <2>1, <2>2 DEF Emit
  <2>4. Emit(q, t) =
          [Instr(0, DelayField(q, t), (CHOOSE k \in 1 .. 8 : JumpNames[k] = fn) - 1, 0)
             EXCEPT !.label = IF t.inputs = << >> THEN << >> ELSE <<t.inputs[1].value>>]
    BY <1>1, <1>8, <2>1, <2>2 DEF Emit
  <2> QED BY <1>1, <1>4, <2>3, <2>4 DEF Instr
<1> QED BY <1>5, <1>6, <1>7, <1>8 DEF Primitives, Immediates

-----------------------------------------------------------------------------
\* The memory of an accepted plan: the instruction of every step at its label,
\* with its jump resolved; a NOP at every pad; and a jump to the first word
\* behind the program.
Nop == [code |-> [op |-> "NOP"], top |-> FALSE, low |-> 0]
Zero == [code |-> [op |-> "JMP", cond |-> "ALWAYS", target |-> 0], top |-> FALSE, low |-> 0]

LEMMA DecodeNoDelay ==
  ASSUME NEW op \in 0 .. 7, NEW f \in 0 .. 7, NEW pl \in 0 .. 31
  PROVE  Decode(Word(op, 0, f, pl)) = [code |-> DecodeCode(op, f, pl), top |-> FALSE, low |-> 0]
<1>1. PICK d \in 0 .. 31 : d = 0
  OBVIOUS
<1>2. Decode(Word(op, d, f, pl)) = [code |-> DecodeCode(op, f, pl), top |-> d >= 16,
                                    low |-> IF d >= 16 THEN d - 16 ELSE d]
  BY DecodeWord, Zenon
<1>3. (d >= 16) = FALSE
  BY <1>1
<1> QED BY <1>1, <1>2, <1>3

LEMMA DecodeZero == Decode(0) = Zero
<1>1. Word(0, 0, 0, 0) = 0
  BY DEF Word
<1>2. Decode(Word(0, 0, 0, 0)) = [code |-> DecodeCode(0, 0, 0), top |-> FALSE, low |-> 0]
  BY DecodeNoDelay
<1>3. DecodeCode(0, 0, 0) = [op |-> "JMP", cond |-> "ALWAYS", target |-> 0]
  BY DEF DecodeCode, CondNames
<1> QED BY <1>1, <1>2, <1>3 DEF Zero

LEMMA LoadIs ==
  ASSUME NEW p \in Graph, AssembleError(p) = "ok"
  PROVE  /\ Load(p) \in [Addr -> Node] /\ Load(p) # << >>
         /\ \A k \in 1 .. Len(p.steps) :
              /\ Labels(p)[k] \in Addr
              /\ Load(p)[Labels(p)[k]] = Decode(Encode(Resolve(p, Emit(p, p.steps[k]))))
         /\ \A k \in 1 .. Len(p.steps) : \A a \in Nat :
              Labels(p)[k] < a /\ a < Labels(p)[k + 1] => a \in Addr /\ Load(p)[a] = Nop
         /\ \A a \in Addr : Labels(p)[Len(p.steps) + 1] <= a => Load(p)[a] = Zero
<1> DEFINE n == Len(p.steps)
           at == Labels(p)
           N == at[n + 1]
           words == Assemble(p)
<1>1. /\ n \in Nat /\ N \in Nat /\ N <= 32 /\ Words = 32
      /\ \A k \in 1 .. n : at[k] \in Nat
  <2>1. n \in Nat /\ n + 1 \in 1 .. n + 1 /\ \A k \in 1 .. n : k \in 1 .. n + 1
    BY StepsAre
  <2> QED BY <2>1, LabelsAre, AcceptedIs, FieldsAssumption
<1>2. DOMAIN Instrs(p) = 1 .. N
  BY InstrsAre
<1>3. words = [k \in 1 .. N |-> Encode(Resolve(p, Instrs(p)[k]))]
  BY <1>2 DEF Assemble
<1> HIDE DEF words, N, at
<1>4. Len(words) = N
  BY <1>1, <1>3
<1>5. Load(p) = [a \in Addr |-> Decode(IF a < N THEN words[a + 1] ELSE 0)]
  BY <1>4 DEF Load, words
<1>6. \A a \in Addr : a < N => Load(p)[a] = Decode(Encode(Resolve(p, Instrs(p)[a + 1])))
  <2>1. ASSUME NEW a \in Addr, a < N
        PROVE  words[a + 1] = Encode(Resolve(p, Instrs(p)[a + 1]))
    <3>1. a + 1 \in 1 .. N
      BY <1>1, <2>1 DEF Addr
    <3> QED BY <1>3, <3>1
  <2> QED BY <1>5, <2>1
<1>7. \A a \in Addr : N <= a => Load(p)[a] = Zero
  <2>1. \A a \in Addr : N <= a => ~(a < N)
    BY <1>1 DEF Addr
  <2> QED BY <1>5, <2>1, DecodeZero
<1>8. Load(p) \in [Addr -> Node]
  <2>1. ASSUME NEW a \in Addr PROVE Load(p)[a] \in Node
    <3>1. CASE a < N
      <4> DEFINE i == Resolve(p, Instrs(p)[a + 1])
      <4>1. EncodeError(i) = "ok"
        <5>1. a + 1 \in DOMAIN Instrs(p)
          BY <1>1, <1>2, <3>1 DEF Addr
        <5> QED BY <5>1, AcceptedIs
      <4> HIDE DEF i
      <4>2. /\ i.op \in 0 .. 7 /\ i.delay \in 0 .. 31 /\ i.field \in 0 .. 7
            /\ i.payload \in 0 .. 31
            /\ Decode(Encode(i)) =
                 [code |-> DecodeCode(i.op, i.field, i.payload), top |-> i.delay >= 16,
                  low |-> IF i.delay >= 16 THEN i.delay - 16 ELSE i.delay]
        BY <4>1, DecodeEncode
      <4>3. DecodeCode(i.op, i.field, i.payload) \in Code
        BY <4>2, CodeType
      <4>4. (IF i.delay >= 16 THEN i.delay - 16 ELSE i.delay) \in 0 .. HalfDelay - 1
        BY <4>2, FieldsAssumption
      <4>5. Decode(Encode(i)) \in Node
        BY <4>2, <4>3, <4>4 DEF Node
      <4>6. Load(p)[a] = Decode(Encode(i))
        BY <1>6, <3>1 DEF i
      <4> QED BY <4>5, <4>6
    <3>2. CASE ~(a < N)
      <4>1. Load(p)[a] = Zero
        <5>1. N <= a
          BY <1>1, <3>2 DEF Addr
        <5> QED BY <1>7, <5>1
      <4>2. Zero \in Node
        BY FieldsAssumption DEF Zero, Node, Code, Condition, Addr
      <4> QED BY <4>1, <4>2
    <3> QED BY <3>1, <3>2
  <2>2. Load(p) = [a \in Addr |-> Load(p)[a]]
    BY <1>5
  <2> QED BY <2>1, <2>2
<1>9. Load(p) # << >>
  <2>1. 0 \in Addr /\ DOMAIN Load(p) = Addr
    BY <1>1, <1>8 DEF Addr
  <2> QED BY <2>1
<1>10. ASSUME NEW k \in 1 .. n
       PROVE  at[k] \in Addr /\ Load(p)[at[k]] = Decode(Encode(Resolve(p, Emit(p, p.steps[k]))))
  <2>1. at[k] + 1 \in 1 .. N /\ Instrs(p)[at[k] + 1] = Emit(p, p.steps[k])
    BY <1>2, InstrsAre DEF at
  <2>2. at[k] \in Addr /\ at[k] < N
    <3> DEFINE a == at[k]
    <3>1. a \in Nat /\ N \in Nat /\ N <= 32 /\ Words = 32
      BY <1>1
    <3>2. a + 1 \in 1 .. N
      BY <2>1
    <3> HIDE DEF a
    <3>3. a \in Addr /\ a < N
      BY <3>1, <3>2 DEF Addr
    <3> QED BY <3>3 DEF a
  <2> QED BY <1>6, <2>1, <2>2
<1>11. ASSUME NEW k \in 1 .. n, NEW a \in Nat, at[k] < a, a < at[k + 1]
       PROVE  a \in Addr /\ Load(p)[a] = Nop
  <2>1. a + 1 \in 1 .. N /\ Instrs(p)[a + 1] = Instr(7, 0, 0, 0)
    BY <1>2, <1>11, InstrsAre DEF at
  <2>2. a \in Addr /\ a < N
    BY <1>1, <2>1 DEF Addr
  <2>3. Resolve(p, Instr(7, 0, 0, 0)) = Instr(7, 0, 0, 0)
    BY DEF Resolve, Instr
  <2>4. Encode(Instr(7, 0, 0, 0)) = Word(7, 0, 0, 0)
    BY DEF Encode, Word, Instr
  <2>5. Decode(Word(7, 0, 0, 0)) = [code |-> DecodeCode(7, 0, 0), top |-> FALSE, low |-> 0]
    BY DecodeNoDelay
  <2>6. DecodeCode(7, 0, 0) = [op |-> "NOP"]
    BY DEF DecodeCode
  <2>7. Decode(Word(7, 0, 0, 0)) = Nop
    BY <2>5, <2>6 DEF Nop
  <2> QED BY <1>6, <2>1, <2>2, <2>3, <2>4, <2>7
<1> QED BY <1>7, <1>8, <1>9, <1>10, <1>11 DEF at, N

-----------------------------------------------------------------------------
\* Reading a plan and storing it.
LEMMA ReadIs ==
  ASSUME NEW raw \in RawPlan, raw.side_base \in Bits
  PROVE  /\ FromDict(raw) \in Parsed
         /\ Len(FromDict(raw).steps) = Len(raw.steps)
         /\ FromDict(raw).sideset_count = raw.sideset_count
         /\ FromDict(raw).side_base = raw.side_base
         /\ FromDict(raw).wrap_bottom = raw.wrap_bottom
         /\ FromDict(raw).wrap_top = raw.wrap_top
         /\ \A k \in 1 .. Len(raw.steps) :
              /\ FromDict(raw).steps[k].name = raw.steps[k].name
              /\ FromDict(raw).steps[k].function = raw.steps[k].function
              /\ FromDict(raw).steps[k].delay = raw.steps[k].delay
              /\ FromDict(raw).steps[k].sideset = raw.steps[k].sideset
              /\ Len(FromDict(raw).steps[k].inputs) = Len(raw.steps[k].inputs)
              /\ \A j \in 1 .. Len(raw.steps[k].inputs) :
                   FromDict(raw).steps[k].inputs[j].value = raw.steps[k].inputs[j]
<1> DEFINE n == Len(raw.steps)
           names == StepNames(raw)
           Text(s) == [j \in DOMAIN s.inputs |->
                         Parse(s.inputs[j], names, s.function \in Control)]
           Read(s) == [s EXCEPT !.inputs = Text(s)]
           steps == [k \in DOMAIN raw.steps |-> Read(raw.steps[k])]
           p == FromDict(raw)
<1>1. raw.steps \in Seq(RawStep) /\ n \in Nat /\ DOMAIN raw.steps = 1 .. n
      /\ \A k \in 1 .. n : raw.steps[k] \in RawStep
  <2>1. raw.steps \in Seq(RawStep)
    BY DEF RawPlan
  <2> QED BY <2>1
<1>2. \A s \in RawStep : /\ Text(s) \in Seq(Input) /\ Len(Text(s)) = Len(s.inputs)
                         /\ \A j \in 1 .. Len(s.inputs) : Text(s)[j].value = s.inputs[j]
                         /\ s.function \in Control =>
                              \A j \in DOMAIN Text(s) : Text(s)[j].kind = "label"
  <2>1. ASSUME NEW s \in RawStep
        PROVE  /\ Text(s) \in Seq(Input) /\ Len(Text(s)) = Len(s.inputs)
               /\ \A j \in 1 .. Len(s.inputs) : Text(s)[j].value = s.inputs[j]
               /\ s.function \in Control =>
                    \A j \in DOMAIN Text(s) : Text(s)[j].kind = "label"
    <3>1. s.inputs \in Seq(STRING)
      BY DEF RawStep
    <3>2. /\ Len(s.inputs) \in Nat /\ DOMAIN s.inputs = 1 .. Len(s.inputs)
          /\ \A j \in 1 .. Len(s.inputs) : s.inputs[j] \in STRING
      BY <3>1
    <3>3. \A j \in 1 .. Len(s.inputs) :
            /\ Text(s)[j] \in Input /\ Text(s)[j].value = s.inputs[j]
            /\ s.function \in Control => Text(s)[j].kind = "label"
      BY <3>2 DEF Parse, Input
    <3>4. DOMAIN Text(s) = 1 .. Len(s.inputs)
      BY <3>2
    <3>5. Text(s) \in [1 .. Len(s.inputs) -> Input]
      BY <3>2, <3>3
    <3> HIDE DEF Text
    <3> QED BY <3>2, <3>3, <3>4, <3>5
  <2> QED BY <2>1
<1>3. p = [raw EXCEPT !.steps = steps]
  BY DEF FromDict
<1> HIDE DEF Text
<1>4. \A s \in RawStep :
        /\ Read(s) \in Step /\ Read(s).inputs = Text(s)
        /\ Read(s).name = s.name /\ Read(s).function = s.function
        /\ Read(s).delay = s.delay /\ Read(s).sideset = s.sideset
  BY <1>2 DEF RawStep, Step
<1> HIDE DEF Read
<1>5. steps \in [1 .. n -> Step] /\ DOMAIN steps = 1 .. n
      /\ \A k \in 1 .. n : steps[k] = Read(raw.steps[k])
  BY <1>1, <1>4
<1> HIDE DEF steps
<1>6. steps \in Seq(Step) /\ Len(steps) = n
  BY <1>1, <1>5
<1>7. /\ p.steps = steps /\ p.sideset_count = raw.sideset_count
      /\ p.side_base = raw.side_base /\ p.wrap_bottom = raw.wrap_bottom
      /\ p.wrap_top = raw.wrap_top
  BY <1>3 DEF RawPlan
<1>8. p \in Graph
  BY <1>3, <1>6 DEF RawPlan, Graph
<1> HIDE DEF p
<1>9. p \in Parsed
  <2>1. ASSUME NEW k \in DOMAIN p.steps, p.steps[k].function \in Control
        PROVE  \A j \in DOMAIN p.steps[k].inputs : p.steps[k].inputs[j].kind = "label"
    <3>1. k \in 1 .. n /\ p.steps[k] = Read(raw.steps[k]) /\ raw.steps[k] \in RawStep
      BY <1>1, <1>5, <1>7
    <3> QED BY <1>2, <1>4, <2>1, <3>1
  <2> QED BY <1>8, <2>1 DEF Parsed
<1>10. ASSUME NEW k \in 1 .. n
       PROVE  /\ p.steps[k].name = raw.steps[k].name
              /\ p.steps[k].function = raw.steps[k].function
              /\ p.steps[k].delay = raw.steps[k].delay
              /\ p.steps[k].sideset = raw.steps[k].sideset
              /\ Len(p.steps[k].inputs) = Len(raw.steps[k].inputs)
              /\ \A j \in 1 .. Len(raw.steps[k].inputs) :
                   p.steps[k].inputs[j].value = raw.steps[k].inputs[j]
  <2>1. p.steps[k] = Read(raw.steps[k]) /\ raw.steps[k] \in RawStep
    BY <1>1, <1>5, <1>7
  <2> QED BY <1>2, <1>4, <2>1
<1> QED BY <1>6, <1>7, <1>9, <1>10 DEF p

\* Plans with the same steps, but for side-set and settings; and a plan
\* without those.
Alike(q, p) ==
  /\ Len(q.steps) = Len(p.steps)
  /\ \A k \in 1 .. Len(p.steps) :
       /\ q.steps[k].name = p.steps[k].name
       /\ q.steps[k].delay = p.steps[k].delay
       /\ SameCode(q.steps[k], p.steps[k])

Bare(q) ==
  /\ q.sideset_count = 0 /\ q.wrap_bottom = 0 /\ q.wrap_top = 31

LEMMA StoredIs ==
  ASSUME NEW p \in Graph
  PROVE  /\ FromDict(GraphToDict(p)) \in Parsed
         /\ Bare(FromDict(GraphToDict(p)))
         /\ Alike(FromDict(GraphToDict(p)), p)
<1> DEFINE n == Len(p.steps)
           Text(s) == [j \in DOMAIN s.inputs |-> s.inputs[j].value]
           Kept(s) == [s EXCEPT !.inputs = Text(s), !.sideset = << >>]
           steps == [k \in DOMAIN p.steps |-> Kept(p.steps[k])]
           raw == GraphToDict(p)
<1>1. n \in Nat /\ DOMAIN p.steps = 1 .. n /\ \A k \in 1 .. n : p.steps[k] \in Step
  BY StepsAre
<1>2. \A s \in Step : /\ Text(s) \in Seq(STRING) /\ Len(Text(s)) = Len(s.inputs)
                      /\ \A j \in 1 .. Len(s.inputs) : Text(s)[j] = s.inputs[j].value
  <2>1. ASSUME NEW s \in Step
        PROVE  /\ Text(s) \in Seq(STRING) /\ Len(Text(s)) = Len(s.inputs)
               /\ \A j \in 1 .. Len(s.inputs) : Text(s)[j] = s.inputs[j].value
    <3>1. s.inputs \in Seq(Input)
      BY DEF Step
    <3>2. /\ Len(s.inputs) \in Nat /\ DOMAIN s.inputs = 1 .. Len(s.inputs)
          /\ \A j \in 1 .. Len(s.inputs) : s.inputs[j].value \in STRING
      <4>1. /\ Len(s.inputs) \in Nat /\ DOMAIN s.inputs = 1 .. Len(s.inputs)
            /\ \A j \in 1 .. Len(s.inputs) : s.inputs[j] \in Input
        BY <3>1
      <4> QED BY <4>1 DEF Input
    <3>3. DOMAIN Text(s) = 1 .. Len(s.inputs)
          /\ \A j \in 1 .. Len(s.inputs) : Text(s)[j] = s.inputs[j].value
      BY <3>2
    <3>4. Text(s) \in [1 .. Len(s.inputs) -> STRING]
      BY <3>2
    <3> HIDE DEF Text
    <3> QED BY <3>2, <3>3, <3>4
  <2> QED BY <2>1
<1> HIDE DEF Text
<1>3. \A s \in Step :
        /\ Kept(s) \in RawStep /\ Kept(s).inputs = Text(s) /\ Kept(s).sideset = << >>
        /\ Kept(s).name = s.name /\ Kept(s).function = s.function /\ Kept(s).delay = s.delay
  <2>1. << >> \in {x \in Seq(Int) : Len(x) <= 1}
    OBVIOUS
  <2> QED BY <1>2, <2>1 DEF RawStep, Step
<1>4. raw = [steps |-> steps, sideset_count |-> 0, side_base |-> 0,
             wrap_bottom |-> 0, wrap_top |-> 31]
  BY DEF GraphToDict, Text
<1> HIDE DEF Kept
<1>5. steps \in [1 .. n -> RawStep] /\ DOMAIN steps = 1 .. n
      /\ \A k \in 1 .. n : steps[k] = Kept(p.steps[k])
  BY <1>1, <1>3
<1> HIDE DEF steps
<1>6. steps \in Seq(RawStep) /\ Len(steps) = n
  BY <1>1, <1>5
<1>7. raw \in RawPlan /\ raw.side_base \in Bits
  BY <1>4, <1>6, IsaAssumption DEF RawPlan, Bits
<1>8. raw.steps = steps /\ raw.sideset_count = 0 /\ raw.wrap_bottom = 0 /\ raw.wrap_top = 31
  BY <1>4
<1> HIDE DEF raw
<1> DEFINE q == FromDict(raw)
<1>9. /\ q \in Parsed /\ Len(q.steps) = n
      /\ q.sideset_count = 0 /\ q.wrap_bottom = 0 /\ q.wrap_top = 31
  BY <1>6, <1>7, <1>8, ReadIs
<1>10. ASSUME NEW k \in 1 .. n
       PROVE  /\ q.steps[k].name = p.steps[k].name
              /\ q.steps[k].delay = p.steps[k].delay
              /\ SameCode(q.steps[k], p.steps[k])
  <2>1. raw.steps[k] = Kept(p.steps[k]) /\ k \in 1 .. Len(raw.steps) /\ p.steps[k] \in Step
    BY <1>1, <1>5, <1>6, <1>8
  <2>2. /\ q.steps[k].name = raw.steps[k].name
        /\ q.steps[k].function = raw.steps[k].function
        /\ q.steps[k].delay = raw.steps[k].delay
        /\ Len(q.steps[k].inputs) = Len(raw.steps[k].inputs)
        /\ \A j \in 1 .. Len(raw.steps[k].inputs) :
             q.steps[k].inputs[j].value = raw.steps[k].inputs[j]
    BY <1>7, <2>1, ReadIs
  <2> HIDE DEF q
  <2> QED BY <1>2, <1>3, <2>1, <2>2 DEF SameCode
<1> HIDE DEF q
<1>11. q \in Parsed /\ Bare(q) /\ Alike(q, p)
  BY <1>9, <1>10 DEF Bare, Alike
<1> QED BY <1>11 DEF q, raw

-----------------------------------------------------------------------------
\* A plan that validates, and that compiles as it is or as it comes back from
\* a store, can be executed as a graph.
Runnable(p) ==
  /\ \A k \in 1 .. Len(p.steps) + 1 : CodeOf(p, k) \in Code
  /\ \A k \in 1 .. Len(p.steps) :
       /\ StepDelay(p.steps[k]) \in Nat
       /\ p.steps[k].function \in Control =>
            StepCalled(p, p.steps[k].inputs[1].value) \in 1 .. Len(p.steps)

LEMMA OperandType ==
  ASSUME NEW s \in Step
  PROVE  Operand(s, 1, 0) \in Int /\ Operand(s, 1, 0) >= -1
<1>1. \A t : ReadNumber(t) \in Int /\ ReadNumber(t) >= -1
  <2>1. ASSUME NEW t, IsNumber(t) PROVE Number(t) \in Nat
    <3>1. \E k \in 0 .. MaxNumber : ToString(k) = t
      BY <2>1 DEF IsNumber, Numerals
    <3>2. Number(t) \in 0 .. MaxNumber
      BY <3>1 DEF Number
    <3> QED BY <3>2 DEF MaxNumber
  <2> QED BY <2>1 DEF ReadNumber
<1> QED BY <1>1 DEF Operand

LEMMA StepDelayType ==
  ASSUME NEW s \in Step, s.delay \in Nat
  PROVE  StepDelay(s) \in Nat
BY OperandType DEF StepDelay

LEMMA TargetType ==
  ASSUME NEW p \in Parsed, Sound(p), NEW k \in 1 .. Len(p.steps),
         p.steps[k].function \in Control, p.steps[k].inputs # << >>
  PROVE  StepCalled(p, p.steps[k].inputs[1].value) \in 1 .. Len(p.steps)
<1> DEFINE x == p.steps[k].inputs[1].value
<1>1. p \in Graph /\ DOMAIN p.steps = 1 .. Len(p.steps) /\ p.steps[k] \in Step
  BY StepsAre DEF Parsed
<1>2. 1 \in DOMAIN p.steps[k].inputs
  <2>1. p.steps[k].inputs \in Seq(Input)
    BY <1>1 DEF Step
  <2> QED BY <2>1
<1>3. p.steps[k].inputs[1].kind = "label"
  BY <1>1, <1>2 DEF Parsed
<1>4. x \in StepNames(p)
  BY <1>2, <1>3 DEF Sound, Kinds
<1>5. \E j \in DOMAIN p.steps : p.steps[j].name = x
  BY <1>4 DEF StepNames, Steps
<1> HIDE DEF x
<1>6. StepCalled(p, x) \in DOMAIN p.steps
  BY <1>5 DEF StepCalled
<1> QED BY <1>1, <1>6 DEF x

\* What the assembler accepted of a step.
LEMMA StepFits ==
  ASSUME NEW q \in Graph, NEW k \in 1 .. Len(q.steps), q.steps[k].function \in Primitives,
         EmitError(q, q.steps[k]) = "ok", EncodeError(Resolve(q, Emit(q, q.steps[k]))) = "ok"
  PROVE  /\ Emit(q, q.steps[k]).op \in 0 .. 7
         /\ Emit(q, q.steps[k]).delay \in 0 .. 31
         /\ Emit(q, q.steps[k]).field \in 0 .. 7
         /\ Emit(q, q.steps[k]).payload \in 0 .. 31
         /\ q.steps[k].function \in Control => q.steps[k].inputs # << >>
<1> DEFINE s == q.steps[k]
           e == Emit(q, s)
           i == Resolve(q, e)
<1>1. s \in Step
  BY StepsAre
<1>2. /\ e.op \in 0 .. 7
      /\ e.label = IF s.function \in Control /\ s.inputs # << >>
                   THEN <<s.inputs[1].value>> ELSE << >>
      /\ s.function \in Control => e.payload = 0
  BY <1>1, EmitIs
<1>3. s.function \in Control => e.label # << >>
  BY DEF EmitError
<1>4. DOMAIN e = {"op", "delay", "field", "payload", "label"}
  <2> HIDE DEF s
  <2> QED BY DEF Emit, Instr
<1> HIDE DEF e
<1>5. i.delay = e.delay /\ i.field = e.field /\ (e.label = << >> => i.payload = e.payload)
  BY <1>4 DEF Resolve
<1>6. i.delay \in 0 .. 31 /\ i.field \in 0 .. 7 /\ i.payload \in 0 .. 31
  BY DecodeEncode DEF e
<1>7. e.payload \in 0 .. 31
  <2>1. CASE s.function \in Control
    <3>1. e.payload = 0
      BY <1>2, <2>1
    <3> QED BY <3>1
  <2>2. CASE s.function \notin Control
    <3>1. i.payload = e.payload
      BY <1>2, <1>5, <2>2
    <3> QED BY <1>6, <3>1
  <2> QED BY <2>1, <2>2
<1> QED BY <1>2, <1>3, <1>5, <1>6, <1>7 DEF e

LEMMA RunnableIs ==
  ASSUME NEW p \in Parsed, Sound(p), NEW q \in Graph, Alike(q, p), AssembleError(q) = "ok"
  PROVE  Runnable(p)
<1> DEFINE n == Len(p.steps)
<1>1. /\ p \in Graph /\ n \in Nat /\ Len(q.steps) = n
      /\ \A k \in 1 .. n : p.steps[k] \in Step /\ q.steps[k] \in Step
  BY StepsAre DEF Parsed, Alike
<1>2. ASSUME NEW k \in 1 .. n
      PROVE  /\ CodeOf(p, k) \in Code
             /\ StepDelay(p.steps[k]) \in Nat
             /\ p.steps[k].function \in Control =>
                  StepCalled(p, p.steps[k].inputs[1].value) \in 1 .. n
  <2> DEFINE s == p.steps[k]
             t == q.steps[k]
  <2>1. SameCode(t, s) /\ t.function \in Primitives /\ s.function = t.function
    BY <1>1, AcceptedIs DEF Alike, SameCode, Sound
  <2>2. /\ Emit(q, t).op \in 0 .. 7 /\ Emit(q, t).field \in 0 .. 7
        /\ Emit(q, t).payload \in 0 .. 31
        /\ t.function \in Control => t.inputs # << >>
    BY <1>1, <2>1, AcceptedIs, StepFits
  <2>3. /\ Emit(q, t).op = Emit(p, s).op /\ Emit(q, t).field = Emit(p, s).field
        /\ Emit(q, t).payload = Emit(p, s).payload
    BY <1>1, <2>1, EmitSame
  <2>4. ~(k > Len(p.steps))
    BY <1>1
  <2>5. CodeOf(p, k) \in Code
    BY <2>2, <2>3, <2>4, CodeType DEF CodeOf
  <2>6. s.function \in Control => s.inputs # << >>
    <3>1. t.inputs \in Seq(Input) /\ s.inputs \in Seq(Input) /\ Len(t.inputs) = Len(s.inputs)
      BY <1>1, <2>1 DEF Step, SameCode
    <3> QED BY <2>1, <2>2, <3>1
  <2>7. s.delay \in Nat
    BY DEF Sound
  <2> QED BY <1>1, <2>5, <2>6, <2>7, StepDelayType, TargetType
<1>3. CodeOf(p, n + 1) \in Code
  <2>1. n + 1 > Len(p.steps) /\ Decode(0).code \in Code
    BY <1>1, DecodeZero, FieldsAssumption DEF Zero, Code, Condition, Addr
  <2> QED BY <2>1 DEF CodeOf
<1>4. \A k \in 1 .. n + 1 : k \in 1 .. n \/ k = n + 1
  BY <1>1
<1> QED BY <1>2, <1>3, <1>4 DEF Runnable

-----------------------------------------------------------------------------
\* Types: the plans are those that were read, the memory is what the plan was
\* loaded to, and machine and graph hold what they may hold.
GraphState(p) == [at : 1 .. Len(p.steps) + 1, left : Nat, r : Machine]

PlansInv ==
  /\ source \in Parsed /\ Sound(source)
  /\ plan \in Graph /\ Alike(plan, source)
  /\ plan = source \/ Bare(plan)
  /\ imem = Load(plan)

TypeInv ==
  /\ PlansInv
  /\ m \in Machine /\ chip \in Machine
  /\ g \in GraphState(source)

LEMMA AlikeIs ==
  ASSUME NEW p \in Graph
  PROVE  /\ Alike(p, p)
         /\ \A q, r : Alike(r, q) /\ Alike(q, p) => Alike(r, p)
<1>1. Len(p.steps) \in Nat /\ \A k \in 1 .. Len(p.steps) : p.steps[k] \in Step
  BY StepsAre
<1>2. Alike(p, p)
  BY <1>1 DEF Alike, SameCode
<1>3. ASSUME NEW q, NEW r, Alike(r, q), Alike(q, p) PROVE Alike(r, p)
  <2>1. Len(r.steps) = Len(p.steps) /\ Len(q.steps) = Len(p.steps)
    BY <1>3, Zenon DEF Alike
  <2>2. ASSUME NEW k \in 1 .. Len(p.steps)
        PROVE  /\ r.steps[k].name = p.steps[k].name
               /\ r.steps[k].delay = p.steps[k].delay
               /\ SameCode(r.steps[k], p.steps[k])
    <3>1. /\ r.steps[k].name = q.steps[k].name /\ r.steps[k].delay = q.steps[k].delay
          /\ SameCode(r.steps[k], q.steps[k])
      BY <1>3, <2>1, Zenon DEF Alike
    <3>2. /\ q.steps[k].name = p.steps[k].name /\ q.steps[k].delay = p.steps[k].delay
          /\ SameCode(q.steps[k], p.steps[k])
      BY <1>3, Zenon DEF Alike
    <3>3. SameCode(r.steps[k], p.steps[k])
      BY <3>1, <3>2, Zenon DEF SameCode
    <3> QED BY <3>1, <3>2, <3>3
  <2> QED BY <2>1, <2>2, Zenon DEF Alike
<1> QED BY <1>2, <1>3, Zenon

LEMMA FreshType == Fresh \in Machine
<1>1. ResetMachine \in Machine
  BY ResetType
<1>2. {0} \in Reg
  BY IsaAssumption DEF Reg, Bits
<1>3. <<{0}>> \in Queue
  <2>1. <<{0}>> \in Seq(Reg) /\ Len(<<{0}>>) = 1
    BY <1>2
  <2> QED BY <2>1, IsaAssumption DEF Queue
<1> QED BY <1>1, <1>3 DEF Fresh, Machine

LEMMA ConfigType ==
  ASSUME NEW p \in Graph, Sound(p)
  PROVE  ConfigOf(p) \in Config
<1>1. p.side_base \in Bits
  BY DEF Graph
<1> QED BY <1>1, FieldsAssumption DEF Sound, ConfigOf, Config, Addr

LEMMA BareIsSound ==
  ASSUME NEW p, Sound(p), NEW q \in Graph, q = p \/ Bare(q)
  PROVE  ConfigOf(q) \in Config
<1>1. CASE q = p
  BY <1>1, ConfigType
<1>2. CASE Bare(q)
  <2>1. q.side_base \in Bits
    BY DEF Graph
  <2> QED BY <1>2, <2>1, FieldsAssumption DEF Bare, ConfigOf, Config, Addr
<1> QED BY <1>1, <1>2

LEMMA BusType ==
  ASSUME NEW mm \in Machine, NEW gpio \in Reg
  PROVE  Bus(<<mm>>, gpio) \in Reg
<1>1. <<mm>> \in [{1} -> Machine]
  OBVIOUS
<1>2. 1 \in {1}
  OBVIOUS
<1> QED BY <1>1, <1>2, PadTypes

LEMMA PinsType ==
  ASSUME NEW mm \in Machine, NEW gpio \in Reg
  PROVE  Pad(<<mm>>, gpio) \in Reg
<1>1. <<mm>> \in [{1} -> Machine]
  OBVIOUS
<1> QED BY <1>1, HardwarePadType

LEMMA StepBelowType ==
  ASSUME NEW p \in Graph, Sound(p), NEW k \in 1 .. Len(p.steps)
  PROVE  StepBelow(p, k) \in 1 .. Len(p.steps) + 1
<1>1. Len(p.steps) \in Nat /\ p.wrap_bottom \in Nat
  <2>1. p.wrap_bottom \in 0 .. 31
    BY DEF Sound
  <2>2. Len(p.steps) \in Nat
    BY StepsAre
  <2>3. \A w \in 0 .. 31 : w \in Nat
    OBVIOUS
  <2> QED BY <2>1, <2>2, <2>3, Zenon
<1>2. StepAt(p, p.wrap_bottom) \in 1 .. Len(p.steps) + 1
  BY <1>1, StepAtExists
<1>3. 1 \in 1 .. Len(p.steps) + 1 /\ k + 1 \in 1 .. Len(p.steps) + 1
  BY <1>1
<1> QED BY <1>2, <1>3 DEF StepBelow

\* A clock of the graph keeps its type.
LEMMA GraphTickType ==
  ASSUME NEW p \in Parsed, Sound(p), Runnable(p), NEW h \in GraphState(p), NEW bus \in Reg
  PROVE  GraphTick(p, h, bus) \in GraphState(p)
<1> DEFINE n == Len(p.steps)
           c == ConfigOf(p)
           level == h.at <= n /\ Side(p.steps[h.at]) = 1
           asked == IF c.side_count THEN [h.r EXCEPT !.side_latched = level] ELSE h.r
           r == ApplySideset(asked, c)
<1>1. /\ p \in Graph /\ n \in Nat /\ c \in Config
      /\ h.at \in 1 .. n + 1 /\ h.left \in Nat /\ h.r \in Machine
  BY StepsAre, ConfigType DEF Parsed, GraphState
<1>2. \A mm \in Machine : ApplySideset(mm, c) \in Machine
  <2>1. Zero \in Node
    BY FieldsAssumption DEF Zero, Node, Code, Condition, Addr
  <2> QED BY <1>1, <2>1, SidedType
<1>3. CASE h.left # 0
  <2>1. h.left - 1 \in Nat
    BY <1>1, <1>3
  <2>2. GraphTick(p, h, bus) = [h EXCEPT !.left = h.left - 1, !.r = ApplySideset(h.r, c)]
    BY <1>3 DEF GraphTick
  <2> HIDE DEF c
  <2> QED BY <1>1, <1>2, <2>1, <2>2 DEF GraphState
<1>4. CASE h.left = 0
  <2>1. GraphTick(p, h, bus) = Executed(p, h, r, bus)
    BY <1>4 DEF GraphTick
  <2>2. r \in Machine
    <3>1. level \in BOOLEAN
      OBVIOUS
    <3> HIDE DEF level, c
    <3>2. asked \in Machine
      BY <1>1, <3>1 DEF Machine
    <3> HIDE DEF asked
    <3> QED BY <1>2, <3>2
  <2> HIDE DEF r
  <2>3. EffectivePins(r, bus) \in Reg
    BY <2>2 DEF EffectivePins, Machine, Reg
  <2>4. CodeOf(p, h.at) \in Code
    BY <1>1 DEF Runnable
  <2>5. Exec(r, CodeOf(p, h.at), EffectivePins(r, bus)) \in Machine
    BY <2>2, <2>3, <2>4, ExecType
  <2>6. StepAfter(p, h.at, EffectivePins(r, bus), r) \in 1 .. n + 1
    <3>1. CASE h.at > n
      BY <1>1, <3>1 DEF StepAfter
    <3>2. CASE h.at \in 1 .. n
      <4>1. StepBelow(p, h.at) \in 1 .. n + 1
        BY <1>1, <3>2, StepBelowType
      <4>2. p.steps[h.at].function \in Control =>
              StepCalled(p, p.steps[h.at].inputs[1].value) \in 1 .. n + 1
        <5>1. p.steps[h.at].function \in Control =>
                StepCalled(p, p.steps[h.at].inputs[1].value) \in 1 .. n
          <6> HIDE DEF level, asked, c
          <6> QED BY <3>2, Zenon DEF Runnable
        <5>2. \A k \in 1 .. n : k \in 1 .. n + 1
          BY <1>1
        <5> HIDE DEF n
        <5> QED BY <5>1, <5>2, Zenon
      <4> QED BY <4>1, <4>2, <1>1, <3>2 DEF StepAfter
    <3> QED BY <1>1, <3>1, <3>2
  <2>7. (IF h.at > n THEN 0 ELSE StepDelay(p.steps[h.at])) \in Nat
    <3>1. h.at \in 1 .. n => StepDelay(p.steps[h.at]) \in Nat
      BY DEF Runnable
    <3> QED BY <1>1, <3>1
  <2>8. [h EXCEPT !.r = r] \in GraphState(p)
    BY <2>2 DEF GraphState
  <2>9. Executed(p, h, r, bus) \in GraphState(p)
    BY <2>5, <2>6, <2>7, <2>8 DEF Executed, GraphState
  <2> QED BY <2>1, <2>9
<1> QED BY <1>1, <1>3, <1>4

LEMMA StartType ==
  ASSUME NEW p \in Graph
  PROVE  Start \in GraphState(p)
<1>1. 1 \in 1 .. Len(p.steps) + 1
  BY StepsAre
<1> QED BY <1>1, FreshType DEF Start, GraphState

LEMMA TypeInit == Init => TypeInv
<1> SUFFICES ASSUME Init PROVE TypeInv
  OBVIOUS
<1>1. PICK raw \in Sources : source = FromDict(raw)
  BY DEF Init
<1>2. source \in Parsed /\ source \in Graph
  BY <1>1, SourcesAssumption, ReadIs DEF Parsed
<1>3. Sound(source)
  BY <1>2, ValidIsSound DEF Init
<1>4. Alike(source, source)
  BY <1>2, AlikeIs
<1>5. PlansInv
  BY <1>2, <1>3, <1>4 DEF Init, PlansInv
<1>6. m \in Machine /\ chip \in Machine /\ g \in GraphState(source)
  BY <1>2, FreshType, StartType DEF Init
<1> QED BY <1>5, <1>6 DEF TypeInv

\* What a machine finds when there is a memory to run.
LEMMA LoadedIs ==
  ASSUME PlansInv, imem # << >>
  PROVE  /\ AssembleError(plan) = "ok"
         /\ imem \in [Addr -> Node]
         /\ Runnable(source)
<1>1. AssembleError(plan) = "ok"
  BY DEF PlansInv, Load
<1>2. plan \in Graph /\ imem = Load(plan)
  BY DEF PlansInv
<1> QED BY <1>1, <1>2, LoadIs, RunnableIs DEF PlansInv

LEMMA TypeCycle ==
  ASSUME TypeInv, NEW gpio \in GpioIn, Cycle(gpio)
  PROVE  TypeInv'
<1>1. gpio \in Reg /\ m \in Machine /\ g \in GraphState(source) /\ g.r \in Machine
  BY GpioAssumption DEF TypeInv, GraphState
<1>2. /\ imem \in [Addr -> Node] /\ Runnable(source)
      /\ source \in Parsed /\ Sound(source) /\ ConfigOf(plan) \in Config
  BY LoadedIs, BareIsSound DEF TypeInv, PlansInv, Cycle
<1>3. m' \in Machine
  <2>1. m.pc \in Addr
    BY <1>1 DEF Machine
  <2>2. imem[m.pc] \in Node
    BY <1>2, <2>1
  <2>3. Bus(<<m>>, gpio) \in Reg
    BY <1>1, BusType
  <2> QED BY <1>1, <1>2, <2>2, <2>3, TickType DEF Cycle
<1>4. g' \in GraphState(source)
  <2>1. Bus(<<g.r>>, gpio) \in Reg
    BY <1>1, BusType
  <2> QED BY <1>1, <1>2, <2>1, GraphTickType DEF Cycle
<1>5. chip' \in Machine
  <2>1. chip \in Machine /\ chip.pc \in Addr
    BY DEF TypeInv, Machine
  <2>2. imem[chip.pc] \in Node
    BY <1>2, <2>1
  <2>3. Pad(<<chip>>, gpio) \in Reg
    BY <1>1, <2>1, PinsType
  <2> QED BY <1>2, <2>1, <2>2, <2>3, EnabledType DEF Cycle
<1>6. PlansInv'
  BY DEF TypeInv, PlansInv, Cycle
<1> QED BY <1>3, <1>4, <1>5, <1>6 DEF TypeInv, Cycle

LEMMA TypePageIn ==
  ASSUME TypeInv, PageIn
  PROVE  TypeInv'
<1> DEFINE q == FromDict(GraphToDict(plan))
<1>1. source \in Parsed /\ source \in Graph /\ Sound(source) /\ plan \in Graph
      /\ Alike(plan, source)
  BY DEF TypeInv, PlansInv, Parsed
<1>2. q \in Parsed /\ Bare(q) /\ Alike(q, plan)
  BY <1>1, StoredIs
<1>3. q \in Graph /\ Alike(q, source)
  BY <1>1, <1>2, AlikeIs DEF Parsed
<1>4. plan' = q /\ imem' = Load(plan') /\ source' = source /\ m' = Fresh /\ g' = Start
      /\ chip' = Fresh
  BY DEF PageIn
<1> HIDE DEF q
<1>5. PlansInv'
  BY <1>1, <1>2, <1>3, <1>4 DEF PlansInv
<1> QED BY <1>1, <1>4, <1>5, FreshType, StartType DEF TypeInv

LEMMA TypesHold == Spec => []TypeInv
<1>1. TypeInv /\ UNCHANGED vars => TypeInv'
  BY DEF TypeInv, PlansInv, vars
<1>2. TypeInv /\ [Next]_vars => TypeInv'
  BY <1>1, TypeCycle, TypePageIn DEF Next
<1> QED BY <1>2, TypeInit, PTL DEF Spec

\* Machine, memory and graph keep their types whatever plan is compiled, run,
\* stored and loaded again (interp.SM, compile.py, stores.py).
THEOREM TypeCorrect == Spec => []TypeOK
<1>1. TypeInv => TypeOK
  <2> SUFFICES ASSUME TypeInv PROVE TypeOK
    OBVIOUS
  <2>1. imem = << >> \/ imem \in [Addr -> Node]
    BY LoadedIs DEF TypeInv
  <2> QED BY <2>1 DEF TypeInv, TypeOK, GraphState
<1> QED BY <1>1, TypesHold, PTL

-----------------------------------------------------------------------------
\* The memory of a plan, or of the plan that comes back from a store, seen
\* from the graph: the word of every step does what the step does, has the
\* target of a jump where that step is, asks for the step's side-set level,
\* and waits with the pads behind it as long as the step does.
LaidStep(p, k, w) ==
  LET s == p.steps[k]
  IN  /\ CodeOf(p, k) \in Code
      /\ s.function \notin Control => w.code = CodeOf(p, k) /\ w.code.op # "JMP"
      /\ s.function \in Control =>
           /\ StepCalled(p, s.inputs[1].value) \in 1 .. Len(p.steps)
           /\ CodeOf(p, k).op = "JMP"
           /\ w.code = [op |-> "JMP", cond |-> CodeOf(p, k).cond,
                        target |-> Labels(p)[StepCalled(p, s.inputs[1].value)]]
      /\ p.sideset_count = 1 => w.top = (Side(s) = 1)
      /\ StepDelay(s) = Delay(w, ConfigOf(p)) + Pads(p, s)
      /\ Pads(p, s) > 0 => s.function \notin Control /\ (p.sideset_count = 1 => ~w.top)

Laid(p, mem) ==
  /\ mem \in [Addr -> Node]
  /\ Labels(p)[Len(p.steps) + 1] <= 32
  /\ \A k \in 1 .. Len(p.steps) : LaidStep(p, k, mem[Labels(p)[k]])
  /\ \A k \in 1 .. Len(p.steps) : \A a \in Nat :
       Labels(p)[k] < a /\ a < Labels(p)[k + 1] => mem[a] = Nop
  /\ \A a \in Addr : Labels(p)[Len(p.steps) + 1] <= a => mem[a] = Zero

\* Alike plans without side-set have the same labels, instructions and pads.
Twin(q, p) == q = p \/ (Alike(q, p) /\ Bare(q) /\ p.sideset_count = 0)

LEMMA TwinIs ==
  ASSUME NEW p \in Graph, NEW q \in Graph, Sound(p), Twin(q, p)
  PROVE  /\ Len(q.steps) = Len(p.steps)
         /\ Labels(q) = Labels(p)
         /\ \A x : StepCalled(q, x) = StepCalled(p, x)
         /\ \A k \in 1 .. Len(p.steps) :
              /\ q.steps[k].function = p.steps[k].function
              /\ Emit(q, q.steps[k]).op = Emit(p, p.steps[k]).op
              /\ Emit(q, q.steps[k]).field = Emit(p, p.steps[k]).field
              /\ Emit(q, q.steps[k]).payload = Emit(p, p.steps[k]).payload
              /\ Emit(q, q.steps[k]).label = Emit(p, p.steps[k]).label
              /\ Emit(q, q.steps[k]).delay = Emit(p, p.steps[k]).delay
<1>1. CASE q = p
  BY <1>1
<1>2. CASE Alike(q, p) /\ Bare(q) /\ p.sideset_count = 0
  <2> DEFINE n == Len(p.steps)
  <2>1. /\ n \in Nat /\ Len(q.steps) = n /\ DOMAIN p.steps = 1 .. n /\ DOMAIN q.steps = 1 .. n
        /\ \A k \in 1 .. n : p.steps[k] \in Step /\ q.steps[k] \in Step
    BY <1>2, StepsAre DEF Alike
  <2>2. \A k \in 1 .. n : /\ q.steps[k].name = p.steps[k].name
                          /\ q.steps[k].delay = p.steps[k].delay
                          /\ SameCode(q.steps[k], p.steps[k])
                          /\ p.steps[k].function \in Primitives
    BY <1>2 DEF Alike, Sound
  <2>3. q.sideset_count = 0 /\ p.sideset_count = 0
    BY <1>2 DEF Bare
  <2>4. \A k \in 1 .. n : Pads(q, q.steps[k]) = Pads(p, p.steps[k])
    BY <2>2, <2>3 DEF Pads, MaxDelay
  <2>5. Labels(q) = Labels(p)
    <3> DEFINE Has(f) == f = [k \in 1 .. n + 1 |->
                 IF k = 1 THEN 0 ELSE f[k - 1] + 1 + Pads(p, p.steps[k - 1])]
               HasQ(f) == f = [k \in 1 .. n + 1 |->
                 IF k = 1 THEN 0 ELSE f[k - 1] + 1 + Pads(q, q.steps[k - 1])]
    <3>1. Labels(p) = CHOOSE f : Has(f)
      BY DEF Labels
    <3>2. Labels(q) = CHOOSE f : HasQ(f)
      BY <2>1 DEF Labels
    <3>3. ASSUME NEW f PROVE Has(f) <=> HasQ(f)
      <4>1. \A k \in 1 .. n + 1 : k # 1 => k - 1 \in 1 .. n
        BY <2>1
      <4>2. \A k \in 1 .. n + 1 : k # 1 =>
              Pads(q, q.steps[k - 1]) = Pads(p, p.steps[k - 1])
        BY <2>4, <4>1
      <4>3. [k \in 1 .. n + 1 |->
               IF k = 1 THEN 0 ELSE f[k - 1] + 1 + Pads(p, p.steps[k - 1])]
            = [k \in 1 .. n + 1 |->
               IF k = 1 THEN 0 ELSE f[k - 1] + 1 + Pads(q, q.steps[k - 1])]
        BY <4>2
      <4> QED BY <4>3
    <3> HIDE DEF Has, HasQ
    <3>4. (CHOOSE f : Has(f)) = (CHOOSE f : HasQ(f))
      BY <3>3, Zenon
    <3> QED BY <3>1, <3>2, <3>4
  <2>6. ASSUME NEW x PROVE StepCalled(q, x) = StepCalled(p, x)
    <3>1. \A k : (k \in 1 .. n /\ q.steps[k].name = x) <=> (k \in 1 .. n /\ p.steps[k].name = x)
      BY <2>2
    <3>2. /\ StepCalled(q, x) = CHOOSE k \in 1 .. n : q.steps[k].name = x
          /\ StepCalled(p, x) = CHOOSE k \in 1 .. n : p.steps[k].name = x
      BY <2>1 DEF StepCalled
    <3> QED BY <3>1, <3>2
  <2>7. ASSUME NEW k \in 1 .. n
        PROVE  /\ q.steps[k].function = p.steps[k].function
               /\ Emit(q, q.steps[k]).op = Emit(p, p.steps[k]).op
               /\ Emit(q, q.steps[k]).field = Emit(p, p.steps[k]).field
               /\ Emit(q, q.steps[k]).payload = Emit(p, p.steps[k]).payload
               /\ Emit(q, q.steps[k]).label = Emit(p, p.steps[k]).label
               /\ Emit(q, q.steps[k]).delay = Emit(p, p.steps[k]).delay
    <3> DEFINE s == p.steps[k]
               t == q.steps[k]
    <3>1. /\ s \in Step /\ t \in Step /\ SameCode(t, s) /\ t.delay = s.delay
          /\ s.function \in Primitives /\ t.function = s.function
      BY <2>1, <2>2 DEF SameCode
    <3> HIDE DEF s, t
    <3>2. DelayField(q, t) = DelayField(p, s)
      BY <2>3, <3>1 DEF DelayField
    <3>3. Operand(t, 1, 0) = Operand(s, 1, 0)
      BY <3>1 DEF Operand, SameCode, Step
    <3>4. Emit(q, t).delay = Emit(p, s).delay
      <4>1. Emit(q, t).delay = IF t.function = "delay" /\ DelayField(q, t) = 0
                               THEN Operand(t, 1, 0) ELSE DelayField(q, t)
        BY <3>1, EmitIs, Zenon
      <4>2. Emit(p, s).delay = IF s.function = "delay" /\ DelayField(p, s) = 0
                               THEN Operand(s, 1, 0) ELSE DelayField(p, s)
        BY <3>1, EmitIs, Zenon
      <4> QED BY <3>1, <3>2, <3>3, <4>1, <4>2, Zenon
    <3>5. /\ Emit(q, t).op = Emit(p, s).op
          /\ Emit(q, t).field = Emit(p, s).field
          /\ Emit(q, t).payload = Emit(p, s).payload
          /\ Emit(q, t).label = Emit(p, s).label
      BY <3>1, EmitSame
    <3> QED BY <3>1, <3>4, <3>5 DEF s, t
  <2> QED BY <2>1, <2>5, <2>6, <2>7
<1> QED BY <1>1, <1>2 DEF Twin

\* The word of one step: its fields, and how long it waits.
LEMMA StepWaits ==
  ASSUME NEW p \in Graph, NEW s \in Step, NEW w,
         p.sideset_count \in {0, 1}, s.function \in Primitives, s.delay \in Nat,
         Side(s) \in {0, 1}, ExactStep(p, s), Emit(p, s).delay \in 0 .. 31,
         w.top = (Emit(p, s).delay >= 16),
         w.low = IF Emit(p, s).delay >= 16 THEN Emit(p, s).delay - 16 ELSE Emit(p, s).delay
  PROVE  /\ p.sideset_count = 1 => w.top = (Side(s) = 1)
         /\ StepDelay(s) = Delay(w, ConfigOf(p)) + Pads(p, s)
         /\ Pads(p, s) > 0 => s.function \notin Control /\ (p.sideset_count = 1 => ~w.top)
<1> DEFINE d == Emit(p, s).delay
           o == Operand(s, 1, 0)
           side == Side(s)
<1>1. /\ d \in 0 .. 31 /\ o \in Int /\ o >= -1 /\ side \in {0, 1}
      /\ d = IF s.function = "delay" /\ DelayField(p, s) = 0 THEN o ELSE DelayField(p, s)
  BY OperandType, EmitIs
<1>2. s.inputs = << >> => o = 0
  BY DEF Operand
<1>5. ConfigOf(p).side_count <=> p.sideset_count = 1
  BY DEF ConfigOf
<1>3. CASE p.sideset_count = 0
  <2>1. DelayField(p, s) = s.delay /\ MaxDelay(p) = 31
    BY <1>3 DEF DelayField, MaxDelay
  <2>5. ~ConfigOf(p).side_count
    BY <1>3, <1>5
  <2>6. /\ w.top = (d >= 16) /\ w.low = IF d >= 16 THEN d - 16 ELSE d
    OBVIOUS
  <2> HIDE DEF d, o, side
  <2>2. StepDelay(s) = IF s.function = "delay" /\ s.delay = 0 /\ o > 0 THEN o ELSE s.delay
    BY DEF StepDelay, o
  <2>3. StepDelay(s) = d /\ Pads(p, s) = 0
    BY <1>1, <2>1, <2>2 DEF Pads
  <2>4. Delay(w, ConfigOf(p)) = d
    <3>1. CASE d >= 16
      <4>1. w.top /\ w.low = d - 16
        BY <2>6, <3>1
      <4> QED BY <1>1, <2>5, <4>1, FieldsAssumption DEF Delay
    <3>2. CASE ~(d >= 16)
      <4>1. ~w.top /\ w.low = d
        BY <2>6, <3>2
      <4> QED BY <4>1 DEF Delay
    <3> QED BY <3>1, <3>2
  <2> QED BY <1>1, <1>3, <2>3, <2>4
<1>4. CASE p.sideset_count = 1
  <2>1. /\ DelayField(p, s) = 16 * side + (IF s.delay > 15 THEN 15 ELSE s.delay)
        /\ MaxDelay(p) = 15 /\ ConfigOf(p).side_count
    BY <1>4, <1>5 DEF DelayField, MaxDelay
  <2>2. /\ s.delay > 15 => s.function \notin Control /\ side = 0
        /\ s.function = "delay" /\ s.inputs # << >> => side = 0 /\ o <= 15
    BY <1>4, <2>1 DEF ExactStep
  <2>3. /\ w.top = (d >= 16) /\ w.low = IF d >= 16 THEN d - 16 ELSE d
    OBVIOUS
  <2> HIDE DEF d, o, side
  <2>4. StepDelay(s) = IF s.function = "delay" /\ s.delay = 0 /\ o > 0 THEN o ELSE s.delay
    BY DEF StepDelay, o
  <2>5. Delay(w, ConfigOf(p)) = w.low
    BY <2>1 DEF Delay
  <2>6. Pads(p, s) = IF s.delay > 15 THEN s.delay - 15 ELSE 0
    BY <2>1 DEF Pads
  <2>7. CASE s.function = "delay" /\ DelayField(p, s) = 0
    <3>1. side = 0 /\ s.delay = 0 /\ d = o
      BY <1>1, <2>1, <2>7
    <3>2. o <= 15 /\ o >= 0
      <4>1. CASE s.inputs = << >>
        BY <1>2, <4>1
      <4>2. CASE s.inputs # << >>
        <5>1. o <= 15
          BY <2>2, <2>7, <4>2
        <5> QED BY <1>1, <3>1, <5>1
      <4> QED BY <4>1, <4>2
    <3>3. ~w.top /\ w.low = o
      <4>1. ~(d >= 16)
        BY <1>1, <3>1, <3>2
      <4> QED BY <2>3, <3>1, <4>1
    <3>4. StepDelay(s) = Delay(w, ConfigOf(p)) + Pads(p, s) /\ Pads(p, s) = 0
      BY <1>1, <2>4, <2>5, <2>6, <2>7, <3>1, <3>2, <3>3
    <3>5. w.top = (side = 1)
      <4>1. (side = 1) = FALSE
        BY <3>1
      <4>2. w.top = FALSE
        <5>1. (d >= 16) = FALSE
          BY <1>1, <3>1, <3>2
        <5> QED BY <2>3, <5>1
      <4> QED BY <4>1, <4>2
    <3> QED BY <3>4, <3>5 DEF side
  <2>8. CASE ~(s.function = "delay" /\ DelayField(p, s) = 0)
    <3>1. d = 16 * side + (IF s.delay > 15 THEN 15 ELSE s.delay)
      BY <1>1, <2>1, <2>8
    <3>2. (d >= 16) = (side = 1) /\ w.low = IF s.delay > 15 THEN 15 ELSE s.delay
      BY <1>1, <2>3, <3>1
    <3>3. StepDelay(s) = s.delay
      <4>1. CASE s.function = "delay" /\ s.delay = 0 /\ o > 0
        BY <1>1, <1>2, <2>1, <2>2, <2>8, <4>1
      <4> QED BY <4>1, <2>4
    <3>4. StepDelay(s) = Delay(w, ConfigOf(p)) + Pads(p, s)
      BY <2>5, <2>6, <3>2, <3>3
    <3>5. Pads(p, s) > 0 => s.delay > 15
      BY <2>6
    <3>6. w.top = (side = 1)
      BY <2>3, <3>2, Zenon
    <3>7. Pads(p, s) > 0 => s.function \notin Control /\ ~w.top
      <4>1. SUFFICES ASSUME Pads(p, s) > 0 PROVE s.function \notin Control /\ ~w.top
        OBVIOUS
      <4>2. s.function \notin Control /\ (side = 1) = FALSE
        BY <2>2, <3>5, <4>1
      <4> QED BY <3>6, <4>2
    <3> QED BY <3>4, <3>6, <3>7 DEF side
  <2> QED BY <2>7, <2>8
<1> QED BY <1>3, <1>4

LEMMA LaidIs ==
  ASSUME NEW p \in Parsed, Sound(p), Exact(p), NEW q \in Graph, Twin(q, p),
         AssembleError(q) = "ok"
  PROVE  Laid(p, Load(q))
<1> DEFINE n == Len(p.steps)
           at == Labels(p)
           mem == Load(q)
<1>1. /\ p \in Graph /\ n \in Nat /\ DOMAIN p.steps = 1 .. n
      /\ \A k \in 1 .. n : p.steps[k] \in Step /\ q.steps[k] \in Step
      /\ Len(q.steps) = n /\ Labels(q) = at
      /\ \A x : StepCalled(q, x) = StepCalled(p, x)
  <2>1. p \in Graph
    BY DEF Parsed
  <2>2. Len(q.steps) = n /\ Labels(q) = at /\ \A x : StepCalled(q, x) = StepCalled(p, x)
    BY <2>1, TwinIs
  <2> QED BY <2>1, <2>2, StepsAre
<1>2. /\ mem \in [Addr -> Node] /\ at[n + 1] <= 32
      /\ \A k \in 1 .. n : \A a \in Nat : at[k] < a /\ a < at[k + 1] => mem[a] = Nop
      /\ \A a \in Addr : at[n + 1] <= a => mem[a] = Zero
  <2> HIDE DEF at, n, mem
  <2>1. /\ mem \in [Addr -> Node]
        /\ \A k \in 1 .. n : \A a \in Nat : at[k] < a /\ a < at[k + 1] => mem[a] = Nop
        /\ \A a \in Addr : at[n + 1] <= a => mem[a] = Zero
    BY <1>1, LoadIs DEF mem
  <2>2. at[n + 1] <= 32
    BY <1>1, AcceptedIs
  <2> QED BY <2>1, <2>2
<1>3. ASSUME NEW k \in 1 .. n PROVE LaidStep(p, k, mem[at[k]])
  <2> DEFINE s == p.steps[k]
             t == q.steps[k]
             x == s.inputs[1].value
             e == Emit(p, s)
             i == Resolve(q, Emit(q, t))
             w == mem[at[k]]
  <2>1. /\ s \in Step /\ t \in Step /\ s.function \in Primitives /\ s.delay \in Nat
        /\ Side(s) \in {0, 1} /\ p.sideset_count \in {0, 1} /\ ExactStep(p, s)
        /\ s.function = t.function
    BY <1>1, TwinIs DEF Sound, Exact
  <2>2. /\ Emit(q, t).op = e.op /\ Emit(q, t).field = e.field
        /\ Emit(q, t).payload = e.payload /\ Emit(q, t).label = e.label
        /\ Emit(q, t).delay = e.delay
    BY <1>1, TwinIs
  <2>3. EmitError(q, t) = "ok" /\ EncodeError(i) = "ok" /\ w = Decode(Encode(i))
    <3>1. k \in 1 .. Len(q.steps)
      BY <1>1
    <3>2. EmitError(q, t) = "ok" /\ EncodeError(i) = "ok"
      BY <3>1, AcceptedIs
    <3>3. mem[Labels(q)[k]] = Decode(Encode(i))
      BY <3>1, LoadIs
    <3> QED BY <1>1, <3>2, <3>3
  <2>4. /\ e.op \in 0 .. 7 /\ e.delay \in 0 .. 31 /\ e.field \in 0 .. 7 /\ e.payload \in 0 .. 31
        /\ s.function \in Control => t.inputs # << >>
    <3>1. k \in 1 .. Len(q.steps) /\ t.function \in Primitives
      BY <1>1, <2>1
    <3>2. /\ Emit(q, t).op \in 0 .. 7
          /\ Emit(q, t).delay \in 0 .. 31
          /\ Emit(q, t).field \in 0 .. 7
          /\ Emit(q, t).payload \in 0 .. 31
          /\ t.function \in Control => t.inputs # << >>
      BY <2>3, <3>1, StepFits
    <3> HIDE DEF e, s, t
    <3> QED BY <2>1, <2>2, <3>2
  <2>5. s.function \in Control => s.inputs # << >>
    <3>1. CASE q = p
      BY <2>4, <3>1
    <3>2. CASE Alike(q, p)
      <4>1. SameCode(t, s)
        BY <3>2 DEF Alike
      <4>2. t.inputs \in Seq(Input) /\ s.inputs \in Seq(Input) /\ Len(t.inputs) = Len(s.inputs)
        BY <2>1, <4>1 DEF Step, SameCode
      <4> QED BY <2>4, <4>2
    <3> QED BY <3>1, <3>2 DEF Twin
  <2>6. /\ e.op = 0 <=> s.function \in Control
        /\ e.label = IF s.function \in Control THEN <<x>> ELSE << >>
    <3> HIDE DEF e, s, x
    <3> QED BY <2>1, <2>5, EmitIs DEF e, x
  <2>7. CodeOf(p, k) = DecodeCode(e.op, e.field, e.payload) /\ CodeOf(p, k) \in Code
    <3>1. ~(k > Len(p.steps))
      BY <1>1
    <3>2. CodeOf(p, k) = DecodeCode(e.op, e.field, e.payload)
      BY <3>1 DEF CodeOf
    <3> HIDE DEF e
    <3> QED BY <2>4, <3>2, CodeType
  <2>8. /\ i.op = e.op /\ i.field = e.field /\ i.delay = e.delay
        /\ i.payload = IF s.function \in Control THEN at[StepCalled(p, x)] ELSE e.payload
    <3>1. DOMAIN Emit(q, t) = {"op", "delay", "field", "payload", "label"}
      <4> HIDE DEF t
      <4> QED BY DEF Emit, Instr
    <3>2. StepCalled(q, x) = CHOOSE j \in DOMAIN q.steps : q.steps[j].name = x
      BY DEF StepCalled
    <3> DEFINE f == Emit(q, t)
    <3>3. /\ f.op = e.op /\ f.field = e.field /\ f.payload = e.payload /\ f.delay = e.delay
          /\ f.label = IF s.function \in Control THEN <<x>> ELSE << >>
      BY <2>2, <2>6
    <3>4. i = IF f.label = << >> THEN f
              ELSE [f EXCEPT !.payload = Labels(q)[StepCalled(q, f.label[1])]]
      BY DEF Resolve, StepCalled
    <3> HIDE DEF e, f, i, s, x, at, t
    <3>5. CASE s.function \in Control
      <4>1. f.label = <<x>> /\ f.label # << >> /\ f.label[1] = x
        BY <3>3, <3>5
      <4>2. i = [f EXCEPT !.payload = at[StepCalled(p, x)]]
        BY <1>1, <3>4, <4>1
      <4> QED BY <3>1, <3>3, <3>5, <4>2 DEF f
    <3>6. CASE s.function \notin Control
      <4>1. i = f
        BY <3>3, <3>4, <3>6
      <4> QED BY <3>3, <3>6, <4>1
    <3> QED BY <3>5, <3>6
  <2> HIDE DEF i, w
  <2>9. w = [code |-> DecodeCode(i.op, i.field, i.payload), top |-> i.delay >= 16,
             low |-> IF i.delay >= 16 THEN i.delay - 16 ELSE i.delay]
    BY <2>3, DecodeEncode
  <2>10. /\ w.code = DecodeCode(i.op, i.field, i.payload)
         /\ w.top = (e.delay >= 16)
         /\ w.low = IF e.delay >= 16 THEN e.delay - 16 ELSE e.delay
    BY <2>8, <2>9
  <2>11. /\ p.sideset_count = 1 => w.top = (Side(s) = 1)
         /\ StepDelay(s) = Delay(w, ConfigOf(p)) + Pads(p, s)
         /\ Pads(p, s) > 0 => s.function \notin Control /\ (p.sideset_count = 1 => ~w.top)
    BY <1>1, <2>1, <2>4, <2>10, StepWaits
  <2>12. CASE s.function \in Control
    <3>1. e.op = 0 /\ i.op = 0 /\ i.field = e.field /\ i.payload = at[StepCalled(p, x)]
      <4> HIDE DEF e, s, x
      <4> QED BY <2>6, <2>8, <2>12
    <3>2. w.code = [op |-> "JMP", cond |-> CondNames[e.field + 1],
                    target |-> at[StepCalled(p, x)]]
      <4> HIDE DEF e, x
      <4> QED BY <2>10, <3>1 DEF DecodeCode
    <3>3. CodeOf(p, k) = [op |-> "JMP", cond |-> CondNames[e.field + 1],
                          target |-> e.payload]
      <4> HIDE DEF e
      <4> QED BY <2>7, <3>1 DEF DecodeCode
    <3>4. StepCalled(p, x) \in 1 .. n
      BY <2>5, <2>12, TargetType
    <3>5. CodeOf(p, k).op = "JMP" /\ CodeOf(p, k).cond = CondNames[e.field + 1]
      BY <3>3
    <3> QED BY <2>7, <2>11, <2>12, <3>2, <3>4, <3>5 DEF LaidStep, w
  <2>13. CASE s.function \notin Control
    <3> HIDE DEF e
    <3>1. e.op # 0 /\ w.code = CodeOf(p, k)
      BY <2>6, <2>7, <2>8, <2>10, <2>13
    <3>2. w.code.op # "JMP"
      BY <2>4, <2>7, <3>1 DEF DecodeCode
    <3> QED BY <2>7, <2>11, <2>13, <3>1, <3>2 DEF LaidStep, w
  <2> QED BY <2>12, <2>13
<1> QED BY <1>2, <1>3 DEF Laid

-----------------------------------------------------------------------------
\* An instruction neither reads nor changes where the machine is and how long
\* it waits, so the graph's registers are the machine's without these.
Strip(mm) == [mm EXCEPT !.pc = 0, !.delay_ctr = 0]

LEMMA StripIs ==
  ASSUME NEW mm \in Machine
  PROVE  /\ Strip(mm) \in Machine
         /\ Strip(mm).x = mm.x /\ Strip(mm).y = mm.y
         /\ Strip(mm).osr = mm.osr /\ Strip(mm).isr = mm.isr
         /\ Strip(mm).out_reg = mm.out_reg /\ Strip(mm).oe_reg = mm.oe_reg
         /\ Strip(mm).out_pin = mm.out_pin /\ Strip(mm).in_pin = mm.in_pin
         /\ Strip(mm).side_latched = mm.side_latched /\ Strip(mm).crc = mm.crc
         /\ Strip(mm).tx = mm.tx /\ Strip(mm).rx = mm.rx
<1>1. 0 \in Addr /\ 0 \in DelayVal
  BY IsaAssumption DEF Addr, DelayVal
<1> QED BY <1>1 DEF Strip, Machine

LEMMA BusSame ==
  ASSUME NEW mm \in Machine, NEW gpio
  PROVE  Bus(<<mm>>, gpio) = Bus(<<Strip(mm)>>, gpio)
<1>1. Strip(mm).oe_reg = mm.oe_reg /\ Strip(mm).out_reg = mm.out_reg
  BY StripIs
<1>2. ASSUME NEW r
      PROVE  /\ BusOe(<<r>>) = r.oe_reg
             /\ Drive0(<<r>>) = r.oe_reg \ r.out_reg
             /\ Drive1(<<r>>) = r.oe_reg \cap r.out_reg
  <2>1. DOMAIN <<r>> = {1} /\ <<r>>[1] = r
    OBVIOUS
  <2> QED BY <2>1 DEF BusOe, Drive0, Drive1
<1> QED BY <1>1, <1>2 DEF Bus

LEMMA SidesetSame ==
  ASSUME NEW mm \in Machine, NEW c \in Config
  PROVE  /\ Strip(ApplySideset(mm, c)) = ApplySideset(Strip(mm), c)
         /\ ApplySideset(mm, c).pc = mm.pc
         /\ ApplySideset(mm, c).delay_ctr = mm.delay_ctr
         /\ ApplySideset(mm, c).side_latched = mm.side_latched
BY DEF ApplySideset, Strip, Machine

LEMMA ReadsSame ==
  ASSUME NEW mm \in Machine, NEW i, NEW bus
  PROVE  /\ EffectivePins(mm, bus) = EffectivePins(Strip(mm), bus)
         /\ Stalls(mm, i, bus) = Stalls(Strip(mm), i, bus)
         /\ Jumps(mm, i, bus) = Jumps(Strip(mm), i, bus)
<1>1. EffectivePins(mm, bus) = EffectivePins(Strip(mm), bus)
  BY StripIs DEF EffectivePins
<1>2. Stalls(mm, i, bus) = Stalls(Strip(mm), i, bus)
  BY StripIs, Zenon DEF Stalls
<1>3. Jumps(mm, i, bus) = Jumps(Strip(mm), i, bus)
  BY StripIs, Zenon DEF Jumps
<1> QED BY <1>1, <1>2, <1>3

LEMMA StallKeeps ==
  ASSUME NEW mm \in Machine, NEW i, NEW eff, Stalls(mm, i, eff)
  PROVE  Exec(mm, i, eff) = mm
BY DEF Stalls, Exec, ExecPull, ExecPush

LEMMA MovSame ==
  ASSUME NEW mm \in Machine, NEW d, NEW v
  PROVE  /\ Strip(MovDst(mm, d, v)) = MovDst(Strip(mm), d, v)
         /\ MovDst(mm, d, v).pc = mm.pc
         /\ MovDst(mm, d, v).delay_ctr = mm.delay_ctr
         /\ MovDst(mm, d, v).side_latched = mm.side_latched
BY DEF MovDst, Strip, Machine

LEMMA ExecSame ==
  ASSUME NEW mm \in Machine, NEW i \in Code, NEW eff \in Reg
  PROVE  /\ Strip(Exec(mm, i, eff)) = Exec(Strip(mm), i, eff)
         /\ Exec(mm, i, eff).pc = mm.pc
         /\ Exec(mm, i, eff).delay_ctr = mm.delay_ctr
         /\ Exec(mm, i, eff).side_latched = mm.side_latched
<1> DEFINE Keeps(a, b) == /\ Strip(a) = b /\ a.pc = mm.pc /\ a.delay_ctr = mm.delay_ctr
                         /\ a.side_latched = mm.side_latched
           r == Strip(mm)
<1>0. Keeps(mm, r)
  OBVIOUS
<1>1. Keeps(ExecJmp(mm, i), ExecJmp(r, i))
  BY DEF ExecJmp, Strip, Machine
<1>2. Keeps(ExecOut(mm, i), ExecOut(r, i))
  BY DEF ExecOut, Strip, Machine
<1>3. Keeps(ExecIn(mm, i, eff), ExecIn(r, i, eff))
  BY DEF ExecIn, Strip, Machine
<1>4. Keeps(ExecPull(mm), ExecPull(r))
  BY DEF ExecPull, Strip, Machine
<1>5. Keeps(ExecPush(mm), ExecPush(r))
  BY DEF ExecPush, Strip, Machine
<1>6. Keeps(ExecSet(mm, i), ExecSet(r, i))
  BY DEF ExecSet, Strip, Machine
<1>7. Keeps(ExecSetPin(mm, i), ExecSetPin(r, i))
  BY DEF ExecSetPin, Strip, Machine
<1>8. i.op = "MOV" => Keeps(ExecMov(mm, i, eff), ExecMov(r, i, eff))
  <2>1. /\ r.x = mm.x /\ r.y = mm.y /\ r.osr = mm.osr /\ r.isr = mm.isr
        /\ r.out_reg = mm.out_reg /\ r.crc = mm.crc
    BY StripIs
  <2>2. \A d, v : Keeps(MovDst(mm, d, v), MovDst(r, d, v))
    BY MovSame
  <2>3. \A v : Keeps([mm EXCEPT !.crc = v], [r EXCEPT !.crc = v])
    BY DEF Strip, Machine
  <2>4. \A d, v : Keeps(MovDst([mm EXCEPT !.crc = CrcShift(mm.crc)], d, v),
                       MovDst([r EXCEPT !.crc = CrcShift(r.crc)], d, v))
    <3>1. CrcShift(mm.crc) \in SUBSET CrcBits
      BY CrcTypes DEF Machine
    <3> DEFINE u == [mm EXCEPT !.crc = CrcShift(mm.crc)]
               z == [r EXCEPT !.crc = CrcShift(r.crc)]
    <3>2. u \in Machine
      BY <3>1 DEF Machine
    <3>3. Keeps(u, z)
      BY <2>1, <2>3
    <3> HIDE DEF u, z, r
    <3>4. \A d, v : Keeps(MovDst(u, d, v), MovDst(z, d, v))
      <4>1. \A d, v : /\ Strip(MovDst(u, d, v)) = MovDst(Strip(u), d, v)
                      /\ MovDst(u, d, v).pc = u.pc
                      /\ MovDst(u, d, v).delay_ctr = u.delay_ctr
                      /\ MovDst(u, d, v).side_latched = u.side_latched
        BY <3>2, MovSame, Zenon
      <4> QED BY <3>3, <4>1
    <3> QED BY <3>4, Zenon DEF u, z
  <2>5. /\ Current(mm, i.dst) = Current(r, i.dst)
        /\ PlainSrc(mm, i.src, eff) = PlainSrc(r, i.src, eff)
    BY <2>1 DEF Current, PlainSrc
  <2> HIDE DEF r, Keeps
  <2> QED BY <2>1, <2>2, <2>3, <2>4, <2>5 DEF ExecMov
<1> HIDE DEF Keeps, r
<1>9. Keeps(Exec(mm, i, eff), Exec(r, i, eff))
  BY <1>0, <1>1, <1>2, <1>3, <1>4, <1>5, <1>6, <1>7, <1>8 DEF Exec
<1> QED BY <1>9 DEF Keeps, r

\* Of a jump only the condition matters, but for where it goes.
LEMMA JumpSame ==
  ASSUME NEW mm, NEW i, NEW j, NEW eff, i.op = "JMP", j.op = "JMP", i.cond = j.cond
  PROVE  /\ Exec(mm, i, eff) = Exec(mm, j, eff)
         /\ Jumps(mm, i, eff) = Jumps(mm, j, eff)
         /\ ~Stalls(mm, i, eff) /\ ~Stalls(mm, j, eff)
<1>1. Exec(mm, i, eff) = Exec(mm, j, eff)
  BY DEF Exec, ExecJmp
<1>2. Jumps(mm, i, eff) = Jumps(mm, j, eff)
  BY Zenon DEF Jumps
<1>3. ~Stalls(mm, i, eff) /\ ~Stalls(mm, j, eff)
  BY DEF Stalls
<1> QED BY <1>1, <1>2, <1>3

\* The address that follows the one a machine is at: inside a step the next
\* one, at its end the one the graph goes on at.
LEMMA StepEnds ==
  ASSUME NEW p \in Graph, NEW k \in 1 .. Len(p.steps)
  PROVE  /\ Labels(p)[k] \in Nat /\ Pads(p, p.steps[k]) \in Nat
         /\ EndOf(p, k) = Labels(p)[k] + Pads(p, p.steps[k])
         /\ Labels(p)[k + 1] = EndOf(p, k) + 1
         /\ Labels(p)[k + 1] <= Labels(p)[Len(p.steps) + 1]
<1>1. /\ Len(p.steps) \in Nat /\ k \in 1 .. Len(p.steps) + 1
      /\ Len(p.steps) + 1 \in 1 .. Len(p.steps) + 1 /\ k < Len(p.steps) + 1
  BY StepsAre
<1>2. Pads(p, p.steps[k]) \in Nat
  BY StepsAre, PadsType
<1>3. Labels(p)[k] \in Nat /\ Labels(p)[k + 1] = Labels(p)[k] + 1 + Pads(p, p.steps[k])
  BY <1>1, LabelsAre
<1>4. Labels(p)[k + 1] <= Labels(p)[Len(p.steps) + 1]
  BY <1>1, LabelsGrow
<1> QED BY <1>2, <1>3, <1>4 DEF EndOf

Onward(p, a) == IF a = p.wrap_top THEN p.wrap_bottom ELSE (a + 1) % 32

LEMMA OnwardInside ==
  ASSUME NEW p \in Graph, Sound(p), Exact(p), Labels(p)[Len(p.steps) + 1] <= 32,
         NEW k \in 1 .. Len(p.steps), NEW a \in Nat, Labels(p)[k] <= a, a < EndOf(p, k)
  PROVE  Onward(p, a) = a + 1
<1>1. /\ Labels(p)[k] \in Nat /\ EndOf(p, k) \in Nat /\ EndOf(p, k) <= 31
      /\ p.wrap_top \in 0 .. 31
  <2>1. /\ Labels(p)[k] \in Nat /\ Pads(p, p.steps[k]) \in Nat
        /\ EndOf(p, k) = Labels(p)[k] + Pads(p, p.steps[k])
        /\ Labels(p)[k + 1] = EndOf(p, k) + 1
        /\ Labels(p)[k + 1] <= Labels(p)[Len(p.steps) + 1]
    BY StepEnds
  <2>2. Labels(p)[Len(p.steps) + 1] \in Nat
    <3>1. Len(p.steps) + 1 \in 1 .. Len(p.steps) + 1
      BY StepsAre
    <3> QED BY <3>1, LabelsAre
  <2>3. p.wrap_top \in 0 .. 31
    BY DEF Sound
  <2>4. \A l, n, x, y, z \in Nat :
          x = l + n /\ y = x + 1 /\ y <= z /\ z <= 32 => x \in Nat /\ x <= 31
    OBVIOUS
  <2>5. \A l, n \in Nat : l + n \in Nat /\ l + n + 1 \in Nat
    OBVIOUS
  <2>6. EndOf(p, k) \in Nat /\ Labels(p)[k + 1] \in Nat
    BY <2>1, <2>5
  <2>7. EndOf(p, k) <= 31
    BY <2>1, <2>2, <2>4, <2>6
  <2> QED BY <2>1, <2>3, <2>6, <2>7
<1>2. Labels(p)[k] <= p.wrap_top => EndOf(p, k) <= p.wrap_top
  <2>1. k \in DOMAIN p.steps
    BY StepsAre
  <2> QED BY <2>1 DEF Exact, ExactWrap
<1>3. a # p.wrap_top
  BY <1>1, <1>2
<1>4. (a + 1) % 32 = a + 1
  <2>1. a + 1 \in 0 .. 31
    BY <1>1
  <2> QED BY <2>1
<1> QED BY <1>3, <1>4 DEF Onward

LEMMA OnwardBelow ==
  ASSUME NEW p \in Graph, Sound(p), Exact(p), Labels(p)[Len(p.steps) + 1] <= 32,
         NEW k \in 1 .. Len(p.steps)
  PROVE  Onward(p, EndOf(p, k)) = Labels(p)[StepBelow(p, k)]
<1> DEFINE n == Len(p.steps)
           at == Labels(p)
           e == EndOf(p, k)
<1>1. /\ n \in Nat /\ e \in Nat /\ at[k + 1] = e + 1 /\ e <= 31 /\ Words = 32
      /\ p.wrap_top \in 0 .. 31 /\ p.wrap_bottom \in Nat
  <2>1. /\ at[k] \in Nat /\ Pads(p, p.steps[k]) \in Nat
        /\ e = at[k] + Pads(p, p.steps[k]) /\ at[k + 1] = e + 1 /\ at[k + 1] <= at[n + 1]
    BY StepEnds
  <2>2. n \in Nat /\ n + 1 \in 1 .. n + 1
    BY StepsAre
  <2>3. at[n + 1] \in Nat
    BY <2>2, LabelsAre
  <2>4. p.wrap_top \in 0 .. 31 /\ p.wrap_bottom \in 0 .. 31
    BY DEF Sound
  <2>5. e \in Nat /\ e <= 31
    <3>1. at[n + 1] <= 32
      OBVIOUS
    <3> HIDE DEF e, at, n
    <3> QED BY <2>1, <2>3, <3>1
  <2>6. \A w \in 0 .. 31 : w \in Nat
    OBVIOUS
  <2>7. p.wrap_bottom \in Nat
    BY <2>4, <2>6, Zenon
  <2> QED BY <2>1, <2>2, <2>4, <2>5, <2>7, FieldsAssumption, Zenon
<1>2. CASE e = p.wrap_top
  <2>1. PICK j \in DOMAIN at : p.wrap_bottom = at[j]
    <3>1. k \in DOMAIN p.steps
      BY StepsAre
    <3> QED BY <1>2, <3>1 DEF Exact, ExactWrap
  <2>2. j \in 1 .. n + 1
    BY LabelsAre
  <2>3. at[j] <= at[j] /\ (j <= n => at[j] < at[j + 1])
    <3>1. j <= n => j + 1 \in 1 .. n + 1 /\ j < j + 1
      BY <1>1, <2>2
    <3>2. j <= n => at[j] < at[j + 1]
      BY <2>2, <3>1, LabelsGrow
    <3>3. at[j] \in Nat
      BY <2>2, LabelsAre
    <3> QED BY <3>2, <3>3
  <2>4. StepAt(p, at[j]) = j
    <3>1. at[j] \in Nat
      BY <2>2, LabelsAre
    <3> QED BY <2>2, <2>3, <3>1, StepAtIs
  <2>5. StepBelow(p, k) = j
    BY <1>2, <2>1, <2>4 DEF StepBelow
  <2> QED BY <1>2, <2>1, <2>5 DEF Onward
<1>3. CASE e # p.wrap_top /\ e = 31
  <2>1. StepBelow(p, k) = 1
    BY <1>1, <1>3 DEF StepBelow
  <2>2. Onward(p, e) = 0
    BY <1>3 DEF Onward
  <2> QED BY <2>1, <2>2, LabelsAre
<1>4. CASE e # p.wrap_top /\ e # 31
  <2>1. StepBelow(p, k) = k + 1
    BY <1>1, <1>4 DEF StepBelow
  <2>2. (e + 1) % 32 = e + 1
    <3> HIDE DEF e
    <3>1. \A x \in Nat : x <= 31 /\ x # 31 => (x + 1) % 32 = x + 1
      OBVIOUS
    <3> QED BY <1>1, <1>4, <3>1, Zenon
  <2>3. Onward(p, e) = e + 1
    BY <1>4, <2>2 DEF Onward
  <2> QED BY <1>1, <2>1, <2>3
<1> QED BY <1>2, <1>3, <1>4

-----------------------------------------------------------------------------
\* Where the machine is when the graph is in a step: at its word, and both
\* wait for as long; or among the pads of a step the graph has already left,
\* which it makes up for by waiting, with the side-set pin low.
AtStep(p, mm, h) == mm.pc = Labels(p)[h.at] /\ h.left = mm.delay_ctr

InPads(p, mm, h, j) ==
  /\ Labels(p)[j] < mm.pc /\ mm.pc <= EndOf(p, j)
  /\ h.left = mm.delay_ctr + EndOf(p, j) + 1 - mm.pc
  /\ h.at = StepBelow(p, j)
  /\ p.sideset_count = 1 => ~mm.side_latched

InStep(p, mm, h) ==
  /\ Strip(mm) = h.r
  /\ AtStep(p, mm, h) \/ \E j \in 1 .. Len(p.steps) : InPads(p, mm, h, j)

\* The two wait together.
LEMMA WaitInStep ==
  ASSUME NEW p \in Graph, Sound(p), NEW mm \in Machine, NEW h \in GraphState(p),
         InStep(p, mm, h), mm.delay_ctr # 0, NEW w, NEW bus
  PROVE  InStep(p, Tick(mm, w, ConfigOf(p), bus), GraphTick(p, h, bus))
<1> DEFINE c == ConfigOf(p)
           less == [mm EXCEPT !.delay_ctr = mm.delay_ctr - 1]
           mm2 == Tick(mm, w, c, bus)
           h2 == GraphTick(p, h, bus)
<1>1. /\ c \in Config /\ mm.delay_ctr \in Nat /\ mm.pc \in Nat
      /\ h.left \in Nat /\ h.r \in Machine /\ DOMAIN h = {"at", "left", "r"}
  <2>1. c \in Config
    BY ConfigType
  <2> QED BY <2>1, IsaAssumption DEF Machine, GraphState, DelayVal, Addr
<1>2. less \in Machine /\ Strip(less) = Strip(mm) /\ less.pc = mm.pc
      /\ less.delay_ctr = mm.delay_ctr - 1 /\ less.side_latched = mm.side_latched
  <2>1. mm.delay_ctr - 1 \in DelayVal
    BY <1>1, IsaAssumption DEF Machine, DelayVal
  <2> QED BY <2>1 DEF Machine, Strip
<1>3. \A j \in 1 .. Len(p.steps) : EndOf(p, j) \in Nat
  <2>1. ASSUME NEW j \in 1 .. Len(p.steps) PROVE EndOf(p, j) \in Nat
    <3>1. /\ Labels(p)[j] \in Nat /\ Pads(p, p.steps[j]) \in Nat
          /\ EndOf(p, j) = Labels(p)[j] + Pads(p, p.steps[j])
      BY StepEnds
    <3> QED BY <3>1
  <2> QED BY <2>1
<1>4. h.left # 0
  <2>1. CASE AtStep(p, mm, h)
    BY <2>1 DEF AtStep
  <2>2. ASSUME NEW j \in 1 .. Len(p.steps), InPads(p, mm, h, j) PROVE h.left # 0
    <3>1. EndOf(p, j) \in Nat
      BY <1>3
    <3> QED BY <1>1, <2>2, <3>1 DEF InPads
  <2> QED BY <2>1, <2>2 DEF InStep
<1>5. mm2 = ApplySideset(less, c)
  BY DEF Tick
<1>6. h2 = [h EXCEPT !.left = h.left - 1, !.r = ApplySideset(h.r, c)]
  BY <1>4 DEF GraphTick
<1> HIDE DEF less, c, mm2, h2
<1>7. /\ Strip(mm2) = ApplySideset(Strip(mm), c) /\ mm2.pc = mm.pc
      /\ mm2.delay_ctr = mm.delay_ctr - 1 /\ mm2.side_latched = mm.side_latched
  BY <1>1, <1>2, <1>5, SidesetSame
<1>8. h2.at = h.at /\ h2.left = h.left - 1 /\ h2.r = ApplySideset(h.r, c)
  BY <1>1, <1>6
<1>9. Strip(mm2) = h2.r
  BY <1>7, <1>8 DEF InStep
<1>10. AtStep(p, mm, h) => AtStep(p, mm2, h2)
  BY <1>7, <1>8 DEF AtStep
<1>11. ASSUME NEW j \in 1 .. Len(p.steps), InPads(p, mm, h, j)
       PROVE  InPads(p, mm2, h2, j)
  <2> DEFINE e == EndOf(p, j)
  <2>1. e \in Nat
    BY <1>3
  <2>2. /\ Labels(p)[j] < mm.pc /\ mm.pc <= e /\ h.at = StepBelow(p, j)
        /\ h.left = mm.delay_ctr + e + 1 - mm.pc
        /\ p.sideset_count = 1 => ~mm.side_latched
    BY <1>11 DEF InPads
  <2> HIDE DEF e
  <2>3. \A u, v, x, y \in Nat : u = v + x + 1 - y => u - 1 = (v - 1) + x + 1 - y
    OBVIOUS
  <2>4. h.left - 1 = (mm.delay_ctr - 1) + e + 1 - mm.pc
    BY <1>1, <2>1, <2>2, <2>3
  <2>5. h2.left = mm2.delay_ctr + e + 1 - mm2.pc
    BY <1>7, <1>8, <2>4, Zenon
  <2> QED BY <1>7, <1>8, <2>2, <2>5 DEF InPads, e
<1>12. InStep(p, mm2, h2)
  BY <1>9, <1>10, <1>11 DEF InStep
<1> QED BY <1>12 DEF mm2, h2, c

\* Among the pads the machine goes from NOP to NOP, and from the last one to
\* the step the graph is at.
LEMMA PadInStep ==
  ASSUME NEW p \in Graph, Sound(p), Exact(p), NEW mem, Laid(p, mem),
         NEW mm \in Machine, NEW h \in GraphState(p), Strip(mm) = h.r,
         NEW j \in 1 .. Len(p.steps), InPads(p, mm, h, j), mm.delay_ctr = 0, NEW bus
  PROVE  InStep(p, Tick(mm, mem[mm.pc], ConfigOf(p), bus), GraphTick(p, h, bus))
<1> DEFINE c == ConfigOf(p)
           a == mm.pc
           e == EndOf(p, j)
           side == ApplySideset(mm, c)
           eff == EffectivePins(side, bus)
           mm2 == Tick(mm, mem[a], c, bus)
           h2 == GraphTick(p, h, bus)
<1>1. /\ c \in Config /\ a \in Addr /\ a \in Nat /\ mm.delay_ctr = 0 /\ mm.side_latched \in BOOLEAN
      /\ h.left \in Nat /\ h.r \in Machine /\ DOMAIN h = {"at", "left", "r"}
      /\ c.wrap_top = p.wrap_top /\ c.wrap_bot = p.wrap_bottom
      /\ c.side_count <=> p.sideset_count = 1
  <2>1. c \in Config
    BY ConfigType
  <2>2. c.side_count <=> p.sideset_count = 1
    BY DEF ConfigOf
  <2>3. c.wrap_top = p.wrap_top /\ c.wrap_bot = p.wrap_bottom
    BY DEF ConfigOf
  <2>4. a \in Addr /\ a \in Nat /\ mm.side_latched \in BOOLEAN
    BY IsaAssumption DEF Machine, Addr
  <2>5. h.left \in Nat /\ h.r \in Machine /\ DOMAIN h = {"at", "left", "r"}
    BY DEF GraphState
  <2> HIDE DEF a, c
  <2> QED BY <2>1, <2>2, <2>3, <2>4, <2>5
<1>2. /\ Labels(p)[j] \in Nat /\ e \in Nat /\ Labels(p)[j + 1] = e + 1
      /\ Labels(p)[j] < a /\ a <= e
  <2>1. /\ Labels(p)[j] \in Nat /\ Pads(p, p.steps[j]) \in Nat
        /\ e = Labels(p)[j] + Pads(p, p.steps[j]) /\ Labels(p)[j + 1] = e + 1
    BY StepEnds
  <2>2. Labels(p)[j] < a /\ a <= e
    BY DEF InPads
  <2> HIDE DEF e
  <2> QED BY <2>1, <2>2
<1>3. mem[a] = Nop
  <2>1. a < Labels(p)[j + 1]
    <3> HIDE DEF a, e
    <3> QED BY <1>1, <1>2
  <2> QED BY <1>1, <1>2, <2>1 DEF Laid
<1>4. Latch(mm, Nop, c) = mm
  <2>1. CASE c.side_count
    <3>1. mm.side_latched = FALSE
      BY <1>1, <2>1 DEF InPads
    <3>2. [mm EXCEPT !.side_latched = FALSE] = mm
      BY <3>1 DEF Machine
    <3> QED BY <2>1, <3>2 DEF Latch, Nop
  <2>2. CASE ~c.side_count
    BY <2>2 DEF Latch
  <2> QED BY <2>1, <2>2
<1>5. mm2 = [side EXCEPT !.pc = Follow(side, Nop.code, c, eff), !.delay_ctr = Delay(Nop, c)]
  <2>1. mm2 = Run(side, Nop, c, eff)
    BY <1>3, <1>4 DEF Tick
  <2>2. ~Stalls(side, Nop.code, eff)
    BY DEF Stalls, Nop
  <2>3. Exec(side, Nop.code, eff) = side
    BY DEF Exec, Nop
  <2> HIDE DEF mm2, side, eff, c
  <2> QED BY <2>1, <2>2, <2>3 DEF Run
<1>6. /\ side \in Machine /\ Strip(side) = ApplySideset(h.r, c)
      /\ side.pc = a /\ side.side_latched = mm.side_latched
  <2>1. Nop \in Node
    BY FieldsAssumption DEF Nop, Node, Code
  <2>2. side \in Machine
    BY <1>1, <2>1, SidedType
  <2> HIDE DEF c
  <2> QED BY <1>1, <2>2, SidesetSame
<1>7. Follow(side, Nop.code, c, eff) = Onward(p, a) /\ Delay(Nop, c) = 0
  <2> HIDE DEF side, eff, c, a
  <2>1. Follow(side, Nop.code, c, eff) = Onward(p, a)
    BY <1>1, <1>6, FieldsAssumption DEF Follow, Nop, Onward
  <2>2. Delay(Nop, c) = 0
    BY DEF Delay, Nop
  <2> QED BY <2>1, <2>2
<1>8. /\ Strip(mm2) = ApplySideset(h.r, c)
      /\ mm2.pc = Onward(p, a) /\ mm2.delay_ctr = 0 /\ mm2.side_latched = mm.side_latched
  <2> HIDE DEF side, eff, mm2, c
  <2>1. mm2 = [side EXCEPT !.pc = Onward(p, a), !.delay_ctr = 0]
    BY <1>5, <1>7
  <2>2. Strip(mm2) = Strip(side)
    BY <1>6, <2>1 DEF Strip, Machine
  <2>3. mm2.pc = Onward(p, a) /\ mm2.delay_ctr = 0 /\ mm2.side_latched = side.side_latched
    BY <1>6, <2>1 DEF Machine
  <2> QED BY <1>6, <2>2, <2>3
<1>9. h.left = e + 1 - a /\ h.left # 0 /\ h.at = StepBelow(p, j)
  <2>1. h.left = mm.delay_ctr + e + 1 - a /\ h.at = StepBelow(p, j)
    BY DEF InPads
  <2> HIDE DEF a, e
  <2> QED BY <1>1, <1>2, <2>1
<1>10. h2 = [h EXCEPT !.left = h.left - 1, !.r = ApplySideset(h.r, c)]
  BY <1>9 DEF GraphTick
<1>11. h2.at = StepBelow(p, j) /\ h2.left = e - a /\ h2.r = ApplySideset(h.r, c)
  <2> HIDE DEF h2, c, a, e
  <2> QED BY <1>1, <1>2, <1>9, <1>10
<1>12. CASE a < e
  <2>1. Onward(p, a) = a + 1
    <3>1. Labels(p)[j] <= a
      <4> HIDE DEF a, e
      <4> QED BY <1>1, <1>2
    <3> QED BY <1>1, <1>12, <3>1, OnwardInside DEF Laid
  <2> HIDE DEF mm2, h2, c, a
  <2>2. InPads(p, mm2, h2, j)
    <3>1. p.sideset_count = 1 => ~mm2.side_latched
      BY <1>8 DEF InPads
    <3>2. /\ Labels(p)[j] < mm2.pc /\ mm2.pc <= e
          /\ h2.left = mm2.delay_ctr + e + 1 - mm2.pc
      <4> HIDE DEF e
      <4> QED BY <1>1, <1>2, <1>8, <1>11, <1>12, <2>1
    <3> QED BY <1>11, <3>1, <3>2 DEF InPads
  <2>3. InStep(p, mm2, h2)
    BY <1>8, <1>11, <2>2 DEF InStep
  <2> QED BY <2>3 DEF mm2, h2, c, a
<1>13. CASE a = e
  <2>1. Onward(p, a) = Labels(p)[StepBelow(p, j)]
    BY <1>13, OnwardBelow DEF Laid
  <2> HIDE DEF mm2, h2, c, a
  <2>2. AtStep(p, mm2, h2)
    <3>1. h2.left = 0
      BY <1>1, <1>11, <1>13
    <3> QED BY <1>8, <1>11, <2>1, <3>1 DEF AtStep
  <2>3. InStep(p, mm2, h2)
    BY <1>8, <1>11, <2>2 DEF InStep
  <2> QED BY <2>3 DEF mm2, h2, c, a
<1>14. a < e \/ a = e
  <2> HIDE DEF a, e
  <2> QED BY <1>1, <1>2
<1> QED BY <1>12, <1>13, <1>14

\* At its word a step is executed by both.  Behind the last step a jump leads
\* to the first word.
LEMMA EndInStep ==
  ASSUME NEW p \in Graph, Sound(p), NEW mem, Laid(p, mem),
         NEW mm \in Machine, NEW h \in GraphState(p), Strip(mm) = h.r, AtStep(p, mm, h),
         h.at = Len(p.steps) + 1, mm.delay_ctr = 0, NEW bus
  PROVE  InStep(p, Tick(mm, mem[mm.pc], ConfigOf(p), bus), GraphTick(p, h, bus))
<1> DEFINE c == ConfigOf(p)
           n == Len(p.steps)
           low == Latch(mm, Zero, c)
           side == ApplySideset(low, c)
           asked == IF c.side_count THEN [h.r EXCEPT !.side_latched = FALSE] ELSE h.r
           r == ApplySideset(asked, c)
           mm2 == Tick(mm, mem[mm.pc], c, bus)
           h2 == GraphTick(p, h, bus)
<1>1. n \in Nat /\ c \in Config /\ mm.pc \in Addr /\ mm.pc = Labels(p)[n + 1]
      /\ h.left = 0 /\ DOMAIN h = {"at", "left", "r"}
  <2>1. n \in Nat /\ c \in Config
    BY ConfigType, StepsAre
  <2> QED BY <2>1 DEF Machine, AtStep, GraphState
<1>2. mem[mm.pc] = Zero
  <2>1. Labels(p)[n + 1] <= mm.pc
    BY <1>1, IsaAssumption DEF Addr
  <2> QED BY <1>1, <2>1 DEF Laid
<1>3. low \in Machine /\ side \in Machine /\ Strip(low) = asked /\ Strip(side) = r
  <2>1. Zero \in Node
    BY FieldsAssumption DEF Zero, Node, Code, Condition, Addr
  <2>2. low \in Machine /\ side \in Machine
    BY <1>1, <2>1, SidedType
  <2>3. Strip(low) = asked
    BY DEF Latch, Zero, Strip, Machine
  <2> HIDE DEF low, asked, c
  <2> QED BY <1>1, <2>2, <2>3, SidesetSame
<1>4. mm2 = [side EXCEPT !.pc = 0, !.delay_ctr = 0]
  <2> DEFINE eff == EffectivePins(side, bus)
  <2>1. mm2 = Run(side, Zero, c, eff)
    BY <1>2 DEF Tick
  <2>2. /\ ~Stalls(side, Zero.code, eff) /\ Exec(side, Zero.code, eff) = side
        /\ Follow(side, Zero.code, c, eff) = 0 /\ Delay(Zero, c) = 0
    BY DEF Stalls, Exec, ExecJmp, Follow, Jumps, Delay, Zero
  <2> HIDE DEF mm2, side, eff, c
  <2> QED BY <2>1, <2>2 DEF Run
<1>5. Strip(mm2) = r /\ mm2.pc = 0 /\ mm2.delay_ctr = 0
  <2> HIDE DEF side, mm2, r
  <2>1. Strip(mm2) = Strip(side)
    BY <1>3, <1>4 DEF Strip, Machine
  <2> QED BY <1>3, <1>4, <2>1 DEF Machine
<1>6. h2 = [at |-> 1, left |-> 0, r |-> r]
  <2> DEFINE eff == EffectivePins(r, bus)
             level == h.at <= n /\ Side(p.steps[h.at]) = 1
             ask == IF c.side_count THEN [h.r EXCEPT !.side_latched = level] ELSE h.r
  <2>1. h2 = Executed(p, h, ApplySideset(ask, c), bus)
    BY <1>1 DEF GraphTick
  <2>2. level = FALSE /\ h.at > n
    BY <1>1
  <2>3. ask = asked
    <3> HIDE DEF level, c
    <3> QED BY <2>2
  <2>4. h2 = Executed(p, h, r, bus)
    BY <2>1, <2>3
  <2>5. CodeOf(p, h.at) = Zero.code
    BY <2>2, DecodeZero DEF CodeOf
  <2>6. ~Stalls(r, Zero.code, eff) /\ Exec(r, Zero.code, eff) = r
    BY DEF Stalls, Exec, ExecJmp, Zero
  <2>7. StepAfter(p, h.at, eff, r) = 1
    BY <2>2 DEF StepAfter
  <2> HIDE DEF h2, r
  <2> QED BY <2>2, <2>4, <2>5, <2>6, <2>7 DEF Executed
<1>7. InStep(p, mm2, h2)
  <2> HIDE DEF mm2, h2, r
  <2>1. Labels(p)[1] = 0
    BY LabelsAre
  <2> QED BY <1>5, <1>6, <2>1 DEF InStep, AtStep
<1> QED BY <1>7 DEF mm2, h2, c

LEMMA RunInStep ==
  ASSUME NEW p \in Graph, Sound(p), Exact(p), NEW mem, Laid(p, mem),
         NEW mm \in Machine, NEW h \in GraphState(p), Strip(mm) = h.r, AtStep(p, mm, h),
         h.at \in 1 .. Len(p.steps), mm.delay_ctr = 0, NEW bus \in Reg
  PROVE  InStep(p, Tick(mm, mem[mm.pc], ConfigOf(p), bus), GraphTick(p, h, bus))
<1> DEFINE c == ConfigOf(p)
           n == Len(p.steps)
           k == h.at
           s == p.steps[k]
           a == mm.pc
           w == mem[a]
           code == CodeOf(p, k)
           level == k <= n /\ Side(s) = 1
           asked == IF c.side_count THEN [h.r EXCEPT !.side_latched = level] ELSE h.r
           r == ApplySideset(asked, c)
           lat == Latch(mm, w, c)
           side == ApplySideset(lat, c)
           eff == EffectivePins(side, bus)
           mm2 == Tick(mm, w, c, bus)
           h2 == GraphTick(p, h, bus)
<1>1. /\ n \in Nat /\ k \in 1 .. n /\ c \in Config /\ a \in Addr /\ a = Labels(p)[k]
      /\ h.left = 0 /\ DOMAIN h = {"at", "left", "r"} /\ w \in Node
      /\ c.side_count <=> p.sideset_count = 1
      /\ c.wrap_top = p.wrap_top /\ c.wrap_bot = p.wrap_bottom
  <2>1. n \in Nat /\ c \in Config
    BY ConfigType, StepsAre
  <2>2. (c.side_count <=> p.sideset_count = 1)
        /\ c.wrap_top = p.wrap_top /\ c.wrap_bot = p.wrap_bottom
    BY DEF ConfigOf
  <2>3. a \in Addr
    BY DEF Machine
  <2>4. w \in Node
    BY <2>3 DEF Laid
  <2>5. a = Labels(p)[k] /\ h.left = 0 /\ DOMAIN h = {"at", "left", "r"}
    BY DEF AtStep, GraphState
  <2> HIDE DEF c, a, w
  <2> QED BY <2>1, <2>2, <2>3, <2>4, <2>5
<1>2. LaidStep(p, k, w)
  BY <1>1 DEF Laid
<1>3. /\ code \in Code
      /\ s.function \notin Control => w.code = code /\ w.code.op # "JMP"
      /\ s.function \in Control =>
           /\ StepCalled(p, s.inputs[1].value) \in 1 .. n
           /\ code.op = "JMP"
           /\ w.code = [op |-> "JMP", cond |-> code.cond,
                        target |-> Labels(p)[StepCalled(p, s.inputs[1].value)]]
      /\ p.sideset_count = 1 => w.top = (Side(s) = 1)
      /\ StepDelay(s) = Delay(w, c) + Pads(p, s)
      /\ Pads(p, s) > 0 => s.function \notin Control /\ (p.sideset_count = 1 => ~w.top)
  BY <1>2 DEF LaidStep
<1>4. /\ lat \in Machine /\ side \in Machine /\ Strip(side) = r
      /\ side.pc = a /\ side.delay_ctr = 0
      /\ p.sideset_count = 1 => side.side_latched = w.top
  <2>1. lat \in Machine /\ side \in Machine
    BY <1>1, SidedType
  <2>2. /\ lat.pc = mm.pc /\ lat.delay_ctr = mm.delay_ctr
        /\ c.side_count => lat.side_latched = w.top
        /\ Strip(lat) = IF c.side_count THEN [h.r EXCEPT !.side_latched = w.top] ELSE h.r
    <3> HIDE DEF w, c
    <3> QED BY DEF Latch, Strip, Machine
  <2>3. Strip(lat) = asked
    <3>1. CASE c.side_count
      <4>1. level = (Side(s) = 1)
        BY <1>1
      <4>2. w.top = level
        <5> HIDE DEF level, w
        <5> QED BY <1>1, <1>3, <3>1, <4>1, Zenon
      <4>3. Strip(lat) = [h.r EXCEPT !.side_latched = w.top]
        BY <2>2, <3>1
      <4>4. asked = [h.r EXCEPT !.side_latched = level]
        BY <3>1
      <4> HIDE DEF level, w, lat, asked
      <4> QED BY <4>2, <4>3, <4>4, Zenon
    <3>2. CASE ~c.side_count
      BY <2>2, <3>2
    <3> QED BY <3>1, <3>2
  <2>4. /\ Strip(side) = ApplySideset(Strip(lat), c)
        /\ side.pc = lat.pc /\ side.delay_ctr = lat.delay_ctr
        /\ side.side_latched = lat.side_latched
    <3> HIDE DEF lat, c
    <3> QED BY <1>1, <2>1, SidesetSame
  <2>5. Strip(side) = r
    BY <2>3, <2>4
  <2> HIDE DEF lat, side, c, w, r
  <2> QED BY <1>1, <2>1, <2>2, <2>4, <2>5
<1>5. mm2 = Run(side, w, c, eff) /\ h2 = Executed(p, h, r, bus)
  BY <1>1 DEF Tick, GraphTick
<1> HIDE DEF lat, side, level, asked, r, mm2, h2, c, w, a, s
<1>6. /\ eff \in Reg /\ EffectivePins(r, bus) = eff
      /\ Stalls(side, w.code, eff) = Stalls(r, w.code, eff)
      /\ Jumps(side, w.code, eff) = Jumps(r, w.code, eff)
  <2>1. eff \in Reg
    BY <1>4 DEF EffectivePins, Machine, Reg
  <2> QED BY <1>4, <2>1, ReadsSame
<1> HIDE DEF eff
<1>7. /\ Stalls(r, w.code, eff) = Stalls(r, code, eff)
      /\ Exec(r, w.code, eff) = Exec(r, code, eff)
      /\ s.function \in Control => Jumps(r, w.code, eff) = Jumps(r, code, eff)
  <2>1. CASE s.function \in Control
    <3>1. w.code.op = "JMP" /\ code.op = "JMP" /\ w.code.cond = code.cond
      BY <1>3, <2>1
    <3> HIDE DEF code
    <3>2. /\ Exec(r, w.code, eff) = Exec(r, code, eff)
          /\ Jumps(r, w.code, eff) = Jumps(r, code, eff)
          /\ ~Stalls(r, w.code, eff) /\ ~Stalls(r, code, eff)
      BY <3>1, JumpSame
    <3>3. Stalls(r, w.code, eff) = Stalls(r, code, eff)
      BY <3>2 DEF Stalls
    <3> QED BY <3>2, <3>3
  <2>2. CASE s.function \notin Control
    BY <1>3, <2>2
  <2> QED BY <2>1, <2>2
<1>8. CASE Stalls(r, code, eff)
  <2>1. Stalls(side, w.code, eff)
    BY <1>6, <1>7, <1>8, Zenon
  <2>2. mm2 = side
    BY <1>4, <1>5, <2>1, StallKeeps DEF Run
  <2>3. h2 = [h EXCEPT !.r = r]
    BY <1>5, <1>6, <1>8 DEF Executed
  <2>4. h2.at = k /\ h2.left = 0 /\ h2.r = r
    BY <1>1, <2>3
  <2>5. AtStep(p, mm2, h2) /\ Strip(mm2) = h2.r
    BY <1>1, <1>4, <2>2, <2>4 DEF AtStep
  <2> QED BY <2>5 DEF InStep, mm2, h2, c, w, a
<1>9. CASE ~Stalls(r, code, eff)
  <2> DEFINE x == Exec(side, w.code, eff)
             to == Follow(side, w.code, c, eff)
             next == StepAfter(p, k, eff, r)
  <2>1. mm2 = [x EXCEPT !.pc = to, !.delay_ctr = Delay(w, c)]
    <3>1. ~Stalls(side, w.code, eff)
      BY <1>6, <1>7, <1>9, Zenon
    <3> QED BY <1>5, <3>1 DEF Run
  <2>2. h2 = [at |-> next, left |-> StepDelay(s), r |-> Exec(r, code, eff)]
    <3>1. ~(k > Len(p.steps))
      BY <1>1
    <3> QED BY <1>5, <1>6, <1>9, <3>1 DEF Executed, s
  <2>3. /\ x \in Machine /\ Strip(x) = Exec(r, code, eff)
        /\ x.side_latched = side.side_latched
    <3>1. w.code \in Code
      BY <1>1 DEF Node
    <3>2. x \in Machine
      BY <1>4, <1>6, <3>1, ExecType
    <3>3. Strip(x) = Exec(Strip(side), w.code, eff) /\ x.side_latched = side.side_latched
      BY <1>4, <1>6, <3>1, ExecSame
    <3> QED BY <1>4, <1>7, <3>2, <3>3
  <2> HIDE DEF x, to, next, code
  <2>4. /\ Strip(mm2) = Strip(x) /\ mm2.pc = to /\ mm2.delay_ctr = Delay(w, c)
        /\ mm2.side_latched = x.side_latched
    BY <2>1, <2>3 DEF Strip, Machine
  <2>5. h2.at = next /\ h2.left = StepDelay(s) /\ h2.r = Exec(r, code, eff)
    BY <2>2
  <2>6. Strip(mm2) = h2.r
    BY <2>3, <2>4, <2>5
  <2>7. /\ Labels(p)[k] \in Nat /\ Pads(p, s) \in Nat /\ EndOf(p, k) = a + Pads(p, s)
        /\ Delay(w, c) \in Nat
    <3>1. Delay(w, c) \in Nat
      BY <1>1, IsaAssumption DEF Delay, Node
    <3>2. /\ Labels(p)[k] \in Nat /\ Pads(p, p.steps[k]) \in Nat
          /\ EndOf(p, k) = Labels(p)[k] + Pads(p, p.steps[k])
      BY <1>1, StepEnds
    <3> QED BY <1>1, <3>1, <3>2 DEF s
  <2>8. CASE s.function \in Control /\ Jumps(r, code, eff)
    <3>1. next = StepCalled(p, s.inputs[1].value)
      <4>1. ~(k > Len(p.steps))
        BY <1>1
      <4> QED BY <2>8, <4>1 DEF StepAfter, next, code, s
    <3>2. to = Labels(p)[next]
      <4>1. Jumps(side, w.code, eff)
        BY <1>6, <1>7, <2>8, Zenon
      <4>2. w.code.op = "JMP" /\ w.code.target = Labels(p)[next]
        BY <1>3, <2>8, <3>1
      <4> QED BY <4>1, <4>2 DEF Follow, to
    <3>3. StepDelay(s) = Delay(w, c)
      <4>1. Pads(p, s) = 0
        BY <1>3, <2>7, <2>8
      <4> QED BY <1>3, <2>7, <4>1
    <3>4. AtStep(p, mm2, h2)
      BY <2>4, <2>5, <3>2, <3>3 DEF AtStep
    <3> QED BY <2>6, <3>4 DEF InStep, mm2, h2, c, w, a
  <2>9. CASE ~(s.function \in Control /\ Jumps(r, code, eff))
    <3>1. next = StepBelow(p, k)
      <4>1. ~(k > Len(p.steps))
        BY <1>1
      <4> QED BY <2>9, <4>1 DEF StepAfter, next, code, s
    <3>2. to = Onward(p, a)
      <4>1. ~(w.code.op = "JMP" /\ Jumps(side, w.code, eff))
        <5>1. CASE s.function \in Control
          <6>1. Jumps(side, w.code, eff) = Jumps(r, code, eff)
            BY <1>6, <1>7, <5>1, Zenon
          <6> QED BY <2>9, <5>1, <6>1, Zenon
        <5>2. CASE s.function \notin Control
          BY <1>3, <5>2
        <5> QED BY <5>1, <5>2
      <4> QED BY <1>1, <1>4, <4>1, FieldsAssumption DEF Follow, to, Onward
    <3>3. CASE Pads(p, s) = 0
      <4>1. EndOf(p, k) = a
        BY <1>1, <2>7, <3>3
      <4>2. to = Labels(p)[next]
        BY <1>1, <3>1, <3>2, <4>1, OnwardBelow DEF Laid
      <4>3. StepDelay(s) = Delay(w, c)
        BY <1>3, <2>7, <3>3
      <4>4. AtStep(p, mm2, h2)
        BY <2>4, <2>5, <4>2, <4>3 DEF AtStep
      <4> QED BY <2>6, <4>4 DEF InStep, mm2, h2, c, w, a
    <3>4. CASE Pads(p, s) > 0
      <4>1. a \in Nat /\ Labels(p)[k] <= a /\ a < EndOf(p, k)
        BY <1>1, <2>7, <3>4
      <4>2. to = a + 1
        BY <1>1, <3>2, <4>1, OnwardInside DEF Laid
      <4>3. InPads(p, mm2, h2, k)
        <5>1. /\ Labels(p)[k] < mm2.pc /\ mm2.pc <= EndOf(p, k)
              /\ h2.left = mm2.delay_ctr + EndOf(p, k) + 1 - mm2.pc
          <6> DEFINE P == Pads(p, s)
                     D == Delay(w, c)
                     e == EndOf(p, k)
          <6>1. P \in Nat /\ P > 0 /\ D \in Nat /\ e = a + P /\ a \in Nat /\ a = Labels(p)[k]
            BY <1>1, <2>7, <3>4, <4>1
          <6>2. mm2.pc = a + 1 /\ mm2.delay_ctr = D /\ h2.left = D + P
            BY <1>3, <2>4, <2>5, <4>2
          <6> HIDE DEF P, D, e, k
          <6>3. a < mm2.pc /\ mm2.pc <= e /\ h2.left = mm2.delay_ctr + e + 1 - mm2.pc
            <7>1. \A i, u, y \in Nat : y > 0 =>
                    /\ i < i + 1 /\ i + 1 <= i + y
                    /\ u + y = u + (i + y) + 1 - (i + 1)
              OBVIOUS
            <7>2. /\ a < a + 1 /\ a + 1 <= a + P
                  /\ D + P = D + (a + P) + 1 - (a + 1)
              BY <6>1, <7>1, Zenon
            <7> QED BY <6>1, <6>2, <7>2, Zenon
          <6> QED BY <6>1, <6>3 DEF e, k
        <5>2. p.sideset_count = 1 => ~mm2.side_latched
          BY <1>3, <1>4, <2>3, <2>4, <3>4
        <5> QED BY <2>5, <3>1, <5>1, <5>2 DEF InPads
      <4> QED BY <1>1, <2>6, <4>3 DEF InStep, mm2, h2, c, w, a
    <3> QED BY <2>7, <3>3, <3>4
  <2> QED BY <2>8, <2>9
<1> QED BY <1>8, <1>9

\* A clock of both leaves them in step.
LEMMA TickInStep ==
  ASSUME NEW p \in Graph, Sound(p), Exact(p), NEW mem, Laid(p, mem),
         NEW mm \in Machine, NEW h \in GraphState(p), InStep(p, mm, h), NEW gpio \in Reg
  PROVE  InStep(p, Tick(mm, mem[mm.pc], ConfigOf(p), Bus(<<mm>>, gpio)),
                   GraphTick(p, h, Bus(<<h.r>>, gpio)))
<1> DEFINE bus == Bus(<<mm>>, gpio)
<1>1. Strip(mm) = h.r
  BY DEF InStep
<1>2. bus \in Reg /\ Bus(<<h.r>>, gpio) = bus
  BY <1>1, BusSame, BusType
<1> HIDE DEF bus
<1>3. InStep(p, Tick(mm, mem[mm.pc], ConfigOf(p), bus), GraphTick(p, h, bus))
  <2>1. CASE mm.delay_ctr # 0
    BY <2>1, WaitInStep
  <2>2. ASSUME mm.delay_ctr = 0, NEW j \in 1 .. Len(p.steps), InPads(p, mm, h, j)
        PROVE  InStep(p, Tick(mm, mem[mm.pc], ConfigOf(p), bus), GraphTick(p, h, bus))
    BY <1>1, <2>2, PadInStep
  <2>3. CASE mm.delay_ctr = 0 /\ AtStep(p, mm, h)
    <3>1. h.at \in 1 .. Len(p.steps) \/ h.at = Len(p.steps) + 1
      BY StepsAre DEF GraphState
    <3> QED BY <1>1, <1>2, <2>3, <3>1, RunInStep, EndInStep
  <2> QED BY <2>1, <2>2, <2>3 DEF InStep
<1> QED BY <1>2, <1>3 DEF bus

\* Without side-set the side-set pin of a configuration does not matter.
LEMMA TickSame ==
  ASSUME NEW p \in Graph, NEW q \in Graph, Twin(q, p),
         q = p \/ (p.wrap_bottom = 0 /\ p.wrap_top = 31), NEW mm, NEW w, NEW bus
  PROVE  Tick(mm, w, ConfigOf(q), bus) = Tick(mm, w, ConfigOf(p), bus)
<1>1. CASE q = p
  BY <1>1
<1>2. CASE q # p
  <2>1. /\ ~ConfigOf(p).side_count /\ ~ConfigOf(q).side_count
        /\ ConfigOf(p).wrap_bot = ConfigOf(q).wrap_bot
        /\ ConfigOf(p).wrap_top = ConfigOf(q).wrap_top
    <3>1. /\ q.sideset_count = 0 /\ q.wrap_bottom = 0 /\ q.wrap_top = 31
          /\ p.sideset_count = 0 /\ p.wrap_bottom = 0 /\ p.wrap_top = 31
      BY <1>2 DEF Twin, Bare
    <3>2. ASSUME NEW x PROVE /\ ConfigOf(x).side_count <=> x.sideset_count = 1
                             /\ ConfigOf(x).wrap_bot = x.wrap_bottom
                             /\ ConfigOf(x).wrap_top = x.wrap_top
      BY DEF ConfigOf
    <3>3. 0 # 1
      OBVIOUS
    <3> QED BY <3>1, <3>2, <3>3, Zenon
  <2> DEFINE c == ConfigOf(p)
             d == ConfigOf(q)
  <2> HIDE DEF c, d
  <2>2. \A x : ApplySideset(x, d) = x /\ ApplySideset(x, c) = x
    BY <2>1 DEF ApplySideset, c, d
  <2>3. Latch(mm, w, d) = mm /\ Latch(mm, w, c) = mm
    BY <2>1 DEF Latch, c, d
  <2>4. Delay(w, d) = Delay(w, c)
    BY <2>1 DEF Delay, c, d
  <2>5. \A x, eff : Follow(x, w.code, d, eff) = Follow(x, w.code, c, eff)
    BY <2>1 DEF Follow, c, d
  <2>6. \A x, eff : Run(x, w, d, eff) = Run(x, w, c, eff)
    BY <2>4, <2>5 DEF Run
  <2>7. Tick(mm, w, d, bus) = Tick(mm, w, c, bus)
    BY <2>2, <2>3, <2>6 DEF Tick
  <2> QED BY <2>7 DEF c, d
<1> QED BY <1>1, <1>2

\* The inductive invariant: machine and graph are in step.
StepsInv == Promised => InStep(source, m, g)

LEMMA StartInStep ==
  ASSUME NEW p \in Graph
  PROVE  InStep(p, Fresh, Start)
<1>1. Labels(p)[1] = 0
  BY LabelsAre
<1>2. Fresh.pc = 0 /\ Fresh.delay_ctr = 0 /\ Strip(Fresh) = Fresh
  <2>1. Fresh.pc = 0 /\ Fresh.delay_ctr = 0
    BY DEF Fresh, ResetMachine
  <2>2. Fresh \in Machine
    BY FreshType
  <2> HIDE DEF Fresh
  <2>3. Strip(Fresh) = Fresh
    BY <2>1, <2>2 DEF Strip, Machine
  <2> QED BY <2>1, <2>3
<1>3. Start.at = 1 /\ Start.left = 0 /\ Start.r = Fresh
  BY DEF Start
<1> QED BY <1>1, <1>2, <1>3 DEF InStep, AtStep

LEMMA CycleInStep ==
  ASSUME TypeInv, StepsInv, NEW gpio \in GpioIn, Cycle(gpio), Promised
  PROVE  InStep(source, m, g)'
<1>1. /\ source \in Parsed /\ source \in Graph /\ plan \in Graph /\ Sound(source)
      /\ imem = Load(plan) /\ Alike(plan, source) /\ (plan = source \/ Bare(plan))
      /\ m \in Machine /\ g \in GraphState(source) /\ gpio \in Reg
  BY GpioAssumption DEF TypeInv, PlansInv, Parsed
<1>2. /\ AssembleError(plan) = "ok" /\ Exact(source)
      /\ plan # source => source.sideset_count = 0 /\ source.wrap_bottom = 0
                          /\ source.wrap_top = 31
  BY LoadedIs DEF TypeInv, Promised, Storable
<1>3. Twin(plan, source)
  BY <1>1, <1>2 DEF Twin
<1>4. Laid(source, imem)
  BY <1>1, <1>2, <1>3, LaidIs
<1>5. InStep(source, m, g)
  BY DEF StepsInv
<1>6. InStep(source, Tick(m, imem[m.pc], ConfigOf(source), Bus(<<m>>, gpio)),
                     GraphTick(source, g, Bus(<<g.r>>, gpio)))
  BY <1>1, <1>2, <1>4, <1>5, TickInStep
<1>7. Tick(m, imem[m.pc], ConfigOf(plan), Bus(<<m>>, gpio))
      = Tick(m, imem[m.pc], ConfigOf(source), Bus(<<m>>, gpio))
  BY <1>1, <1>2, <1>3, TickSame
<1>8. /\ m' = Tick(m, imem[m.pc], ConfigOf(source), Bus(<<m>>, gpio))
      /\ g' = GraphTick(source, g, Bus(<<g.r>>, gpio))
      /\ source' = source
  BY <1>7 DEF Cycle
<1>9. InStep(source', m', g')
  BY <1>6, <1>8
<1> QED BY <1>9 DEF InStep, AtStep, InPads

LEMMA StepsHold == Spec => [](TypeInv /\ StepsInv)
<1>1. Init => StepsInv
  <2> SUFFICES ASSUME Init PROVE StepsInv
    OBVIOUS
  <2>1. source \in Graph
    BY TypeInit DEF TypeInv, PlansInv, Parsed
  <2> QED BY <2>1, StartInStep DEF Init, StepsInv
<1>2. TypeInv /\ StepsInv /\ [Next]_vars => StepsInv'
  <2> SUFFICES ASSUME TypeInv, StepsInv, [Next]_vars PROVE StepsInv'
    OBVIOUS
  <2>1. ASSUME NEW gpio \in GpioIn, Cycle(gpio) PROVE StepsInv'
    <3>1. Promised' => Promised
      BY <2>1 DEF Cycle, Promised, Storable
    <3> QED BY <2>1, <3>1, CycleInStep DEF StepsInv
  <2>2. CASE PageIn
    <3>1. source \in Graph
      BY DEF TypeInv, PlansInv, Parsed
    <3>2. InStep(source, Fresh, Start)
      BY <3>1, StartInStep
    <3>3. source' = source /\ m' = Fresh /\ g' = Start
      BY <2>2 DEF PageIn
    <3>4. InStep(source', m', g')
      BY <3>2, <3>3
    <3> QED BY <3>4 DEF StepsInv
  <2>3. CASE UNCHANGED vars
    BY <2>3 DEF vars, StepsInv, Promised, Storable
  <2> QED BY <2>1, <2>2, <2>3 DEF Next
<1>3. TypeInv /\ [Next]_vars => TypeInv'
  BY TypeCycle, TypePageIn DEF Next, vars, TypeInv, PlansInv
<1> QED BY <1>1, <1>2, <1>3, TypeInit, PTL DEF Spec

\* On every clock the compiled program is at the step the graph is at, and
\* has its registers, queues and pins, whatever the plan, its operands, its
\* delays and the inputs are (compile.py, isa.py, graphfmt.py).
THEOREM CompilerIsExact == Spec => []SameAsGraph
<1>1. TypeInv /\ StepsInv => SameAsGraph
  <2> SUFFICES ASSUME TypeInv, StepsInv, Promised
               PROVE  /\ g.left = 0 => m.delay_ctr = 0 /\ m.pc = Labels(source)[g.at]
                      /\ Strip(m) = g.r
    BY DEF SameAsGraph, Promised, Strip
  <2>1. InStep(source, m, g) /\ source \in Graph /\ m \in Machine
    BY DEF StepsInv, TypeInv, PlansInv, Parsed
  <2>2. AtStep(source, m, g) => (g.left = 0 => m.delay_ctr = 0 /\ m.pc = Labels(source)[g.at])
    BY DEF AtStep
  <2>3. ASSUME NEW j \in 1 .. Len(source.steps), InPads(source, m, g, j)
        PROVE  g.left # 0
    <3>1. EndOf(source, j) \in Nat
      <4>1. /\ Labels(source)[j] \in Nat /\ Pads(source, source.steps[j]) \in Nat
            /\ EndOf(source, j) = Labels(source)[j] + Pads(source, source.steps[j])
        BY <2>1, StepEnds
      <4> QED BY <4>1
    <3>2. m.pc \in Nat /\ m.delay_ctr \in Nat
      BY <2>1, IsaAssumption DEF Machine, Addr, DelayVal
    <3>3. m.pc <= EndOf(source, j)
          /\ g.left = m.delay_ctr + EndOf(source, j) + 1 - m.pc
      BY <2>3 DEF InPads
    <3> QED BY <3>1, <3>2, <3>3
  <2> QED BY <2>1, <2>2, <2>3 DEF InStep
<1> QED BY <1>1, StepsHold, PTL

-----------------------------------------------------------------------------
\* The chip: its machine agrees with the interpreter's, so with the graph.
ChipInv == imem # << >> /\ clean => Same(chip, m, ConfigOf(plan))

\* A machine alone on its pads fights with nobody.
LEMMA AlonePads ==
  ASSUME NEW r \in Machine, NEW h \in Machine, NEW gpio \in Reg,
         r.oe_reg = h.oe_reg, r.out_reg = h.out_reg
  PROVE  Pad(<<r>>, gpio) = EffectivePins(r, Bus(<<h>>, gpio))
<1> DEFINE rs == <<r>>
           hs == <<h>>
<1>1. /\ rs \in [{1} -> Machine] /\ hs \in [{1} -> Machine]
      /\ DOMAIN rs = {1} /\ rs[1] = r /\ hs[1] = h
  OBVIOUS
<1> HIDE DEF rs, hs
<1>2. DrivesHigh(rs) \cap PullsLow(rs) = {}
  BY <1>1 DEF DrivesHigh, PullsLow
<1>3. 1 \in {1} /\ \A s \in {1} : rs[s].oe_reg = hs[s].oe_reg /\ rs[s].out_reg = hs[s].out_reg
  BY <1>1
<1>4. Pad(rs, gpio) = EffectivePins(rs[1], Bus(hs, gpio))
  BY <1>1, <1>2, <1>3, PadsAlike
<1> QED BY <1>1, <1>4 DEF rs, hs

LEMMA ChipCycle ==
  ASSUME TypeInv, ChipInv, NEW gpio \in GpioIn, Cycle(gpio)
  PROVE  ChipInv'
<1> SUFFICES ASSUME clean' PROVE Same(chip, m, ConfigOf(plan))'
  BY DEF ChipInv
<1> DEFINE c == ConfigOf(plan)
           n == imem[chip.pc]
           eff == Pad(<<chip>>, gpio)
           bus == Bus(<<m>>, gpio)
<1>1. /\ clean /\ ~SidePinUsed(chip, n.code, c) /\ imem # << >> /\ plan' = plan
      /\ m' = Tick(m, imem[m.pc], c, bus) /\ chip' = Enabled(chip, n, c, eff)
  BY DEF Cycle
<1>2. /\ gpio \in Reg /\ m \in Machine /\ chip \in Machine /\ c \in Config
      /\ imem \in [Addr -> Node]
  BY <1>1, GpioAssumption, LoadedIs, BareIsSound DEF TypeInv, PlansInv
<1>3. n \in Node
  BY <1>2 DEF Machine
<1>4. eff \in Reg /\ bus \in Reg
  BY <1>2, PinsType, BusType
<1>5. Same(chip, m, c)
  BY <1>1 DEF ChipInv
<1>6. chip.pc = m.pc /\ chip.oe_reg = m.oe_reg /\ chip.out_reg = m.out_reg
  BY <1>5, ViewIs DEF Same
<1>7. eff = EffectivePins(chip, bus)
  BY <1>2, <1>6, AlonePads
<1>8. chip.delay_ctr = 0 /\ c.side_count =>
        /\ ~Writes(chip, n.code, c.side_base)
        /\ c.side_base \in chip.oe_reg => ~Samples(chip, n.code, c.side_base)
  BY <1>1 DEF SidePinUsed
<1>9. m' = Tick(m, n, c, bus) /\ ConfigOf(plan') = c
  BY <1>1, <1>6
<1> HIDE DEF c, n, eff, bus
<1>10. Same(Enabled(chip, n, c, eff), Tick(m, n, c, bus), c)
  BY <1>2, <1>3, <1>4, <1>5, <1>7, <1>8, EnabledMatches
<1> QED BY <1>1, <1>9, <1>10

LEMMA StripView ==
  ASSUME NEW r \in Machine, NEW h \in Machine, View(r) = View(h)
  PROVE  View(Strip(r)) = View(Strip(h))
<1> DEFINE Kept(x, y) ==
             /\ x.pc = 0 /\ x.delay_ctr = 0
             /\ x.x = y.x /\ x.y = y.y /\ x.osr = y.osr /\ x.isr = y.isr
             /\ x.out_reg = y.out_reg /\ x.oe_reg = y.oe_reg
             /\ x.out_pin = y.out_pin /\ x.in_pin = y.in_pin
             /\ x.crc = y.crc /\ x.tx = y.tx /\ x.rx = y.rx
<1>1. \A y \in Machine : Kept(Strip(y), y)
  BY DEF Strip, Machine
<1>2. Kept(Strip(r), r) /\ Kept(Strip(h), h)
  BY <1>1
<1> QED BY <1>2, ViewIs

LEMMA ChipAgrees == Spec => [](TypeInv /\ ChipInv)
<1>1. \A c : Same(Fresh, Fresh, c)
  BY DEF Same
<1>2. Init => ChipInv
  BY <1>1 DEF Init, ChipInv
<1>3. TypeInv /\ ChipInv /\ [Next]_vars => ChipInv'
  <2> SUFFICES ASSUME TypeInv, ChipInv, [Next]_vars PROVE ChipInv'
    OBVIOUS
  <2>1. CASE PageIn
    BY <1>1, <2>1 DEF PageIn, ChipInv
  <2>2. CASE UNCHANGED vars
    BY <2>2 DEF vars, ChipInv
  <2> QED BY <2>1, <2>2, ChipCycle DEF Next
<1> QED BY <1>2, <1>3, TypesHold, PTL DEF Spec

\* From the plan to the silicon: on every clock the hardware's machine is where
\* the plan is and has its registers, bytes and pins, for every plan that is
\* compiled and every input, until a step uses its own side-set pin
\* (compile.py, rtl.py, tests/test_rtl.py).
THEOREM ChipIsExact == Spec => []ChipDoesThePlan
<1>1. TypeInv /\ ChipInv /\ SameAsGraph => ChipDoesThePlan
  <2> SUFFICES ASSUME TypeInv, ChipInv, SameAsGraph, Promised, clean
               PROVE  /\ g.left = 0 => chip.delay_ctr = 0 /\ chip.pc = Labels(source)[g.at]
                      /\ View(Strip(chip)) = View(g.r)
    BY DEF ChipDoesThePlan, Strip
  <2>1. View(chip) = View(m) /\ chip \in Machine /\ m \in Machine
    BY DEF ChipInv, Promised, Same, TypeInv
  <2>2. /\ g.left = 0 => m.delay_ctr = 0 /\ m.pc = Labels(source)[g.at]
        /\ Strip(m) = g.r
    BY DEF SameAsGraph, Strip
  <2>3. chip.delay_ctr = m.delay_ctr /\ chip.pc = m.pc
    BY <2>1, ViewIs
  <2>4. View(Strip(chip)) = View(Strip(m))
    BY <2>1, StripView
  <2> QED BY <2>2, <2>3, <2>4
<1> QED BY <1>1, ChipAgrees, CompilerIsExact, PTL
=============================================================================
