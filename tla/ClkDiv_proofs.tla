--------------------------- MODULE ClkDiv_proofs ---------------------------
(***************************************************************************)
(* The divider keeps time for every byte width.  PhaseAccount is the       *)
(* inductive half of NoDrift: between two executions NoDrift says nothing, *)
(* while PhaseAccount ties the elapsed clocks to the counter and the       *)
(* fraction still to carry.                                                *)
(***************************************************************************)
EXTENDS ClkDiv, TLAPS

\* The integer part has room for more than one byte.
LEMMA IntModIsNat == IntMod \in Nat /\ IntMod > 1 /\ ByteMod \in Nat /\ ByteMod > 1
BY ByteModAssumption, SMT DEF IntMod

\* A two-byte value put together from two bytes is in range, and so are the
\* bytes it is taken apart into.
LEMMA BytesMakeInt ==
  /\ \A a, b \in ByteVal : a * ByteMod + b \in IntVal
  /\ \A i \in IntVal : Lo(i) \in ByteVal /\ Hi(i) \in ByteVal
<1>1. ASSUME NEW a \in ByteVal, NEW b \in ByteVal
      PROVE  a * ByteMod + b \in IntVal
  <2>1. a * ByteMod <= (ByteMod - 1) * ByteMod
    BY IntModIsNat, SMT DEF ByteVal
  <2>2. a * ByteMod \in Nat /\ (ByteMod - 1) * ByteMod = ByteMod * ByteMod - ByteMod
    BY IntModIsNat, SMT DEF ByteVal
  <2> QED BY <2>1, <2>2, IntModIsNat, SMT DEF ByteVal, IntVal, IntMod
<1>2. ASSUME NEW i \in IntVal
      PROVE  Lo(i) \in ByteVal /\ Hi(i) \in ByteVal
  <2>1. Lo(i) \in ByteVal
    BY IntModIsNat, SMT DEF Lo, ByteVal, IntVal
  <2>2. i = ByteMod * Hi(i) + Lo(i) /\ Hi(i) \in Int
    BY IntModIsNat, SMT DEF Lo, Hi, IntVal
  <2>3. Hi(i) >= 0
    BY <2>1, <2>2, IntModIsNat, SMT DEF ByteVal, IntVal
  <2>4. Hi(i) < ByteMod
    <3>1. SUFFICES ASSUME Hi(i) >= ByteMod PROVE FALSE
      BY <2>2, IntModIsNat, SMT
    <3>2. ByteMod * Hi(i) >= ByteMod * ByteMod
      BY <3>1, <2>2, IntModIsNat, SMT
    <3> QED BY <3>2, <2>1, <2>2, IntModIsNat, SMT DEF ByteVal, IntVal, IntMod
  <2> QED BY <2>1, <2>2, <2>3, <2>4, IntModIsNat, SMT DEF ByteVal
<1> QED BY <1>1, <1>2

\* At a reload the carry and the new fraction account for the old one, and
\* the reload value fits the counter.
LEMMA ReloadArithmetic ==
  ASSUME clkdiv_int \in IntVal, clkdiv_frac \in ByteVal, frac_acc \in ByteVal
  PROVE  /\ Extra \in {0, 1}
         /\ (frac_acc + clkdiv_frac) % ByteMod
              = frac_acc + clkdiv_frac - ByteMod * Extra
         /\ (frac_acc + clkdiv_frac) % ByteMod \in ByteVal
         /\ clkdiv_int # 0 => /\ Reload = clkdiv_int + Extra - 1
                              /\ Reload \in IntVal
<1>1. Extra \in {0, 1}
  BY DEF Extra
<1>2. (frac_acc + clkdiv_frac) % ByteMod
        = IF frac_acc + clkdiv_frac >= ByteMod
          THEN frac_acc + clkdiv_frac - ByteMod ELSE frac_acc + clkdiv_frac
  BY IntModIsNat, SMT DEF ByteVal
<1>3. (frac_acc + clkdiv_frac) % ByteMod
        = frac_acc + clkdiv_frac - ByteMod * Extra
  BY <1>2, IntModIsNat, SMT DEF Extra, ByteVal
<1>4. (frac_acc + clkdiv_frac) % ByteMod \in ByteVal
  BY <1>2, IntModIsNat, SMT DEF ByteVal
<1>5. ASSUME clkdiv_int # 0
      PROVE  Reload = clkdiv_int + Extra - 1 /\ Reload \in IntVal
  <2>1. clkdiv_int + Extra - 1 \in 0 .. IntMod - 1
    BY <1>1, <1>5, IntModIsNat, SMT DEF IntVal
  <2> QED BY <2>1, IntModIsNat, SMT DEF Reload, IntVal
<1> QED BY <1>1, <1>3, <1>4, <1>5

-----------------------------------------------------------------------------
Inv == TypeOK /\ PhaseAccount

\* A running clock keeps the account: what phase gains the counter and the
\* fraction lose.
LEMMA RunKeepsInv ==
  ASSUME Inv, RunClock
  PROVE  Inv'
<1>1. /\ clkdiv_int \in IntVal /\ clkdiv_frac \in ByteVal
      /\ div_down \in IntVal /\ frac_acc \in ByteVal
      /\ phase \in Int /\ start \in Nat
      /\ phase + ByteMod * div_down + frac_acc = start
  BY DEF Inv, TypeOK, PhaseAccount
<1>2. Period \in Int
  BY <1>1, IntModIsNat, SMT DEF Period, IntVal, ByteVal
<1>3. CASE Count
  <2>1. /\ div_down' = div_down - 1 /\ div_down # 0
        /\ frac_acc' = frac_acc /\ phase' = phase + ByteMod
        /\ start' = start /\ clk_en' = FALSE
        /\ clkdiv_int' = clkdiv_int /\ clkdiv_frac' = clkdiv_frac /\ run' = run
    BY <1>1, <1>3, IntModIsNat, SMT DEF RunClock, Count
  <2>2. ByteMod * div_down' = ByteMod * div_down - ByteMod
    BY <2>1, <1>1, IntModIsNat, SMT DEF IntVal
  <2>3. PhaseAccount'
    BY <2>1, <2>2, <1>1, IntModIsNat, SMT DEF PhaseAccount, IntVal, ByteVal
  <2>4. div_down' \in IntVal /\ phase' \in Int
    BY <2>1, <1>1, IntModIsNat, SMT DEF IntVal
  <2> QED BY <2>1, <2>3, <2>4 DEF Inv, TypeOK
<1>4. CASE Fire /\ clkdiv_int = 0
  <2>1. /\ div_down' = IntMod - 1 /\ div_down = 0
        /\ frac_acc' = frac_acc /\ phase' = phase + ByteMod - ByteMod * IntMod
        /\ start' = start /\ clk_en' = TRUE
        /\ clkdiv_int' = clkdiv_int /\ clkdiv_frac' = clkdiv_frac /\ run' = run
    BY <1>4 DEF RunClock, Fire, Period
  <2>2. ByteMod * div_down' = ByteMod * IntMod - ByteMod /\ ByteMod * IntMod \in Int
    BY <2>1, IntModIsNat, SMT
  <2>3. PhaseAccount'
    BY <2>1, <2>2, <1>1, IntModIsNat, SMT DEF PhaseAccount, IntVal, ByteVal
  <2>4. div_down' \in IntVal /\ phase' \in Int
    BY <2>1, <2>2, <1>1, IntModIsNat, SMT DEF IntVal
  <2> QED BY <2>1, <2>3, <2>4, <1>1 DEF Inv, TypeOK
<1>5. CASE Fire /\ clkdiv_int # 0
  <2>1. /\ div_down' = clkdiv_int + Extra - 1 /\ div_down = 0
        /\ div_down' \in IntVal /\ frac_acc' \in ByteVal
        /\ frac_acc' = frac_acc + clkdiv_frac - ByteMod * Extra
        /\ Extra \in {0, 1}
    BY <1>5, <1>1, ReloadArithmetic DEF Fire
  <2>2. /\ phase' = phase + ByteMod - (ByteMod * clkdiv_int + clkdiv_frac)
        /\ start' = start /\ clk_en' = TRUE
        /\ clkdiv_int' = clkdiv_int /\ clkdiv_frac' = clkdiv_frac /\ run' = run
    BY <1>5 DEF RunClock, Fire, Period
  <2>3. ByteMod * div_down' = ByteMod * clkdiv_int + ByteMod * Extra - ByteMod
    BY <2>1, <1>1, IntModIsNat, SMT DEF IntVal
  <2>4. ByteMod * clkdiv_int \in Int /\ ByteMod * Extra \in Int
    BY <2>1, <1>1, IntModIsNat, SMT DEF IntVal
  <2>5. PhaseAccount'
    BY <2>1, <2>2, <2>3, <2>4, <1>1, IntModIsNat, SMT
    DEF PhaseAccount, IntVal, ByteVal
  <2>6. phase' \in Int
    BY <2>2, <2>4, <1>1, IntModIsNat, SMT DEF ByteVal
  <2> QED BY <2>1, <2>2, <2>5, <2>6, <1>1 DEF Inv, TypeOK
<1> QED BY <1>3, <1>4, <1>5 DEF RunClock

\* A CSR write starts the account anew from the phase the divider is in.
LEMMA ConfiguredKeepsInv ==
  ASSUME Inv, NEW int \in IntVal, NEW frac \in ByteVal, Configured(int, frac)
  PROVE  Inv'
<1>1. /\ div_down \in IntVal /\ frac_acc \in ByteVal
      /\ div_down' = div_down /\ frac_acc' = frac_acc
      /\ phase' = 0 /\ start' = ByteMod * div_down + frac_acc
      /\ clk_en' = FALSE /\ run' = run /\ run \in BOOLEAN
      /\ clkdiv_int' = int /\ clkdiv_frac' = frac
  BY DEF Inv, TypeOK, Configured
<1>2. ByteMod * div_down \in Nat
  BY <1>1, IntModIsNat, SMT DEF IntVal
<1>3. PhaseAccount' /\ start' \in Nat
  BY <1>1, <1>2, SMT DEF PhaseAccount, ByteVal
<1>4. phase' \in Int
  BY <1>1, SMT
<1> QED BY <1>1, <1>3, <1>4 DEF Inv, TypeOK

LEMMA InvInductive ==
  /\ Init => Inv
  /\ Inv /\ [Next]_vars => Inv'
<1>0. 0 \in IntVal /\ 1 \in IntVal /\ 0 \in ByteVal /\ 0 \in Nat /\ 0 \in Int
      /\ ByteMod * 0 = 0
  BY IntModIsNat, SMT DEF IntVal, ByteVal
<1>1. Init => Inv
  <2> SUFFICES ASSUME Init PROVE Inv
    OBVIOUS
  <2>1. TypeOK
    BY <1>0 DEF Init, TypeOK
  <2>2. PhaseAccount
    BY <1>0, IntModIsNat DEF Init, PhaseAccount
  <2> QED BY <2>1, <2>2 DEF Inv
<1>2. Inv /\ [Next]_vars => Inv'
  <2> SUFFICES ASSUME Inv, [Next]_vars PROVE Inv'
    OBVIOUS
  <2>1. CASE RunClock
    BY <2>1, RunKeepsInv
  <2>2. ASSUME NEW b \in ByteVal, WriteLo(b) PROVE Inv'
    <3>1. Hi(clkdiv_int) * ByteMod + b \in IntVal /\ clkdiv_frac \in ByteVal
      BY BytesMakeInt DEF Inv, TypeOK
    <3> QED BY <2>2, <3>1, ConfiguredKeepsInv DEF WriteLo
  <2>3. ASSUME NEW b \in ByteVal, WriteHi(b) PROVE Inv'
    <3>1. b * ByteMod + Lo(clkdiv_int) \in IntVal /\ clkdiv_frac \in ByteVal
      BY BytesMakeInt DEF Inv, TypeOK
    <3> QED BY <2>3, <3>1, ConfiguredKeepsInv DEF WriteHi
  <2>4. ASSUME NEW b \in ByteVal, WriteFrac(b) PROVE Inv'
    <3>1. clkdiv_int \in IntVal
      BY DEF Inv, TypeOK
    <3> QED BY <2>4, <3>1, ConfiguredKeepsInv DEF WriteFrac
  <2>5. CASE SetRun
    BY <2>5 DEF SetRun, regs, Inv, TypeOK, PhaseAccount
  <2>6. CASE Reset
    <3>1. TypeOK'
      BY <2>6, <1>0 DEF Reset, TypeOK
    <3>2. PhaseAccount'
      BY <2>6, <1>0, IntModIsNat DEF Reset, PhaseAccount
    <3> QED BY <3>1, <3>2 DEF Inv
  <2>7. CASE UNCHANGED vars
    BY <2>7 DEF vars, regs, Inv, TypeOK, PhaseAccount
  <2> QED BY <2>1, <2>2, <2>3, <2>4, <2>5, <2>6, <2>7 DEF Next
<1> QED BY <1>1, <1>2

\* Registers and ghosts keep their ranges.
THEOREM TypeCorrect == Spec => []TypeOK
<1>1. Spec => []Inv
  BY InvInductive, PTL DEF Spec
<1> QED BY <1>1, PTL DEF Inv

\* The account of clocks, counter and fraction balances in every state.
THEOREM AccountBalances == Spec => []PhaseAccount
<1>1. Spec => []Inv
  BY InvInductive, PTL DEF Spec
<1> QED BY <1>1, PTL DEF Inv

\* No execution of the machine is a clock or more away from the ideal
\* multiple of its period, however long it has been running.
THEOREM DividerDoesNotDrift == Spec => []NoDrift
<1>1. Inv => NoDrift
  <2> SUFFICES ASSUME Inv, div_down = 0
               PROVE  phase - start \in -(ByteMod - 1) .. 0
    BY DEF NoDrift
  <2> QED BY IntModIsNat, SMT DEF Inv, TypeOK, PhaseAccount, ByteVal
<1>2. Spec => []Inv
  BY InvInductive, PTL DEF Spec
<1> QED BY <1>1, <1>2, PTL

\* A reload never wraps the counter.
THEOREM ReloadsFit == Spec => []ReloadFits
<1>1. Inv => ReloadFits
  BY ReloadArithmetic DEF Inv, TypeOK, ReloadFits
<1>2. Spec => []Inv
  BY InvInductive, PTL DEF Spec
<1> QED BY <1>1, <1>2, PTL

\* The divider in hardware and the divider of the reference interpreter
\* take the same step from every reachable state.
THEOREM DividerMatchesInterp == Spec => SameAsInterp
<1>1. Inv /\ [Next]_vars => [run /\ run' => InterpClk]_vars
  <2> SUFFICES ASSUME Inv, Next, run, run' PROVE InterpClk
    OBVIOUS
  <2>1. RunClock
    BY DEF Next, WriteLo, WriteHi, WriteFrac, Configured, SetRun, Reset
  <2>2. /\ clkdiv_int \in IntVal /\ clkdiv_frac \in ByteVal
        /\ div_down \in IntVal /\ frac_acc \in ByteVal
    BY DEF Inv, TypeOK
  <2>3. InterpSum = frac_acc + clkdiv_frac
    BY <2>2, IntModIsNat, SMT DEF InterpSum, ByteVal
  <2>4. InterpExtra = Extra
    BY <2>3 DEF InterpExtra, Extra
  <2>5. CASE Count
    BY <2>5 DEF Count, InterpClk
  <2>6. CASE Fire
    <3>1. CASE clkdiv_int = 0
      BY <2>6, <3>1 DEF Fire, InterpClk
    <3>2. CASE clkdiv_int # 0
      <4>1. frac_acc' = InterpSum - InterpExtra * ByteMod
        <5>1. frac_acc' = frac_acc + clkdiv_frac - ByteMod * Extra
          BY <2>2, <2>6, <3>2, ReloadArithmetic DEF Fire
        <5>2. ByteMod * Extra = InterpExtra * ByteMod
          BY <2>2, <2>4, ReloadArithmetic, IntModIsNat, SMT
        <5>3. frac_acc' = InterpSum - ByteMod * Extra
          BY <5>1, <2>2, <2>3, ReloadArithmetic, IntModIsNat, SMT DEF ByteVal
        <5> QED BY <5>2, <5>3
      <4>2. div_down' = (clkdiv_int - 1 + InterpExtra) % IntMod
        <5>1. clkdiv_int + Extra - 1 = clkdiv_int - 1 + InterpExtra
          BY <2>2, <2>4, ReloadArithmetic, SMT DEF IntVal
        <5> QED BY <5>1, <2>6, <3>2 DEF Fire, Reload
      <4> QED BY <4>1, <4>2, <2>6, <3>2 DEF Fire, InterpClk
    <3> QED BY <3>1, <3>2
  <2> QED BY <2>1, <2>5, <2>6 DEF RunClock
<1>2. Spec => []Inv
  BY InvInductive, PTL DEF Spec
<1> QED BY <1>1, <1>2, PTL DEF Spec, SameAsInterp
=============================================================================
