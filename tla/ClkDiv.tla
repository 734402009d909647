------------------------------- MODULE ClkDiv -------------------------------
(***************************************************************************)
(* The fractional clock divider of one state machine (rtl.py), with the    *)
(* CSR writes that configure it.  While the engine runs, div_down counts   *)
(* the system clocks left before the machine executes again; at zero the   *)
(* machine is enabled for one clock and div_down is reloaded, one clock    *)
(* longer whenever the fraction carries.                                   *)
(*                                                                         *)
(* A byte holds 0 .. ByteMod - 1 (256 in the code); the integer part is    *)
(* two of them, written one at a time.  The divider keeps its phase over a *)
(* halt: nothing but reset clears div_down and frac_acc.                   *)
(***************************************************************************)
EXTENDS Integers

CONSTANT ByteMod

ASSUME ByteModAssumption == ByteMod \in Nat \ {0, 1}

IntMod == ByteMod * ByteMod       \* the integer part is 16 bits wide

VARIABLES run,          \* the engine runs
          clkdiv_int,   \* CSR 3 and 4
          clkdiv_frac,  \* CSR 5
          div_down,
          frac_acc,
          clk_en,       \* the machine executed at the last edge
          phase,        \* ghost: elapsed clocks less ideal periods, scaled
          start         \* ghost: the phase the divider was configured at

regs == <<clkdiv_int, clkdiv_frac, div_down, frac_acc>>
vars == <<run, regs, clk_en, phase, start>>

ByteVal == 0 .. ByteMod - 1
IntVal == 0 .. IntMod - 1

Lo(i) == i % ByteMod
Hi(i) == i \div ByteMod

\* Types: div_down and frac_acc never outgrow their registers.
TypeOK ==
  /\ run \in BOOLEAN
  /\ clkdiv_int \in IntVal
  /\ clkdiv_frac \in ByteVal
  /\ div_down \in IntVal
  /\ frac_acc \in ByteVal
  /\ clk_en \in BOOLEAN
  /\ phase \in Int
  /\ start \in Nat

Init ==
  /\ run = FALSE
  /\ clkdiv_int = 1 /\ clkdiv_frac = 0
  /\ div_down = 0 /\ frac_acc = 0
  /\ clk_en = FALSE
  /\ phase = 0 /\ start = 0

\* rst_n = 0 at an edge puts every register back; the host starts over with
\* run = 0.
Reset ==
  /\ clkdiv_int' = 1 /\ clkdiv_frac' = 0
  /\ div_down' = 0 /\ frac_acc' = 0
  /\ clk_en' = FALSE
  /\ phase' = 0 /\ start' = 0
  /\ run' = FALSE

\* A machine period in units of 1/ByteMod of a clock.  An integer part of 0
\* stands for a full turn of the counter and ignores the fraction.
Period ==
  IF clkdiv_int = 0 THEN ByteMod * IntMod
                    ELSE ByteMod * clkdiv_int + clkdiv_frac

\* Mutant: a sum that just reaches a clock does not carry.
ExtraLate == IF frac_acc + clkdiv_frac > ByteMod THEN 1 ELSE 0

\* The carry out of the fraction at a reload.
Extra == IF frac_acc + clkdiv_frac >= ByteMod THEN 1 ELSE 0

\* Mutant: div_down is one bit short.
ReloadNarrow == (clkdiv_int + Extra - 1) % (IntMod \div 2)

Reload == (clkdiv_int + Extra - 1) % IntMod

\* One clock with run = 1.
Count ==
  /\ div_down # 0
  /\ div_down' = div_down - 1
  /\ clk_en' = FALSE
  /\ UNCHANGED frac_acc

\* Mutant: the fraction keeps its carry.
FireKeepsCarry ==
  /\ div_down = 0
  /\ clk_en' = TRUE
  /\ IF clkdiv_int = 0
     THEN div_down' = IntMod - 1 /\ UNCHANGED frac_acc
     ELSE /\ frac_acc' = frac_acc + clkdiv_frac
          /\ div_down' = Reload

\* Mutant: the fraction is added to the longest period too.
FireAlwaysAdds ==
  /\ div_down = 0
  /\ clk_en' = TRUE
  /\ frac_acc' = (frac_acc + clkdiv_frac) % ByteMod
  /\ div_down' = IF clkdiv_int = 0 THEN IntMod - 1 ELSE Reload

\* Mutant: an integer part of 0 stops the machine.
FireStopsAtZero ==
  /\ div_down = 0 /\ clkdiv_int # 0
  /\ clk_en' = TRUE
  /\ frac_acc' = (frac_acc + clkdiv_frac) % ByteMod
  /\ div_down' = Reload

Fire ==
  /\ div_down = 0
  /\ clk_en' = TRUE
  /\ IF clkdiv_int = 0
     THEN div_down' = IntMod - 1 /\ UNCHANGED frac_acc
     ELSE /\ frac_acc' = (frac_acc + clkdiv_frac) % ByteMod
          /\ div_down' = Reload

RunClock ==
  /\ run
  /\ Count \/ Fire
  /\ phase' = phase + ByteMod - (IF clk_en' THEN Period ELSE 0)
  /\ UNCHANGED <<run, clkdiv_int, clkdiv_frac, start>>

\* A CSR write, accepted with run = 0 only, replaces one byte.  The ghosts
\* are set to the phase the divider is in.
Configured(int, frac) ==
  /\ ~run
  /\ clkdiv_int' = int
  /\ clkdiv_frac' = frac
  /\ clk_en' = FALSE
  /\ phase' = 0
  /\ start' = ByteMod * div_down + frac_acc
  /\ UNCHANGED <<run, div_down, frac_acc>>

WriteLo(b) == Configured(Hi(clkdiv_int) * ByteMod + b, clkdiv_frac)
WriteHi(b) == Configured(b * ByteMod + Lo(clkdiv_int), clkdiv_frac)
WriteFrac(b) == Configured(clkdiv_int, b)

\* The host raises or drops run between two edges.
SetRun ==
  /\ run' = ~run
  /\ clk_en' = FALSE
  /\ UNCHANGED <<regs, phase, start>>

Next ==
  \/ RunClock
  \/ \E b \in ByteVal : WriteLo(b) \/ WriteHi(b) \/ WriteFrac(b)
  \/ SetRun
  \/ Reset

Spec == Init /\ [][Next]_vars /\ WF_vars(RunClock)

-----------------------------------------------------------------------------
\* Whenever the machine is about to execute, it is less than one clock off
\* the ideal multiple of Period since the divider was configured: the carry
\* makes up for the fraction and no error accumulates, over any number of
\* periods and halts.
NoDrift == div_down = 0 => phase - start \in -(ByteMod - 1) .. 0

\* What holds in between: the clocks still to count and the fraction still
\* to carry are exactly the distance to the ideal multiple.
PhaseAccount == phase + ByteMod * div_down + frac_acc = start

\* The reload fits div_down: adding the carry to the largest integer part
\* does not wrap a period to nothing.
ReloadFits == clkdiv_int # 0 => Reload = clkdiv_int + Extra - 1

\* Mutant: the sum is cut to a byte.
InterpSumShort == (frac_acc + clkdiv_frac) % ByteMod

\* The divider of the reference interpreter (SM._clk_en) from the same
\* registers: a 9-bit sum reduced by subtraction instead of a carry bit.
InterpSum == (frac_acc + clkdiv_frac) % (2 * ByteMod)
InterpExtra == IF InterpSum >= ByteMod THEN 1 ELSE 0
InterpClk ==
  IF div_down # 0
  THEN /\ div_down' = div_down - 1 /\ frac_acc' = frac_acc /\ ~clk_en'
  ELSE /\ clk_en'
       /\ IF clkdiv_int = 0
          THEN div_down' = IntMod - 1 /\ frac_acc' = frac_acc
          ELSE /\ frac_acc' = InterpSum - InterpExtra * ByteMod
               /\ div_down' = (clkdiv_int - 1 + InterpExtra) % IntMod

\* On every running clock the divider and the interpreter's divider do the
\* same.
SameAsInterp == [][run /\ run' => InterpClk]_vars

\* A machine is never starved: while the engine stays on, it executes again
\* and again, whatever the divider is set to and whatever it was counting
\* when it was set.
KeepsExecuting == []<>(clk_en \/ ~run)
=============================================================================
