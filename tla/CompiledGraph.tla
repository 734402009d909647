---------------------------- MODULE CompiledGraph ----------------------------
(***************************************************************************)
(* A plan as its author means it, beside the program the compiler makes of *)
(* it: the graph is executed a step at a time, every step for one cycle    *)
(* and its delay with the side-set level it asks for (perf.py, ir.Step);   *)
(* the program by the reference interpreter and by a machine of the        *)
(* hardware (tests/test_rtl.py).  Between two runs the graph may be paged  *)
(* out to a store and back (graphfmt.py, stores.py).                       *)
(***************************************************************************)
EXTENDS Loader, SmAgree

CONSTANTS Sources, \* the raw plans tried
          GpioIn   \* what the pins are fed with

ASSUME SourcesAssumption ==
  Sources \subseteq RawPlan /\ \A raw \in Sources : raw.side_base \in Bits
ASSUME GpioAssumption == GpioIn \subseteq Reg

VARIABLES source, \* the plan as written
          plan,   \* the plan that is compiled and loaded
          imem,   \* the memory it was loaded to, << >> if it was rejected
          m,      \* the interpreter's machine that runs the program
          g,      \* the graph: at a step, clocks left in it, registers
          chip,   \* the hardware's machine that runs the program
          clean   \* ghost: no step used its own side-set pin

vars == <<source, plan, imem, m, g, chip, clean>>

-----------------------------------------------------------------------------
\* The graph p.  Behind its last step lies memory that is zero, a jump to the
\* first word.
CodeOf(p, k) ==
  IF k > Len(p.steps) THEN Decode(0).code
  ELSE LET i == Emit(p, p.steps[k])
       IN  DecodeCode(i.op, i.field, i.payload)

\* A delay step without a delay of its own takes its operand, if it is a number.
StepDelay(s) ==
  IF s.function = "delay" /\ s.delay = 0 /\ Operand(s, 1, 0) > 0
  THEN Operand(s, 1, 0) ELSE s.delay

\* The step a jump names, the one the wrap leads to, or the one below; below
\* the last word of the memory lies the first.
EndOf(p, k) == Labels(p)[k + 1] - 1
StepCalled(p, name) == CHOOSE k \in DOMAIN p.steps : p.steps[k].name = name
StepBelow(p, k) ==
  IF EndOf(p, k) = p.wrap_top THEN StepAt(p, p.wrap_bottom) ELSE
  IF EndOf(p, k) = Words - 1 THEN 1 ELSE k + 1
StepAfter(p, k, eff, r) ==
  IF k > Len(p.steps) THEN 1 ELSE
  IF p.steps[k].function \in Control /\ Jumps(r, CodeOf(p, k), eff)
  THEN StepCalled(p, p.steps[k].inputs[1].value)
  ELSE StepBelow(p, k)

\* The state h of the graph after a step, and after a clock.
Executed(p, h, r, bus) ==
  LET eff == EffectivePins(r, bus)
  IN  IF Stalls(r, CodeOf(p, h.at), eff) THEN [h EXCEPT !.r = r] ELSE
      [at |-> StepAfter(p, h.at, eff, r),
       left |-> IF h.at > Len(p.steps) THEN 0 ELSE StepDelay(p.steps[h.at]),
       r |-> Exec(r, CodeOf(p, h.at), eff)]

GraphTick(p, h, bus) ==
  LET c == ConfigOf(p)
      level == h.at <= Len(p.steps) /\ Side(p.steps[h.at]) = 1
      asked == IF c.side_count THEN [h.r EXCEPT !.side_latched = level] ELSE h.r
  IN  IF h.left # 0
      THEN [h EXCEPT !.left = h.left - 1, !.r = ApplySideset(h.r, c)]
      ELSE Executed(p, h, ApplySideset(asked, c), bus)

-----------------------------------------------------------------------------
Fresh == [ResetMachine EXCEPT !.tx = <<{0}>>]
Start == [at |-> 1, left |-> 0, r |-> Fresh]

\* What is no plan raises an error when it is read.
Init ==
  /\ source \in {FromDict(raw) : raw \in Sources}
  /\ ValidateError(source) = "ok"
  /\ plan = source
  /\ imem = Load(plan)
  /\ m = Fresh
  /\ g = Start
  /\ chip = Fresh
  /\ clean = TRUE

Cycle(gpio) ==
  /\ imem # << >>
  /\ m' = Tick(m, imem[m.pc], ConfigOf(plan), Bus(<<m>>, gpio))
  /\ g' = GraphTick(source, g, Bus(<<g.r>>, gpio))
  /\ chip' = Enabled(chip, imem[chip.pc], ConfigOf(plan), Pad(<<chip>>, gpio))
  /\ clean' = (clean /\ ~SidePinUsed(chip, imem[chip.pc].code, ConfigOf(plan)))
  /\ UNCHANGED <<source, plan, imem>>

\* The graph goes to a store and comes back, and is loaded again.
PageIn ==
  /\ plan' = FromDict(GraphToDict(plan))
  /\ imem' = Load(plan')
  /\ m' = Fresh
  /\ g' = Start
  /\ chip' = Fresh
  /\ clean' = TRUE
  /\ UNCHANGED source

Next == PageIn \/ \E gpio \in GpioIn : Cycle(gpio)

Spec == Init /\ [][Next]_vars

-----------------------------------------------------------------------------
TypeOK ==
  /\ m \in Machine /\ chip \in Machine
  /\ imem = << >> \/ imem \in [Addr -> Node]
  /\ g.at \in 1 .. Len(source.steps) + 1 /\ g.left \in Nat /\ g.r \in Machine

\* Plans the compiler does not change the timing of.  Pads follow a jump
\* that leaves them behind; they hold the side-set pin low; and the number
\* given to a delay step is used only if the delay field came out as 0.
ExactStep(p, s) ==
  /\ s.delay > MaxDelay(p) =>
       s.function \notin Control /\ (p.sideset_count = 1 => Side(s) = 0)
  /\ s.function = "delay" /\ s.inputs # << >> /\ p.sideset_count = 1 =>
       Side(s) = 0 /\ Operand(s, 1, 0) <= 15

\* The wrap is in words, which the pads have moved: it may not lead from, nor
\* to, the middle of a step.
ExactWrap(p, k) ==
  /\ Labels(p)[k] <= p.wrap_top => EndOf(p, k) <= p.wrap_top
  /\ EndOf(p, k) = p.wrap_top => p.wrap_bottom \in {Labels(p)[j] : j \in DOMAIN Labels(p)}

Exact(p) == \A k \in DOMAIN p.steps : ExactStep(p, p.steps[k]) /\ ExactWrap(p, k)

\* Plans a store does not change: graph_to_dict drops the rest.
Storable ==
  /\ source.sideset_count = 0
  /\ source.wrap_bottom = 0 /\ source.wrap_top = 31

\* On every clock the compiled program is at the step the graph is at, and
\* has the registers, queues and pins of the graph: labels, jump fix-ups,
\* delay fields, pads, side-set packing, wraps and zero-filled memory
\* together keep the meaning and the timing of the plan (compile.py), also
\* after a trip through a store (graphfmt.py).
Promised == imem # << >> /\ Exact(source) /\ (plan # source => Storable)
SameAsGraph ==
  Promised =>
    /\ g.left = 0 => m.delay_ctr = 0 /\ m.pc = Labels(source)[g.at]
    /\ [m EXCEPT !.pc = 0, !.delay_ctr = 0] = g.r

\* So has the machine of the hardware (rtl.py), whose side-set pin is set at
\* the other end of the instruction: whatever plan it is given, at every
\* clock the chip is where the plan says, with the registers, bytes and pins
\* the plan says, until a step writes its own side-set pin or samples it
\* while driving it.
ChipDoesThePlan ==
  Promised /\ clean =>
    /\ g.left = 0 => chip.delay_ctr = 0 /\ chip.pc = Labels(source)[g.at]
    /\ View([chip EXCEPT !.pc = 0, !.delay_ctr = 0]) = View(g.r)
=============================================================================
