------------------------------- MODULE Compile -------------------------------
(***************************************************************************)
(* From a plan to the words of a program (generator/loom/compile.py, with  *)
(* isa.encode).  An instruction before assembly is a record whose payload  *)
(* is a number, or a label still to be resolved.                           *)
(***************************************************************************)
EXTENDS Plan

\* Opcode, field and payload mask of the primitives that take a number, and
\* the number they take when they are given none.
Immediates ==
  [set_pins |-> <<6, 0, 32, 0>>, set_pindirs |-> <<6, 1, 32, 0>>,
   set_x |-> <<6, 2, 32, 0>>, set_y |-> <<6, 3, 32, 0>>,
   set_bit |-> <<6, 4, 32, 0>>, clr_bit |-> <<6, 5, 32, 0>>,
   set_outpin |-> <<6, 6, 8, 0>>, set_inpin |-> <<6, 7, 8, 0>>,
   out_lsb |-> <<3, 0, 32, 1>>, out_msb |-> <<3, 1, 32, 1>>,
   in_lsb |-> <<2, 0, 32, 1>>, in_msb |-> <<2, 1, 32, 1>>]

JumpNames == <<"jmp", "jmp_x_eq0", "jmp_y_eq0", "jmp_x_dec", "jmp_y_dec", "jmp_pin",
           "jmp_tx_ne", "jmp_tx_eq0">>

Registers ==
  [x |-> 0, y |-> 1, osr |-> 2, isr |-> 3, pins |-> 4, null |-> 5, pindirs |-> 5,
   xor_y |-> 6, crc_feed |-> 7, crc_lo |-> 8, crc_hi |-> 9, crc_clr |-> 10,
   crc_out |-> 11]

\* An operand is a number, or -1 for text the code cannot read.
ReadNumber(text) == IF IsNumber(text) THEN Number(text) ELSE -1

\* _imm and the inputs of wait_pin.
Operand(s, j, default) ==
  IF Len(s.inputs) < j THEN default ELSE ReadNumber(s.inputs[j].value)

\* _reg.
Register(s, j, default) ==
  IF Len(s.inputs) < j THEN default ELSE
  LET text == s.inputs[j].value
  IN  IF text \in DOMAIN Registers THEN Registers[text] ELSE
      IF IsNumber(text) THEN Number(text) % 8 ELSE -1

\* The longest delay an instruction holds.
MaxDelay(plan) == IF plan.sideset_count = 1 THEN 15 ELSE 31

Side(s) == IF s.sideset = << >> THEN 0 ELSE s.sideset[1]

\* _delay_field.
DelayField(plan, s) ==
  IF plan.sideset_count = 1
  THEN 16 * Side(s) + (IF s.delay > 15 THEN 15 ELSE s.delay)
  ELSE s.delay

Instr(op, delay, field, payload) ==
  [op |-> op, delay |-> delay, field |-> field, payload |-> payload, label |-> << >>]

\* The branches of compile_plan: the instruction of one step.
Emit(plan, s) ==
  LET d == DelayField(plan, s)
      fn == s.function
  IN  IF fn \in {"pull", "push"} THEN Instr(4, d, IF fn = "pull" THEN 1 ELSE 0, 0) ELSE
      IF fn \in DOMAIN Immediates
      THEN LET e == Immediates[fn]
               v == Operand(s, 1, e[4])
           IN  Instr(e[1], d, e[2], IF v < 0 THEN v ELSE v % e[3]) ELSE
      IF fn = "wait_pin"
      THEN LET pin == Operand(s, 1, 0)
               pol == Operand(s, 2, 1)
           IN  Instr(1, d, 0,
                     IF pin < 0 \/ pol < 0 THEN -1 ELSE 16 * (pol % 2) + (pin % 16)) ELSE
      IF fn = "delay" THEN Instr(7, IF d # 0 THEN d ELSE Operand(s, 1, 0), 0, 0) ELSE
      IF fn = "mov" THEN Instr(5, d, Register(s, 1, 0), Register(s, 2, 5))
      ELSE \* a jump
           [Instr(0, d, (CHOOSE k \in 1 .. 8 : JumpNames[k] = fn) - 1, 0)
              EXCEPT !.label = IF s.inputs = << >> THEN << >> ELSE <<s.inputs[1].value>>]

\* A step that cannot be compiled: an operand that is no number, or a jump
\* without a target.
EmitError(plan, s) ==
  LET i == Emit(plan, s)
  IN  IF i.payload = -1 \/ i.field = -1 \/ i.delay = -1 THEN "not a number" ELSE
      IF s.function \in Control /\ i.label = << >> THEN "missing jump target" ELSE "ok"

\* Mutant: no pads, a delay is cut to what its field holds.
PadsNone(plan, s) == 0

\* The number of NOPs behind a step whose delay its field cannot hold.
Pads(plan, s) == IF s.delay > MaxDelay(plan) THEN s.delay - MaxDelay(plan) ELSE 0

\* Program.labels, by the number of the step: where its instruction is.  At
\* the end the length of the program.
Labels(plan) ==
  LET at[k \in 1 .. Len(plan.steps) + 1] ==
        IF k = 1 THEN 0 ELSE at[k - 1] + 1 + Pads(plan, plan.steps[k - 1])
  IN  at

\* The step an address belongs to, by its instruction or a pad behind it; one
\* more than the last step behind the program.
StepAt(plan, a) ==
  CHOOSE k \in 1 .. Len(plan.steps) + 1 :
    /\ Labels(plan)[k] <= a
    /\ k <= Len(plan.steps) => a < Labels(plan)[k + 1]

\* compile_plan.
Instrs(plan) ==
  [n \in 1 .. Labels(plan)[Len(plan.steps) + 1] |->
     LET k == StepAt(plan, n - 1)
     IN  IF n - 1 = Labels(plan)[k] THEN Emit(plan, plan.steps[k]) ELSE Instr(7, 0, 0, 0)]

CompileError(plan) ==
  FirstError(<<ValidateError(plan)>>
               \o (IF ValidateError(plan) # "ok" THEN << >>
                   ELSE [k \in DOMAIN plan.steps |-> EmitError(plan, plan.steps[k])]))

-----------------------------------------------------------------------------
\* Program.assemble.
Resolve(plan, i) ==
  IF i.label = << >> THEN i
  ELSE [i EXCEPT !.payload =
          Labels(plan)[CHOOSE k \in DOMAIN plan.steps : plan.steps[k].name = i.label[1]]]

\* isa.encode.
EncodeError(i) ==
  IF i.op \notin 0 .. 7 THEN "op" ELSE
  IF i.delay \notin 0 .. 31 THEN "delay" ELSE
  IF i.field \notin 0 .. 7 THEN "field" ELSE
  IF i.payload \notin 0 .. 31 THEN "payload" ELSE "ok"

Encode(i) == 8192 * i.op + 256 * i.delay + 32 * i.field + i.payload

AssembleError(plan) ==
  IF CompileError(plan) # "ok" THEN CompileError(plan) ELSE
  LET instrs == Instrs(plan)
  IN  FirstError([k \in DOMAIN instrs |-> EncodeError(Resolve(plan, instrs[k]))]
                   \o <<IF Len(instrs) > 32 THEN "too many instructions" ELSE "ok">>)

Assemble(plan) ==
  LET instrs == Instrs(plan)
  IN  [k \in DOMAIN instrs |-> Encode(Resolve(plan, instrs[k]))]
=============================================================================
