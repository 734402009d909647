-------------------------------- MODULE Plan --------------------------------
(***************************************************************************)
(* Plans, the graphs a protocol is written in (generator/loom/ir.py): how  *)
(* the inputs of a step are read and which plans are rejected.             *)
(*                                                                         *)
(* A raw plan is what the TOML file holds; an input is text.  An optional  *)
(* field is a sequence of at most one value.  Errors are named values, in  *)
(* the order the code raises them, and "ok" stands for none.               *)
(***************************************************************************)
EXTENDS Integers, Sequences, FiniteSets, TLC

\* The numbers a plan may hold here, in decimal.  int(text, 0) also reads
\* larger and hexadecimal ones, which are left out.
MaxNumber == 63
Numerals == {ToString(k) : k \in 0 .. MaxNumber}
IsNumber(t) == t \in Numerals
Number(t) == CHOOSE k \in 0 .. MaxNumber : ToString(k) = t

Control == {"jmp", "jmp_x_dec", "jmp_y_dec", "jmp_x_eq0", "jmp_y_eq0", "jmp_pin",
            "jmp_tx_ne", "jmp_tx_eq0"}
Primitives ==
  {"pull", "push", "set_pins", "set_pindirs", "set_x", "set_y", "set_bit", "clr_bit",
   "set_outpin", "set_inpin", "wait_pin", "out_lsb", "out_msb", "in_lsb", "in_msb",
   "delay", "mov"} \cup Control

\* What a file may hold, but for the errors validate looks for.
RawStep == [name : STRING, function : STRING, inputs : Seq(STRING), delay : Int,
            sideset : {s \in Seq(Int) : Len(s) <= 1}]
RawPlan == [steps : Seq(RawStep), sideset_count : Int, side_base : Int,
            wrap_bottom : Int, wrap_top : Int]

Steps(raw) == {raw.steps[k] : k \in DOMAIN raw.steps}
StepNames(raw) == {s.name : s \in Steps(raw)}

\* StepInput.parse: an input is a label or a number by the primitive it is
\* given to, and by the names of the other steps.
Parse(text, names, control) ==
  [kind |-> IF control THEN "label" ELSE IF text \in names THEN "step_ref" ELSE "literal",
   value |-> text]

\* Plan.from_dict, but for the check at its end.
FromDict(raw) ==
  [raw EXCEPT !.steps = [k \in DOMAIN raw.steps |->
     LET s == raw.steps[k]
     IN  [s EXCEPT !.inputs = [j \in DOMAIN s.inputs |->
            Parse(s.inputs[j], StepNames(raw), s.function \in Control)]]]]

Kinds(s, kind) == {j \in DOMAIN s.inputs : s.inputs[j].kind = kind}

\* What validate finds wrong with one step.
StepError(s, names) ==
  IF s.function \notin Primitives THEN "unknown primitive" ELSE
  IF \E j \in Kinds(s, "label") : s.inputs[j].value \notin names
  THEN "missing jump target" ELSE
  IF \E j \in Kinds(s, "step_ref") : s.inputs[j].value \notin names
  THEN "missing dependency" ELSE
  IF s.delay < 0 THEN "negative delay" ELSE
  IF \A j \in DOMAIN s.sideset : s.sideset[j] \in {0, 1} THEN "ok" ELSE "sideset must be 0 or 1"

\* The steps a step has data edges from.  The data edges make a circle if
\* there are steps that all depend on one of them.
Needs(s) == {s.inputs[j].value : j \in Kinds(s, "step_ref")}
Circular(plan) ==
  LET needy == {s \in Steps(plan) : Needs(s) # {}}
  IN  \E circle \in SUBSET needy :
        circle # {} /\ \A s \in circle : \E t \in circle : t.name \in Needs(s)

\* The error that is raised, of those found in a sequence of tests.
FirstError(errors) ==
  LET wrong == {k \in DOMAIN errors : errors[k] # "ok"}
  IN  IF wrong = {} THEN "ok" ELSE errors[CHOOSE k \in wrong : \A j \in wrong : k <= j]

\* Plan.validate.
ValidateError(plan) ==
  LET names == StepNames(plan)
  IN  IF Cardinality(names) # Len(plan.steps) THEN "duplicate step names" ELSE
      FirstError(
        [k \in DOMAIN plan.steps |-> StepError(plan.steps[k], names)]
          \o << IF plan.sideset_count \in {0, 1} THEN "ok" ELSE "sideset_count must be 0 or 1",
                IF {plan.wrap_bottom, plan.wrap_top} \subseteq 0 .. 31 THEN "ok"
                ELSE "wrap bounds must be 0..31",
                IF Circular(plan) THEN "circular data dependency" ELSE "ok" >>)
=============================================================================
