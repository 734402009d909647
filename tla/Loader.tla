------------------------------- MODULE Loader -------------------------------
(***************************************************************************)
(* How a plan gets into a machine of the interpreter (interp.SM.load,      *)
(* stream.py, formal_proto.py), and how it gets into a graph store and     *)
(* back (graphfmt.py, stores.py).                                          *)
(***************************************************************************)
EXTENDS SmInterp, Compile

\* The fields of a word have room for the registers, pins and words there are.
ASSUME FieldsAssumption ==
  W >= 8 /\ ImmW >= 5 /\ Words = 32 /\ HalfDelay = 16

\* Plan to the CSRs of the machine (formal_proto._tx_run, stream.roundtrip).
ConfigOf(p) == [wrap_bot |-> p.wrap_bottom, wrap_top |-> p.wrap_top,
                side_count |-> p.sideset_count = 1, side_base |-> p.side_base]

\* Mutant: nothing behind the words.
LoadShort(p) ==
  IF AssembleError(p) # "ok" THEN << >> ELSE
  LET words == Assemble(p)
  IN  [a \in 0 .. Len(words) - 1 |-> Decode(words[a + 1])]

\* Program.assemble and SM.load: the words, and zero behind them; no memory
\* if the plan is rejected.
Load(p) ==
  IF AssembleError(p) # "ok" THEN << >> ELSE
  LET words == Assemble(p)
  IN  [a \in Addr |-> Decode(IF a < Len(words) THEN words[a + 1] ELSE 0)]

\* graphfmt.dumps: what a stored graph keeps of a plan.
GraphToDict(p) ==
  [steps |-> [k \in DOMAIN p.steps |->
     [p.steps[k] EXCEPT
        !.inputs = [j \in DOMAIN p.steps[k].inputs |-> p.steps[k].inputs[j].value],
        !.sideset = << >>]],
   sideset_count |-> 0, side_base |-> 0, wrap_bottom |-> 0, wrap_top |-> 31]
=============================================================================
