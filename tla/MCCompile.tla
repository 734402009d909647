------------------------------ MODULE MCCompile ------------------------------
(* Plans of three steps: one of each palette below, under each of the       *)
(* settings.  The fields of a word have their real widths, a register has    *)
(* the five bits of an immediate.                                           *)
EXTENDS CompiledGraph

\* A step: its function, inputs, delay and optional side-set.
S(fn, inputs, delay, side) == <<fn, inputs, delay, side>>

One == {
  S("set_pins", <<"3">>, 2, <<1>>), S("set_x", <<"1">>, 17, << >>),
  S("wait_pin", <<"0", "1">>, 1, <<1>>), S("pull", << >>, 0, << >>)}
Two == {
  S("out_lsb", << >>, 16, << >>), S("jmp_x_dec", <<"a">>, 1, << >>),
  S("jmp_pin", <<"c">>, 0, <<1>>), S("mov", <<"pindirs", "x">>, 0, <<1>>),
  S("delay", <<"3">>, 0, << >>), S("jmp_tx_ne", <<"b">>, 0, << >>)}
Three == {
  S("jmp", <<"b">>, 3, <<1>>), S("set_bit", <<"9">>, 40, << >>),
  S("push", << >>, 0, << >>), S("mov", <<"isr", "pins">>, 17, << >>)}

Named(name, s) ==
  [name |-> name, function |-> s[1], inputs |-> s[2], delay |-> s[3], sideset |-> s[4]]

Settings == {
  [sideset_count |-> 0, side_base |-> 0, wrap_bottom |-> 0, wrap_top |-> 31],
  [sideset_count |-> 0, side_base |-> 0, wrap_bottom |-> 1, wrap_top |-> 2],
  [sideset_count |-> 1, side_base |-> 1, wrap_bottom |-> 0, wrap_top |-> 31],
  [sideset_count |-> 1, side_base |-> 1, wrap_bottom |-> 1, wrap_top |-> 2]}

MCSources ==
  {[steps |-> <<Named("a", one), Named("b", two), Named("c", three)>>] @@ set :
     one \in One, two \in Two, three \in Three, set \in Settings}
MCGpio == {{}, {0, 1}}
MCPoly == {0, 3, 4, 7, 8, 10, 14}
=============================================================================
