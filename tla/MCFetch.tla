------------------------------- MODULE MCFetch -------------------------------
(* Two slots of two words; a jump back, a wait for the pin and a delay.    *)
EXTENDS Fetch

PolyBits == {0}
TwoSlots == {0, 1}
Plain(c) == [code |-> c, top |-> FALSE, low |-> 0]
Jmp(c, t) == Plain([op |-> "JMP", cond |-> c, target |-> t])
BlankNode == Jmp("ALWAYS", 0)
LateNop == [Plain([op |-> "NOP"]) EXCEPT !.top = TRUE]
WaitHigh == Plain([op |-> "WAIT", pin |-> 0, pol |-> TRUE])
ThreeNodes == {BlankNode, WaitHigh, LateNop}
NoSide == [wrap_bot |-> 0, wrap_top |-> 1, side_count |-> FALSE, side_base |-> 0]
=============================================================================
