------------------------------- MODULE SmAgree -------------------------------
(***************************************************************************)
(* What a machine of the hardware (rtl.py) and one of its golden model     *)
(* (loom.interp) have to agree on, and where one machine may make them     *)
(* disagree.                                                               *)
(***************************************************************************)
EXTENDS SmRtl, SmInterp

\* The registers agree; the side-set latch has to while it is in use.
View(m) == <<m.pc, m.x, m.y, m.osr, m.isr, m.delay_ctr, m.out_reg, m.oe_reg,
             m.out_pin, m.in_pin, m.crc, m.tx, m.rx>>
Same(r, g, c) ==
  /\ View(r) = View(g)
  /\ c.side_count /\ r.delay_ctr # 0 => r.side_latched = g.side_latched

\* Whether an instruction samples pin b, or writes its output bit.
Samples(m, i, b) ==
  \/ i.op = "JMP" /\ i.cond = "PIN" /\ m.in_pin = b
  \/ i.op = "WAIT" /\ i.pin = b
  \/ i.op = "IN" /\ m.in_pin = b
  \/ i.op = "MOV" /\ i.src = "PINS"

Writes(m, i, b) ==
  \/ i.op = "OUT" /\ m.out_pin = b
  \/ i.op = "MOV" /\ i.dst = "PINS"
  \/ i.op = "SET" /\ i.dst = "PINS" /\ b \in ImmBits
  \/ i.op = "SETPIN" /\ i.dst \in {"BIT", "CLR"} /\ i.pin = b

\* Machine m executes an instruction that writes its own side-set pin, or
\* samples it while driving it.
SidePinUsed(m, i, c) ==
  /\ m.delay_ctr = 0 /\ c.side_count
  /\ Writes(m, i, c.side_base) \/ (c.side_base \in m.oe_reg /\ Samples(m, i, c.side_base))
=============================================================================
