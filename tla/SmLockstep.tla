----------------------------- MODULE SmLockstep -----------------------------
(***************************************************************************)
(* The hardware and its golden model side by side: the same programs, the  *)
(* same CSRs, the same input pins and the same host traffic go to the      *)
(* state machines of rtl.py and to those of loom.interp.  A clock enables  *)
(* any of the machines; that both dividers pick the same ones is the       *)
(* subject of module ClkDiv, that the rings are queues that of Fifos.      *)
(***************************************************************************)
EXTENDS SmAgree

CONSTANTS SM,         \* the state machines
          Programs,   \* the programs a slot may hold
          Configs,    \* the CSR settings the host may choose
          HostBytes   \* the bytes the host may push

ASSUME ProgramsAssumption == Programs \subseteq [Addr -> Node]
ASSUME ConfigsAssumption == Configs \subseteq Config
ASSUME HostBytesAssumption == HostBytes \subseteq Reg

VARIABLES rtl, gold,   \* the machines of either model
          imem,        \* imem[s]: the program of machine s
          csr,         \* csr[s]: its CSRs
          clean        \* ghost: nothing the two models disagree on was used

vars == <<rtl, gold, imem, csr, clean>>

\* Types: every register of both models keeps to its width.
TypeOK ==
  /\ rtl \in [SM -> Machine]
  /\ gold \in [SM -> Machine]
  /\ imem \in [SM -> Programs]
  /\ csr \in [SM -> Configs]
  /\ clean \in BOOLEAN

Init ==
  /\ rtl = [s \in SM |-> ResetMachine]
  /\ gold = [s \in SM |-> ResetMachine]
  /\ imem \in [SM -> Programs]
  /\ csr \in [SM -> Configs]
  /\ clean = TRUE

-----------------------------------------------------------------------------
\* What the models disagree on.

\* A pin one machine drives high while another pulls it down.
Fight == DrivesHigh(rtl) \cap PullsLow(rtl) # {}

\* Machine s uses its own side-set pin.
UsesSidePin(s) == SidePinUsed(rtl[s], imem[s][rtl[s].pc].code, csr[s])

\* Side-set is turned on under a delay that began without it.
LatchesLate(s, c) == c.side_count /\ ~csr[s].side_count /\ rtl[s].delay_ctr # 0

-----------------------------------------------------------------------------
\* A system clock with run = 1 that enables the machines in en.
Cycle(en, gpio) ==
  /\ rtl' = [s \in SM |->
       IF s \in en
       THEN Enabled(rtl[s], imem[s][rtl[s].pc], csr[s], Pad(rtl, gpio))
       ELSE rtl[s]]
  /\ gold' = [s \in SM |->
       IF s \in en
       THEN Tick(gold[s], imem[s][gold[s].pc], csr[s], Bus(gold, gpio))
       ELSE gold[s]]
  /\ clean' = (clean /\ ~Fight /\ \A s \in en : ~UsesSidePin(s))
  /\ UNCHANGED <<imem, csr>>

\* Halted: the host moves a byte, or writes a CSR.
PushTo(m, b) == IF Len(m.tx) < Depth THEN [m EXCEPT !.tx = Append(m.tx, b)] ELSE m
PopFrom(m) == IF m.rx = << >> THEN m ELSE [m EXCEPT !.rx = Tail(m.rx)]

HostPush(s, b) ==
  /\ rtl' = [rtl EXCEPT ![s] = PushTo(rtl[s], b)]
  /\ gold' = [gold EXCEPT ![s] = PushTo(gold[s], b)]
  /\ UNCHANGED <<imem, csr, clean>>

HostPop(s) ==
  /\ rtl' = [rtl EXCEPT ![s] = PopFrom(rtl[s])]
  /\ gold' = [gold EXCEPT ![s] = PopFrom(gold[s])]
  /\ UNCHANGED <<imem, csr, clean>>

Configure(s, c) ==
  /\ csr' = [csr EXCEPT ![s] = c]
  /\ clean' = (clean /\ ~LatchesLate(s, c))
  /\ UNCHANGED <<rtl, gold, imem>>

Next ==
  \/ \E en \in SUBSET SM, gpio \in Reg : Cycle(en, gpio)
  \/ \E s \in SM :
       \/ \E b \in HostBytes : HostPush(s, b)
       \/ HostPop(s)
       \/ \E c \in Configs : Configure(s, c)

Spec == Init /\ [][Next]_vars

-----------------------------------------------------------------------------
\* The golden model is golden: it has every register, both FIFOs and all the
\* pins of the hardware after every clock, as long as no two machines fought
\* over a pin, no program wrote its own side-set pin or sampled it while
\* driving it, and side-set was not turned on in the middle of a delay.
GoldenWhileClean == clean => \A s \in SM : Same(rtl[s], gold[s], csr[s])

\* rtl.py promises it without the three provisos.
AlwaysGolden == \A s \in SM : Same(rtl[s], gold[s], csr[s])
=============================================================================
