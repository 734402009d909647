----------------------------- MODULE HostDriver -----------------------------
(***************************************************************************)
(* A host that follows the datasheet (docs/info.md, "Host protocol", and   *)
(* the bench of test/test.py), wired to the wrapper of module HostPort.    *)
(* An operation is a sequence of pin settings, each held for one clock or  *)
(* more; the host picks operations and hold times freely.                  *)
(***************************************************************************)
EXTENDS HostPort

CONSTANTS None,
          CsrHeld      \* whether a CSR write raises ui_in[7] before ui_in[1]

VARIABLES op,          \* the operation in progress, or None
          rest,        \* the pin settings still to show for it
          told,        \* what the engine was told during it
          on,          \* the host has the engine running
          must         \* the kind of operation that has to come next, or None

hostvars == <<op, rest, told, on, must>>
vars == <<portvars, hostvars>>

Op == [kind : {"load"}, a : Addr, w : Byte \X Byte]     \* w = <<high, low>>
        \cup [kind : {"loadlow"}, a : Addr, d : Byte]
        \cup [kind : {"csr"}, a : Addr, d : Byte]
        \cup [kind : {"push", "livepush", "livepushpop"}, d : Byte]
        \cup [kind : {"pop", "livepop", "run", "halt"}]
        \cup [kind : {"livelow"}, d : Nibble]

ASSUME NoneAssumption == None \notin Op \cup {"run", "halt"}

Live == {"livepush", "livepushpop", "livepop", "livelow", "halt"}
Allowed(o, running_) == (o.kind \in Live) <=> running_
Runs(o, running_) == CASE o.kind = "run" -> TRUE
                       [] o.kind = "halt" -> FALSE
                       [] OTHER -> running_

\* A half-finished load is given up by running, a lone nibble by halting.
Follows(o) == CASE o.kind = "loadlow" -> "run"
                [] o.kind = "livelow" -> "halt"
                [] OTHER -> None

-----------------------------------------------------------------------------
\* Pin settings.
Quiet(r, a, d) ==
  [ena |-> TRUE, run |-> r, stbA |-> FALSE, stbB |-> FALSE, a |-> a, uio |-> d]
StrobeA(a, d) == [Quiet(FALSE, a, d) EXCEPT !.stbA = TRUE]
StrobeB(r, a, d) == [Quiet(r, a, d) EXCEPT !.stbB = TRUE]
Both(a, d) == [StrobeA(a, d) EXCEPT !.stbB = TRUE]

PulseA(a, d) == <<StrobeA(a, d), Quiet(FALSE, a, d)>>
PulseB(r, a, d) == <<StrobeB(r, a, d), Quiet(r, a, d)>>

\* a carries ui_in[2] = 0 for a push and 1 for a pop, and a nibble above it.
PushPins(nib) == 2 * nib
PopPins(nib) == 2 * nib + 1

\* The two strobes of a CSR write rise together, as the bench drives them;
\* either may fall first.
CsrPulse(a, d) ==
  IF CsrHeld
  THEN {<<StrobeB(FALSE, a, d), Both(a, d), StrobeB(FALSE, a, d), Quiet(FALSE, a, d)>>}
  ELSE {<<Both(a, d), Quiet(FALSE, a, d)>>,
        <<Both(a, d), StrobeA(a, d), Quiet(FALSE, a, d)>>,
        <<Both(a, d), StrobeB(FALSE, a, d), Quiet(FALSE, a, d)>>}

LivePulse(nib, d) == PulseB(TRUE, PushPins(nib), d)

\* The pin sequences an operation may take.
Script(o) ==
  CASE o.kind = "load" -> {PulseA(o.a, o.w[2]) \o PulseA(o.a, o.w[1])}
    [] o.kind = "loadlow" -> {PulseA(o.a, o.d)}
    [] o.kind = "csr" -> CsrPulse(o.a, o.d)
    [] o.kind = "push" -> {PulseB(FALSE, PushPins(n), o.d) : n \in Nibble}
    [] o.kind = "pop" -> {PulseB(FALSE, PopPins(n), 0) : n \in Nibble}
    [] o.kind = "livepush" ->
         {LivePulse(o.d % NibMod, 0) \o LivePulse(o.d \div NibMod, 0)}
    [] o.kind = "livepushpop" ->
         {LivePulse(o.d % NibMod, 0) \o PulseB(TRUE, PopPins(n), 0)
            \o LivePulse(o.d \div NibMod, 0) : n \in Nibble}
    [] o.kind = "livelow" -> {LivePulse(o.d, 0)}
    [] o.kind = "livepop" -> {PulseB(TRUE, PopPins(n), 0) : n \in Nibble}
    [] o.kind = "run" -> {<<Quiet(TRUE, 0, 0)>>}
    [] o.kind = "halt" -> {<<Quiet(FALSE, 0, 0)>>}

\* What the operation means to the engine; s is the write slot in force.
Effect(o, s) ==
  CASE o.kind = "load" -> <<Imem(s, o.a, o.w)>>
    [] o.kind = "csr" -> <<Csr(o.a, o.d)>>
    [] o.kind \in {"push", "livepush"} -> <<Tx(o.d)>>
    [] o.kind \in {"pop", "livepop"} -> <<Rx>>
    [] o.kind = "livepushpop" -> <<Rx, Tx(o.d)>>
    [] OTHER -> << >>

NewSlot(o, s) ==
  IF o.kind = "csr" /\ o.a = CsrWriteSlot THEN o.d % NSlots ELSE s

-----------------------------------------------------------------------------
Init ==
  /\ PortInit
  /\ op = None /\ must = None
  /\ rest = << >> /\ told = << >>
  /\ on = FALSE

Begin(o) ==
  /\ op = None
  /\ Allowed(o, on)
  /\ must # None => o.kind = must
  /\ op' = o
  /\ rest' \in Script(o)
  /\ UNCHANGED <<portvars, told, on, must>>

\* One clock with the current pins; the host then holds them or moves on.
Clock ==
  /\ rest # << >>
  /\ Edge(Head(rest))
  /\ told' = told \o cmd'
  /\ rest' \in {rest, Tail(rest)}
  /\ UNCHANGED <<op, on, must>>

End ==
  /\ op # None /\ rest = << >>
  /\ op' = None
  /\ must' = Follows(op)
  /\ on' = Runs(op, on)
  /\ told' = << >>
  /\ UNCHANGED <<portvars, rest>>

\* A clock between two operations, strobes low.
IdleClock ==
  /\ op = None
  /\ Edge(Quiet(on, 0, 0))
  /\ told' = told \o cmd'
  /\ UNCHANGED <<op, rest, on, must>>

HostReset ==
  /\ op = None
  /\ ResetEdge
  /\ on' = FALSE /\ must' = None
  /\ UNCHANGED <<op, rest, told>>

Next == (\E o \in Op : Begin(o)) \/ Clock \/ End \/ IdleClock \/ HostReset

Spec == Init /\ [][Next]_vars

-----------------------------------------------------------------------------
\* Types: the port stays well formed under a host that follows its scripts.
HostTypeOK ==
  /\ PortTypeOK
  /\ op \in Op \cup {None}
  /\ rest \in Seq(Pins)
  /\ told \in Seq(Command)
  /\ on \in BOOLEAN
  /\ must \in {"run", "halt", None}

\* Every operation of the datasheet tells the engine what it stands for,
\* once, and nothing else: through any hold times, any order of operations,
\* resets between them, a pop between the nibbles of a push, and loads and
\* pushes given up half way.
Commanded == INSTANCE HostCommands WITH Ops <- Op, slot <- wr_slot

ObeysTheDatasheet == Commanded!Spec

\* The wrapper is off the uio pads whenever the host puts a data byte there,
\* although it lets go of them a clock after run falls.
NoContention ==
  op # None /\ rest # << >> /\ op.kind \in {"load", "loadlow", "csr", "push"} =>
    ~DrivesPads(Head(rest))

\* Whatever the hold times, a clock passes between a write to the engine's
\* memory or CSRs and the first one it runs: what the clocked memory of
\* imem.py needs of a host (Patient in module Fetch), whose read ports still
\* hold the word from before the write.
WritesSettle ==
  [][run_q' => \A i \in DOMAIN cmd : cmd[i].kind \notin {"csr", "imem"}]_vars

\* A CSR write leaves the FIFOs alone.
CsrTouchesNoFifo ==
  op # None /\ op.kind = "csr" =>
    \A i \in DOMAIN told : told[i].kind \notin {"tx", "rx"}
=============================================================================
