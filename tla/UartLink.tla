------------------------------- MODULE UartLink -------------------------------
(***************************************************************************)
(* A UART line from one chip to another: host, FIFO and graph uart_8n1_tx  *)
(* in machine A, the line with its pull-up, the input synchroniser of the  *)
(* other chip's wrapper (src/project.v), graph uart_8n1_rx in machine B,   *)
(* FIFO and host.  The machines are the hardware's (rtl.py).               *)
(*                                                                         *)
(* The chips have clocks of their own: an edge of the line may be seen one *)
(* clock late, and in every frame a few clocks of one chip have none of    *)
(* the other beside them.  The idle line is hit by short runt pulses       *)
(* (tests/test_random_jitter.py).  The host of B starts and empties its   *)
(* chip whenever it likes.                                                 *)
(***************************************************************************)
EXTENDS SmRtl, Loader, Plans

CONSTANTS Messages, \* the sequences of bytes A's host sends
          MaxSlips, \* clocks one chip has more than the other in a frame
          MaxRunts, \* runt pulses
          RuntLen,  \* clocks the longest of them has
          Gap,      \* clocks between a runt and what follows it
          Quiet     \* clocks of high line after which B must be ready

\* What the proofs assume of them: two bits of drift in a frame of eighty
\* clocks, no runt as long as half a bit, a bit between two of them, and quiet
\* for a whole frame.
ASSUME ByteOnTheLine == W = 8
ASSUME MessagesAssumption == Messages \subseteq Seq(Reg)
ASSUME DriftAssumption == MaxSlips \in 0 .. 2
ASSUME RuntAssumption == RuntLen \in 1 .. 4
ASSUME GapAssumption == Gap \in Nat /\ Gap >= 8
ASSUME QuietAssumption == Quiet \in Nat /\ Quiet >= 80

VARIABLES progA, progB, \* the two programs
          a, b,         \* the two machines
          run,          \* B's run pin
          sync0, sync1, \* B's synchroniser, for the pin of the line
          was,          \* the line a moment ago
          runt,         \* clocks a runt pulse has lasted, 0 if there is none
          gap,          \* clocks since the last one
          slipped,      \* the clocks have slipped during this bit
          slips, runts, \* what the bounds count
          unsent,       \* what A's host has yet to push
          \* What the properties are about:
          synced,       \* B has seen a quiet line and been served since
          calm,         \* clocks of the quiet line so far
          due           \* bytes pulled by A and not yet pushed by B

ghost == <<synced, calm, due>>
linkVars == <<progA, progB, a, b, run, sync0, sync1, was, runt, gap, slipped, slips,
              runts, unsent, ghost>>

\* The words of a slot, zero behind the program, and the CSRs.
Slot(raw) == [imem |-> Assemble(FromDict(raw)), csr |-> ConfigOf(FromDict(raw))]
Fetched(p, pc) == Decode(IF pc < Len(p.imem) THEN p.imem[pc + 1] ELSE 0)

\* The two graphs in a slot, which TLC evaluates and the provers cannot.
Plain(code, delay) == [code |-> code, top |-> FALSE, low |-> delay]
ASSUME TxSlot ==
  LET p == Slot(Uart8n1Tx)
  IN  /\ p.csr = [wrap_bot |-> 2, wrap_top |-> 8, side_count |-> FALSE, side_base |-> 0]
      /\ Fetched(p, 0) = Plain([op |-> "SET", dst |-> "PINS", imm |-> {0}], 0)
      /\ Fetched(p, 1) = Plain([op |-> "SET", dst |-> "PINDIRS", imm |-> {0}], 0)
      /\ Fetched(p, 2) = Plain([op |-> "PULL"], 0)
      /\ Fetched(p, 3) = Plain([op |-> "SET", dst |-> "X", imm |-> {0, 1, 2}], 0)
      /\ Fetched(p, 4) = Plain([op |-> "SET", dst |-> "PINS", imm |-> {}], 7)
      /\ Fetched(p, 5) = Plain([op |-> "OUT", lsb |-> TRUE], 6)
      /\ Fetched(p, 6) = Plain([op |-> "JMP", cond |-> "X_DEC", target |-> 5], 0)
      /\ Fetched(p, 7) = Plain([op |-> "SET", dst |-> "PINS", imm |-> {0}], 7)
      /\ Fetched(p, 8) = Plain([op |-> "NOP"], 0)
ASSUME RxSlot ==
  LET p == Slot(Uart8n1Rx)
  IN  /\ p.csr = [wrap_bot |-> 1, wrap_top |-> 14, side_count |-> FALSE, side_base |-> 0]
      /\ Fetched(p, 0) = Plain([op |-> "SET", dst |-> "PINDIRS", imm |-> {1}], 0)
      /\ Fetched(p, 1) = Plain([op |-> "WAIT", pin |-> 0, pol |-> FALSE], 0)
      /\ Fetched(p, 2) = Plain([op |-> "NOP"], 3)
      /\ Fetched(p, 3) = Plain([op |-> "JMP", cond |-> "PIN", target |-> 1], 0)
      /\ Fetched(p, 4) = Plain([op |-> "NOP"], 4)
      /\ Fetched(p, 5) = Plain([op |-> "SET", dst |-> "X", imm |-> {0, 1, 2}], 0)
      /\ Fetched(p, 6) = Plain([op |-> "IN", lsb |-> TRUE], 6)
      /\ Fetched(p, 7) = Plain([op |-> "JMP", cond |-> "X_DEC", target |-> 6], 0)
      /\ Fetched(p, 8) = Plain([op |-> "JMP", cond |-> "PIN", target |-> 12], 0)
      /\ Fetched(p, 9) = Plain([op |-> "SETPIN", dst |-> "BIT", pin |-> 1], 0)
      /\ Fetched(p, 10) = Plain([op |-> "WAIT", pin |-> 0, pol |-> TRUE], 0)
      /\ Fetched(p, 11) = Plain([op |-> "JMP", cond |-> "ALWAYS", target |-> 1], 0)
      /\ Fetched(p, 12) = Plain([op |-> "PUSH"], 0)
      /\ Fetched(p, 13) = Plain([op |-> "SETPIN", dst |-> "CLR", pin |-> 1], 0)
      /\ Fetched(p, 14) = Plain([op |-> "NOP"], 0)

LinkInit ==
  /\ progA = Slot(Uart8n1Tx) /\ progB = Slot(Uart8n1Rx)
  /\ a = ResetMachine /\ b = ResetMachine
  /\ run = FALSE /\ sync0 = FALSE /\ sync1 = FALSE
  /\ was = TRUE /\ runt = 0 /\ gap = Gap
  /\ slipped = FALSE /\ slips = 0 /\ runts = 0
  /\ unsent \in Messages
  /\ synced = FALSE /\ calm = 0 /\ due = << >>

-----------------------------------------------------------------------------
\* The line: A's pin where A drives it, high by the pull-up elsewhere, low
\* in a runt.
Line == runt = 0 /\ (0 \in a.oe_reg => 0 \in a.out_reg)

ANode == Fetched(progA, a.pc)
BNode == Fetched(progB, b.pc)
ASees == Pad(<<a>>, {})
BSees == Pad(<<b>>, Bit(sync1, 0))
AParked == a.delay_ctr = 0 /\ ANode.code.op = "PULL" /\ a.tx = << >>

\* A clock of each chip.  The synchroniser is cleared while B is halted.
ClockA == a' = Enabled(a, ANode, progA.csr, ASees)

\* Mutant: the second flip-flop is fed with itself.
ClockBStuck(seen) ==
  /\ b' = IF run THEN Enabled(b, BNode, progB.csr, BSees) ELSE b
  /\ sync0' = (run /\ seen)
  /\ sync1' = (run /\ sync1)

ClockB(seen) ==
  /\ b' = IF run THEN Enabled(b, BNode, progB.csr, BSees) ELSE b
  /\ sync0' = (run /\ seen)
  /\ sync1' = (run /\ sync0)

\* What the first flip-flop may take in: an edge is seen at once or a clock
\* late.  This, the runts and the drift are tried on a receiver in step only;
\* one that is not meets a frame at any of its clocks anyway.
Seen == IF synced THEN {was, Line} ELSE {Line}

\* B is kept at its push by a full FIFO.
Overrun == run /\ b.delay_ctr = 0 /\ BNode.code.op = "PUSH" /\ Len(b.rx) = Depth
Pulls == a'.tx # a.tx
Pushes == b'.rx # b.rx

\* A runt begins while A is parked and lasts a while; two are Gap apart.
Disturb ==
  LET begins == synced /\ runt = 0 /\ AParked /\ gap = Gap /\ runts < MaxRunts
  IN  \/ /\ runt = 0
         /\ runt' = 0
         /\ gap' = (IF gap < Gap THEN gap + 1 ELSE gap)
         /\ UNCHANGED runts
      \/ /\ begins \/ (runt # 0 /\ runt < RuntLen)
         /\ runt' = runt + 1
         /\ gap' = 0
         /\ runts' = (IF begins THEN runts + 1 ELSE runts)
      \/ runt # 0 /\ runt' = 0 /\ UNCHANGED <<gap, runts>>

\* B is in step once it has run on a quiet line for long enough, until it is
\* kept waiting by a full FIFO, or a frame follows a runt at once.
Watch ==
  /\ synced' = /\ ~Overrun
               /\ synced \/ calm = Quiet
               /\ ~(Pulls /\ (runt # 0 \/ gap < Gap))
  /\ calm' = IF synced' \/ Overrun \/ ~run \/ ~Line \/ Pulls THEN 0 ELSE calm + 1
  /\ due' = IF ~synced' THEN << >>
            ELSE SubSeq(due, IF Pushes THEN 2 ELSE 1, Len(due))
                   \o (IF Pulls THEN <<Head(a.tx)>> ELSE << >>)

Passes == Disturb /\ Watch /\ was' = Line /\ UNCHANGED <<progA, progB, run, unsent>>

\* One slip in a bit, MaxSlips in a frame.
Slips == synced /\ ~slipped /\ slips < MaxSlips /\ slips' = slips + 1 /\ slipped' = TRUE

Clock ==
  /\ ClockA
  /\ \E seen \in Seen : ClockB(seen)
  /\ slips' = (IF Pulls THEN 0 ELSE slips)
  /\ slipped' = (slipped /\ a.delay_ctr # 0)
  /\ Passes

\* The faster chip has a clock more.
SlipA == ClockA /\ Slips /\ UNCHANGED <<b, sync0, sync1>> /\ Passes
SlipB == (\E seen \in Seen : ClockB(seen)) /\ Slips /\ UNCHANGED a /\ Passes

-----------------------------------------------------------------------------
\* The hosts.  When a byte is pushed or popped makes a difference only where a
\* machine would wait for it otherwise: these are the moments tried.
HostPush ==
  /\ AParked /\ unsent # << >>
  /\ a' = [a EXCEPT !.tx = <<Head(unsent)>>]
  /\ unsent' = Tail(unsent)
  /\ UNCHANGED <<progA, progB, b, run, sync0, sync1, was, runt, gap, slipped, slips,
                 runts, ghost>>

HostPop ==
  /\ Overrun
  /\ b' = [b EXCEPT !.rx = Tail(b.rx)]
  /\ UNCHANGED <<progA, progB, a, run, sync0, sync1, was, runt, gap, slipped, slips, runts,
                 unsent, ghost>>

\* At any clock of A, in the middle of a frame too.
HostStart ==
  /\ ~run /\ run' = TRUE
  /\ UNCHANGED <<progA, progB, a, b, sync0, sync1, was, runt, gap, slipped, slips, runts,
                 unsent, ghost>>

LinkNext == Clock \/ SlipA \/ SlipB \/ HostPush \/ HostPop \/ HostStart

LinkSpec == LinkInit /\ [][LinkNext]_linkVars /\ WF_linkVars(Clock)

-----------------------------------------------------------------------------
LinkTypeOK ==
  /\ a \in Machine /\ b \in Machine
  /\ runt \in 0 .. RuntLen /\ gap \in 0 .. Gap
  /\ slips \in 0 .. MaxSlips /\ slipped \in BOOLEAN /\ calm \in 0 .. Quiet
  /\ due \in Seq(Reg)

\* B pushes the bytes A pulled, each once, in order and unchanged, and none
\* of its own making: not from the two low clocks its synchroniser begins
\* with, not from a runt, not from the drift of the clocks, and not from
\* what it took for a frame when it was started in the middle of one
\* (project.v:81, uart_8n1_rx.toml).
NoFalseByte ==
  [][synced /\ b'.rx # b.rx /\ Len(b'.rx) > Len(b.rx) =>
       due # << >> /\ b'.rx = Append(b.rx, Head(due))]_linkVars

\* Nor does it raise the frame-error flag.
NoFalseAlarm == [][synced /\ 1 \in b'.out_reg => 1 \in b.out_reg]_linkVars

\* A byte pulled while B is in step is pushed, unless its host
\* leaves the FIFO full (rtl.py:512).
Delivered == due # << >> ~> due = << >>
=============================================================================
