-------------------------------- MODULE Plans --------------------------------
(***************************************************************************)
(* The graphs of the protocols (plans/*.toml), one transmitter and one     *)
(* receiver for each line language, as the steps of the file in its order. *)
(***************************************************************************)
EXTENDS Sequences

OnTwo(name, function, a, b) ==
  [name |-> name, function |-> function, inputs |-> <<a, b>>, delay |-> 0, sideset |-> << >>]
On(name, function, a) == [OnTwo(name, function, a, a) EXCEPT !.inputs = <<a>>]
Do(name, function) == [OnTwo(name, function, "", "") EXCEPT !.inputs = << >>]
Delayed(step, delay) == [step EXCEPT !.delay = delay]
Sided(step, level) == [step EXCEPT !.sideset = <<level>>]

Graph(sideset_count, side_base, wrap_bottom, wrap_top, steps) ==
  [steps |-> steps, sideset_count |-> sideset_count, side_base |-> side_base,
   wrap_bottom |-> wrap_bottom, wrap_top |-> wrap_top]

Uart8n1Tx ==
  Graph(0, 0, 2, 8, <<
    On("idle", "set_pins", "1"), On("drive", "set_pindirs", "1"),
    Do("pull_byte", "pull"), On("count", "set_x", "7"),
    Delayed(On("start", "set_pins", "0"), 7), Delayed(On("bit", "out_lsb", "1"), 6),
    On("next_bit", "jmp_x_dec", "bit"), Delayed(On("stop", "set_pins", "1"), 7),
    Do("again", "delay")>>)

Uart8n1Rx ==
  Graph(0, 0, 1, 14, <<
    On("flag_dir", "set_pindirs", "2"), OnTwo("wait_start", "wait_pin", "0", "0"),
    Delayed(Do("verify", "delay"), 3), On("chk_start", "jmp_pin", "wait_start"),
    Delayed(Do("to_first", "delay"), 4), On("count", "set_x", "7"),
    Delayed(On("sample", "in_lsb", "1"), 6), On("next_bit", "jmp_x_dec", "sample"),
    On("stop_ok", "jmp_pin", "store"), On("flag", "set_bit", "1"),
    OnTwo("resync", "wait_pin", "0", "1"), On("back", "jmp", "wait_start"),
    Do("store", "push"), On("clear", "clr_bit", "1"), Do("again", "delay")>>)

\* Mutant: the frame does not lead back to the pull.
SpiTxStays ==
  Graph(0, 0, 0, 31, <<
    On("idle", "set_pins", "4"), On("drive", "set_pindirs", "7"),
    Do("pull_byte", "pull"), On("cs_lo", "clr_bit", "2"), On("count", "set_x", "7"),
    On("data", "out_msb", "1"), On("sck_hi", "set_bit", "1"),
    On("sck_lo", "clr_bit", "1"), On("next_bit", "jmp_x_dec", "data"),
    On("cs_hi", "set_pins", "4"), On("again", "jmp", "cs_hi")>>)

SpiTx ==
  Graph(0, 0, 0, 31, <<
    On("idle", "set_pins", "4"), On("drive", "set_pindirs", "7"),
    Do("pull_byte", "pull"), On("cs_lo", "clr_bit", "2"), On("count", "set_x", "7"),
    On("data", "out_msb", "1"), On("sck_hi", "set_bit", "1"),
    On("sck_lo", "clr_bit", "1"), On("next_bit", "jmp_x_dec", "data"),
    On("cs_hi", "set_pins", "4"), On("again", "jmp", "pull_byte")>>)

\* Mutant: no wait for the falling edge.
SpiRxLevel ==
  Graph(0, 0, 0, 31, <<
    OnTwo("wait_cs_lo", "wait_pin", "2", "0"), On("count", "set_x", "7"),
    OnTwo("wait_rise", "wait_pin", "1", "1"), On("sample", "in_msb", "1"),
    On("next_bit", "jmp_x_dec", "wait_rise"), Do("store", "push"),
    OnTwo("wait_cs_hi", "wait_pin", "2", "1"), On("again", "jmp", "wait_cs_lo")>>)

SpiRx ==
  Graph(0, 0, 0, 31, <<
    OnTwo("wait_cs_lo", "wait_pin", "2", "0"), On("count", "set_x", "7"),
    OnTwo("wait_rise", "wait_pin", "1", "1"), On("sample", "in_msb", "1"),
    OnTwo("wait_fall", "wait_pin", "1", "0"), On("next_bit", "jmp_x_dec", "wait_rise"),
    Do("store", "push"), OnTwo("wait_cs_hi", "wait_pin", "2", "1"),
    On("again", "jmp", "wait_cs_lo")>>)

\* Mutant: a bit does not wait for a stretched clock.
I2cOdTxHasty ==
  Graph(0, 0, 0, 31, <<
    On("idle_out", "set_pins", "0"), On("idle_oe", "set_pindirs", "0"),
    On("sel_out", "set_outpin", "2"), On("sel_in", "set_inpin", "2"),
    Do("pull_byte", "pull"), On("start_sda", "set_pindirs", "1"),
    On("start_scl", "set_pindirs", "3"), On("count", "set_x", "7"),
    On("bit_prep", "set_pindirs", "6"), On("data", "out_msb", "1"),
    On("is_one", "jmp_pin", "bit_one"), On("bit_zero", "set_pindirs", "7"),
    On("bit_zero_clk", "set_pindirs", "5"), On("to_wait", "jmp", "wait_scl"),
    On("bit_one", "set_pindirs", "4"),
    Delayed(Do("wait_scl", "delay"), 1),
    On("next_bit", "jmp_x_dec", "bit_prep"), On("ack_prep", "set_pindirs", "6"),
    On("ack_clk", "set_pindirs", "4"),
    Delayed(OnTwo("ack_wait", "wait_pin", "1", "1"), 1),
    On("ack_lo", "set_pindirs", "3"), On("stop_scl", "set_pindirs", "1"),
    Delayed(On("stop", "set_pindirs", "0"), 1), On("again", "jmp", "pull_byte")>>)

I2cOdTx ==
  Graph(0, 0, 0, 31, <<
    On("idle_out", "set_pins", "0"), On("idle_oe", "set_pindirs", "0"),
    On("sel_out", "set_outpin", "2"), On("sel_in", "set_inpin", "2"),
    Do("pull_byte", "pull"), On("start_sda", "set_pindirs", "1"),
    On("start_scl", "set_pindirs", "3"), On("count", "set_x", "7"),
    On("bit_prep", "set_pindirs", "6"), On("data", "out_msb", "1"),
    On("is_one", "jmp_pin", "bit_one"), On("bit_zero", "set_pindirs", "7"),
    On("bit_zero_clk", "set_pindirs", "5"), On("to_wait", "jmp", "wait_scl"),
    On("bit_one", "set_pindirs", "4"),
    Delayed(OnTwo("wait_scl", "wait_pin", "1", "1"), 1),
    On("next_bit", "jmp_x_dec", "bit_prep"), On("ack_prep", "set_pindirs", "6"),
    On("ack_clk", "set_pindirs", "4"),
    Delayed(OnTwo("ack_wait", "wait_pin", "1", "1"), 1),
    On("ack_lo", "set_pindirs", "3"), On("stop_scl", "set_pindirs", "1"),
    Delayed(On("stop", "set_pindirs", "0"), 1), On("again", "jmp", "pull_byte")>>)

I2cOdRx ==
  Graph(0, 0, 0, 31, <<
    OnTwo("wait_idle", "wait_pin", "0", "1"),
    OnTwo("wait_start", "wait_pin", "0", "0"),
    OnTwo("wait_start_scl", "wait_pin", "1", "0"), On("count", "set_x", "7"),
    OnTwo("wait_scl_hi", "wait_pin", "1", "1"), On("sample", "in_msb", "1"),
    OnTwo("wait_scl_lo", "wait_pin", "1", "0"),
    On("next_bit", "jmp_x_dec", "wait_scl_hi"), OnTwo("ack_hi", "wait_pin", "1", "1"),
    OnTwo("ack_lo", "wait_pin", "1", "0"), Do("store", "push"),
    On("again", "jmp", "wait_idle")>>)

JtagTx ==
  Graph(0, 0, 0, 31, <<
    On("idle", "set_pins", "0"), On("drive", "set_pindirs", "7"),
    Do("pull_byte", "pull"), On("tlr_count", "set_x", "4"),
    On("tlr_lo", "set_pins", "4"), Delayed(On("tlr_hi", "set_pins", "6"), 1),
    On("tlr_next", "jmp_x_dec", "tlr_lo"), On("rti_lo", "set_pins", "0"),
    Delayed(On("rti_hi", "set_pins", "2"), 1), On("sel_lo", "set_pins", "4"),
    Delayed(On("sel_hi", "set_pins", "6"), 1), On("cap_lo", "set_pins", "0"),
    Delayed(On("cap_hi", "set_pins", "2"), 1), On("sh_lo", "set_pins", "0"),
    Delayed(On("sh_hi", "set_pins", "2"), 1), On("data_setup", "set_pins", "0"),
    On("shift_count", "set_x", "6"), On("data", "out_lsb", "1"),
    Delayed(On("tck_hi", "set_bit", "1"), 1), On("tck_lo", "clr_bit", "1"),
    On("next_bit", "jmp_x_dec", "data"), On("exit_tms", "set_bit", "2"),
    On("last_data", "out_lsb", "1"), Delayed(On("last_hi", "set_bit", "1"), 1),
    On("last_lo", "clr_bit", "1"), On("upd_lo", "set_pins", "4"),
    Delayed(On("upd_hi", "set_pins", "6"), 1), On("end_lo", "set_pins", "0"),
    Delayed(On("end_hi", "set_pins", "2"), 1), On("end_idle", "set_pins", "0"),
    On("again", "jmp", "pull_byte")>>)

\* Mutant: the clocks of the way back to idle are not waited for.
JtagShiftNoTail ==
  Graph(0, 0, 0, 31, <<
    OnTwo("sync", "wait_pin", "1", "0"), On("skip_count", "set_y", "8"),
    On("count", "set_x", "7"), OnTwo("skip_hi", "wait_pin", "1", "1"),
    OnTwo("skip_lo", "wait_pin", "1", "0"), On("skip_next", "jmp_y_dec", "skip_hi"),
    OnTwo("wait_tck_hi", "wait_pin", "1", "1"), On("sample", "in_lsb", "1"),
    On("next", "jmp_x_dec", "wait_tck_hi"), Do("store", "push"),
    On("again", "jmp", "skip_count")>>)

JtagShift ==
  Graph(0, 0, 0, 31, <<
    OnTwo("sync", "wait_pin", "1", "0"), On("skip_count", "set_y", "8"),
    On("count", "set_x", "7"), OnTwo("skip_hi", "wait_pin", "1", "1"),
    OnTwo("skip_lo", "wait_pin", "1", "0"), On("skip_next", "jmp_y_dec", "skip_hi"),
    OnTwo("wait_tck_hi", "wait_pin", "1", "1"), On("sample", "in_lsb", "1"),
    On("next", "jmp_x_dec", "wait_tck_hi"), Do("store", "push"),
    OnTwo("tail_hi", "wait_pin", "1", "1"), OnTwo("tail_lo", "wait_pin", "1", "0"),
    OnTwo("tail_hi2", "wait_pin", "1", "1"), OnTwo("tail_lo2", "wait_pin", "1", "0"),
    On("again", "jmp", "skip_count")>>)

SwdTx ==
  Graph(0, 0, 0, 31, <<
    On("idle", "set_pins", "1"), On("drive", "set_pindirs", "3"),
    Do("pull_byte", "pull"), On("dio_hi", "set_bit", "0"), On("reset_y", "set_y", "1"),
    On("reset_x", "set_x", "24"), On("rst_hi", "set_bit", "1"),
    On("rst_lo", "clr_bit", "1"), On("rst_next", "jmp_x_dec", "rst_hi"),
    On("rst_outer", "jmp_y_dec", "reset_x"), On("count", "set_x", "7"),
    On("data", "out_lsb", "1"), On("clk_hi", "set_bit", "1"),
    On("clk_lo", "clr_bit", "1"), On("next_bit", "jmp_x_dec", "data"),
    On("again", "jmp", "pull_byte")>>)

SwdRx ==
  Graph(0, 0, 0, 31, <<
    On("skip_x", "set_x", "28"), On("skip_y", "set_y", "28"),
    OnTwo("wait_rise", "wait_pin", "1", "1"), On("sample", "in_lsb", "1"),
    On("next_x", "jmp_x_dec", "wait_rise"), OnTwo("wait_rise2", "wait_pin", "1", "1"),
    On("sample2", "in_lsb", "1"), On("next_y", "jmp_y_dec", "wait_rise2"),
    Do("store", "push"), On("again", "jmp", "skip_x")>>)

Ps2Tx ==
  Graph(0, 0, 0, 31, <<
    On("idle", "set_pins", "3"), On("drive", "set_pindirs", "3"),
    Do("pull_byte", "pull"), On("par_init", "set_y", "1"),
    Delayed(On("start", "set_pins", "2"), 1),
    Delayed(On("start_lo", "set_pins", "0"), 1), On("start_hi", "set_pins", "2"),
    On("count", "set_x", "7"), Delayed(On("data", "out_lsb", "1"), 1),
    Delayed(On("clk_lo", "clr_bit", "1"), 1), On("clk_hi", "set_bit", "1"),
    On("chk", "jmp_pin", "flip"), On("next_bit", "jmp_x_dec", "data"),
    OnTwo("par_load", "mov", "osr", "y"), Delayed(On("par_out", "out_lsb", "1"), 1),
    Delayed(On("par_lo", "clr_bit", "1"), 1), On("par_hi", "set_bit", "1"),
    Delayed(On("stop", "set_pins", "3"), 1),
    Delayed(On("stop_lo", "set_pins", "1"), 1), On("stop_hi", "set_pins", "3"),
    Delayed(On("ack", "set_pins", "2"), 1), Delayed(On("ack_lo", "set_pins", "0"), 1),
    On("ack_hi", "set_pins", "2"), On("again", "jmp", "pull_byte"),
    On("flip", "jmp_y_eq0", "y0"), On("y1", "set_y", "0"),
    On("to_next", "jmp", "next_bit"), On("y0", "set_y", "1"),
    On("back", "jmp", "next_bit")>>)

Ps2Rx ==
  Graph(0, 0, 0, 31, <<
    OnTwo("wait_idle", "wait_pin", "1", "1"),
    OnTwo("wait_start_fall", "wait_pin", "1", "0"),
    OnTwo("wait_start_rise", "wait_pin", "1", "1"), On("count", "set_x", "7"),
    OnTwo("wait_fall", "wait_pin", "1", "0"), On("sample", "in_lsb", "1"),
    OnTwo("wait_rise", "wait_pin", "1", "1"), On("next", "jmp_x_dec", "wait_fall"),
    Do("store", "push"), On("skip_n", "set_x", "2"),
    OnTwo("skip_fall", "wait_pin", "1", "0"), OnTwo("skip_rise", "wait_pin", "1", "1"),
    On("skip_next", "jmp_x_dec", "skip_fall"), On("again", "jmp", "wait_idle")>>)

CanTx ==
  Graph(1, 2, 24, 17, <<
    On("drive", "set_pindirs", "31"), Do("pull_byte", "pull"),
    Sided(Delayed(On("sof", "set_pins", "0"), 7), 1), On("stn", "set_y", "3"),
    On("dn", "set_x", "7"), On("more", "set_inpin", "4"), On("mp", "jmp_pin", "cbit"),
    OnTwo("bit", "mov", "null", "crc_feed"), On("dbit", "out_lsb", "1"),
    Sided(Delayed(On("pulse", "set_inpin", "0"), 7), 1), On("is1", "jmp_pin", "one"),
    On("si3", "set_inpin", "1"), On("lz", "jmp_pin", "chg"),
    On("y0", "jmp_y_dec", "nxt"), On("xor", "set_y", "3"),
    Sided(Delayed(OnTwo("xorm", "mov", "pins", "xor_y"), 7), 1),
    On("xsp", "jmp", "nxt"), On("nxt", "jmp_x_dec", "more"),
    On("one", "set_inpin", "1"), On("oj", "jmp_pin", "y0"), On("chg", "set_y", "2"),
    OnTwo("chx", "mov", "pins", "xor_y"), On("chy", "set_y", "3"),
    On("oj2", "jmp", "nxt"), On("chk", "set_inpin", "4"), On("jp", "jmp_pin", "eof1"),
    On("cn", "set_bit", "4"), On("cnx", "set_x", "15"),
    OnTwo("cbit", "mov", "osr", "crc_out"), On("cj", "jmp", "dbit"),
    Sided(Delayed(On("eof1", "set_bit", "0"), 7), 1), On("efj", "jmp", "pull_byte")>>)

CanRx ==
  Graph(0, 0, 27, 26, <<
    On("drive", "set_pindirs", "8"), OnTwo("wait_sof", "wait_pin", "0", "0"),
    OnTwo("sof_hi", "wait_pin", "2", "1"), Delayed(On("stn", "set_y", "3"), 7),
    On("count", "set_x", "7"), On("in0", "set_inpin", "0"),
    OnTwo("bit_hi", "wait_pin", "2", "1"), On("is1", "jmp_pin", "one"),
    On("si3", "set_inpin", "3"), On("lz", "jmp_pin", "chg"), On("y0", "in_lsb", "1"),
    On("yd", "jmp_y_dec", "blo"), OnTwo("skip", "wait_pin", "2", "0"),
    OnTwo("skh", "wait_pin", "2", "1"), On("inv", "set_y", "8"),
    OnTwo("invm", "mov", "pins", "xor_y"), On("sy", "set_y", "3"),
    On("jb", "jmp", "blo"), On("one", "set_inpin", "3"), On("oj", "jmp_pin", "y0"),
    On("chg", "set_y", "8"), OnTwo("chgm", "mov", "pins", "xor_y"),
    On("chy", "set_y", "3"), On("cap", "in_lsb", "1"),
    OnTwo("blo", "wait_pin", "2", "0"), On("nxt", "jmp_x_dec", "in0"),
    Do("store", "push"), On("wp", "set_inpin", "4"), OnTwo("w1", "wait_pin", "4", "1"),
    OnTwo("w0", "wait_pin", "4", "0"), On("cll", "clr_bit", "3"),
    On("jw", "jmp", "wait_sof")>>)

UsbTx ==
  Graph(0, 0, 0, 31, <<
    On("idle", "set_pins", "2"), On("drive", "set_pindirs", "23"),
    On("outpin", "set_outpin", "4"), On("inpin0", "set_inpin", "0"),
    Do("pull_byte", "pull"), On("count", "set_x", "7"), On("sync_n", "set_y", "6"),
    On("stog", "jmp_pin", "sj"), On("sk", "set_pins", "1"), On("skj", "jmp", "sclk"),
    On("sj", "set_pins", "2"), Delayed(On("sclk", "set_bit", "2"), 7),
    On("snxt", "jmp_y_dec", "stog"), On("shold", "set_pins", "1"),
    Delayed(On("sholdc", "set_bit", "2"), 7), On("clklo", "clr_bit", "2"),
    On("inpin4", "set_inpin", "4"), On("stuff_n", "set_y", "5"),
    On("bit", "out_lsb", "1"), On("is1", "jmp_pin", "one"), On("zero", "set_y", "3"),
    OnTwo("tog", "mov", "pins", "xor_y"), On("z6", "set_y", "6"),
    Delayed(On("one", "set_bit", "2"), 7), Delayed(On("cln", "clr_bit", "2"), 7),
    On("ones", "jmp_y_dec", "nxt"), On("stuff", "set_y", "3"),
    OnTwo("stog2", "mov", "pins", "xor_y"), On("s6", "set_y", "6"),
    On("spulse", "jmp", "one"), On("nxt", "jmp_x_dec", "bit"),
    Delayed(On("eop", "set_pins", "0"), 15)>>)

UsbRx ==
  Graph(0, 0, 0, 31, <<
    On("drive", "set_pindirs", "8"), On("sync_n", "set_x", "7"),
    OnTwo("sync_hi", "wait_pin", "2", "1"), OnTwo("sync_lo", "wait_pin", "2", "0"),
    On("sync_j", "jmp_x_dec", "sync_hi"), On("prevk", "set_bit", "3"),
    On("yn", "set_y", "5"), On("dn", "set_x", "7"),
    OnTwo("bit_hi", "wait_pin", "2", "1"), On("dp", "jmp_pin", "i3b"),
    On("d0", "set_inpin", "3"), On("p1d0", "jmp_pin", "b0"), On("b1", "set_bit", "3"),
    On("jb1", "jmp", "cap"), On("i3b", "set_inpin", "3"), On("p1d1", "jmp_pin", "b1"),
    On("b0", "clr_bit", "3"), On("cap", "in_lsb", "1"),
    OnTwo("blo", "wait_pin", "2", "0"), On("jis1", "jmp_pin", "is1"),
    On("rz", "set_y", "6"), On("is1", "jmp_y_dec", "savp"),
    OnTwo("skh", "wait_pin", "2", "1"), OnTwo("skl", "wait_pin", "2", "0"),
    On("jrq", "jmp", "rz"), On("savp", "set_inpin", "0"), On("jp1", "jmp_pin", "pp1"),
    On("clp", "clr_bit", "3"), On("jn0", "jmp", "nxt"), On("pp1", "set_bit", "3"),
    On("nxt", "jmp_x_dec", "bit_hi"), Do("store", "push")>>)

EthTx ==
  Graph(0, 0, 0, 31, <<
    On("idle", "set_pins", "0"), On("drive", "set_pindirs", "3"),
    Do("pull_byte", "pull"), On("pre_count", "set_y", "6"),
    On("pre_byte", "set_x", "3"), On("pre_0", "clr_bit", "0"),
    On("pre_0_hi", "set_bit", "1"), On("pre_0_lo", "clr_bit", "1"),
    On("pre_1", "set_bit", "0"), On("pre_1_hi", "set_bit", "1"),
    On("pre_1_lo", "clr_bit", "1"), On("pre_next", "jmp_x_dec", "pre_0"),
    On("pre_more", "jmp_y_dec", "pre_byte"), On("sfd_d", "set_bit", "0"),
    On("sfd_1a_hi", "set_bit", "1"), Delayed(On("sfd_1a_lo", "clr_bit", "1"), 1),
    On("sfd_1b_hi", "set_bit", "1"), Delayed(On("sfd_1b_lo", "clr_bit", "1"), 1),
    On("sfd_n", "set_x", "2"), On("sfd_0", "clr_bit", "0"),
    On("sfd_0_hi", "set_bit", "1"), On("sfd_0_lo", "clr_bit", "1"),
    On("sfd_1", "set_bit", "0"), On("sfd_1_hi", "set_bit", "1"),
    On("sfd_1_lo", "clr_bit", "1"), On("sfd_next", "jmp_x_dec", "sfd_0"),
    On("count", "set_x", "7"), On("data", "out_msb", "1"),
    On("clk_hi", "set_bit", "1"), On("clk_lo", "clr_bit", "1"),
    On("next_bit", "jmp_x_dec", "data"), On("again", "jmp", "pull_byte")>>)

EthRx ==
  Graph(0, 0, 0, 31, <<
    On("skip_outer", "set_y", "7"), On("skip_count", "set_x", "7"),
    OnTwo("skip_rise", "wait_pin", "1", "1"), OnTwo("skip_fall", "wait_pin", "1", "0"),
    On("skip_next", "jmp_x_dec", "skip_rise"),
    On("skip_more", "jmp_y_dec", "skip_count"), On("count_init", "set_x", "7"),
    OnTwo("wait_rise", "wait_pin", "1", "1"), On("sample", "in_msb", "1"),
    OnTwo("wait_fall", "wait_pin", "1", "0"), On("next", "jmp_x_dec", "wait_rise"),
    Do("store", "push"), On("again", "jmp", "skip_outer")>>)

TxPlan(lang) ==
  CASE lang = "uart" -> Uart8n1Tx [] lang = "spi" -> SpiTx [] lang = "i2c" -> I2cOdTx
    [] lang = "jtag" -> JtagTx    [] lang = "swd" -> SwdTx [] lang = "ps2" -> Ps2Tx
    [] lang = "can" -> CanTx      [] lang = "usb" -> UsbTx [] lang = "eth" -> EthTx

RxPlan(lang) ==
  CASE lang = "uart" -> Uart8n1Rx [] lang = "spi" -> SpiRx [] lang = "i2c" -> I2cOdRx
    [] lang = "jtag" -> JtagShift [] lang = "swd" -> SwdRx [] lang = "ps2" -> Ps2Rx
    [] lang = "can" -> CanRx      [] lang = "usb" -> UsbRx [] lang = "eth" -> EthRx
=============================================================================
