------------------------------- MODULE JtagTap -------------------------------
(***************************************************************************)
(* jtag_gowin.c: the bits it clocks into the FPGA's TAP, and what becomes  *)
(* of a programming session, one session after the other (the JTAG lock    *)
(* sees to that).  No call reads the state of the TAP back: each counts on *)
(* the last one, finished or given up, to have left it where it starts.    *)
(*                                                                         *)
(* External: the TAP (IEEE 1149.1) and the configuration logic behind it,  *)
(* as the comments of jtag_gowin.c describe it.  A register is the set of  *)
(* the positions of its ones.  A command and its clocks are one step.      *)
(*                                                                         *)
(* Bounds.  6 idle clocks are modelled by 1, 50 and more by 2; the logic   *)
(* needs more than 6 to enter the configuration mode.                      *)
(***************************************************************************)
EXTENDS Naturals, Sequences, SequencesExt

CONSTANTS
    Bytes,     \* the length of a bitstream
    Attempts,  \* MAX_JTAG_BEGIN_ATTEMPTS
    Callers,   \* who programs: "http", "serial"
    Intruder   \* whether another task may pulse RECONFIG_N

ASSUME BytesAssumption    == Bytes \in Nat \ {0}
ASSUME AttemptsAssumption == Attempts \in Nat \ {0}
ASSUME CallersAssumption  == Callers \subseteq {"http", "serial"}
ASSUME IntruderAssumption == Intruder \in BOOLEAN

VARIABLES
    chip,       \* the FPGA: its TAP and its configuration logic
    streaming,  \* g_streaming_dr
    session     \* the session under way, or the last one

vars == <<chip, streaming, session>>

-----------------------------------------------------------------------------
(* The TAP. *)

TapStates == {"Reset", "Idle", "SelectDR", "CaptureDR", "ShiftDR", "Exit1DR",
              "PauseDR", "Exit2DR", "UpdateDR", "SelectIR", "CaptureIR", "ShiftIR",
              "Exit1IR", "PauseIR", "Exit2IR", "UpdateIR"}

\* The next state for TMS = 0 and for TMS = 1.
TapNext ==
    [Reset     |-> <<"Idle", "Reset">>,         Idle      |-> <<"Idle", "SelectDR">>,
     SelectDR  |-> <<"CaptureDR", "SelectIR">>, SelectIR  |-> <<"CaptureIR", "Reset">>,
     CaptureDR |-> <<"ShiftDR", "Exit1DR">>,    CaptureIR |-> <<"ShiftIR", "Exit1IR">>,
     ShiftDR   |-> <<"ShiftDR", "Exit1DR">>,    ShiftIR   |-> <<"ShiftIR", "Exit1IR">>,
     Exit1DR   |-> <<"PauseDR", "UpdateDR">>,   Exit1IR   |-> <<"PauseIR", "UpdateIR">>,
     PauseDR   |-> <<"PauseDR", "Exit2DR">>,    PauseIR   |-> <<"PauseIR", "Exit2IR">>,
     Exit2DR   |-> <<"ShiftDR", "UpdateDR">>,   Exit2IR   |-> <<"ShiftIR", "UpdateIR">>,
     UpdateDR  |-> <<"Idle", "SelectDR">>,      UpdateIR  |-> <<"Idle", "SelectDR">>]

\* Instructions: the ones of the 8 bits.
NOOP           == {1}           \* 0x02
ERASE_SRAM     == {0, 2}        \* 0x05
XFER_DONE      == {0, 3}        \* 0x09
READ_IDCODE    == {0, 4}        \* 0x11
INIT_ADDR      == {1, 4}        \* 0x12
CONFIG_ENABLE  == {0, 2, 4}     \* 0x15
XFER_WRITE     == {0, 1, 2, 4}  \* 0x17
CONFIG_DISABLE == {1, 3, 4, 5}  \* 0x3A
STATUS_REG     == {0, 6}        \* 0x41

\* The bits of STATUS_REG the code looks at, and the ID of a GW2A-18, 0x81B.
CRC_ERROR    == 0
MEMORY_ERASE == 5
DONE_FINAL   == 13
IDCODE       == {0, 1, 3, 4, 11}

Status(c) == (IF c.crc THEN {CRC_ERROR} ELSE {})
             \cup (IF c.sram = "erased" THEN {MEMORY_ERASE} ELSE {})
             \cup (IF c.sram = "running" THEN {DONE_FINAL} ELSE {})

Captured(c) == CASE c.ir = READ_IDCODE -> IDCODE
                 [] c.ir = STATUS_REG  -> Status(c)
                 [] OTHER              -> {}

Shifted(register, width, tdi) ==
    {i - 1 : i \in register \ {0}} \cup IF tdi = 1 THEN {width - 1} ELSE {}

\* An instruction takes effect in Update-IR.  Reading the status too soon after
\* CONFIG_ENABLE cancels the entry into configuration mode.
Obey(c) ==
    CASE c.ir = CONFIG_ENABLE                         -> [c EXCEPT !.mode = "entering", !.warm = 0]
      [] c.ir = CONFIG_DISABLE                        -> [c EXCEPT !.mode = "off", !.addr = FALSE]
      [] c.ir = STATUS_REG /\ c.mode = "entering"     -> [c EXCEPT !.mode = "off"]
      [] c.ir = ERASE_SRAM /\ c.mode = "on"           -> [c EXCEPT !.sram = "erasing", !.taken = <<>>,
                                                                   !.crc = FALSE]
      [] c.ir = INIT_ADDR /\ c.mode = "on"            -> [c EXCEPT !.addr = TRUE]
      [] OTHER                                        -> c

Accepts(c) == c.ir = XFER_WRITE /\ c.mode = "on" /\ c.addr /\ c.sram = "erased"

\* In the configuration mode after more than 6 clocks of idling.
Warmed(c) ==
    CASE c.mode = "entering" /\ c.warm < 2 -> [c EXCEPT !.warm = @ + 1]
      [] c.mode = "entering" /\ c.warm = 2 -> [c EXCEPT !.mode = "on"]
      [] OTHER                             -> c

Chips == [tap : TapStates, ir : SUBSET (0..7), shift : SUBSET (0..31), responds : BOOLEAN,
          mode : {"off", "entering", "on"}, warm : 0..2, addr : BOOLEAN, crc : BOOLEAN,
          sram : {"design", "erasing", "erased", "running"}, taken : Seq(0..8 * Bytes)]

\* data is the place of the bit in the bitstream, or 0.
Bits == [tms : {0, 1}, tdi : {0, 1}, data : 0..8 * Bytes]

\* One rising edge of TCK, of a chip whose design leaves the pins to the TAP.
Edge(c, bit) ==
    LET to    == TapNext[c.tap][bit.tms + 1]
        moved == [c EXCEPT !.tap = to]
    IN  CASE to = "UpdateIR"      -> Obey([moved EXCEPT !.ir = c.shift])
          [] to = "Reset"         -> [moved EXCEPT !.ir = READ_IDCODE]
          [] c.tap = "CaptureDR"  -> [moved EXCEPT !.shift = Captured(c)]
          [] c.tap = "CaptureIR"  -> [moved EXCEPT !.shift = {0}]
          [] c.tap = "ShiftIR"    -> [moved EXCEPT !.shift = Shifted(@, 8, bit.tdi)]
          [] c.tap = "ShiftDR"    -> [moved EXCEPT !.shift = Shifted(@, 32, bit.tdi),
                                       !.taken = IF Accepts(c) THEN Append(@, bit.data) ELSE @]
          [] c.tap = "Idle" /\ to = "Idle" -> Warmed(moved)
          [] OTHER                -> moved

Clock[at \in Chips \X Bits] == IF at[1].responds THEN Edge(at[1], at[2]) ELSE at[1]

\* TDO after the falling edge; not driven outside of the shift states, it is
\* pulled up.
Tdo(c) == c.responds /\ c.tap \in {"ShiftDR", "ShiftIR"} => 0 \in c.shift

-----------------------------------------------------------------------------
(* What the functions of jtag_gowin.c clock. *)

Bit(tms, tdi) == [tms |-> tms, tdi |-> tdi, data |-> 0]

Clocks(c, bits) ==
    LET after[i \in 0..Len(bits)] == IF i = 0 THEN c ELSE Clock[<<after[i - 1], bits[i]>>]
    IN  after[Len(bits)]

ClockTms(c, tms) == Clocks(c, [i \in 1..Len(tms) |-> Bit(tms[i], 0)])

GotoReset(c) == ClockTms(c, [i \in 1..10 |-> 1])
GotoIdle(c)  == ClockTms(GotoReset(c), <<0>>)
RunIdle6(c)  == ClockTms(c, <<0>>)
RunIdle(c)   == ClockTms(c, <<0, 0>>)

IrScan(c, instruction) ==
    LET select == ClockTms(c, <<1, 1, 0, 0>>)
        ShiftBit(i) == Bit(IF i = 8 THEN 1 ELSE 0, IF i - 1 \in instruction THEN 1 ELSE 0)
    IN  ClockTms(Clocks(select, [i \in 1..8 |-> ShiftBit(i)]), <<1, 0>>)

SendCommand(c, instruction) == RunIdle6(IrScan(c, instruction))

\* Commands one after the other.
SendAll(c, instructions) ==
    LET after[i \in 0..Len(instructions)] ==
          IF i = 0 THEN c ELSE SendCommand(after[i - 1], instructions[i])
    IN  after[Len(instructions)]

Readings == [chip : Chips, ones : SUBSET (0..31)]

\* A clock whose TDO is the i-th bit of what is read.
Sample[at \in Readings \X Bits \X (0..31)] ==
    LET next == Clock[<<at[1].chip, at[2]>>]
    IN  [chip |-> next, ones |-> IF Tdo(next) THEN at[1].ones \cup {at[3]} ELSE at[1].ones]

\* 32 bits out of DR, from Run-Test/Idle and back, after the clocks of enter.
ReadBits(c, enter, tdi) ==
    LET read[i \in 0..32] ==
          IF i = 0 THEN [chip |-> ClockTms(c, enter), ones |-> {}]
          ELSE Sample[<<read[i - 1], Bit(IF i = 32 THEN 1 ELSE 0, tdi), i - 1>>]
    IN  [read[32] EXCEPT !.chip = ClockTms(@, <<1, 0>>)]

\* Slip: the "extra explicit clock" into Shift-DR.
ReadReg32Late(c, instruction) == ReadBits(SendCommand(c, instruction), <<1, 0, 0>>, 1)

\* gowin_read_reg32: the first clock of the loop is the one into Shift-DR.
ReadReg32(c, instruction) == ReadBits(SendCommand(c, instruction), <<1, 0>>, 1)

\* jtag_gowin_read_idcode.
ReadIdcode(c) == ReadBits(RunIdle6(GotoIdle(GotoReset(c))), <<1, 0>>, 0)

Manufacturer(idcode) == {i - 1 : i \in idcode \cap 1..11}

-----------------------------------------------------------------------------
Places == {"closed", "pulse", "identify", "enable", "erase", "poll", "disable",
           "transfer", "write", "end", "verify", "finish"}

TypeOK ==
    /\ chip \in Chips
    /\ streaming \in BOOLEAN
    /\ session \in [caller : Callers, pc : Places, attempt : 1..Attempts, sent : 0..Bytes,
                    verdict : {"none", "absent", "abandoned", "done", "crc", "undone"},
                    disturbed : BOOLEAN, ready : BOOLEAN]

\* Power on.  ready is s_jtag_initialized.
Init ==
    /\ chip \in [tap : {"Reset"}, ir : {READ_IDCODE}, shift : {{}}, responds : BOOLEAN,
                 mode : {"off"}, warm : {0}, addr : {FALSE}, crc : {FALSE},
                 sram : {"design"}, taken : {<<>>}]
    /\ streaming = FALSE
    /\ session \in [caller : Callers, pc : {"closed"}, attempt : {1}, sent : {0},
                    verdict : {"none"}, disturbed : {FALSE}, ready : {FALSE}]

At(l) == session.pc = l

Goto(l) == session' = [session EXCEPT !.pc = l]

\* RECONFIG_N low and high: the configuration logic starts over, from the flash.
\* The design found there may leave the JTAG pins to the TAP or not.
Pulsed == {[chip EXCEPT !.responds = r, !.mode = "off", !.addr = FALSE, !.crc = FALSE,
                        !.sram = "design", !.taken = <<>>] : r \in BOOLEAN}

\* A request, the first of which calls jtag_gowin_init.
Open(k) ==
    /\ At("closed")
    /\ session' = [session EXCEPT !.caller = k, !.pc = "pulse", !.attempt = 1, !.sent = 0,
                                  !.verdict = "none", !.ready = TRUE]
    /\ chip' = IF session.ready THEN chip ELSE GotoIdle(GotoReset(chip))
    /\ UNCHANGED streaming

Pulse ==
    /\ At("pulse")
    /\ chip' \in Pulsed
    /\ Goto("identify")
    /\ UNCHANGED streaming

\* Slips: one attempt too many; attempts without end.
RetryOnceMore ==
    session' = IF session.attempt <= Attempts
               THEN [session EXCEPT !.pc = "pulse", !.attempt = @ + 1]
               ELSE [session EXCEPT !.pc = "closed", !.verdict = "absent"]

RetryForEver ==
    session' = [session EXCEPT !.pc = "pulse"]

\* jtag_gowin_program_sram_begin fails: once more, or no more.
Retry ==
    session' = IF session.attempt < Attempts
               THEN [session EXCEPT !.pc = "pulse", !.attempt = @ + 1]
               ELSE [session EXCEPT !.pc = "closed", !.verdict = "absent"]

\* Slip: leave g_streaming_dr as the last session left it.
IdentifyKeepingFlag ==
    /\ At("identify")
    /\ LET idcode == ReadIdcode(GotoIdle(chip))
       IN  /\ chip' = idcode.chip
           /\ IF Manufacturer(idcode.ones) = Manufacturer(IDCODE)
              THEN session' = [session EXCEPT !.pc = "enable", !.disturbed = FALSE]
              ELSE Retry
    /\ UNCHANGED streaming

Identify ==
    /\ At("identify")
    /\ streaming' = FALSE
    /\ LET idcode == ReadIdcode(GotoIdle(chip))
       IN  /\ chip' = idcode.chip
           /\ IF Manufacturer(idcode.ones) = Manufacturer(IDCODE)
              THEN session' = [session EXCEPT !.pc = "enable", !.disturbed = FALSE]
              ELSE Retry

\* gowin_erase_sram, from here to LeaveConfig.
EnterConfig ==
    /\ At("enable")
    /\ chip' = RunIdle(SendCommand(chip, CONFIG_ENABLE))
    /\ Goto("erase")
    /\ UNCHANGED streaming

StartErase ==
    /\ At("erase")
    /\ chip' = RunIdle(SendAll(chip, <<ERASE_SRAM, NOOP>>))
    /\ Goto("poll")
    /\ UNCHANGED streaming

PollErase ==
    /\ At("poll")
    /\ LET status == ReadReg32(chip, STATUS_REG)
       IN  IF MEMORY_ERASE \in status.ones
           THEN chip' = status.chip /\ Goto("disable")
           ELSE chip' = RunIdle(status.chip) /\ UNCHANGED session
    /\ UNCHANGED streaming

\* After 5 s, with the configuration mode still on.
PollTimeout ==
    /\ At("poll")
    /\ Retry
    /\ UNCHANGED <<chip, streaming>>

LeaveConfig ==
    /\ At("disable")
    /\ chip' = SendAll(chip, <<XFER_DONE, NOOP, CONFIG_DISABLE, NOOP>>)
    /\ Goto("transfer")
    /\ UNCHANGED streaming

\* Slip: without the extra clocks after CONFIG_ENABLE.
StartTransferAtOnce ==
    /\ At("transfer")
    /\ chip' = ClockTms(SendAll(chip, <<CONFIG_ENABLE, INIT_ADDR, XFER_WRITE>>), <<1, 0>>)
    /\ streaming' = TRUE
    /\ Goto("write")

\* The end of jtag_gowin_program_sram_begin: the TAP is left in Capture-DR.
StartTransfer ==
    /\ At("transfer")
    /\ LET enabled == RunIdle(SendCommand(chip, CONFIG_ENABLE))
       IN  chip' = ClockTms(SendAll(enabled, <<INIT_ADDR, XFER_WRITE>>), <<1, 0>>)
    /\ streaming' = TRUE
    /\ Goto("write")

\* jtag_gowin_program_sram_write, of one byte.  Its check of g_streaming_dr is left
\* out: the flag is set whenever a session is at "write" (FlagInv in the proofs).
Write ==
    /\ At("write")
    /\ session.sent < Bytes
    /\ chip' = Clocks(chip, [i \in 1..8 |-> [tms |-> 0, tdi |-> 1, data |-> 8 * session.sent + i]])
    /\ session' = [session EXCEPT !.sent = @ + 1,
                                  !.pc = IF session.sent + 1 = Bytes THEN "end" ELSE "write"]
    /\ UNCHANGED streaming

\* The client fails or stalls, or there is no memory for its data.  Only the
\* serial handler ends the session.
Abandon ==
    /\ At("write")
    /\ session' = [session EXCEPT !.verdict = "abandoned",
                                  !.pc = IF session.caller = "serial" THEN "end" ELSE "closed"]
    /\ UNCHANGED <<chip, streaming>>

\* jtag_gowin_program_sram_end, from here to Finish.
LeaveShift ==
    /\ At("end")
    /\ chip' = RunIdle(IF streaming THEN ClockTms(chip, <<1, 1, 0>>) ELSE chip)
    /\ streaming' = FALSE
    /\ Goto("verify")

\* A session given up keeps its error, whatever the status.
Conclude(v) ==
    session' = [session EXCEPT !.pc = "finish",
                               !.verdict = IF @ = "abandoned" THEN @ ELSE v]

Verify ==
    /\ At("verify")
    /\ LET status == ReadReg32(chip, STATUS_REG)
       IN  CASE DONE_FINAL \in status.ones -> chip' = status.chip /\ Conclude("done")
             [] DONE_FINAL \notin status.ones /\ CRC_ERROR \in status.ones
                                           -> chip' = status.chip /\ Conclude("crc")
             [] OTHER                      -> chip' = RunIdle(status.chip) /\ UNCHANGED session
    /\ UNCHANGED streaming

\* After 1 s.  This counts as success, too.
VerifyTimeout ==
    /\ At("verify")
    /\ Conclude("undone")
    /\ UNCHANGED <<chip, streaming>>

\* Slip: end where the status reads end.
FinishInIdle ==
    /\ At("finish")
    /\ chip' = RunIdle(SendAll(chip, <<CONFIG_DISABLE, NOOP>>))
    /\ Goto("closed")
    /\ UNCHANGED streaming

Finish ==
    /\ At("finish")
    /\ chip' = GotoReset(RunIdle(SendAll(chip, <<CONFIG_DISABLE, NOOP>>)))
    /\ Goto("closed")
    /\ UNCHANGED streaming

-----------------------------------------------------------------------------
(* What the FPGA, and others, do meanwhile. *)

EraseEnds ==
    /\ chip.sram = "erasing"
    /\ chip' = [chip EXCEPT !.sram = "erased"]
    /\ UNCHANGED <<streaming, session>>

\* The n bytes clocked so far, as the FPGA takes them: the first bit goes by in
\* Capture-DR.  A bitstream starts with bits that mean nothing.
Stream(n) == IF n = 0 THEN <<>> ELSE [i \in 1..8 * n - 1 |-> i + 1]

Whole == IsPrefix(Stream(Bytes), chip.taken)

\* The commands inside a whole bitstream start the design up, unless a check
\* sum is wrong.
StartUp ==
    /\ chip.responds
    /\ chip.tap = "Idle"
    /\ chip.sram = "erased" /\ chip.mode = "on" /\ chip.taken # <<>>
    /\ ~ chip.crc
    /\ \/ Whole /\ chip' = [chip EXCEPT !.sram = "running"]
       \/ chip' = [chip EXCEPT !.crc = TRUE]
    /\ UNCHANGED <<streaming, session>>

\* spi_flash_bridge_fpga_reset, by whoever ends an update of the flash.
Intrude ==
    /\ Intruder
    /\ chip' \in Pulsed
    /\ session' = [session EXCEPT !.disturbed = TRUE]
    /\ UNCHANGED streaming

\* The ESP32 restarts; the FPGA stays as it is, be it in the middle of a session.
Restart ==
    /\ streaming' = FALSE
    /\ session' = [session EXCEPT !.pc = "closed", !.verdict = "none", !.ready = FALSE]
    /\ UNCHANGED chip

-----------------------------------------------------------------------------
\* What a call in progress does.
Call ==
    \/ Pulse \/ Identify
    \/ EnterConfig \/ StartErase \/ PollErase \/ PollTimeout \/ LeaveConfig
    \/ StartTransfer
    \/ LeaveShift \/ Verify \/ VerifyTimeout \/ Finish

Client == (\E k \in Callers : Open(k)) \/ Write \/ Abandon

Next == Call \/ Client \/ EraseEnds \/ StartUp \/ Intrude \/ Restart

Spec == Init /\ [][Next]_vars

\* A call runs, its polls are bounded by the clock (so a poll that sees no
\* change does not go on for ever), and the serial handler waits 30 s for data.
Fairness ==
    /\ WF_vars(Call)
    /\ WF_vars(PollTimeout) /\ WF_vars(VerifyTimeout)
    /\ WF_vars(session.caller = "serial" /\ (Write \/ Abandon))

FairSpec == Spec /\ Fairness

-----------------------------------------------------------------------------
(* Properties.  disturbed means that another task has pulsed RECONFIG_N since  *)
(* the session identified the FPGA.                                            *)

\* "all subsequent write() calls stay in Shift-DR": whatever sessions were
\* finished, failed, abandoned or cut off by a restart before, the FPGA takes
\* the bits that are written, all but the first, in their order, and no others
\* before or among them.
StreamIntact ==
    session.pc \in {"write", "end", "verify"} /\ ~ session.disturbed =>
        /\ IsPrefix(Stream(session.sent), chip.taken)
        /\ Len(chip.taken) <= 8 * session.sent

\* "True while TAP is sitting in Shift-DR during streaming": the flag that lets
\* write() clock bits does not outlive that state, even when a session is given
\* up and nothing clears it.
StreamingIsShifting ==
    streaming /\ ~ session.disturbed =>
        chip.ir = XFER_WRITE /\ chip.tap \in {"CaptureDR", "ShiftDR"}

\* "the first bit shifts out (TDO) on the Capture-DR -> Shift-DR transition": the
\* flags the code acts on are those the FPGA had, neither early nor late by a
\* clock, and not the pulled-up level of a pin nobody drives; and wherever the
\* last session, or a restart, left the TAP, a GW2A that listens is recognized.
ReadingsAreTrue ==
    [][/\ Identify => (session'.pc = "enable" <=> chip.responds)
       /\ chip.responds /\ ~ session.disturbed =>
         /\ PollErase => (session'.pc = "disable" <=> chip.sram = "erased")
         /\ Verify /\ session.verdict = "none" =>
              session'.verdict = CASE chip.sram = "running"              -> "done"
                                   [] chip.sram # "running" /\ chip.crc -> "crc"
                                   [] OTHER                              -> "none"]_vars

\* "Exit configuration mode and return TAP to reset": so does every session that
\* comes to its end, on whichever path.
EndLeavesReset ==
    /\ session.pc = "closed" /\ ~ session.disturbed
    /\ \/ session.verdict \in {"done", "crc", "undone"}
       \/ session.verdict = "abandoned" /\ session.caller = "serial"
    => chip.tap = "Reset" /\ chip.mode = "off"

\* "retry up to 3x ... before giving up": begin() comes to an end, and so does
\* every serial session.
SessionsEnd ==
    /\ session.pc # "closed" ~> session.pc \in {"closed", "write"}
    /\ session.pc # "closed" /\ session.caller = "serial" ~> session.pc = "closed"
===============================================================================
