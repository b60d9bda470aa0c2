------------------------------ MODULE JtagDmi ------------------------------
(***************************************************************************)
(* The debug transport of tiny-risc-v: the TAP and the DTM of jtag_driver  *)
(* on the clock TCK, jtag_dm on the clock clk, and the two full handshakes *)
(* between them (rtl/debug).  The bits of a scan are one word: a clock in  *)
(* SHIFT_DR or SHIFT_IR replaces the word that was captured by the word    *)
(* that the debugger shifts in, and a debugger always shifts, in SHIFT_DR  *)
(* for ScanClocks clocks at least (40 for DMI).  What the debug module     *)
(* does with a request is left out: a request is its own answer.  Nothing  *)
(* relates the two clocks except Ratio.                                    *)
(***************************************************************************)
EXTENDS HandshakeRegs, Integers

CONSTANTS Ratio,       \* most edges of TCK between two edges of clk
          ScanClocks   \* fewest clocks in SHIFT_DR of a scan

JtagDmiAssumption == {Ratio, ScanClocks} \subseteq Nat \ {0}

Requests == Data \ {Zero}

TapStates == {"TEST_LOGIC_RESET", "RUN_TEST_IDLE",
              "SELECT_DR", "CAPTURE_DR", "SHIFT_DR", "EXIT1_DR", "PAUSE_DR",
              "EXIT2_DR", "UPDATE_DR",
              "SELECT_IR", "CAPTURE_IR", "SHIFT_IR", "EXIT1_IR", "PAUSE_IR",
              "EXIT2_IR", "UPDATE_IR"}

IrRegs == {"DMI", "DTMCS", "IDCODE"}
DtmcsWords == {"dmireset", "none"}         \* bit 16 of a word for DTMCS

VARIABLES
  tap,      \* jtag_state, ir_reg, the word in shift_reg, clocks in SHIFT_DR
  dtm,      \* dtm_req_valid, dtm_req_data, sticky_busy, dm_is_busy, dm_resp_data
  req_tx,   \* full_handshake_tx of the driver
  resp_rx,  \* full_handshake_rx of the driver
  req_rx,   \* full_handshake_rx of the debug module
  resp_tx,  \* full_handshake_tx of the debug module
  dm,       \* need_resp and read_data of the debug module
  ahead     \* edges of TCK since the last edge of clk

tckVars == <<tap, dtm, req_tx, resp_rx>>
clkVars == <<req_rx, resp_tx, dm>>
vars == <<tckVars, clkVars, ahead>>

Init ==
  /\ tap = [state |-> "TEST_LOGIC_RESET", ir |-> "IDCODE", shift |-> Zero,
            clocks |-> 0]
  /\ dtm = [req_valid |-> FALSE, req_data |-> Zero, sticky_busy |-> FALSE,
            dm_is_busy |-> FALSE, resp |-> Zero]
  /\ req_tx = TxReset /\ resp_tx = TxReset
  /\ req_rx = RxReset /\ resp_rx = RxReset
  /\ dm = [need_resp |-> FALSE, read_data |-> Zero]
  /\ ahead = 0

-----------------------------------------------------------------------------
(* jtag_driver.v:135-158.                                                  *)
TapNext(s, tms) ==
  CASE s = "TEST_LOGIC_RESET" -> IF tms THEN s ELSE "RUN_TEST_IDLE"
    [] s \in {"RUN_TEST_IDLE", "UPDATE_DR", "UPDATE_IR"} ->
         IF tms THEN "SELECT_DR" ELSE "RUN_TEST_IDLE"
    [] s = "SELECT_DR" -> IF tms THEN "SELECT_IR" ELSE "CAPTURE_DR"
    [] s \in {"CAPTURE_DR", "SHIFT_DR"} -> IF tms THEN "EXIT1_DR" ELSE "SHIFT_DR"
    [] s = "EXIT1_DR" -> IF tms THEN "UPDATE_DR" ELSE "PAUSE_DR"
    [] s = "PAUSE_DR" -> IF tms THEN "EXIT2_DR" ELSE s
    [] s = "EXIT2_DR" -> IF tms THEN "UPDATE_DR" ELSE "SHIFT_DR"
    [] s = "SELECT_IR" -> IF tms THEN "TEST_LOGIC_RESET" ELSE "CAPTURE_IR"
    [] s \in {"CAPTURE_IR", "SHIFT_IR"} -> IF tms THEN "EXIT1_IR" ELSE "SHIFT_IR"
    [] s = "EXIT1_IR" -> IF tms THEN "UPDATE_IR" ELSE "PAUSE_IR"
    [] s = "PAUSE_IR" -> IF tms THEN "EXIT2_IR" ELSE s
    [] s = "EXIT2_IR" -> IF tms THEN "UPDATE_IR" ELSE "SHIFT_IR"

(* The words that a debugger shifts in (jtag_driver.v:160-184).            *)
ShiftedIn ==
  CASE tap.state = "SHIFT_IR" -> IrRegs
    [] tap.state = "SHIFT_DR" /\ tap.ir = "DMI" -> Requests
    [] tap.state = "SHIFT_DR" /\ tap.ir = "DTMCS" -> DtmcsWords
    \* the word is dead after its update
    [] tap.state \in {"UPDATE_DR", "UPDATE_IR", "TEST_LOGIC_RESET"} -> {Zero}
    [] OTHER -> {tap.shift}

(* jtag_driver.v:250-257 - ir_reg follows on the falling edge of TCK.      *)
IrNext == CASE tap.state = "TEST_LOGIC_RESET" -> "IDCODE"
            [] tap.state = "UPDATE_IR" -> tap.shift
            [] OTHER -> tap.ir

(* Clocks in SHIFT_DR since the capture, up to ScanClocks.                 *)
ScanCount ==
  CASE tap.state = "CAPTURE_DR" -> 0
    [] tap.state = "SHIFT_DR" /\ tap.clocks < ScanClocks -> tap.clocks + 1
    [] tap.state = "UPDATE_DR" -> 0
    [] OTHER -> tap.clocks

(* A debugger shifts a whole word in before it leaves SHIFT_DR.            *)
ShiftsOn ==
  \/ tap.state \in {"CAPTURE_DR", "CAPTURE_IR"}
  \/ tap.state = "SHIFT_DR" /\ ScanCount < ScanClocks

Tap(tms) ==
  /\ ShiftsOn => ~tms
  /\ \E w \in ShiftedIn :
       tap' = [state |-> TapNext(tap.state, tms), ir |-> IrNext, shift |-> w,
               clocks |-> ScanCount]

(* A bug: a capture looks at the sticky bit only.                          *)
IsBusy_StickyOnly == dtm.sticky_busy

IsBusy == dtm.sticky_busy \/ dtm.dm_is_busy

Updates(reg) == tap.state = "UPDATE_DR" /\ tap.ir = reg

(* jtag_driver.v:186-204 - a request is accepted at the end of a scan if   *)
(* the transport is free; otherwise it is dropped without a trace.         *)
Accepts == Updates("DMI") /\ ~IsBusy /\ req_tx.idle

(* jtag_driver.v:209-224.                                                  *)
StickyBusy ==
  IF Updates("DTMCS") /\ tap.shift = "dmireset" THEN FALSE
  ELSE IF tap.state = "CAPTURE_DR" /\ tap.ir = "DMI" THEN IsBusy
  ELSE dtm.sticky_busy

(* jtag_driver.v:237-248.                                                  *)
DmIsBusy ==
  IF dtm.req_valid THEN TRUE
  ELSE IF resp_rx.recv_rdy THEN FALSE ELSE dtm.dm_is_busy

Dtm ==
  dtm' =
    [req_valid   |-> Accepts \/ (dtm.req_valid /\ tap.state = "UPDATE_DR"),
     req_data    |-> IF Accepts THEN tap.shift ELSE dtm.req_data,
     sticky_busy |-> StickyBusy,
     dm_is_busy  |-> DmIsBusy,
     resp        |-> IF resp_rx.recv_rdy THEN resp_rx.recv_data ELSE dtm.resp]

TckEdge ==
  /\ ahead < Ratio
  /\ ahead' = ahead + 1
  /\ \E tms \in BOOLEAN : Tap(tms)
  /\ Dtm
  /\ req_tx' = TxStep(req_tx, req_rx.ack, dtm.req_valid, dtm.req_data)
  /\ resp_rx' = RxStep(resp_rx, resp_tx.req, resp_tx.req_data)
  /\ UNCHANGED clkVars

(* A bug: the answer stays valid for ever.                                 *)
DmStep_AnswerSticks ==
  dm' = IF req_rx.recv_rdy
        THEN [need_resp |-> TRUE, read_data |-> req_rx.recv_data]
        ELSE dm

(* jtag_dm.v:158-160, 294-299 - a request is executed and answered in the  *)
(* next clock; jtag_dm.v:317-328 - the transmitter is not asked whether it *)
(* is idle.                                                                *)
DmStep ==
  dm' = IF req_rx.recv_rdy
        THEN [need_resp |-> TRUE, read_data |-> req_rx.recv_data]
        ELSE [dm EXCEPT !.need_resp = FALSE]

ClkEdge ==
  /\ ahead' = 0
  /\ DmStep
  /\ req_rx' = RxStep(req_rx, req_tx.req, req_tx.req_data)
  /\ resp_tx' = TxStep(resp_tx, resp_rx.ack, dm.need_resp, dm.read_data)
  /\ UNCHANGED tckVars

Next == TckEdge \/ ClkEdge

Spec == Init /\ [][Next]_vars

(* Both clocks run.                                                        *)
FairSpec == Spec /\ WF_vars(TckEdge) /\ WF_vars(ClkEdge)
-----------------------------------------------------------------------------
(* Types of the registers and of the word in the scan register.            *)
TypeOK ==
  /\ tap.state \in TapStates /\ tap.ir \in IrRegs
  /\ tap.shift \in Data \cup IrRegs \cup DtmcsWords
  /\ tap.clocks \in 0 .. ScanClocks
  /\ dtm.req_data \in Data /\ dtm.resp \in Data
  /\ req_tx \in TxRegs /\ resp_tx \in TxRegs
  /\ req_rx \in RxRegs /\ resp_rx \in RxRegs

(* Where a request, and then its answer, is.                               *)
InFlight(t, r) == t.state = "ASSERT" /\ r.state = "IDLE"

Called ==
  IF dtm.req_valid THEN dtm.req_data
  ELSE IF InFlight(req_tx, req_rx) THEN req_tx.req_data
  ELSE IF req_rx.recv_rdy THEN req_rx.recv_data
  ELSE Zero

Executed ==
  IF dm.need_resp THEN dm.read_data
  ELSE IF InFlight(resp_tx, resp_rx) THEN resp_tx.req_data
  ELSE IF resp_rx.recv_rdy THEN resp_rx.recv_data
  ELSE Zero

Rpc == INSTANCE DmiRpc WITH
         call <- Called, done <- Executed, answer <- dtm.resp

(* The transport is a remote procedure call: no accepted request is lost,  *)
(* executed twice or overtaken, and no answer is lost although jtag_dm     *)
(* does not look whether its transmitter is idle (jtag_driver.v:186-248,   *)
(* jtag_dm.v:317-340).  It holds because a scan is longer than it takes    *)
(* the slower clock to take down the handshake of the last answer.         *)
RpcSpec == Rpc!Spec

(* With both clocks running every accepted request is answered.            *)
RpcFairSpec == Rpc!FairSpec

(* The debugger is told the truth: a scan that does not return busy        *)
(* returns the answer to the last accepted request (jtag_driver.v:171,     *)
(* where dm_is_busy is set one TCK after the request was accepted).        *)
NotBusyMeansAnswered ==
  tap.state = "CAPTURE_DR" /\ tap.ir = "DMI" /\ ~IsBusy
    => Called = Zero /\ Executed = Zero

(* A request that ends a scan which did not return busy is accepted: it is *)
(* not dropped because the request handshake is still being taken down     *)
(* when the answer has already come back (jtag_driver.v:195).  Only the    *)
(* length of a scan ensures it: nothing in the code looks at tx_idle when  *)
(* it tells the debugger that the transport is free.                       *)
NoSilentDrop == Updates("DMI") /\ ~IsBusy => req_tx.idle
=============================================================================
