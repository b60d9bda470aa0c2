---------------------------- MODULE JtagDmiProofs ----------------------------
(***************************************************************************)
(* The debug transport is a remote procedure call and tells the debugger   *)
(* the truth, for every set of words and every ratio of the two clocks, if *)
(* a scan lasts long enough.                                               *)
(*                                                                         *)
(* The invariant follows the one call that may be under way through six    *)
(* places.  What is left to do when a call has been answered is to take    *)
(* down the two handshakes; ReqLeft and RespLeft bound how many edges of   *)
(* TCK this takes, and ToUpdate how many of them come before the scan can  *)
(* end with the next request.                                              *)
(***************************************************************************)
EXTENDS JtagDmi, TLAPS

(* The two handshakes.                                                     *)
Rq == INSTANCE HandshakeProofs WITH tx <- req_tx, rx <- req_rx
Rs == INSTANCE HandshakeProofs WITH tx <- resp_tx, rx <- resp_rx

(* A scan is longer than the slower clock takes for three of its edges.    *)
LongScans == ScanClocks >= 3 * Ratio - 1

Typed ==
  /\ tap \in [state : TapStates, ir : IrRegs, shift : Data \cup IrRegs \cup DtmcsWords,
              clocks : 0 .. ScanClocks]
  /\ dtm \in [req_valid : BOOLEAN, req_data : Data, sticky_busy : BOOLEAN,
              dm_is_busy : BOOLEAN, resp : Data]
  /\ dm \in [need_resp : BOOLEAN, read_data : Data]
  /\ ahead \in 0 .. Ratio

(* The word in the scan register once a scan has shifted.                  *)
Shifted ==
  /\ tap.state \in {"EXIT1_IR", "PAUSE_IR", "EXIT2_IR", "UPDATE_IR"} => tap.shift \in IrRegs
  /\ tap.state \in {"EXIT1_DR", "PAUSE_DR", "EXIT2_DR", "UPDATE_DR"} /\ tap.ir = "DMI"
       => tap.shift \in Requests

(* The places of a call, from its acceptance to the arrival of the answer. *)
Asked     == dtm.req_valid
Requested == InFlight(req_tx, req_rx)
Arrived   == req_rx.recv_rdy
Answering == dm.need_resp
Returning == InFlight(resp_tx, resp_rx)
Returned  == resp_rx.recv_rdy

OneCall ==
  /\ Asked     => ~(Requested \/ Arrived \/ Answering \/ Returning \/ Returned)
  /\ Requested => ~(Arrived \/ Answering \/ Returning \/ Returned)
  /\ Arrived   => ~(Answering \/ Returning \/ Returned)
  /\ Answering => ~(Returning \/ Returned)
  /\ Returning => ~Returned

Carried ==
  /\ Asked     => dtm.req_data \in Requests
  /\ Requested => req_tx.req_data \in Requests
  /\ Arrived   => req_rx.recv_data \in Requests
  /\ Answering => dm.read_data \in Requests
  /\ Returning => resp_tx.req_data \in Requests
  /\ Returned  => resp_rx.recv_data \in Requests

(* A call is marked as busy one clock after its acceptance.                *)
Busy ==
  /\ Requested \/ Arrived \/ Answering \/ Returning \/ Returned => dtm.dm_is_busy
  /\ Asked => tap.state \in {"SELECT_DR", "RUN_TEST_IDLE"} /\ ~dtm.dm_is_busy

(* Edges of TCK, at most, until n more edges of clk and m of TCK are over. *)
Edges(n, m) == n * Ratio - ahead + m

(* Until the transmitter of the driver is idle.                            *)
ReqLeft ==
  IF req_tx.state = "IDLE" THEN 0
  ELSE IF req_rx.state = "IDLE"
       THEN IF req_tx.ack_d THEN 3 ELSE IF req_tx.ack THEN 2 ELSE 1
       ELSE IF req_rx.req_d THEN Edges(3, 3) ELSE IF req_rx.req THEN Edges(2, 3) ELSE Edges(1, 3)

(* Until the receiver of the driver is idle.                               *)
RespLeft ==
  IF resp_rx.state = "IDLE" THEN 0
  ELSE IF resp_tx.state # "ASSERT"
       THEN IF resp_rx.req_d THEN 3 ELSE IF resp_rx.req THEN 2 ELSE 1
       ELSE IF resp_tx.ack THEN Edges(1, 3) ELSE IF resp_tx.ack_d THEN Edges(2, 3) ELSE Edges(3, 3)

Left(x) == (req_tx.state # "ASSERT" /\ ReqLeft <= x) /\ RespLeft <= x

(* Edges of TCK, at least, until the scan ends.                            *)
ToUpdate ==
  CASE tap.state = "CAPTURE_DR" -> ScanClocks + 2
    [] tap.state = "SHIFT_DR" -> IF tap.clocks < ScanClocks THEN ScanClocks - tap.clocks + 1 ELSE 2
    [] tap.state = "PAUSE_DR" -> 2
    [] tap.state \in {"EXIT1_DR", "EXIT2_DR"} -> 1
    [] OTHER -> 0

Scanning == /\ tap.ir = "DMI"
            /\ tap.state \in {"SHIFT_DR", "EXIT1_DR", "PAUSE_DR", "EXIT2_DR", "UPDATE_DR"}

(* A request overtakes no handshake: its own has been taken down, and the  *)
(* one of the last answer is ahead of it by as many flops as it needs.     *)
RequestInTime ==
  /\ Asked => req_tx.state = "IDLE"
  /\ Asked \/ Requested => resp_rx.state = "IDLE"
  /\ Requested => /\ req_rx.req_d => ~resp_tx.ack_d
                  /\ req_rx.req => ~resp_tx.ack
  /\ Arrived \/ Answering => resp_tx.state = "IDLE"

(* When the answer arrives, the driver has seen the request acknowledged.  *)
AnswerInTime ==
  /\ Returning /\ resp_rx.req_d => req_tx.ack_d \/ req_tx.state # "ASSERT"
  /\ Returning /\ resp_rx.req => req_tx.ack \/ req_tx.state # "ASSERT"
  /\ Returned => Left(3 * Ratio + 2)
  /\ req_tx.state = "DEASSERT" => ReqLeft <= 3 * Ratio + 2

(* A transport that says that it is free will be by the end of the scan.   *)
FreeInTime ==
  /\ ~Asked /\ ~dtm.dm_is_busy => Left(3 * Ratio + 1)
  /\ Scanning /\ ~dtm.sticky_busy => ~dtm.dm_is_busy /\ Left(ToUpdate)

IInv == /\ Typed /\ Shifted /\ Rq!IInv /\ Rs!IInv
        /\ OneCall /\ Carried /\ Busy
        /\ RequestInTime /\ AnswerInTime /\ FreeInTime

-----------------------------------------------------------------------------
(* What the handshakes' invariants say of the registers.                   *)
LEMMA ReqLink ==
  ASSUME Rq!IInv
  PROVE  /\ req_tx \in TxRegs /\ req_rx \in RxRegs
         /\ req_tx.state \in {"IDLE", "ASSERT", "DEASSERT"} /\ req_rx.state \in {"IDLE", "DEASSERT"}
         /\ req_tx.idle <=> req_tx.state = "IDLE"
         /\ req_tx.req <=> req_tx.state = "ASSERT"
         /\ req_rx.ack <=> req_rx.state = "DEASSERT"
         /\ req_tx.state = "IDLE" => /\ ~req_tx.ack_d /\ ~req_tx.ack /\ ~req_rx.req_d
                                     /\ ~req_rx.req /\ ~req_rx.ack /\ ~req_rx.recv_rdy
         /\ req_tx.state = "ASSERT" => /\ req_rx.req => req_rx.req_d
                                       /\ req_rx.ack => req_rx.req
                                       /\ req_tx.ack_d => req_rx.ack
                                       /\ req_tx.ack => req_tx.ack_d
         /\ req_tx.state = "DEASSERT" => /\ req_rx.req_d => req_rx.req
                                         /\ req_rx.req => req_rx.ack
                                         /\ req_rx.ack => req_tx.ack_d
                                         /\ req_tx.ack_d => req_tx.ack
         /\ req_rx.recv_rdy => req_rx.ack
BY DEF Rq!IInv, Rq!TypeOK, Rq!IdleIsQuiet, Rq!Rising, Rq!Falling, Rq!Pulse,
       Rq!TxRegs, Rq!TxStates, Rq!RxRegs, Rq!RxStates, TxRegs, TxStates, RxRegs, RxStates

LEMMA RespLink ==
  ASSUME Rs!IInv
  PROVE  /\ resp_tx \in TxRegs /\ resp_rx \in RxRegs
         /\ resp_tx.state \in {"IDLE", "ASSERT", "DEASSERT"} /\ resp_rx.state \in {"IDLE", "DEASSERT"}
         /\ resp_tx.idle <=> resp_tx.state = "IDLE"
         /\ resp_tx.req <=> resp_tx.state = "ASSERT"
         /\ resp_rx.ack <=> resp_rx.state = "DEASSERT"
         /\ resp_tx.state = "IDLE" => /\ ~resp_tx.ack_d /\ ~resp_tx.ack /\ ~resp_rx.req_d
                                      /\ ~resp_rx.req /\ ~resp_rx.ack /\ ~resp_rx.recv_rdy
         /\ resp_tx.state = "ASSERT" => /\ resp_rx.req => resp_rx.req_d
                                        /\ resp_rx.ack => resp_rx.req
                                        /\ resp_tx.ack_d => resp_rx.ack
                                        /\ resp_tx.ack => resp_tx.ack_d
         /\ resp_tx.state = "DEASSERT" => /\ resp_rx.req_d => resp_rx.req
                                          /\ resp_rx.req => resp_rx.ack
                                          /\ resp_rx.ack => resp_tx.ack_d
                                          /\ resp_tx.ack_d => resp_tx.ack
         /\ resp_rx.recv_rdy => resp_rx.ack
BY DEF Rs!IInv, Rs!TypeOK, Rs!IdleIsQuiet, Rs!Rising, Rs!Falling, Rs!Pulse,
       Rs!TxRegs, Rs!TxStates, Rs!RxRegs, Rs!RxStates, TxRegs, TxStates, RxRegs, RxStates

(* One edge of a transmitter, and one of a receiver, field by field.       *)
LEMMA TxFields ==
  ASSUME NEW t \in TxRegs, NEW a \in BOOLEAN, NEW q \in BOOLEAN, NEW d \in Data,
         NEW u, u = TxStep(t, a, q, d)
  PROVE  /\ u \in TxRegs /\ u.ack_d = a /\ u.ack = t.ack_d
         /\ t.state = "IDLE" => u.state = IF q THEN "ASSERT" ELSE "IDLE"
         /\ t.state = "ASSERT" => u.state = IF t.ack THEN "DEASSERT" ELSE "ASSERT"
         /\ t.state = "DEASSERT" => u.state = IF t.ack THEN "DEASSERT" ELSE "IDLE"
         /\ t.state = "IDLE" /\ q => u.req_data = d
         /\ t.state = "ASSERT" /\ ~t.ack => u.req_data = t.req_data
BY ZeroAssumption DEF TxStep, TxRegs, TxStates

LEMMA RxFields ==
  ASSUME NEW r \in RxRegs, NEW q \in BOOLEAN, NEW w \in Data,
         NEW u, u = RxStep(r, q, w)
  PROVE  /\ u \in RxRegs /\ u.req_d = q /\ u.req = r.req_d
         /\ u.state = IF r.req THEN "DEASSERT" ELSE "IDLE"
         /\ r.state = "IDLE" /\ r.req => u.recv_rdy /\ u.recv_data = w
         /\ r.state = "IDLE" /\ ~r.req => u.recv_rdy = r.recv_rdy
         /\ r.state = "DEASSERT" => ~u.recv_rdy
BY ZeroAssumption DEF RxStep, RxRegs, RxStates

(* The constants.                                                          *)
LEMMA Numbers ==
  ASSUME JtagDmiAssumption, LongScans
  PROVE  /\ Ratio \in Nat \ {0} /\ ScanClocks \in Nat \ {0} /\ ScanClocks >= 3 * Ratio - 1
BY DEF JtagDmiAssumption, LongScans

-----------------------------------------------------------------------------
(* An edge of TCK.                                                         *)
LEMMA TckFacts ==
  ASSUME IInv, TckEdge
  PROVE  /\ req_rx' = req_rx /\ resp_tx' = resp_tx /\ dm' = dm
         /\ req_tx'.ack_d = req_rx.ack /\ req_tx'.ack = req_tx.ack_d
         /\ req_tx.state = "IDLE" => req_tx'.state = IF Asked THEN "ASSERT" ELSE "IDLE"
         /\ req_tx.state = "ASSERT" => req_tx'.state = IF req_tx.ack THEN "DEASSERT" ELSE "ASSERT"
         /\ req_tx.state = "DEASSERT" => req_tx'.state = IF req_tx.ack THEN "DEASSERT" ELSE "IDLE"
         /\ req_tx.state = "IDLE" /\ Asked => req_tx'.req_data = dtm.req_data
         /\ req_tx.state = "ASSERT" /\ ~req_tx.ack => req_tx'.req_data = req_tx.req_data
         /\ resp_rx'.req_d = resp_tx.req /\ resp_rx'.req = resp_rx.req_d
         /\ resp_rx'.state = IF resp_rx.req THEN "DEASSERT" ELSE "IDLE"
         /\ resp_rx.state = "IDLE" /\ resp_rx.req =>
              resp_rx'.recv_rdy /\ resp_rx'.recv_data = resp_tx.req_data
         /\ resp_rx.state = "IDLE" /\ ~resp_rx.req => resp_rx'.recv_rdy = resp_rx.recv_rdy
         /\ resp_rx.state = "DEASSERT" => ~resp_rx'.recv_rdy
         /\ Rq!IInv' /\ Rs!IInv'
<1>1. /\ req_tx \in TxRegs /\ req_rx.ack \in BOOLEAN /\ resp_rx \in RxRegs
      /\ resp_tx.req \in BOOLEAN /\ resp_tx.req_data \in Data
      /\ Asked \in BOOLEAN /\ dtm.req_data \in Data
  BY ReqLink, RespLink DEF IInv, Typed, Asked, TxRegs, RxRegs
<1>2. /\ req_tx' = TxStep(req_tx, req_rx.ack, Asked, dtm.req_data)
      /\ resp_rx' = RxStep(resp_rx, resp_tx.req, resp_tx.req_data)
      /\ req_rx' = req_rx /\ resp_tx' = resp_tx /\ dm' = dm
  BY DEF TckEdge, clkVars, Asked
<1>3. Rq!IInv'
  <2>1. Rq!TxEdge(Asked, dtm.req_data)
    BY <1>2 DEF Rq!TxEdge, Rq!TxStep, TxStep
  <2> QED
    BY <1>1, <2>1, ZeroAssumption, Rq!TxEdgeIInv DEF IInv
<1>4. Rs!IInv'
  <2>1. Rs!RxEdge
    BY <1>2 DEF Rs!RxEdge, Rs!RxStep, RxStep
  <2> QED
    BY <2>1, ZeroAssumption, Rs!RxEdgeIInv DEF IInv
<1>5. /\ req_tx'.ack_d = req_rx.ack /\ req_tx'.ack = req_tx.ack_d
      /\ req_tx.state = "IDLE" => req_tx'.state = IF Asked THEN "ASSERT" ELSE "IDLE"
      /\ req_tx.state = "ASSERT" => req_tx'.state = IF req_tx.ack THEN "DEASSERT" ELSE "ASSERT"
      /\ req_tx.state = "DEASSERT" => req_tx'.state = IF req_tx.ack THEN "DEASSERT" ELSE "IDLE"
      /\ req_tx.state = "IDLE" /\ Asked => req_tx'.req_data = dtm.req_data
      /\ req_tx.state = "ASSERT" /\ ~req_tx.ack => req_tx'.req_data = req_tx.req_data
  BY SMTT(20), <1>1, <1>2, TxFields DEF Asked, Answering
<1>6. /\ resp_rx'.req_d = resp_tx.req /\ resp_rx'.req = resp_rx.req_d
      /\ resp_rx'.state = IF resp_rx.req THEN "DEASSERT" ELSE "IDLE"
      /\ resp_rx.state = "IDLE" /\ resp_rx.req =>
           resp_rx'.recv_rdy /\ resp_rx'.recv_data = resp_tx.req_data
      /\ resp_rx.state = "IDLE" /\ ~resp_rx.req => resp_rx'.recv_rdy = resp_rx.recv_rdy
      /\ resp_rx.state = "DEASSERT" => ~resp_rx'.recv_rdy
  BY <1>1, <1>2, RxFields DEF Asked, Answering
<1> QED
  BY <1>2, <1>3, <1>4, <1>5, <1>6

(* An edge of clk.                                                         *)
LEMMA ClkFacts ==
  ASSUME IInv, ClkEdge
  PROVE  /\ tap' = tap /\ dtm' = dtm /\ req_tx' = req_tx /\ resp_rx' = resp_rx /\ ahead' = 0
         /\ dm'.need_resp = Arrived /\ (Arrived => dm'.read_data = req_rx.recv_data)
         /\ dm' \in [need_resp : BOOLEAN, read_data : Data]
         /\ resp_tx'.ack_d = resp_rx.ack /\ resp_tx'.ack = resp_tx.ack_d
         /\ resp_tx.state = "IDLE" => resp_tx'.state = IF Answering THEN "ASSERT" ELSE "IDLE"
         /\ resp_tx.state = "ASSERT" => resp_tx'.state = IF resp_tx.ack THEN "DEASSERT" ELSE "ASSERT"
         /\ resp_tx.state = "DEASSERT" => resp_tx'.state = IF resp_tx.ack THEN "DEASSERT" ELSE "IDLE"
         /\ resp_tx.state = "IDLE" /\ Answering => resp_tx'.req_data = dm.read_data
         /\ resp_tx.state = "ASSERT" /\ ~resp_tx.ack => resp_tx'.req_data = resp_tx.req_data
         /\ req_rx'.req_d = req_tx.req /\ req_rx'.req = req_rx.req_d
         /\ req_rx'.state = IF req_rx.req THEN "DEASSERT" ELSE "IDLE"
         /\ req_rx.state = "IDLE" /\ req_rx.req =>
              req_rx'.recv_rdy /\ req_rx'.recv_data = req_tx.req_data
         /\ req_rx.state = "IDLE" /\ ~req_rx.req => req_rx'.recv_rdy = req_rx.recv_rdy
         /\ req_rx.state = "DEASSERT" => ~req_rx'.recv_rdy
         /\ Rq!IInv' /\ Rs!IInv'
<1>1. /\ resp_tx \in TxRegs /\ resp_rx.ack \in BOOLEAN /\ req_rx \in RxRegs
      /\ req_tx.req \in BOOLEAN /\ req_tx.req_data \in Data
      /\ Answering \in BOOLEAN /\ dm.read_data \in Data
      /\ dm \in [need_resp : BOOLEAN, read_data : Data]
  BY ReqLink, RespLink DEF IInv, Typed, Answering, TxRegs, RxRegs
<1>2. /\ resp_tx' = TxStep(resp_tx, resp_rx.ack, Answering, dm.read_data)
      /\ req_rx' = RxStep(req_rx, req_tx.req, req_tx.req_data)
      /\ tap' = tap /\ dtm' = dtm /\ req_tx' = req_tx /\ resp_rx' = resp_rx /\ ahead' = 0
  BY DEF ClkEdge, tckVars, Answering
<1>3. Rq!IInv'
  <2>1. Rq!RxEdge
    BY <1>2 DEF Rq!RxEdge, Rq!RxStep, RxStep
  <2> QED
    BY <2>1, ZeroAssumption, Rq!RxEdgeIInv DEF IInv
<1>4. Rs!IInv'
  <2>1. Rs!TxEdge(Answering, dm.read_data)
    BY <1>2 DEF Rs!TxEdge, Rs!TxStep, TxStep
  <2> QED
    BY <1>1, <2>1, ZeroAssumption, Rs!TxEdgeIInv DEF IInv
<1>5. /\ dm'.need_resp = Arrived /\ (Arrived => dm'.read_data = req_rx.recv_data)
      /\ dm' \in [need_resp : BOOLEAN, read_data : Data]
  BY <1>1 DEF ClkEdge, DmStep, Arrived, RxRegs
<1>6. /\ resp_tx'.ack_d = resp_rx.ack /\ resp_tx'.ack = resp_tx.ack_d
      /\ resp_tx.state = "IDLE" => resp_tx'.state = IF Answering THEN "ASSERT" ELSE "IDLE"
      /\ resp_tx.state = "ASSERT" => resp_tx'.state = IF resp_tx.ack THEN "DEASSERT" ELSE "ASSERT"
      /\ resp_tx.state = "DEASSERT" => resp_tx'.state = IF resp_tx.ack THEN "DEASSERT" ELSE "IDLE"
      /\ resp_tx.state = "IDLE" /\ Answering => resp_tx'.req_data = dm.read_data
      /\ resp_tx.state = "ASSERT" /\ ~resp_tx.ack => resp_tx'.req_data = resp_tx.req_data
  BY <1>1, <1>2, TxFields, SMTT(30) DEF Answering
<1>7. /\ req_rx'.req_d = req_tx.req /\ req_rx'.req = req_rx.req_d
      /\ req_rx'.state = IF req_rx.req THEN "DEASSERT" ELSE "IDLE"
      /\ req_rx.state = "IDLE" /\ req_rx.req =>
           req_rx'.recv_rdy /\ req_rx'.recv_data = req_tx.req_data
      /\ req_rx.state = "IDLE" /\ ~req_rx.req => req_rx'.recv_rdy = req_rx.recv_rdy
      /\ req_rx.state = "DEASSERT" => ~req_rx'.recv_rdy
  BY <1>1, <1>2, RxFields DEF Asked, Answering
<1> QED
  BY <1>2, <1>3, <1>4, <1>5, <1>6, <1>7

(* Where an edge of TCK takes the scan, and how much closer to its end.    *)
LEMMA TapFacts ==
  ASSUME JtagDmiAssumption, LongScans, IInv, TckEdge
  PROVE  /\ tap' \in [state : TapStates, ir : IrRegs, shift : Data \cup IrRegs \cup DtmcsWords,
                      clocks : 0 .. ScanClocks]
         /\ Shifted'
         /\ Scanning' => \/ Scanning /\ tap.state # "UPDATE_DR" /\ ToUpdate' >= ToUpdate - 1
                         \/ tap.ir = "DMI" /\ tap.state = "CAPTURE_DR" /\ ToUpdate' >= ScanClocks + 1
         /\ tap.state = "UPDATE_DR" => tap'.state \in {"SELECT_DR", "RUN_TEST_IDLE"}
         /\ ToUpdate \in Nat /\ ToUpdate' \in Nat /\ (tap.state = "UPDATE_DR" => ToUpdate = 0)
<1>1. PICK tms \in BOOLEAN : Tap(tms)
  BY DEF TckEdge
<1>2. PICK w \in ShiftedIn :
        /\ ShiftsOn => ~tms
        /\ tap' = [state |-> TapNext(tap.state, tms), ir |-> IrNext, shift |-> w,
                   clocks |-> ScanCount]
  BY <1>1 DEF Tap
<1>3. /\ tap.state \in TapStates /\ tap.ir \in IrRegs /\ tap.clocks \in 0 .. ScanClocks
      /\ tap.shift \in Data \cup IrRegs \cup DtmcsWords
  BY DEF IInv, Typed
<1>4. Ratio \in Nat \ {0} /\ ScanClocks \in Nat \ {0}
  BY Numbers
<1>5. TapNext(tap.state, tms) \in TapStates
  BY <1>3 DEF TapNext, TapStates
<1>6. IrNext \in IrRegs
  BY <1>3 DEF IrNext, IInv, Shifted, IrRegs
<1>7. w \in Data \cup IrRegs \cup DtmcsWords
  BY <1>2, <1>3, ZeroAssumption DEF ShiftedIn, Requests
<1>8. ScanCount \in 0 .. ScanClocks
  BY <1>3, <1>4 DEF ScanCount
<1>9. tap' \in [state : TapStates, ir : IrRegs, shift : Data \cup IrRegs \cup DtmcsWords,
                clocks : 0 .. ScanClocks]
  BY <1>2, <1>5, <1>6, <1>7, <1>8
<1>10. Shifted'
  <2>1. tap'.state \in {"EXIT1_IR", "PAUSE_IR", "EXIT2_IR", "UPDATE_IR"} => w \in IrRegs
    BY <1>2, <1>3 DEF IInv, Shifted, ShiftedIn, ShiftsOn, TapNext, TapStates
  <2>2. tap'.state \in {"EXIT1_DR", "PAUSE_DR", "EXIT2_DR", "UPDATE_DR"} /\ tap'.ir = "DMI"
          => w \in Requests
    BY <1>2, <1>3 DEF IInv, Shifted, ShiftedIn, ShiftsOn, TapNext, TapStates, IrNext
  <2> QED
    BY <1>2, <2>1, <2>2 DEF Shifted
<1>11. tap.state = "UPDATE_DR" => tap'.state \in {"SELECT_DR", "RUN_TEST_IDLE"}
  BY <1>2 DEF TapNext
<1>12. ToUpdate \in Nat /\ ToUpdate' \in Nat /\ (tap.state = "UPDATE_DR" => ToUpdate = 0)
  BY <1>3, <1>4, <1>9 DEF ToUpdate
<1>13. ASSUME Scanning'
       PROVE  \/ Scanning /\ tap.state # "UPDATE_DR" /\ ToUpdate' >= ToUpdate - 1
              \/ tap.ir = "DMI" /\ tap.state = "CAPTURE_DR" /\ ToUpdate' >= ScanClocks + 1
  <2>1. tap.state \in {"CAPTURE_DR", "SHIFT_DR", "EXIT1_DR", "PAUSE_DR", "EXIT2_DR"} /\ tap.ir = "DMI"
    BY <1>2, <1>3, <1>13 DEF Scanning, TapNext, TapStates, IrNext
  <2>2. /\ tap'.state = TapNext(tap.state, tms) /\ tap'.clocks = ScanCount
        /\ ShiftsOn => ~tms
    BY <1>2
  <2>3. CASE tap.state = "CAPTURE_DR"
    BY <1>4, <2>1, <2>2, <2>3 DEF TapNext, ScanCount, ShiftsOn, ToUpdate
  <2>4. CASE tap.state = "SHIFT_DR"
    BY <1>3, <1>4, <2>1, <2>2, <2>4 DEF TapNext, ScanCount, ShiftsOn, ToUpdate, Scanning
  <2>5. CASE tap.state \in {"EXIT1_DR", "EXIT2_DR"}
    BY <1>12, <2>1, <2>5 DEF ToUpdate, Scanning
  <2>6. CASE tap.state = "PAUSE_DR"
    <3>1. tap'.state \in {"PAUSE_DR", "EXIT2_DR"}
      BY <2>2, <2>6 DEF TapNext
    <3> QED
      BY <2>1, <2>6, <3>1 DEF ToUpdate, Scanning
  <2> QED
    BY <2>1, <2>3, <2>4, <2>5, <2>6
<1> QED
  BY <1>9, <1>10, <1>11, <1>12, <1>13

(* What an edge of TCK does to the busy bits and the request.              *)
LEMMA DtmFacts ==
  ASSUME JtagDmiAssumption, LongScans, IInv, TckEdge
  PROVE  /\ dtm' \in [req_valid : BOOLEAN, req_data : Data, sticky_busy : BOOLEAN,
                      dm_is_busy : BOOLEAN, resp : Data]
         /\ ahead' = ahead + 1 /\ ahead' \in 0 .. Ratio
         /\ Asked' <=> Accepts
         /\ Accepts => dtm'.req_data = tap.shift /\ tap.shift \in Requests
         /\ ~Accepts => dtm'.req_data = dtm.req_data
         /\ dtm'.dm_is_busy <=> Asked \/ (dtm.dm_is_busy /\ ~Returned)
         /\ Accepts => ~Asked /\ ~IsBusy /\ req_tx.state = "IDLE" /\ Scanning
                       /\ tap.state = "UPDATE_DR"
         /\ tap.ir = "DMI" /\ tap.state = "CAPTURE_DR" => dtm'.sticky_busy = IsBusy
         /\ Scanning => dtm'.sticky_busy = dtm.sticky_busy
         /\ dtm'.resp = IF Returned THEN resp_rx.recv_data ELSE dtm.resp
<1>1. /\ dtm \in [req_valid : BOOLEAN, req_data : Data, sticky_busy : BOOLEAN,
                  dm_is_busy : BOOLEAN, resp : Data]
      /\ tap.shift \in Data \cup IrRegs \cup DtmcsWords /\ ahead \in 0 .. Ratio
      /\ Ratio \in Nat /\ resp_rx \in RxRegs
  BY Numbers, RespLink DEF IInv, Typed
<1>2. ahead' = ahead + 1 /\ ahead < Ratio /\ Dtm
  BY DEF TckEdge
<1>3. Accepts => tap.shift \in Requests /\ tap.state = "UPDATE_DR" /\ tap.ir = "DMI" /\ ~IsBusy
                 /\ req_tx.state = "IDLE"
  BY ReqLink DEF IInv, Accepts, Updates, Shifted
<1>4. Asked => tap.state # "UPDATE_DR"
  BY DEF IInv, Busy
<1>5. Asked' <=> Accepts
  BY <1>2, <1>4 DEF Dtm, Asked
<1>6. /\ StickyBusy \in BOOLEAN /\ DmIsBusy \in BOOLEAN /\ IsBusy \in BOOLEAN
      /\ Accepts \in BOOLEAN
  BY <1>1 DEF StickyBusy, DmIsBusy, IsBusy, Accepts, RxRegs
<1>7. dtm' \in [req_valid : BOOLEAN, req_data : Data, sticky_busy : BOOLEAN,
                dm_is_busy : BOOLEAN, resp : Data]
  <2>1. (IF Accepts THEN tap.shift ELSE dtm.req_data) \in Data
    BY <1>1, <1>3 DEF Requests
  <2>2. (IF resp_rx.recv_rdy THEN resp_rx.recv_data ELSE dtm.resp) \in Data
    BY <1>1 DEF RxRegs
  <2>3. (Accepts \/ (dtm.req_valid /\ tap.state = "UPDATE_DR")) \in BOOLEAN
    BY <1>6
  <2> QED
    BY <1>2, <1>6, <2>1, <2>2, <2>3 DEF Dtm
<1>8. /\ dtm'.req_data = IF Accepts THEN tap.shift ELSE dtm.req_data
      /\ dtm'.resp = IF Returned THEN resp_rx.recv_data ELSE dtm.resp
  BY <1>2 DEF Dtm, Returned
<1>9. dtm'.dm_is_busy <=> Asked \/ (dtm.dm_is_busy /\ ~Returned)
  BY <1>2 DEF Dtm, DmIsBusy, Asked, Returned
<1>10. /\ tap.ir = "DMI" /\ tap.state = "CAPTURE_DR" => dtm'.sticky_busy = IsBusy
       /\ Scanning => dtm'.sticky_busy = dtm.sticky_busy
  BY <1>2 DEF Dtm, StickyBusy, Updates, Scanning
<1>11. Accepts => Scanning /\ ~Asked
  BY <1>3, <1>4 DEF Scanning
<1>12. ahead' \in 0 .. Ratio
  BY <1>1, <1>2
<1> QED
  BY <1>2, <1>3, <1>5, <1>7, <1>8, <1>9, <1>10, <1>11, <1>12

LEMMA ToUpdateNat ==
  ASSUME JtagDmiAssumption, LongScans, IInv
  PROVE  ToUpdate \in Nat
<1>1. tap.clocks \in 0 .. ScanClocks /\ ScanClocks \in Nat
  BY Numbers DEF IInv, Typed
<1> QED
  BY <1>1 DEF ToUpdate

(* Edges of clk and TCK that are left, in numbers.                         *)
LEMMA LeftFacts ==
  ASSUME JtagDmiAssumption, IInv
  PROVE  /\ ReqLeft \in Nat /\ RespLeft \in Nat
         /\ req_tx.state = "IDLE" => ReqLeft = 0
         /\ req_tx.state # "IDLE" => ReqLeft >= 1
         /\ resp_rx.state = "IDLE" => RespLeft = 0
         /\ resp_rx.state # "IDLE" => RespLeft >= 1
<1>1. Ratio \in Nat \ {0} /\ ahead \in 0 .. Ratio
  BY DEF JtagDmiAssumption, IInv, Typed
<1>2. /\ Edges(1, 3) \in Nat /\ Edges(2, 3) \in Nat /\ Edges(3, 3) \in Nat
      /\ Edges(1, 3) >= 1 /\ Edges(2, 3) >= 1 /\ Edges(3, 3) >= 1
  BY <1>1 DEF Edges
<1> QED
  BY <1>2 DEF ReqLeft, RespLeft

LEMMA TckLeft ==
  ASSUME JtagDmiAssumption, LongScans, IInv, TckEdge
  PROVE  /\ req_tx.state = "DEASSERT" => /\ req_tx'.state \in {"DEASSERT", "IDLE"}
                                         /\ ReqLeft' <= ReqLeft - 1
         /\ req_tx.state = "ASSERT" /\ req_tx'.state # "ASSERT" => ReqLeft' <= 3 * Ratio + 2
         /\ req_tx'.state = "IDLE" => ReqLeft' = 0
         /\ resp_rx.state = "DEASSERT" => RespLeft' <= RespLeft - 1
         /\ resp_rx.state = "IDLE" => RespLeft' <= 3 * Ratio + 2
         /\ resp_rx'.state = "IDLE" => RespLeft' = 0
         /\ ReqLeft' \in Int /\ RespLeft' \in Int
<1>1. /\ Ratio \in Nat \ {0} /\ ahead \in 0 .. Ratio - 1 /\ ahead' = ahead + 1
  BY Numbers, DtmFacts DEF TckEdge, IInv, Typed
<1>2. /\ Edges(3, 3)' = Edges(3, 3) - 1 /\ Edges(2, 3)' = Edges(2, 3) - 1
      /\ Edges(1, 3)' = Edges(1, 3) - 1
      /\ Edges(3, 3)' <= 3 * Ratio + 2 /\ Edges(2, 3)' <= 3 * Ratio + 2
      /\ Edges(1, 3)' <= 3 * Ratio + 2
      /\ Edges(3, 3)' \in Nat /\ Edges(2, 3)' \in Nat /\ Edges(1, 3)' \in Nat
  BY <1>1 DEF Edges
<1>3. Rq!IInv /\ Rs!IInv /\ Rq!IInv' /\ Rs!IInv'
  BY TckFacts DEF IInv
<1>4. ASSUME req_tx.state = "DEASSERT"
      PROVE  req_tx'.state \in {"DEASSERT", "IDLE"} /\ ReqLeft' <= ReqLeft - 1
  <2>1. /\ req_rx' = req_rx /\ req_tx'.ack_d = req_rx.ack /\ req_tx'.ack = req_tx.ack_d
        /\ req_tx'.state = IF req_tx.ack THEN "DEASSERT" ELSE "IDLE"
    BY <1>4, TckFacts
  <2>2. /\ req_rx.req_d => req_rx.req
        /\ req_rx.req => req_rx.ack
        /\ req_rx.ack => req_tx.ack_d
        /\ req_tx.ack_d => req_tx.ack
        /\ req_rx.ack <=> req_rx.state # "IDLE"
    BY <1>3, <1>4, ReqLink
  <2>3. CASE req_rx.state = "IDLE"
    BY <1>4, <2>1, <2>2, <2>3 DEF ReqLeft
  <2>4. CASE req_rx.state # "IDLE"
    BY <1>2, <1>4, <2>1, <2>2, <2>4 DEF ReqLeft
  <2> QED
    BY <2>1, <2>3, <2>4
<1>5. ASSUME req_tx.state = "ASSERT", req_tx'.state # "ASSERT"
      PROVE  ReqLeft' <= 3 * Ratio + 2
  BY <1>1, <1>2 DEF ReqLeft
<1>6. ASSUME resp_rx.state = "DEASSERT"
      PROVE  RespLeft' <= RespLeft - 1
  <2>1. /\ resp_tx' = resp_tx /\ resp_rx'.req_d = resp_tx.req /\ resp_rx'.req = resp_rx.req_d
        /\ resp_rx'.state = IF resp_rx.req THEN "DEASSERT" ELSE "IDLE"
    BY <1>6, TckFacts
  <2>2. /\ resp_tx.req <=> resp_tx.state = "ASSERT"
        /\ resp_tx.state = "ASSERT" => resp_rx.req
        /\ resp_tx.state # "ASSERT" => (resp_rx.req_d => resp_rx.req)
    BY <1>3, <1>6, RespLink
  <2>3. CASE resp_tx.state # "ASSERT"
    BY <1>6, <2>1, <2>2, <2>3 DEF RespLeft
  <2>4. CASE resp_tx.state = "ASSERT"
    BY <1>2, <1>6, <2>1, <2>2, <2>4 DEF RespLeft
  <2> QED
    BY <2>3, <2>4
<1>7. RespLeft' <= 3 * Ratio + 2
  BY <1>1, <1>2 DEF RespLeft
<1>8. (req_tx'.state = "IDLE" => ReqLeft' = 0) /\ (resp_rx'.state = "IDLE" => RespLeft' = 0)
  BY DEF ReqLeft, RespLeft
<1>9. ReqLeft' \in Int /\ RespLeft' \in Int
  BY <1>2 DEF ReqLeft, RespLeft
<1> QED
  BY <1>4, <1>5, <1>6, <1>7, <1>8, <1>9

LEMMA ClkLeft ==
  ASSUME JtagDmiAssumption, LongScans, IInv, ClkEdge
  PROVE  /\ req_tx.state # "ASSERT" => req_tx'.state # "ASSERT" /\ ReqLeft' <= ReqLeft
         /\ RespLeft' <= RespLeft
         /\ ReqLeft' \in Int /\ RespLeft' \in Int
<1>1. /\ Ratio \in Nat \ {0} /\ ahead \in 0 .. Ratio /\ ahead' = 0
  BY Numbers DEF ClkEdge, IInv, Typed
<1>2. /\ Edges(2, 3)' <= Edges(3, 3) /\ Edges(1, 3)' <= Edges(2, 3) /\ 3 <= Edges(1, 3)
      /\ Edges(3, 3) \in Nat /\ Edges(2, 3) \in Nat /\ Edges(1, 3) \in Nat
      /\ Edges(2, 3)' \in Nat /\ Edges(1, 3)' \in Nat
  BY <1>1 DEF Edges
<1>3. Rq!IInv /\ Rs!IInv
  BY DEF IInv
<1>4. ASSUME req_tx.state # "ASSERT"
      PROVE  req_tx'.state # "ASSERT" /\ ReqLeft' <= ReqLeft
  <2>1. /\ req_tx' = req_tx /\ req_rx'.req_d = req_tx.req /\ req_rx'.req = req_rx.req_d
        /\ req_rx'.state = IF req_rx.req THEN "DEASSERT" ELSE "IDLE"
    BY <1>4, ClkFacts
  <2>2. CASE req_tx.state = "IDLE"
    BY <2>1, <2>2 DEF ReqLeft
  <2>3. CASE req_tx.state # "IDLE"
    <3>1. /\ ~req_tx.req /\ (req_rx.req => req_rx.state # "IDLE") /\ (req_rx.req_d => req_rx.req)
      BY <1>3, <1>4, <2>3, ReqLink
    <3>2. CASE req_rx.state = "IDLE"
      <4>1. req_rx'.state = "IDLE"
        BY <2>1, <3>1, <3>2
      <4> QED
        BY <1>4, <2>1, <2>3, <3>2, <4>1 DEF ReqLeft
    <3>3. CASE req_rx.state # "IDLE"
      <4>1. ReqLeft = IF req_rx.req_d THEN Edges(3, 3)
                      ELSE IF req_rx.req THEN Edges(2, 3) ELSE Edges(1, 3)
        BY <2>3, <3>3 DEF ReqLeft
      <4>2. ~req_rx'.req_d
        BY <2>1, <3>1
      <4>3. CASE req_rx.req_d
        BY <1>2, <1>4, <2>1, <2>3, <3>1, <4>1, <4>2, <4>3 DEF ReqLeft
      <4>4. CASE ~req_rx.req_d /\ req_rx.req
        BY <1>2, <1>4, <2>1, <2>3, <3>1, <4>1, <4>2, <4>4 DEF ReqLeft
      <4>5. CASE ~req_rx.req_d /\ ~req_rx.req
        BY <1>2, <1>4, <2>1, <2>3, <3>1, <4>1, <4>2, <4>5 DEF ReqLeft
      <4> QED
        BY <4>3, <4>4, <4>5
    <3> QED
      BY <3>2, <3>3
  <2> QED
    BY <2>2, <2>3
<1>5. RespLeft' <= RespLeft
  <2>1. /\ resp_rx' = resp_rx /\ resp_tx'.ack_d = resp_rx.ack /\ resp_tx'.ack = resp_tx.ack_d
        /\ resp_tx.state = "IDLE" => resp_tx'.state = IF Answering THEN "ASSERT" ELSE "IDLE"
        /\ resp_tx.state = "ASSERT" => resp_tx'.state = IF resp_tx.ack THEN "DEASSERT" ELSE "ASSERT"
        /\ resp_tx.state = "DEASSERT" => resp_tx'.state = IF resp_tx.ack THEN "DEASSERT" ELSE "IDLE"
    BY ClkFacts
  <2>2. CASE resp_rx.state = "IDLE"
    BY <2>1, <2>2 DEF RespLeft
  <2>3. CASE resp_rx.state # "IDLE"
    <3>1. /\ resp_tx.state \in {"ASSERT", "DEASSERT"} /\ resp_rx.ack
          /\ resp_tx.state = "ASSERT" => (resp_tx.ack => resp_tx.ack_d)
      BY <1>3, <2>3, RespLink
    <3>2. CASE resp_tx.state = "DEASSERT"
      BY <2>1, <2>3, <3>2 DEF RespLeft
    <3>3. CASE resp_tx.state = "ASSERT"
      BY <1>2, <2>1, <2>3, <3>1, <3>3 DEF RespLeft
    <3> QED
      BY <3>1, <3>2, <3>3
  <2> QED
    BY <2>2, <2>3
<1>6. ReqLeft' \in Int /\ RespLeft' \in Int
  BY <1>1 DEF ReqLeft, RespLeft, Edges
<1> QED
  BY <1>4, <1>5, <1>6

(* What is left gets less while no call comes in or comes back.            *)
LEMMA LeftFalls ==
  ASSUME JtagDmiAssumption, LongScans, IInv, TckEdge,
         NEW x \in Nat, NEW y \in Nat, y >= x - 1, Left(x), ~Asked, ~Returning
  PROVE  req_tx'.state # "ASSERT" /\ ReqLeft' <= y /\ RespLeft' <= y
<1>1. req_tx.state # "ASSERT" /\ ReqLeft <= x /\ RespLeft <= x
  BY DEF Left
<1>2. /\ req_tx.state \in {"IDLE", "DEASSERT"} /\ resp_rx.state \in {"IDLE", "DEASSERT"}
      /\ resp_rx.state = "IDLE" /\ resp_tx.state # "ASSERT" => ~resp_rx.req
  BY <1>1, ReqLink, RespLink DEF IInv
<1>3. ReqLeft \in Nat /\ RespLeft \in Nat
  BY LeftFacts
<1>4. req_tx'.state # "ASSERT" /\ ReqLeft' <= y
  <2>1. CASE req_tx.state = "IDLE"
    <3>1. req_tx'.state = "IDLE"
      BY <2>1, TckFacts
    <3> QED
      BY <3>1, TckLeft
  <2>2. CASE req_tx.state = "DEASSERT"
    <3>1. req_tx'.state \in {"DEASSERT", "IDLE"} /\ ReqLeft' <= ReqLeft - 1
      BY <2>2, TckLeft
    <3>2. ReqLeft' \in Int
      BY TckLeft
    <3> QED
      BY <1>1, <1>3, <3>1, <3>2
  <2> QED
    BY <1>2, <2>1, <2>2
<1>5. RespLeft' <= y
  <2>1. CASE resp_rx.state = "IDLE"
    <3>1. resp_rx'.state = "IDLE"
      BY <1>2, <2>1, TckFacts DEF Returning, InFlight
    <3> QED
      BY <3>1, TckLeft
  <2>2. CASE resp_rx.state = "DEASSERT"
    BY <1>1, <1>3, <2>2, TckLeft
  <2> QED
    BY <1>2, <2>1, <2>2
<1> QED
  BY <1>4, <1>5

-----------------------------------------------------------------------------
(* Where an edge moves the call.                                           *)
LEMMA TckMoves ==
  ASSUME JtagDmiAssumption, LongScans, IInv, TckEdge
  PROVE  /\ Asked' <=> Accepts
         /\ Accepts => ~(Asked \/ Requested \/ Arrived \/ Answering \/ Returning \/ Returned)
         /\ Requested' <=> Asked \/ Requested
         /\ Asked => req_tx'.req_data = dtm.req_data
         /\ Requested => req_tx'.req_data = req_tx.req_data
         /\ Arrived' <=> Arrived
         /\ Answering' <=> Answering
         /\ Returning' <=> Returning /\ ~resp_rx.req
         /\ Returned' <=> Returning /\ resp_rx.req
         /\ Returned' => resp_rx'.recv_data = resp_tx.req_data
<1> USE DEF InFlight
<1>1. Rq!IInv /\ Rs!IInv /\ OneCall /\ Busy /\ RequestInTime
  BY DEF IInv
<1>2. (Asked' <=> Accepts) /\ (Accepts => ~Asked /\ ~IsBusy)
  BY DtmFacts
<1>3. Accepts => ~(Asked \/ Requested \/ Arrived \/ Answering \/ Returning \/ Returned)
  BY <1>1, <1>2 DEF IsBusy, Busy
<1>4. Asked => req_tx.state = "IDLE" /\ req_rx.state = "IDLE"
  BY <1>1, ReqLink DEF RequestInTime
<1>5. Requested => ~req_tx.ack
  BY <1>1, ReqLink DEF Requested
<1>6. Requested' <=> Asked \/ Requested
  BY <1>1, <1>4, <1>5, ReqLink, TckFacts DEF Requested
<1>7. /\ Asked => req_tx'.req_data = dtm.req_data
      /\ Requested => req_tx'.req_data = req_tx.req_data
  BY <1>4, <1>5, TckFacts DEF Requested
<1>8. (Arrived' <=> Arrived) /\ (Answering' <=> Answering)
  BY TckFacts DEF Arrived, Answering
<1>9. /\ resp_tx.state = "ASSERT" /\ resp_rx.state = "DEASSERT" => resp_rx.req
      /\ resp_rx.state = "IDLE" /\ resp_rx.req => resp_tx.state = "ASSERT"
      /\ resp_rx.state = "IDLE" => ~resp_rx.recv_rdy
  BY <1>1, RespLink
<1>10. Returning' <=> Returning /\ ~resp_rx.req
  BY <1>1, <1>9, RespLink, TckFacts DEF Returning
<1>11. Returned' <=> Returning /\ resp_rx.req
  BY <1>1, <1>9, RespLink, TckFacts DEF Returning, Returned
<1>12. Returned' => resp_rx'.recv_data = resp_tx.req_data
  BY <1>11, TckFacts DEF Returning
<1> QED
  BY <1>2, <1>3, <1>6, <1>7, <1>8, <1>10, <1>11, <1>12

LEMMA ClkMoves ==
  ASSUME IInv, ClkEdge
  PROVE  /\ Asked' <=> Asked
         /\ Requested' <=> Requested /\ ~req_rx.req
         /\ req_tx'.req_data = req_tx.req_data
         /\ Arrived' <=> Requested /\ req_rx.req
         /\ Arrived' => req_rx'.recv_data = req_tx.req_data
         /\ Answering' <=> Arrived
         /\ Answering' => dm'.read_data = req_rx.recv_data
         /\ Returning' <=> Answering \/ Returning
         /\ Answering => resp_tx'.req_data = dm.read_data
         /\ Returning => resp_tx'.req_data = resp_tx.req_data
         /\ Returned' <=> Returned
<1> USE DEF InFlight
<1>1. Rq!IInv /\ Rs!IInv /\ OneCall /\ RequestInTime
  BY DEF IInv
<1>2. /\ req_tx.state = "ASSERT" /\ req_rx.state = "DEASSERT" => req_rx.req
      /\ req_rx.state = "IDLE" /\ req_rx.req => req_tx.state = "ASSERT"
      /\ req_rx.state = "IDLE" => ~req_rx.recv_rdy
  BY <1>1, ReqLink
<1>3. Requested' <=> Requested /\ ~req_rx.req
  BY <1>1, <1>2, ReqLink, ClkFacts DEF Requested
<1>4. Arrived' <=> Requested /\ req_rx.req
  BY <1>1, <1>2, ReqLink, ClkFacts DEF Requested, Arrived
<1>5. Arrived' => req_rx'.recv_data = req_tx.req_data
  BY <1>4, ClkFacts DEF Requested
<1>6. Answering => resp_tx.state = "IDLE" /\ resp_rx.state = "IDLE"
  BY <1>1, RespLink DEF RequestInTime
<1>7. Returning => ~resp_tx.ack
  BY <1>1, RespLink DEF Returning
<1>8. Returning' <=> Answering \/ Returning
  BY <1>1, <1>6, <1>7, RespLink, ClkFacts DEF Returning
<1>9. /\ Answering => resp_tx'.req_data = dm.read_data
      /\ Returning => resp_tx'.req_data = resp_tx.req_data
  BY <1>6, <1>7, ClkFacts DEF Returning
<1>10. /\ Answering' <=> Arrived
       /\ Answering' => dm'.read_data = req_rx.recv_data
       /\ Asked' <=> Asked
       /\ Returned' <=> Returned
       /\ req_tx'.req_data = req_tx.req_data
  BY ClkFacts DEF Answering, Asked, Returned
<1> QED
  BY <1>3, <1>4, <1>5, <1>8, <1>9, <1>10

-----------------------------------------------------------------------------
LEMMA TckInv ==
  ASSUME JtagDmiAssumption, LongScans, IInv, TckEdge
  PROVE  IInv'
<1>1. Typed' /\ Shifted' /\ Rq!IInv' /\ Rs!IInv'
  BY TapFacts, DtmFacts, TckFacts DEF IInv, Typed
<1>2. OneCall /\ Carried /\ Busy /\ RequestInTime /\ AnswerInTime /\ FreeInTime
  BY DEF IInv
<1>3. OneCall'
  BY <1>2, TckMoves DEF OneCall
<1>4. Carried'
  <2>1. Asked' => dtm'.req_data \in Requests
    BY DtmFacts
  <2> QED
    BY <1>2, <2>1, TckMoves, TckFacts DEF Carried
<1>5. dtm'.dm_is_busy <=> Asked \/ (dtm.dm_is_busy /\ ~Returned)
  BY DtmFacts
<1>6. Asked' => ~Asked /\ ~dtm.dm_is_busy /\ Scanning /\ tap.state = "UPDATE_DR"
                /\ ~dtm.sticky_busy /\ req_tx.state = "IDLE"
  BY DtmFacts DEF IsBusy
<1>7. Busy'
  <2>1. Asked' => tap'.state \in {"SELECT_DR", "RUN_TEST_IDLE"} /\ ~dtm'.dm_is_busy
    BY <1>5, <1>6, TapFacts
  <2>2. Requested' \/ Arrived' \/ Answering' \/ Returning' \/ Returned' => dtm'.dm_is_busy
    BY <1>2, <1>5, TckMoves DEF OneCall, Busy
  <2> QED
    BY <2>1, <2>2 DEF Busy
<1>8. ReqLeft \in Nat /\ RespLeft \in Nat /\ ToUpdate \in Nat /\ ToUpdate' \in Nat
      /\ Ratio \in Nat \ {0} /\ ScanClocks \in Nat /\ ScanClocks >= 3 * Ratio - 1
  BY LeftFacts, TapFacts, Numbers
<1>9. Rq!IInv /\ Rs!IInv
  BY DEF IInv
<1>10. RequestInTime'
  <2>1. Asked' => req_tx'.state = "IDLE"
    BY <1>6, TckFacts
  <2>2. ASSUME Asked' \/ Requested'
        PROVE  resp_rx'.state = "IDLE"
    <3>1. resp_rx.state = "IDLE" /\ ~Returning
      <4>1. CASE Asked'
        <5>1. RespLeft <= ToUpdate /\ ToUpdate = 0
          BY <1>2, <1>6, <4>1, TapFacts DEF FreeInTime, Left
        <5>2. resp_rx.state = "IDLE"
          BY <1>8, <5>1, LeftFacts
        <5> QED
          BY <4>1, <5>2, TckMoves
      <4>2. CASE Asked \/ Requested
        BY <1>2, <4>2 DEF RequestInTime, OneCall
      <4> QED
        BY <2>2, <4>1, <4>2, TckMoves
    <3>2. ~resp_rx.req
      BY <1>9, <3>1, RespLink DEF Returning, InFlight
    <3> QED
      BY <3>2, TckFacts
  <2>3. Requested' => (req_rx.req_d => ~resp_tx.ack_d) /\ (req_rx.req => ~resp_tx.ack)
    <3>1. Asked => ~req_rx.req_d /\ ~req_rx.req
      BY <1>2, <1>9, ReqLink DEF RequestInTime
    <3> QED
      BY <1>2, <3>1, TckMoves DEF RequestInTime
  <2>4. Arrived' \/ Answering' => resp_tx.state = "IDLE"
    BY <1>2, TckMoves DEF RequestInTime
  <2> QED
    BY <2>1, <2>2, <2>3, <2>4, TckFacts DEF RequestInTime
<1>11. AnswerInTime'
  <2>1. ASSUME Returning
        PROVE  /\ req_rx.ack \/ req_tx.state # "ASSERT"
               /\ req_tx.state # "ASSERT" => req_tx'.state # "ASSERT"
    BY <1>2, <1>9, <2>1, ReqLink, TckFacts DEF OneCall, Requested, InFlight
  <2>2. Returning' => req_tx'.ack_d \/ req_tx'.state # "ASSERT"
    BY <2>1, TckMoves, TckFacts
  <2>3. Returning' /\ resp_rx'.req => req_tx'.ack \/ req_tx'.state # "ASSERT"
    BY <1>2, <2>1, TckMoves, TckFacts DEF AnswerInTime
  <2>4. req_tx'.state = "DEASSERT" => ReqLeft' <= 3 * Ratio + 2
    <3>1. CASE req_tx.state = "ASSERT"
      BY <3>1, TckLeft
    <3>2. CASE req_tx.state = "DEASSERT"
      <4>1. ReqLeft <= 3 * Ratio + 2 /\ ReqLeft' <= ReqLeft - 1 /\ ReqLeft' \in Int
        BY <1>2, <3>2, TckLeft DEF AnswerInTime
      <4> QED
        BY <1>8, <4>1
    <3>3. CASE req_tx.state = "IDLE"
      BY <3>3, TckFacts
    <3> QED
      BY <1>9, <3>1, <3>2, <3>3, ReqLink
  <2>5. ASSUME Returned'
        PROVE  req_tx'.state # "ASSERT" /\ ReqLeft' <= 3 * Ratio + 2 /\ RespLeft' <= 3 * Ratio + 2
    <3>1. Returning /\ resp_rx.req
      BY <2>5, TckMoves
    <3>2. req_tx'.state # "ASSERT"
      BY <1>2, <2>1, <3>1, TckFacts DEF AnswerInTime
    <3>3. req_tx'.state \in {"IDLE", "DEASSERT"}
      <4>1. ~Asked
        BY <1>2, <3>1 DEF OneCall
      <4> QED
        BY <1>9, <3>2, <4>1, ReqLink, TckFacts
    <3>4. ReqLeft' <= 3 * Ratio + 2
      BY <1>8, <2>4, <3>3, TckLeft
    <3>5. RespLeft' <= 3 * Ratio + 2
      BY <3>1, TckLeft DEF Returning, InFlight
    <3> QED
      BY <3>2, <3>4, <3>5
  <2> QED
    BY <2>2, <2>3, <2>4, <2>5 DEF AnswerInTime, Left
<1>12. FreeInTime'
  <2>1. ASSUME ~Asked', ~dtm'.dm_is_busy
        PROVE  req_tx'.state # "ASSERT" /\ ReqLeft' <= 3 * Ratio + 1 /\ RespLeft' <= 3 * Ratio + 1
    <3>1. ~Asked /\ (~dtm.dm_is_busy \/ Returned)
      BY <1>5, <2>1
    <3>2. ~Returning
      BY <1>2, <3>1 DEF OneCall, Busy
    <3>3. Left(3 * Ratio + 2)
      <4>1. CASE Returned
        BY <1>2, <4>1 DEF AnswerInTime
      <4>2. CASE ~dtm.dm_is_busy
        BY <1>2, <1>8, <3>1, <4>2 DEF FreeInTime, Left
      <4> QED
        BY <3>1, <4>1, <4>2
    <3>4. 3 * Ratio + 2 \in Nat /\ 3 * Ratio + 1 \in Nat /\ 3 * Ratio + 1 >= (3 * Ratio + 2) - 1
      BY <1>8
    <3> QED
      BY <3>1, <3>2, <3>3, <3>4, LeftFalls
  <2>2. ASSUME Scanning', ~dtm'.sticky_busy
        PROVE  /\ ~dtm'.dm_is_busy
               /\ req_tx'.state # "ASSERT" /\ ReqLeft' <= ToUpdate' /\ RespLeft' <= ToUpdate'
    <3>1. CASE Scanning /\ tap.state # "UPDATE_DR" /\ ToUpdate' >= ToUpdate - 1
      <4>1. ~dtm.sticky_busy
        BY <2>2, <3>1, DtmFacts
      <4>2. ~dtm.dm_is_busy /\ Left(ToUpdate)
        BY <1>2, <3>1, <4>1 DEF FreeInTime
      <4>3. ~Asked /\ ~Returning
        BY <1>2, <3>1, <4>2 DEF Busy, Scanning
      <4> QED
        BY <1>5, <1>8, <3>1, <4>2, <4>3, LeftFalls
    <3>2. CASE tap.ir = "DMI" /\ tap.state = "CAPTURE_DR" /\ ToUpdate' >= ScanClocks + 1
      <4>1. ~dtm.dm_is_busy
        BY <2>2, <3>2, DtmFacts DEF IsBusy
      <4>2. ~Asked /\ ~Returning
        BY <1>2, <3>2, <4>1 DEF Busy
      <4>3. Left(3 * Ratio + 1) /\ 3 * Ratio + 1 \in Nat /\ ToUpdate' >= (3 * Ratio + 1) - 1
        BY <1>2, <1>8, <3>2, <4>1, <4>2 DEF FreeInTime
      <4> QED
        BY <1>5, <1>8, <4>1, <4>2, <4>3, LeftFalls
    <3> QED
      BY <2>2, <3>1, <3>2, TapFacts
  <2> QED
    BY <2>1, <2>2 DEF FreeInTime, Left
<1> QED
  BY <1>1, <1>3, <1>4, <1>7, <1>10, <1>11, <1>12 DEF IInv

LEMMA ClkInv ==
  ASSUME JtagDmiAssumption, LongScans, IInv, ClkEdge
  PROVE  IInv'
<1>1. OneCall /\ Carried /\ Busy /\ RequestInTime /\ AnswerInTime /\ FreeInTime
      /\ Rq!IInv /\ Rs!IInv
  BY DEF IInv
<1>2. Typed' /\ Shifted' /\ Rq!IInv' /\ Rs!IInv'
  BY Numbers, ClkFacts DEF IInv, Typed, Shifted
<1>3. OneCall' /\ Carried'
  BY <1>1, ClkMoves, ClkFacts DEF OneCall, Carried
<1>4. Busy'
  BY <1>1, ClkMoves, ClkFacts DEF Busy
<1>5. ReqLeft \in Nat /\ RespLeft \in Nat /\ ReqLeft' \in Int /\ RespLeft' \in Int
      /\ Ratio \in Nat /\ ToUpdate' = ToUpdate /\ ToUpdate \in Nat
  BY LeftFacts, Numbers, ClkFacts, ClkLeft, ToUpdateNat DEF ToUpdate
<1>6. \A x \in Nat : Left(x) => req_tx'.state # "ASSERT" /\ ReqLeft' <= x /\ RespLeft' <= x
  BY <1>5, ClkLeft DEF Left
<1>7. RequestInTime'
  <2>1. Asked' => req_tx'.state = "IDLE"
    BY <1>1, ClkMoves, ClkFacts DEF RequestInTime
  <2>2. Asked' \/ Requested' => resp_rx'.state = "IDLE"
    BY <1>1, ClkMoves, ClkFacts DEF RequestInTime
  <2>3. Requested' => (req_rx'.req_d => ~resp_tx'.ack_d) /\ (req_rx'.req => ~resp_tx'.ack)
    BY <1>1, ClkMoves, ClkFacts, RespLink DEF RequestInTime
  <2>4. Arrived' => resp_tx'.state = "IDLE"
    BY <1>1, ClkMoves, ClkFacts, RespLink DEF RequestInTime, OneCall, Returning, InFlight
  <2>5. Answering' => resp_tx'.state = "IDLE"
    BY <1>1, ClkMoves, ClkFacts DEF RequestInTime, OneCall
  <2> QED
    BY <2>1, <2>2, <2>3, <2>4, <2>5 DEF RequestInTime
<1>8. AnswerInTime'
  <2>1. Answering => ~resp_rx.req_d /\ ~resp_rx.req
    BY <1>1, RespLink DEF RequestInTime
  <2>2. /\ Returning' /\ resp_rx'.req_d => req_tx'.ack_d \/ req_tx'.state # "ASSERT"
        /\ Returning' /\ resp_rx'.req => req_tx'.ack \/ req_tx'.state # "ASSERT"
    BY <1>1, <2>1, ClkMoves, ClkFacts DEF AnswerInTime
  <2>3. 3 * Ratio + 2 \in Nat
    BY <1>5
  <2>4. Returned' => req_tx'.state # "ASSERT" /\ ReqLeft' <= 3 * Ratio + 2
                     /\ RespLeft' <= 3 * Ratio + 2
    BY <1>1, <1>6, <2>3, ClkMoves DEF AnswerInTime
  <2>5. req_tx'.state = "DEASSERT" => ReqLeft' <= 3 * Ratio + 2
    <3>1. req_tx' = req_tx
      BY ClkFacts
    <3> QED
      BY <1>1, <1>5, <2>3, <3>1, ClkLeft DEF AnswerInTime
  <2> QED
    BY <2>2, <2>4, <2>5 DEF AnswerInTime, Left
<1>9. FreeInTime'
  <2>1. tap' = tap /\ dtm' = dtm /\ 3 * Ratio + 1 \in Nat
    BY <1>5, ClkFacts
  <2>2. ~Asked' /\ ~dtm'.dm_is_busy => req_tx'.state # "ASSERT" /\ ReqLeft' <= 3 * Ratio + 1
                                        /\ RespLeft' <= 3 * Ratio + 1
    BY <1>1, <1>6, <2>1, ClkMoves DEF FreeInTime
  <2>3. Scanning' /\ ~dtm'.sticky_busy =>
          /\ ~dtm'.dm_is_busy
          /\ req_tx'.state # "ASSERT" /\ ReqLeft' <= ToUpdate' /\ RespLeft' <= ToUpdate'
    BY <1>1, <1>5, <1>6, <2>1 DEF FreeInTime, Scanning
  <2> QED
    BY <2>2, <2>3 DEF FreeInTime, Left
<1> QED
  BY <1>2, <1>3, <1>4, <1>7, <1>8, <1>9 DEF IInv

LEMMA InitInv ==
  ASSUME JtagDmiAssumption, LongScans, Init
  PROVE  IInv
<1>1. Ratio \in Nat \ {0} /\ ScanClocks \in Nat
  BY Numbers
<1>2. Rq!IInv /\ Rs!IInv
  BY ZeroAssumption, Rq!InitIInv, Rs!InitIInv DEF Init, Rq!Init, Rs!Init,
     Rq!TxReset, Rq!RxReset, Rs!TxReset, Rs!RxReset, TxReset, RxReset
<1>3. Typed /\ Shifted
  BY <1>1, ZeroAssumption DEF Init, Typed, Shifted, TapStates, IrRegs
<1>4. /\ ~Asked /\ ~Requested /\ ~Arrived /\ ~Answering /\ ~Returning /\ ~Returned
      /\ ~Scanning /\ req_tx.state = "IDLE" /\ resp_rx.state = "IDLE"
  BY DEF Init, TxReset, RxReset, Asked, Requested, Arrived, Answering, Returning, Returned,
     InFlight, Scanning
<1>5. OneCall /\ Carried /\ Busy /\ RequestInTime
  BY <1>4 DEF OneCall, Carried, Busy, RequestInTime
<1>6. AnswerInTime /\ FreeInTime
  BY <1>1, <1>4 DEF AnswerInTime, FreeInTime, Left, ReqLeft, RespLeft
<1> QED
  BY <1>2, <1>3, <1>5, <1>6 DEF IInv

LEMMA StepInv ==
  ASSUME JtagDmiAssumption, LongScans, IInv, [Next]_vars
  PROVE  IInv'
<1>1. CASE TckEdge
  BY <1>1, TckInv
<1>2. CASE ClkEdge
  BY <1>2, ClkInv
<1>3. CASE UNCHANGED vars
  <2>1. /\ tap' = tap /\ dtm' = dtm /\ req_tx' = req_tx /\ resp_rx' = resp_rx
        /\ req_rx' = req_rx /\ resp_tx' = resp_tx /\ dm' = dm /\ ahead' = ahead
    BY <1>3 DEF vars, tckVars, clkVars
  <2>2. Rq!IInv' /\ Rs!IInv'
    BY <2>1, ZeroAssumption, Rq!NextIInv, Rs!NextIInv DEF IInv, Rq!vars, Rs!vars
  <2>3. Typed' /\ Shifted' /\ OneCall' /\ Carried' /\ Busy' /\ RequestInTime'
    BY <2>1 DEF IInv, Typed, Shifted, OneCall, Carried, Busy, RequestInTime,
       Asked, Requested, Arrived, Answering, Returning, Returned, InFlight
  <2>4. AnswerInTime' /\ FreeInTime'
    BY <2>1 DEF IInv, AnswerInTime, FreeInTime, Left, ReqLeft, RespLeft, Edges, ToUpdate,
       Asked, Returning, Returned, InFlight, Scanning
  <2> QED
    BY <2>2, <2>3, <2>4 DEF IInv
<1> QED
  BY <1>1, <1>2, <1>3 DEF Next

LEMMA Inductive ==
  ASSUME JtagDmiAssumption, LongScans
  PROVE  Spec => []IInv
BY InitInv, StepInv, PTL DEF Spec

-----------------------------------------------------------------------------
(* Types of the registers on both sides (rtl/debug/jtag_driver.v:58-121,   *)
(* jtag_dm.v:73-103).                                                      *)
THEOREM TransportTypes ==
  ASSUME JtagDmiAssumption, LongScans
  PROVE  Spec => []TypeOK
<1>1. ASSUME IInv PROVE TypeOK
  BY <1>1, ReqLink, RespLink DEF IInv, Typed, TypeOK
<1> QED
  BY <1>1, Inductive, PTL

(* Where the request or the answer is, read off the place of the call.     *)
LEMMA CallWhere ==
  ASSUME OneCall
  PROVE  /\ Asked => Called = dtm.req_data /\ Executed = Zero
         /\ Requested => Called = req_tx.req_data /\ Executed = Zero
         /\ Arrived => Called = req_rx.recv_data /\ Executed = Zero
         /\ Answering => Called = Zero /\ Executed = dm.read_data
         /\ Returning => Called = Zero /\ Executed = resp_tx.req_data
         /\ Returned => Called = Zero /\ Executed = resp_rx.recv_data
         /\ ~(Asked \/ Requested \/ Arrived \/ Answering \/ Returning \/ Returned)
              => Called = Zero /\ Executed = Zero
BY DEF OneCall, Called, Executed, Asked, Requested, Arrived, Answering, Returning, Returned

LEMMA CallWhereNext ==
  ASSUME OneCall'
  PROVE  /\ Asked' => Called' = dtm'.req_data /\ Executed' = Zero
         /\ Requested' => Called' = req_tx'.req_data /\ Executed' = Zero
         /\ Arrived' => Called' = req_rx'.recv_data /\ Executed' = Zero
         /\ Answering' => Called' = Zero /\ Executed' = dm'.read_data
         /\ Returning' => Called' = Zero /\ Executed' = resp_tx'.req_data
         /\ Returned' => Called' = Zero /\ Executed' = resp_rx'.recv_data
         /\ ~(Asked' \/ Requested' \/ Arrived' \/ Answering' \/ Returning' \/ Returned')
              => Called' = Zero /\ Executed' = Zero
BY DEF OneCall, Called, Executed, Asked, Requested, Arrived, Answering, Returning, Returned

(* An edge of TCK accepts a call, returns an answer, or is not seen.       *)
LEMMA TckRpc ==
  ASSUME JtagDmiAssumption, LongScans, IInv, IInv', TckEdge
  PROVE  [Rpc!Next]_(Rpc!vars)
<1>1. OneCall /\ OneCall' /\ Carried
  BY DEF IInv
<1>2. dtm'.resp = IF Returned THEN resp_rx.recv_data ELSE dtm.resp
  BY DtmFacts
<1>3. CASE Accepts
  <2>1. Called = Zero /\ Executed = Zero /\ dtm'.resp = dtm.resp
    BY <1>1, <1>2, <1>3, CallWhere, TckMoves
  <2>2. Called' = tap.shift /\ Executed' = Zero /\ tap.shift \in Data \ {Zero}
    BY <1>1, <1>3, CallWhereNext, TckMoves, DtmFacts DEF Requests
  <2>3. Rpc!Call(tap.shift)
    BY <2>1, <2>2 DEF Rpc!Call
  <2> QED
    BY <2>2, <2>3 DEF Rpc!Next
<1>4. CASE Returned
  <2>1. Called = Zero /\ Executed = resp_rx.recv_data /\ resp_rx.recv_data # Zero
    BY <1>1, <1>4, CallWhere DEF Carried, Requests
  <2>2. Called' = Zero /\ Executed' = Zero
    BY <1>1, <1>4, CallWhereNext, TckMoves DEF OneCall
  <2>3. Rpc!Return
    BY <1>2, <1>4, <2>1, <2>2 DEF Rpc!Return
  <2> QED
    BY <2>3 DEF Rpc!Next
<1>5. CASE ~Accepts /\ ~Returned
  <2>1. dtm'.resp = dtm.resp /\ dtm'.req_data = dtm.req_data
    BY <1>2, <1>5, DtmFacts
  <2>2. Called' = Called /\ Executed' = Executed
    <3>1. CASE Asked \/ Requested
      BY <1>1, <3>1, CallWhere, CallWhereNext, TckMoves
    <3>2. CASE Arrived \/ Answering
      BY <1>1, <3>2, CallWhere, CallWhereNext, TckMoves, TckFacts
    <3>3. CASE Returning
      BY <1>1, <3>3, CallWhere, CallWhereNext, TckMoves, TckFacts
    <3>4. CASE ~(Asked \/ Requested \/ Arrived \/ Answering \/ Returning)
      BY <1>1, <1>5, <3>4, CallWhere, CallWhereNext, TckMoves
    <3> QED
      BY <3>1, <3>2, <3>3, <3>4
  <2> QED
    BY <2>1, <2>2 DEF Rpc!vars
<1> QED
  BY <1>3, <1>4, <1>5

(* An edge of clk executes the call or is not seen.                        *)
LEMMA ClkRpc ==
  ASSUME IInv, IInv', ClkEdge
  PROVE  [Rpc!Next]_(Rpc!vars)
<1>1. OneCall /\ OneCall' /\ Carried
  BY DEF IInv
<1>2. dtm' = dtm /\ resp_rx' = resp_rx
  BY ClkFacts
<1>3. CASE Arrived
  <2>1. /\ Called = req_rx.recv_data /\ Executed = Zero
        /\ req_rx.recv_data # Zero
    BY <1>1, <1>3, CallWhere DEF Carried, Requests
  <2>2. Called' = Zero /\ Executed' = req_rx.recv_data
    BY <1>1, <1>3, CallWhereNext, ClkMoves
  <2>3. Rpc!Execute
    BY <1>2, <2>1, <2>2 DEF Rpc!Execute
  <2> QED
    BY <2>3 DEF Rpc!Next
<1>4. CASE ~Arrived
  <2>1. Called' = Called /\ Executed' = Executed
    <3>1. CASE Asked \/ Requested
      BY <1>1, <1>2, <3>1, CallWhere, CallWhereNext, ClkMoves
    <3>2. CASE Answering \/ Returning
      BY <1>1, <3>2, CallWhere, CallWhereNext, ClkMoves
    <3>3. CASE Returned
      BY <1>1, <1>2, <3>3, CallWhere, CallWhereNext, ClkMoves
    <3>4. CASE ~(Asked \/ Requested \/ Answering \/ Returning \/ Returned)
      BY <1>1, <1>4, <3>4, CallWhere, CallWhereNext, ClkMoves
    <3> QED
      BY <3>1, <3>2, <3>3, <3>4
  <2> QED
    BY <1>2, <2>1 DEF Rpc!vars
<1> QED
  BY <1>3, <1>4

(* The transport is a remote procedure call: no accepted request is lost,  *)
(* executed twice or overtaken, and no answer is lost (jtag_driver.v:186-  *)
(* 248, jtag_dm.v:294-340), if a scan is long for the ratio of the clocks. *)
THEOREM CallsAndAnswers ==
  ASSUME JtagDmiAssumption, LongScans
  PROVE  Spec => RpcSpec
<1>1. ASSUME Init PROVE Rpc!Init
  BY <1>1 DEF Init, Rpc!Init, Called, Executed, InFlight, TxReset, RxReset
<1>2. ASSUME IInv, IInv', [Next]_vars PROVE [Rpc!Next]_(Rpc!vars)
  <2>1. CASE TckEdge
    BY <1>2, <2>1, TckRpc
  <2>2. CASE ClkEdge
    BY <1>2, <2>2, ClkRpc
  <2>3. CASE UNCHANGED vars
    BY <2>3 DEF vars, tckVars, clkVars, Rpc!vars, Called, Executed, InFlight
  <2> QED
    BY <1>2, <2>1, <2>2, <2>3 DEF Next
<1> QED
  BY <1>1, <1>2, Inductive, PTL DEF Spec, RpcSpec, Rpc!Spec

(* A scan that does not return busy returns the answer to the last         *)
(* accepted request (jtag_driver.v:171, 237-248).                          *)
THEOREM NotBusyIsAnswered ==
  ASSUME JtagDmiAssumption, LongScans
  PROVE  Spec => []NotBusyMeansAnswered
<1>1. ASSUME IInv PROVE NotBusyMeansAnswered
  <2> SUFFICES ASSUME tap.state = "CAPTURE_DR", ~IsBusy
               PROVE  Called = Zero /\ Executed = Zero
    BY DEF NotBusyMeansAnswered
  <2>1. ~(Asked \/ Requested \/ Arrived \/ Answering \/ Returning \/ Returned)
    BY <1>1 DEF IInv, Busy, IsBusy
  <2> QED
    BY <1>1, <2>1, CallWhere DEF IInv
<1> QED
  BY <1>1, Inductive, PTL

(* A request that ends a scan which did not return busy is accepted        *)
(* (jtag_driver.v:195-199).                                                *)
THEOREM NothingDropped ==
  ASSUME JtagDmiAssumption, LongScans
  PROVE  Spec => []NoSilentDrop
<1>1. ASSUME IInv PROVE NoSilentDrop
  <2> SUFFICES ASSUME tap.state = "UPDATE_DR", tap.ir = "DMI", ~IsBusy
               PROVE  req_tx.idle
    BY DEF NoSilentDrop, Updates
  <2>1. ReqLeft <= ToUpdate
    BY <1>1 DEF IInv, FreeInTime, Left, Scanning, IsBusy
  <2>2. ToUpdate = 0
    BY DEF ToUpdate
  <2>3. req_tx.state = "IDLE"
    BY <1>1, <2>1, <2>2, LeftFacts
  <2> QED
    BY <1>1, <2>3, ReqLink DEF IInv
<1> QED
  BY <1>1, Inductive, PTL
=============================================================================
