--------------------------- MODULE HandshakeRegs ---------------------------
(***************************************************************************)
(* The two halves of the clock-domain crossing of tiny-risc-v:             *)
(* rtl/utils/full_handshake_tx.v and rtl/utils/full_handshake_rx.v.  Each  *)
(* half is a record of its registers and an operator that gives the        *)
(* registers after one rising edge of its own clock.  Handshake connects   *)
(* one of each; JtagDmi connects two pairs back to back.                   *)
(***************************************************************************)

CONSTANTS Data,   \* the words that cross, DW bits wide in the source
          Zero    \* the all-zero word that the registers are cleared to

ASSUME ZeroAssumption == Zero \in Data

TxStates == {"IDLE", "ASSERT", "DEASSERT"}
RxStates == {"IDLE", "DEASSERT"}

TxRegs == [state : TxStates, ack_d : BOOLEAN, ack : BOOLEAN,
           req : BOOLEAN, req_data : Data, idle : BOOLEAN]

RxRegs == [state : RxStates, req_d : BOOLEAN, req : BOOLEAN,
           ack : BOOLEAN, recv_rdy : BOOLEAN, recv_data : Data]

TxReset == [state |-> "IDLE", ack_d |-> FALSE, ack |-> FALSE,
            req |-> FALSE, req_data |-> Zero, idle |-> TRUE]

RxReset == [state |-> "IDLE", req_d |-> FALSE, req |-> FALSE,
            ack |-> FALSE, recv_rdy |-> FALSE, recv_data |-> Zero]

-----------------------------------------------------------------------------
(* A bug: the request word is cleared one clock after it was latched       *)
(* instead of being held until the acknowledge.                            *)
TxStep_DataNotHeld(t, ack_i, req_i, req_data_i) ==
  LET s == [t EXCEPT !.ack_d = ack_i, !.ack = t.ack_d, !.req_data = Zero] IN
  CASE t.state = "IDLE" /\ req_i ->
         [s EXCEPT !.state = "ASSERT", !.idle = FALSE,
                   !.req = TRUE, !.req_data = req_data_i]
    [] t.state = "ASSERT" /\ t.ack ->
         [s EXCEPT !.state = "DEASSERT", !.req = FALSE]
    [] t.state = "DEASSERT" /\ ~t.ack -> [s EXCEPT !.state = "IDLE", !.idle = TRUE]
    [] OTHER -> s

(* A bug: the receiver does not wait for the request to fall, so it takes  *)
(* the same request again.                                                 *)
RxStep_NoWaitReqLow(r, req_i, req_data_i) ==
  LET s == [r EXCEPT !.req_d = req_i, !.req = r.req_d] IN
  CASE r.state = "IDLE" /\ r.req ->
         [s EXCEPT !.state = "DEASSERT", !.ack = TRUE,
                   !.recv_rdy = TRUE, !.recv_data = req_data_i]
    [] r.state = "DEASSERT" ->
         [s EXCEPT !.state = "IDLE", !.ack = r.req,
                   !.recv_rdy = FALSE, !.recv_data = Zero]
    [] OTHER -> s
-----------------------------------------------------------------------------

(* One rising edge of the transmitter's clock.  ack_i is the level of the  *)
(* receiver's acknowledge, which passes through two flops (ack_d, ack)     *)
(* before the state machine reads it; req_i and req_data_i come from the   *)
(* client and are looked at in IDLE only.                                  *)
TxStep(t, ack_i, req_i, req_data_i) ==
  LET s == [t EXCEPT !.ack_d = ack_i, !.ack = t.ack_d] IN
  CASE t.state = "IDLE" /\ req_i ->
         [s EXCEPT !.state = "ASSERT", !.idle = FALSE,
                   !.req = TRUE, !.req_data = req_data_i]
    [] t.state = "IDLE" /\ ~req_i ->
         [s EXCEPT !.idle = TRUE, !.req = FALSE]
    [] t.state = "ASSERT" /\ t.ack ->
         [s EXCEPT !.state = "DEASSERT", !.req = FALSE, !.req_data = Zero]
    [] t.state = "DEASSERT" /\ ~t.ack ->
         [s EXCEPT !.state = "IDLE", !.idle = TRUE]
    [] OTHER -> s

(* One rising edge of the receiver's clock.  The request passes through    *)
(* two flops; the word itself is read directly when the synchronised       *)
(* request is seen.  recv_rdy and recv_data last one clock.                *)
RxStep(r, req_i, req_data_i) ==
  LET s == [r EXCEPT !.req_d = req_i, !.req = r.req_d] IN
  CASE r.state = "IDLE" /\ r.req ->
         [s EXCEPT !.state = "DEASSERT", !.ack = TRUE,
                   !.recv_rdy = TRUE, !.recv_data = req_data_i]
    [] r.state = "DEASSERT" /\ r.req ->
         [s EXCEPT !.recv_rdy = FALSE, !.recv_data = Zero]
    [] r.state = "DEASSERT" /\ ~r.req ->
         [s EXCEPT !.state = "IDLE", !.ack = FALSE,
                   !.recv_rdy = FALSE, !.recv_data = Zero]
    [] OTHER -> s
=============================================================================
