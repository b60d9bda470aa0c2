----------------------------- MODULE Handshake -----------------------------
(***************************************************************************)
(* A full_handshake_tx connected to a full_handshake_rx, each on a clock   *)
(* of its own.  Nothing relates the two clocks: an edge of one of them, or *)
(* of both at the same instant, may come at any time.  When both edges     *)
(* coincide, a flop that samples a level which is changing at that very    *)
(* edge may settle to the old or to the new level, and a word sampled      *)
(* while it changes may be any word at all.                                *)
(*                                                                         *)
(* The client may raise req_i at any time: a client that respects idle_o   *)
(* is the case in which idle holds.                                        *)
(***************************************************************************)
EXTENDS HandshakeRegs

VARIABLES tx, rx
vars == <<tx, rx>>

Init == tx = TxReset /\ rx = RxReset

TxEdge(req_i, d) ==
  /\ tx' = TxStep(tx, rx.ack, req_i, d)
  /\ UNCHANGED rx

RxEdge ==
  /\ rx' = RxStep(rx, tx.req, tx.req_data)
  /\ UNCHANGED tx

BothEdges(req_i, d) ==
  \E a \in BOOLEAN, q \in BOOLEAN, w \in Data :
    /\ tx' = TxStep(tx, a, req_i, d)
    /\ rx' = RxStep(rx, q, w)
    /\ a \in {rx.ack, rx'.ack}
    /\ q \in {tx.req, tx'.req}
    /\ tx'.req_data = tx.req_data => w = tx.req_data

TxTick == \E req_i \in BOOLEAN, d \in Data : TxEdge(req_i, d) \/ BothEdges(req_i, d)
RxTick == RxEdge \/ \E req_i \in BOOLEAN, d \in Data : BothEdges(req_i, d)

Next == TxTick \/ RxTick

Spec == Init /\ [][Next]_vars

(* Both clocks run.                                                        *)
FairSpec == Spec /\ WF_vars(TxTick) /\ WF_vars(RxTick)
-----------------------------------------------------------------------------
(* Types, and the registers that the source keeps beside the state: idle,  *)
(* req and ack each decode the state of their side.                        *)
TypeOK == /\ tx \in TxRegs
          /\ rx \in RxRegs
          /\ tx.idle <=> tx.state = "IDLE"
          /\ tx.req <=> tx.state = "ASSERT"
          /\ rx.ack <=> rx.state = "DEASSERT"

(* A word is on its way between its acceptance and the clock at which the  *)
(* receiver latches it.                                                    *)
InFlight == tx.state = "ASSERT" /\ rx.state = "IDLE"

Ch == INSTANCE Channel WITH
        idle <- tx.idle,
        full <- InFlight,
        word <- IF InFlight THEN tx.req_data ELSE Zero,
        rdy  <- rx.recv_rdy,
        got  <- rx.recv_data

(* The handshake is a one-word channel: whatever the two clocks do, every  *)
(* word accepted in IDLE is received once, unchanged and in order, and the *)
(* sender is told idle only when the whole four-phase exchange is over     *)
(* (full_handshake_tx.v:60-141, full_handshake_rx.v:56-122).               *)
ChannelSpec == Ch!Spec

(* With both clocks running the exchange always completes: the word is     *)
(* handed over, its pulse ends and the sender becomes idle again.          *)
ChannelFairSpec == Ch!FairSpec

(* The receiver reads req_data_i without synchronising it.  This is safe   *)
(* because the word never changes at an edge at which it is latched, not   *)
(* even when both clocks tick at once (full_handshake_rx.v:107-109).       *)
Latching == rx'.recv_rdy /\ ~rx.recv_rdy

DataStable ==
  [][Latching => /\ tx.req /\ tx'.req
                 /\ tx'.req_data = tx.req_data
                 /\ rx'.recv_data = tx.req_data]_vars

(* An idle transmitter means a quiet link: the line and all synchroniser   *)
(* flops of both sides are low, so no stale acknowledge can be taken for   *)
(* the answer to the next request (full_handshake_tx.v:77-84).             *)
IdleIsQuiet ==
  tx.idle => /\ ~tx.req /\ ~tx.ack_d /\ ~tx.ack
             /\ ~rx.req_d /\ ~rx.req /\ ~rx.ack /\ ~rx.recv_rdy
=============================================================================
