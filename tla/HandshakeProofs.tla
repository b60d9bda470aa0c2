-------------------------- MODULE HandshakeProofs --------------------------
(***************************************************************************)
(* Safety of the full handshake for every set of words.                    *)
(*                                                                         *)
(* The inductive invariant describes the four phases.  A level travels     *)
(* around the loop  tx.req -> rx.req_d -> rx.req -> rx.ack -> tx.ack_d ->  *)
(* tx.ack, and in each phase it has travelled up to some point of it: a    *)
(* rising level in ASSERT, a falling one in DEASSERT, none in IDLE.        *)
(***************************************************************************)
EXTENDS Handshake, TLAPS

Rising == /\ rx.req => rx.req_d
          /\ rx.ack => rx.req
          /\ tx.ack_d => rx.ack
          /\ tx.ack => tx.ack_d

Falling == /\ rx.req_d => rx.req
           /\ rx.req => rx.ack
           /\ rx.ack => tx.ack_d
           /\ tx.ack_d => tx.ack

Pulse == /\ rx.recv_rdy => rx.ack
         /\ ~rx.recv_rdy => rx.recv_data = Zero

IInv == /\ TypeOK
        /\ IdleIsQuiet
        /\ tx.state = "ASSERT" => Rising
        /\ tx.state = "DEASSERT" => Falling
        /\ Pulse

-----------------------------------------------------------------------------
(* What one edge of the transmitter's clock does, field by field.          *)
LEMMA TxStepFields ==
  ASSUME NEW t \in TxRegs, NEW a \in BOOLEAN, NEW q \in BOOLEAN, NEW d \in Data
  PROVE  LET u == TxStep(t, a, q, d) IN
         /\ u \in TxRegs
         /\ u.ack_d = a
         /\ u.ack = t.ack_d
         /\ t.state = "IDLE" /\ q =>
              u.state = "ASSERT" /\ ~u.idle /\ u.req /\ u.req_data = d
         /\ t.state = "IDLE" /\ ~q =>
              u.state = "IDLE" /\ u.idle /\ ~u.req /\ u.req_data = t.req_data
         /\ t.state = "ASSERT" /\ t.ack =>
              u.state = "DEASSERT" /\ u.idle = t.idle /\ ~u.req /\ u.req_data = Zero
         /\ t.state = "DEASSERT" /\ ~t.ack =>
              u.state = "IDLE" /\ u.idle /\ u.req = t.req /\ u.req_data = t.req_data
         /\ (t.state = "ASSERT" /\ ~t.ack) \/ (t.state = "DEASSERT" /\ t.ack) =>
              /\ u.state = t.state /\ u.idle = t.idle
              /\ u.req = t.req /\ u.req_data = t.req_data
  BY ZeroAssumption DEF TxStep, TxRegs, TxStates

(* What one edge of the receiver's clock does, field by field.             *)
LEMMA RxStepFields ==
  ASSUME NEW r \in RxRegs, NEW q \in BOOLEAN, NEW w \in Data
  PROVE  LET u == RxStep(r, q, w) IN
         /\ u \in RxRegs
         /\ u.req_d = q
         /\ u.req = r.req_d
         /\ r.state = "IDLE" /\ r.req =>
              u.state = "DEASSERT" /\ u.ack /\ u.recv_rdy /\ u.recv_data = w
         /\ r.state = "IDLE" /\ ~r.req =>
              /\ u.state = "IDLE" /\ u.ack = r.ack
              /\ u.recv_rdy = r.recv_rdy /\ u.recv_data = r.recv_data
         /\ r.state = "DEASSERT" /\ r.req =>
              u.state = "DEASSERT" /\ u.ack = r.ack /\ ~u.recv_rdy /\ u.recv_data = Zero
         /\ r.state = "DEASSERT" /\ ~r.req =>
              u.state = "IDLE" /\ ~u.ack /\ ~u.recv_rdy /\ u.recv_data = Zero
  BY ZeroAssumption DEF RxStep, RxRegs, RxStates
-----------------------------------------------------------------------------
LEMMA InitIInv == Init => IInv
  BY ZeroAssumption DEF Init, IInv, TypeOK, IdleIsQuiet, Pulse, TxReset, RxReset,
     TxRegs, RxRegs, TxStates, RxStates

(* A step of the link: an edge of either clock, or of both, in which the   *)
(* transmitter samples a and the receiver samples q and w.                 *)
LEMMA TxEdgeIInv ==
  ASSUME IInv, NEW req_i \in BOOLEAN, NEW d \in Data, TxEdge(req_i, d)
  PROVE  IInv'
  <1> rx.ack \in BOOLEAN
    BY DEF IInv, TypeOK, RxRegs
  <1>1. TypeOK'
    BY TxStepFields DEF IInv, TypeOK, TxEdge, IdleIsQuiet, TxRegs, TxStates
  <1>2. IdleIsQuiet'
    BY TxStepFields DEF IInv, TypeOK, TxEdge, IdleIsQuiet, Falling, Pulse, TxRegs, RxRegs, TxStates
  <1>3. (tx.state = "ASSERT" => Rising)'
    BY TxStepFields DEF IInv, TypeOK, TxEdge, IdleIsQuiet, Rising, TxRegs, RxRegs, TxStates
  <1>4. (tx.state = "DEASSERT" => Falling)'
    BY TxStepFields DEF IInv, TypeOK, TxEdge, Rising, Falling, TxRegs, RxRegs, TxStates
  <1>5. Pulse'
    BY DEF IInv, TxEdge, Pulse
  <1> QED BY <1>1, <1>2, <1>3, <1>4, <1>5 DEF IInv

LEMMA RxEdgeIInv ==
  ASSUME IInv, RxEdge
  PROVE  IInv'
  <1> tx.req \in BOOLEAN /\ tx.req_data \in Data
    BY DEF IInv, TypeOK, TxRegs
  <1>1. TypeOK'
    BY RxStepFields DEF IInv, TypeOK, RxEdge, RxRegs, RxStates
  <1>2. IdleIsQuiet'
    BY RxStepFields DEF IInv, TypeOK, RxEdge, IdleIsQuiet, RxRegs, TxRegs, RxStates
  <1>3. (tx.state = "ASSERT" => Rising)'
    BY RxStepFields DEF IInv, TypeOK, RxEdge, Rising, RxRegs, TxRegs, RxStates
  <1>4. (tx.state = "DEASSERT" => Falling)'
    BY RxStepFields DEF IInv, TypeOK, RxEdge, Falling, RxRegs, TxRegs, RxStates
  <1>5. Pulse'
    BY RxStepFields DEF IInv, TypeOK, RxEdge, Pulse, RxRegs, RxStates
  <1> QED BY <1>1, <1>2, <1>3, <1>4, <1>5 DEF IInv

(* Both edges at once, with the levels and the word the flops settled to.  *)
LEMMA BothEdgesIInv ==
  ASSUME IInv, NEW req_i \in BOOLEAN, NEW d \in Data, BothEdges(req_i, d)
  PROVE  IInv'
  <1> PICK a \in BOOLEAN, q \in BOOLEAN, w \in Data :
             /\ tx' = TxStep(tx, a, req_i, d)
             /\ rx' = RxStep(rx, q, w)
             /\ a \in {rx.ack, rx'.ack}
             /\ q \in {tx.req, tx'.req}
    BY DEF BothEdges
  <1>1. TypeOK'
    BY SMTT(20), TxStepFields, RxStepFields
       DEF IInv, TypeOK, IdleIsQuiet, TxRegs, TxStates, RxRegs, RxStates
  <1>2. IdleIsQuiet'
    BY SMTT(20), TxStepFields, RxStepFields
       DEF IInv, TypeOK, IdleIsQuiet, Falling, Pulse, TxRegs, TxStates, RxRegs, RxStates
  <1>3. (tx.state = "ASSERT" => Rising)'
    <2>1. CASE tx.state = "IDLE"
      BY <2>1, TxStepFields, RxStepFields
         DEF IInv, TypeOK, IdleIsQuiet, Rising, TxRegs, RxRegs, RxStates
    <2>2. CASE tx.state = "ASSERT"
      BY <2>2, TxStepFields, RxStepFields
         DEF IInv, TypeOK, Rising, TxRegs, RxRegs, RxStates
    <2>3. CASE tx.state = "DEASSERT"
      BY <2>3, TxStepFields DEF IInv, TypeOK, TxRegs
    <2> QED
      BY <2>1, <2>2, <2>3 DEF IInv, TypeOK, TxRegs, TxStates
  <1>4. (tx.state = "DEASSERT" => Falling)'
    BY SMTT(20), TxStepFields, RxStepFields
       DEF IInv, TypeOK, Rising, Falling, TxRegs, TxStates, RxRegs, RxStates
  <1>5. Pulse'
    BY RxStepFields DEF IInv, TypeOK, Pulse, RxRegs, RxStates
  <1> QED BY <1>1, <1>2, <1>3, <1>4, <1>5 DEF IInv

LEMMA NextIInv == IInv /\ [Next]_vars => IInv'
  <1> SUFFICES ASSUME IInv, [Next]_vars PROVE IInv'
    OBVIOUS
  <1>1. ASSUME NEW req_i \in BOOLEAN, NEW d \in Data, TxEdge(req_i, d)
        PROVE  IInv'
    BY <1>1, TxEdgeIInv
  <1>2. CASE RxEdge
    BY <1>2, RxEdgeIInv
  <1>3. ASSUME NEW req_i \in BOOLEAN, NEW d \in Data, BothEdges(req_i, d)
        PROVE  IInv'
    BY <1>3, BothEdgesIInv
  <1>4. CASE UNCHANGED vars
    BY <1>4 DEF vars, IInv, TypeOK, IdleIsQuiet, Rising, Falling, Pulse
  <1> QED BY <1>1, <1>2, <1>3, <1>4 DEF Next, TxTick, RxTick

LEMMA Inductive == Spec => []IInv
  <1>1. Init => IInv
    BY InitIInv
  <1>2. IInv /\ [Next]_vars => IInv'
    BY NextIInv
  <1> QED BY <1>1, <1>2, PTL DEF Spec

(* Every reachable state has registers of the declared widths, and idle,   *)
(* req and ack decode the state of their side (full_handshake_tx.v:109-141,*)
(* full_handshake_rx.v:98-122).                                            *)
THEOREM TypeCorrect == Spec => []TypeOK
  <1>1. IInv => TypeOK
    BY DEF IInv
  <1> QED BY <1>1, Inductive, PTL

(* No level of an earlier exchange is left anywhere on the link when the   *)
(* sender is told idle (full_handshake_tx.v:77-84, 134-138).               *)
THEOREM QuietWhenIdle == Spec => []IdleIsQuiet
  <1>1. IInv => IdleIsQuiet
    BY DEF IInv
  <1> QED BY <1>1, Inductive, PTL

-----------------------------------------------------------------------------
(* At the edge at which the receiver latches, the word is held.            *)
LatchesHeldWord ==
  Latching => /\ tx.req /\ tx'.req
              /\ tx'.req_data = tx.req_data
              /\ rx'.recv_data = tx.req_data

LEMMA LatchStep == IInv /\ [Next]_vars => LatchesHeldWord
  <1> SUFFICES ASSUME IInv, [Next]_vars, Latching PROVE LatchesHeldWord
    BY DEF LatchesHeldWord
  <1> USE DEF IInv, TypeOK, Latching, LatchesHeldWord
  <1>1. ASSUME NEW req_i \in BOOLEAN, NEW d \in Data, TxEdge(req_i, d)
        PROVE  FALSE
    BY <1>1 DEF TxEdge
  <1>2. CASE RxEdge
    <2> tx.req \in BOOLEAN /\ tx.req_data \in Data
      BY DEF TxRegs
    <2>1. rx.state = "IDLE" /\ rx.req /\ rx'.recv_data = tx.req_data
      BY <1>2, RxStepFields DEF RxEdge, RxRegs, RxStates, Pulse
    <2>2. tx.state = "ASSERT"
      BY <2>1 DEF IdleIsQuiet, Falling, TxRegs, TxStates
    <2> QED BY <2>1, <2>2, <1>2 DEF RxEdge
  <1>3. ASSUME NEW req_i \in BOOLEAN, NEW d \in Data, BothEdges(req_i, d)
        PROVE  LatchesHeldWord
    <2> PICK a \in BOOLEAN, q \in BOOLEAN, w \in Data :
               /\ tx' = TxStep(tx, a, req_i, d)
               /\ rx' = RxStep(rx, q, w)
               /\ tx'.req_data = tx.req_data => w = tx.req_data
      BY <1>3 DEF BothEdges
    <2>1. rx.state = "IDLE" /\ rx.req /\ rx'.recv_data = w
      BY RxStepFields DEF RxRegs, RxStates, Pulse
    <2>2. tx.state = "ASSERT" /\ ~tx.ack
      BY <2>1 DEF IdleIsQuiet, Rising, Falling, TxRegs, TxStates
    <2>3. tx'.req_data = tx.req_data /\ tx'.req = tx.req
      BY SMTT(20), <2>2, TxStepFields
    <2> QED BY <2>1, <2>2, <2>3
  <1>4. CASE UNCHANGED vars
    BY <1>4 DEF vars
  <1> QED BY <1>1, <1>2, <1>3, <1>4 DEF Next, TxTick, RxTick

(* The word is never sampled while it changes, although it crosses the     *)
(* clock domains without a synchroniser (full_handshake_rx.v:107-109).     *)
THEOREM LatchedWordIsHeld == Spec => DataStable
  <1>1. IInv /\ [Next]_vars => [LatchesHeldWord]_vars
    BY LatchStep
  <1> QED BY <1>1, Inductive, PTL DEF Spec, DataStable, LatchesHeldWord
-----------------------------------------------------------------------------
(* The refinement: each edge is a step of the channel or leaves it alone.  *)
LEMMA InitChannel == Init => Ch!Init
  BY DEF Init, TxReset, RxReset, InFlight, Ch!Init

LEMMA TxEdgeChannel ==
  ASSUME IInv, NEW req_i \in BOOLEAN, NEW d \in Data, TxEdge(req_i, d)
  PROVE  [Ch!Next]_(Ch!vars)
  <1> USE DEF IInv, TypeOK, InFlight, TxEdge
  <1> rx.ack \in BOOLEAN
    BY DEF RxRegs
  <1>1. CASE tx.state = "IDLE" /\ req_i
    <2> Ch!Send(d)
      <3>1. /\ tx'.state = "ASSERT" /\ tx'.req_data = d
            /\ tx'.idle = FALSE /\ tx.idle = TRUE
        <4>1. tx'.state = "ASSERT" /\ ~tx'.idle /\ tx'.req_data = d
          BY <1>1 DEF TxStep, TxRegs
        <4>2. tx' \in TxRegs
          BY TxStepFields
        <4>3. tx'.idle = FALSE
          BY <4>1, <4>2 DEF TxRegs
        <4>4. tx.idle = TRUE
          BY <1>1 DEF TxRegs
        <4> QED BY <4>1, <4>3, <4>4
      <3>2. rx.state = "IDLE" /\ rx' = rx
        BY <1>1 DEF IdleIsQuiet, RxRegs, RxStates
      <3> QED BY <3>1, <3>2 DEF Ch!Send
    <2> QED BY DEF Ch!Next
  <1>2. CASE tx.state = "IDLE" /\ ~req_i
    BY <1>2, TxStepFields DEF Ch!vars
  <1>3. CASE tx.state = "ASSERT" /\ tx.ack
    BY <1>3, TxStepFields DEF Rising, Ch!vars
  <1>4. CASE tx.state = "DEASSERT" /\ ~tx.ack
    <2> Ch!Free
      <3>1. ~rx.ack /\ ~rx.recv_rdy
        BY <1>4 DEF Falling, Pulse, TxRegs, RxRegs
      <3>2. tx'.idle /\ ~tx.idle /\ tx'.state = "IDLE"
        BY <1>4, TxStepFields
      <3> QED BY <1>4, <3>1, <3>2 DEF Ch!Free, TxRegs, RxRegs
    <2> QED BY DEF Ch!Next
  <1>5. CASE (tx.state = "ASSERT" /\ ~tx.ack) \/ (tx.state = "DEASSERT" /\ tx.ack)
    BY <1>5, TxStepFields DEF Ch!vars
  <1> QED BY <1>1, <1>2, <1>3, <1>4, <1>5 DEF TxRegs, TxStates

(* An edge of the receiver, at which the transmitter may at most go from   *)
(* ASSERT to DEASSERT, and does not do so while its word is on the way.    *)
LEMMA RxEdgeChannel ==
  ASSUME IInv, NEW q \in BOOLEAN, NEW w \in Data, rx' = RxStep(rx, q, w),
         tx'.idle = tx.idle,
         tx'.state = "ASSERT" => tx.state = "ASSERT",
         InFlight => tx'.state = "ASSERT" /\ tx'.req_data = tx.req_data,
         Latching => w = tx.req_data
  PROVE  [Ch!Next]_(Ch!vars)
  <1> USE DEF IInv, TypeOK, InFlight
  <1>1. CASE rx.state = "IDLE" /\ rx.req
    <2>1. tx.state = "ASSERT" /\ Latching
      BY <1>1, RxStepFields DEF IdleIsQuiet, Falling, Pulse, Latching, TxRegs, TxStates
    <2> Ch!HandOver
      BY <1>1, <2>1, RxStepFields DEF Ch!HandOver
    <2> QED BY DEF Ch!Next
  <1>2. CASE rx.state = "IDLE" /\ ~rx.req
    BY <1>2, RxStepFields DEF Ch!vars
  <1>3. CASE rx.state = "DEASSERT" /\ rx.recv_rdy
    <2>1. ~(tx'.state = "ASSERT" /\ rx'.state = "IDLE")
      BY <1>3, RxStepFields DEF Rising
    <2> Ch!EndPulse
      BY <1>3, <2>1, RxStepFields DEF Ch!EndPulse
    <2> QED BY DEF Ch!Next
  <1>4. CASE rx.state = "DEASSERT" /\ ~rx.recv_rdy
    <2>1. ~(tx'.state = "ASSERT" /\ rx'.state = "IDLE")
      BY <1>4, RxStepFields DEF Rising
    <2>2. ~rx'.recv_rdy /\ rx'.recv_data = Zero
      BY <1>4, RxStepFields DEF RxRegs
    <2>3. rx'.recv_rdy = rx.recv_rdy
      BY <1>4, <2>2, RxStepFields DEF RxRegs
    <2>4. rx'.recv_data = rx.recv_data
      BY <1>4, <2>2 DEF Pulse
    <2> QED BY <1>4, <2>1, <2>3, <2>4 DEF Ch!vars
  <1> QED BY <1>1, <1>2, <1>3, <1>4 DEF RxRegs, RxStates

LEMMA BothEdgesChannel ==
  ASSUME IInv, NEW req_i \in BOOLEAN, NEW d \in Data, BothEdges(req_i, d)
  PROVE  [Ch!Next]_(Ch!vars)
  <1> USE DEF IInv, TypeOK, InFlight
  <1> PICK a \in BOOLEAN, q \in BOOLEAN, w \in Data :
             /\ tx' = TxStep(tx, a, req_i, d)
             /\ rx' = RxStep(rx, q, w)
             /\ tx'.req_data = tx.req_data => w = tx.req_data
    BY DEF BothEdges
  <1>1. CASE tx.state = "IDLE" /\ req_i
    <2> Ch!Send(d)
      <3>1. /\ tx'.state = "ASSERT" /\ tx'.req_data = d
            /\ tx'.idle = FALSE /\ tx.idle = TRUE
        <4>1. tx'.state = "ASSERT" /\ ~tx'.idle /\ tx'.req_data = d
          BY <1>1 DEF TxStep, TxRegs
        <4>2. tx' \in TxRegs
          BY TxStepFields
        <4>3. tx'.idle = FALSE
          BY <4>1, <4>2 DEF TxRegs
        <4>4. tx.idle = TRUE
          BY <1>1 DEF TxRegs
        <4> QED BY <4>1, <4>3, <4>4
      <3>2. rx.state = "IDLE" /\ ~rx.req
        BY <1>1 DEF IdleIsQuiet, RxRegs, RxStates
      <3>3. rx'.state = "IDLE" /\ rx'.recv_rdy = rx.recv_rdy /\ rx'.recv_data = rx.recv_data
        BY <3>2, RxStepFields
      <3> QED BY <1>1, <3>1, <3>2, <3>3 DEF Ch!Send
    <2> QED BY DEF Ch!Next
  <1>2. CASE tx.state = "DEASSERT" /\ ~tx.ack
    <2> Ch!Free
      <3>1. ~rx.ack /\ ~rx.recv_rdy /\ ~rx.req /\ rx.state = "IDLE"
        BY <1>2 DEF Falling, Pulse, TxRegs, RxRegs, RxStates
      <3>2. tx'.idle = TRUE /\ ~tx.idle /\ tx'.state = "IDLE"
        BY <1>2, TxStepFields DEF TxRegs
      <3>3. rx'.recv_rdy = rx.recv_rdy /\ rx'.recv_data = rx.recv_data
        BY <3>1, RxStepFields
      <3> QED BY <1>2, <3>1, <3>2, <3>3 DEF Ch!Free
    <2> QED BY DEF Ch!Next
  <1>3. CASE ~(tx.state = "IDLE" /\ req_i) /\ ~(tx.state = "DEASSERT" /\ ~tx.ack)
    <2>1. tx'.idle = tx.idle
      <3>1. CASE tx.state = "IDLE"
        BY <1>3, <3>1, TxStepFields DEF TxRegs
      <3>2. CASE tx.state # "IDLE"
        BY <1>3, <3>2, TxStepFields DEF TxRegs, TxStates
      <3> QED BY <3>1, <3>2
    <2>2. tx'.state = "ASSERT" => tx.state = "ASSERT"
      BY <1>3, TxStepFields DEF TxRegs, TxStates
    <2>3. InFlight => tx'.state = "ASSERT" /\ tx'.req_data = tx.req_data
      <3> SUFFICES ASSUME InFlight
                   PROVE  tx'.state = "ASSERT" /\ tx'.req_data = tx.req_data
        OBVIOUS
      <3>1. ~tx.ack
        BY DEF Rising
      <3> QED BY SMTT(20), <3>1, TxStepFields
    <2>4. Latching => InFlight
      BY RxStepFields DEF Latching, IdleIsQuiet, Falling, Pulse,
                          RxRegs, RxStates, TxRegs, TxStates
    <2> QED BY <2>1, <2>2, <2>3, <2>4, RxEdgeChannel
  <1> QED BY <1>1, <1>2, <1>3

LEMMA NextChannel == IInv /\ [Next]_vars => [Ch!Next]_(Ch!vars)
  <1> SUFFICES ASSUME IInv, [Next]_vars PROVE [Ch!Next]_(Ch!vars)
    OBVIOUS
  <1>1. ASSUME NEW req_i \in BOOLEAN, NEW d \in Data, TxEdge(req_i, d)
        PROVE  [Ch!Next]_(Ch!vars)
    BY <1>1, TxEdgeChannel
  <1>2. CASE RxEdge
    <2> tx.req \in BOOLEAN /\ tx.req_data \in Data
      BY DEF IInv, TypeOK, TxRegs
    <2> QED BY <1>2, RxEdgeChannel DEF RxEdge, InFlight
  <1>3. ASSUME NEW req_i \in BOOLEAN, NEW d \in Data, BothEdges(req_i, d)
        PROVE  [Ch!Next]_(Ch!vars)
    BY <1>3, BothEdgesChannel
  <1>4. CASE UNCHANGED vars
    BY <1>4 DEF vars, InFlight, Ch!vars
  <1> QED BY <1>1, <1>2, <1>3, <1>4 DEF Next, TxTick, RxTick

(* The handshake implements the one-word channel, whatever the words and   *)
(* the two clocks: each accepted word is handed over once, unchanged and   *)
(* in order (full_handshake_tx.v:60-141, full_handshake_rx.v:56-122).      *)
THEOREM ImplementsChannel == Spec => ChannelSpec
  <1>1. Init => Ch!Init
    BY InitChannel
  <1>2. IInv /\ [Next]_vars => [Ch!Next]_(Ch!vars)
    BY NextChannel
  <1> QED BY <1>1, <1>2, Inductive, PTL DEF Spec, ChannelSpec, Ch!Spec
=============================================================================
