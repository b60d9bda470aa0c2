--------------------------- MODULE ProgramsProofs ---------------------------
(***************************************************************************)
(* Proofs about the programs without a network, each for every value of    *)
(* its constants.                                                          *)
(*                                                                         *)
(* The XMODEM receiver: files of any number of packets of any sizes, any   *)
(* destination size, any bounds on retries and any number of damaged or    *)
(* lost messages.  The DarkRISCV firmware: any width of its words, any     *)
(* period of its timer, any bases of its numbers, any lines and sizes of   *)
(* its buffers.  The environment of the RISC-V tests: any number of tests  *)
(* and of interrupts.                                                      *)
(***************************************************************************)
EXTENDS MCPrograms, TLAPS, FiniteSetTheorems, WellFoundedInduction

(* Sender and receiver agree on packet numbers up to one packet.  While    *)
(* the receiver runs, a packet on the line is the sender's current one,    *)
(* and an acknowledgement on the line is of the sender's current packet.   *)
Sync ==
  /\ tx.at = "packet" => tx.n \in Packets
  /\ tx.at = "EOT" => tx.n = Len(Off)
  /\ rx.result = "running" =>
       /\ tx.n = acc \/ tx.n = acc + 1
       /\ tx.n = acc => rx.packetno = Succ(tx.no)
       /\ tx.n # acc => rx.packetno = tx.no
       /\ line.kind = "packet" => line.n = tx.n /\ line.no = tx.no /\ tx.n \in Packets
       /\ line.kind = "EOT" => tx.n = Len(Off)
       /\ reply = "ACK" /\ tx.at = "packet" => acc = tx.n
       /\ tx.at = "start" => line = Nothing /\ reply # "ACK"

IInv == TypeOK /\ Sync /\ ReceivedIsPrefix /\ SuccessMeansAll

-----------------------------------------------------------------------------
(* Packet numbers: the next one is a packet number, and another one.       *)
LEMMA SuccFacts ==
  ASSUME NEW no \in 0 .. Mod - 1
  PROVE  Succ(no) \in 0 .. Mod - 1 /\ Succ(no) # no
BY XmodemRxAssumption DEF Succ

LEMMA BoundFacts ==
  /\ MaxRetrans \in Nat /\ MaxRetrans >= 1 /\ Retries \in Nat /\ Retries >= 1
  /\ SenderWait \in Nat /\ SenderWait >= 1 /\ SenderTries \in Nat /\ SenderTries >= 1
  /\ MaxErrs \in Nat /\ DestSize \in Nat
  /\ 0 \in 0 .. Retries - 1 /\ MaxRetrans \in 1 .. MaxRetrans
BY XmodemRxAssumption

(* Where the packets begin.                                                *)
LEMMA OffFacts ==
  /\ Len(Off) \in Nat /\ Len(Off) >= 2
  /\ \A n \in 1 .. Len(Off) : Off[n] \in Nat
  /\ \A n \in Packets : n + 1 \in 1 .. Len(Off) /\ Off[n] <= Off[n + 1]
BY XmodemRxAssumption DEF Packets

(* The messages without a packet.                                          *)
LEMMA MessageFacts ==
  /\ Nothing.kind = "nothing" /\ Nothing \in Messages
  /\ Message("EOT").kind = "EOT" /\ Message("EOT") \in Messages
  /\ Message("CAN").kind = "CAN" /\ Message("CAN") \in Messages
BY SMTT(20), XmodemRxAssumption, OffFacts DEF Message, Nothing, Messages

-----------------------------------------------------------------------------
LEMMA InitInv == Init => IInv
<1> SUFFICES ASSUME Init PROVE IInv
  OBVIOUS
<1>1. rx \in Receivers
  BY XmodemRxAssumption DEF Init, Receivers
<1>2. tx \in Senders
  BY XmodemRxAssumption, OffFacts DEF Init, Senders
<1>3. TypeOK
  BY <1>1, <1>2, XmodemRxAssumption, OffFacts, MessageFacts DEF Init, TypeOK
<1>4. Sync
  <2>1. Succ(1) # 1 /\ tx.n = 1 /\ acc = 0 /\ rx.packetno = tx.no
    BY DEF Init, Succ
  <2> QED
    BY <2>1, MessageFacts DEF Init, Sync
<1>5. ReceivedIsPrefix
  BY XmodemRxAssumption DEF Init, ReceivedIsPrefix, Least
<1>6. SuccessMeansAll
  BY DEF Init, SuccessMeansAll
<1> QED
  BY <1>3, <1>4, <1>5, <1>6 DEF IInv

-----------------------------------------------------------------------------
(* The receiver's steps.                                                   *)
LEMMA ReturnTyped ==
  ASSUME TypeOK, NEW r \in {"len", "cancelled", "sync error", "too many"},
         NEW c \in {"none", "C", "NAK", "ACK", "CAN"}, Return(r, c)
  PROVE  /\ rx' \in Receivers /\ rx'.result = r /\ rx'.len = rx.len
         /\ reply' \in {"none", "C", "NAK", "ACK", "CAN"}
<1>1. rx \in Receivers
  BY DEF TypeOK
<1>2. rx' = [rx EXCEPT !.result = r, !.trychar = "none", !.retry = 0] /\ reply' = c
  BY DEF Return
<1> QED
  BY <1>1, <1>2, BoundFacts DEF Receivers

(* Nothing is written when the receiver returns.                           *)
LEMMA ReturnInv ==
  ASSUME IInv, NEW r \in {"len", "cancelled", "sync error", "too many"},
         NEW c \in {"none", "C", "NAK", "ACK", "CAN"}, Return(r, c), rx.result = "running",
         UNCHANGED <<dest, acc>>, tx' \in Senders, tx'.at = tx.at, tx'.n = tx.n,
         line' \in Messages, errs' \in [n : 0 .. MaxErrs, noise : BOOLEAN, wrap : BOOLEAN],
         r = "len" /\ ~errs'.noise => acc = Len(Off) - 1
  PROVE  IInv'
<1> USE DEF IInv
<1>1. TypeOK'
  BY ReturnTyped DEF TypeOK
<1>2. Sync'
  BY ReturnTyped DEF Sync
<1>3. ReceivedIsPrefix'
  BY ReturnTyped DEF ReceivedIsPrefix
<1>4. SuccessMeansAll'
  BY ReturnTyped DEF SuccessMeansAll
<1> QED
  BY <1>1, <1>2, <1>3, <1>4

(* A step in which the receiver goes on without a packet.                  *)
LEMMA WaitInv ==
  ASSUME IInv, rx.result = "running", rx' \in Receivers,
         rx'.result = "running", rx'.len = rx.len, rx'.packetno = rx.packetno,
         UNCHANGED <<dest, acc>>, line' = Nothing,
         reply' \in {"none", "C", "NAK", "ACK", "CAN"},
         reply' = "ACK" /\ tx.at = "packet" => acc = tx.n,
         reply' = "ACK" => tx.at # "start",
         tx' \in Senders, tx'.at = tx.at, tx'.n = tx.n, tx'.no = tx.no,
         errs' \in [n : 0 .. MaxErrs, noise : BOOLEAN, wrap : BOOLEAN]
  PROVE  IInv'
<1> USE DEF IInv
<1>1. TypeOK'
  BY MessageFacts DEF TypeOK
<1>2. Sync'
  BY MessageFacts DEF Sync
<1>3. ReceivedIsPrefix'
  BY DEF ReceivedIsPrefix
<1>4. SuccessMeansAll'
  BY DEF SuccessMeansAll
<1> QED
  BY <1>1, <1>2, <1>3, <1>4
(* A packet that passes and has the expected number is the next one, and   *)
(* its units go behind those before it.                                    *)
LEMMA AcceptInv ==
  ASSUME IInv, rx.result = "running", line.kind = "packet", IsNext(line.no), Accept(line.n),
         line' = Nothing, UNCHANGED tx,
         errs' \in [n : 0 .. MaxErrs, noise : BOOLEAN, wrap : BOOLEAN]
  PROVE  IInv'
<1> USE DEF IInv
<1> DEFINE n == line.n
<1>1. /\ n = tx.n /\ line.no = tx.no /\ n \in Packets /\ rx.packetno = tx.no
      /\ tx.no \in 0 .. Mod - 1 /\ acc \in Nat
  BY DEF Sync, IsNext, TypeOK, Senders
<1>2. n = acc + 1
  BY <1>1, SuccFacts DEF Sync
<1>3. /\ Off[n] \in Nat /\ Off[n + 1] \in Nat /\ Off[n] <= Off[n + 1]
      /\ n \in 1 .. Len(Off) - 1 /\ Len(Off) \in Nat /\ DestSize \in Nat
  <2>1. n \in 1 .. Len(Off) - 1 /\ Len(Off) \in Nat
    BY <1>1, OffFacts DEF Packets
  <2>2. n \in 1 .. Len(Off) /\ n + 1 \in 1 .. Len(Off)
    BY <2>1
  <2> QED
    BY <1>1, <2>1, <2>2, OffFacts, BoundFacts
<1>4. rx.len = Least(DestSize, Off[n]) /\ dest = [u \in 1 .. rx.len |-> u]
  BY <1>2 DEF ReceivedIsPrefix
<1>5. /\ NewLen(n) = Least(DestSize, Off[n + 1])
      /\ NewLen(n) \in 0 .. DestSize /\ rx.len \in 0 .. NewLen(n)
      /\ rx.len # NewLen(n) => rx.len = Off[n]
  BY SMTT(20), <1>3, <1>4 DEF NewLen, Least
<1>6. /\ acc' = acc + 1 /\ reply' = "ACK"
      /\ rx' = [rx EXCEPT !.len = NewLen(n), !.packetno = Succ(rx.packetno),
                          !.retrans = MaxRetrans, !.trychar = "none", !.crc = Crc, !.retry = 0]
      /\ dest' = [u \in 1 .. NewLen(n) |-> IF u <= rx.len THEN dest[u] ELSE Off[n] + (u - rx.len)]
  BY DEF Accept
<1>7. rx \in Receivers /\ Crc \in BOOLEAN
  BY DEF TypeOK, Crc, Receivers
<1>8. rx' \in Receivers
  <2>1. Succ(rx.packetno) \in 0 .. Mod - 1
    BY <1>1, SuccFacts
  <2> QED
    BY <2>1, <1>5, <1>6, <1>7, BoundFacts DEF Receivers
<1>9. rx'.len = NewLen(n) /\ rx'.packetno = Succ(tx.no) /\ rx'.result = "running"
  BY <1>1, <1>6, <1>7 DEF Receivers
<1>10. TypeOK'
  BY <1>2, <1>3, <1>6, <1>8, MessageFacts DEF TypeOK
<1>11. Sync'
  <2>1. tx.at # "start"
    BY MessageFacts DEF Sync
  <2> QED
    BY <2>1, <1>1, <1>2, <1>6, <1>9, MessageFacts DEF Sync
<1>12. ReceivedIsPrefix'
  <2>1. \A u \in 1 .. NewLen(n) : (IF u <= rx.len THEN dest[u] ELSE Off[n] + (u - rx.len)) = u
    BY <1>3, <1>4, <1>5
  <2>2. dest' = [u \in 1 .. NewLen(n) |-> u]
    BY <2>1, <1>6
  <2>3. acc' + 1 = n + 1
    BY <1>1, <1>2, <1>6
  <2> QED
    BY <2>2, <2>3, <1>5, <1>9 DEF ReceivedIsPrefix
<1>13. SuccessMeansAll'
  BY <1>9 DEF SuccessMeansAll
<1> QED
  BY <1>10, <1>11, <1>12, <1>13

LEMMA ReceiveInv == IInv /\ Receive => IInv'
<1> SUFFICES ASSUME IInv, Receive PROVE IInv'
  OBVIOUS
<1> USE DEF IInv
<1>1. /\ rx.result = "running" /\ line.kind = "packet" /\ reply = "none"
      /\ line' = Nothing /\ UNCHANGED tx
      /\ errs' = [errs EXCEPT !.noise = @ \/ line.state = "headless",
                              !.wrap = @ \/ (line.no = Mod - 1 /\ rx.packetno = 0)]
  BY DEF Receive
<1>2. errs' \in [n : 0 .. MaxErrs, noise : BOOLEAN, wrap : BOOLEAN]
  BY <1>1 DEF TypeOK
<1>3. /\ tx \in Senders /\ tx' \in Senders /\ line' \in Messages
      /\ rx \in Receivers /\ Crc \in BOOLEAN /\ 0 \in 0 .. Retries - 1
      /\ tx.at # "start"
  <2>1. tx.at # "start"
    BY <1>1, MessageFacts DEF Sync
  <2>2. Crc \in BOOLEAN
    BY DEF Crc, TypeOK, Receivers
  <2> QED
    BY <2>1, <2>2, <1>1, MessageFacts, BoundFacts DEF TypeOK
<1> DEFINE On(char) == /\ rx' = [rx EXCEPT !.trychar = "none", !.crc = Crc, !.retry = 0]
                       /\ reply' = char /\ UNCHANGED <<dest, acc>>
<1>4. ASSUME On("NAK") PROVE IInv'
  <2>1. rx' \in Receivers /\ rx'.result = "running" /\ rx'.len = rx.len
        /\ rx'.packetno = rx.packetno
    BY <1>1, <1>3, <1>4 DEF Receivers
  <2> QED
    BY <2>1, <1>1, <1>2, <1>3, <1>4, WaitInv
<1>5. CASE line.state = "headless" /\ Noise
  <2>1. errs'.noise
    BY <1>1, <1>5 DEF TypeOK
  <2>2. CASE Return("len", "ACK")
    BY <2>1, <2>2, <1>1, <1>2, <1>3, <1>5, ReturnInv DEF Noise
  <2>3. CASE Return("cancelled", "ACK")
    BY <2>3, <1>1, <1>2, <1>3, <1>5, ReturnInv DEF Noise
  <2>4. CASE Return("sync error", "CAN")
    BY <2>4, <1>1, <1>2, <1>3, <1>5, ReturnInv DEF Noise
  <2>5. CASE On("NAK")
    BY <2>5, <1>4
  <2>6. CASE rx' = [rx EXCEPT !.trychar = "NAK", !.retry = 0] /\ reply' = "NAK"
    <3>1. rx' \in Receivers /\ rx'.result = "running" /\ rx'.len = rx.len
          /\ rx'.packetno = rx.packetno
      BY <2>6, <1>1, <1>3 DEF Receivers
    <3> QED
      BY <3>1, <2>6, <1>1, <1>2, <1>3, <1>5, WaitInv DEF Noise
  <2> QED
    BY <1>5, <2>2, <2>3, <2>4, <2>5, <2>6 DEF Noise
<1>6. CASE IsNext(line.no) /\ Accept(line.n)
  BY <1>1, <1>2, <1>6, AcceptInv
<1>7. CASE ~IsNext(line.no) /\ IsPrevious(line.no) /\ Again
  <2>1. acc = tx.n
    BY <1>1, <1>7 DEF Sync, IsNext
  <2>2. CASE rx.retrans = 1
    BY <2>2, <1>1, <1>2, <1>3, <1>7, ReturnInv DEF Again
  <2>3. CASE rx.retrans # 1
    <3>1. /\ rx' = [rx EXCEPT !.retrans = rx.retrans - 1, !.trychar = "none", !.crc = Crc,
                              !.retry = 0]
          /\ reply' = "ACK" /\ UNCHANGED <<dest, acc>>
      BY <2>3, <1>7 DEF Again
    <3>2. rx.retrans - 1 \in 1 .. MaxRetrans
      <4>1. rx.retrans \in 1 .. MaxRetrans
        BY <1>3 DEF Receivers
      <4> QED
        BY <4>1, <2>3, BoundFacts
    <3>3. rx' \in Receivers /\ rx'.result = "running" /\ rx'.len = rx.len
          /\ rx'.packetno = rx.packetno
      BY <3>1, <3>2, <1>1, <1>3 DEF Receivers
    <3> QED
      BY <3>1, <3>3, <2>1, <1>1, <1>2, <1>3, WaitInv
  <2> QED
    BY <2>2, <2>3
<1>8. CASE Reject
  BY <1>4, <1>8 DEF Reject
<1> QED
  BY <1>5, <1>6, <1>7, <1>8 DEF Receive

LEMMA ReceiveEndInv == IInv /\ ReceiveEnd => IInv'
<1> SUFFICES ASSUME IInv, ReceiveEnd PROVE IInv'
  OBVIOUS
<1> USE DEF IInv
<1>1. /\ rx.result = "running" /\ line' = Nothing /\ UNCHANGED <<dest, acc, tx, errs>>
      /\ tx' \in Senders /\ line' \in Messages
      /\ errs' \in [n : 0 .. MaxErrs, noise : BOOLEAN, wrap : BOOLEAN]
  BY MessageFacts DEF ReceiveEnd, TypeOK
<1>2. CASE line.kind = "EOT" /\ Return("len", "ACK")
  <2>1. acc = Len(Off) - 1
    BY <1>1, <1>2, OffFacts DEF Sync, TypeOK
  <2> QED
    BY <2>1, <1>1, <1>2, ReturnInv
<1>3. CASE line.kind = "CAN" /\ Return("cancelled", "ACK")
  BY <1>1, <1>3, ReturnInv
<1> QED
  BY <1>2, <1>3 DEF ReceiveEnd
LEMMA SilenceInv == IInv /\ Silence => IInv'
<1> SUFFICES ASSUME IInv, Silence PROVE IInv'
  OBVIOUS
<1> USE DEF IInv
<1>1. /\ rx.result = "running" /\ line = Nothing /\ UNCHANGED <<dest, acc, line, errs>>
      /\ errs' \in [n : 0 .. MaxErrs, noise : BOOLEAN, wrap : BOOLEAN]
      /\ rx \in Receivers /\ tx \in Senders /\ line' \in Messages
      /\ reply \in {"none", "C", "NAK", "ACK", "CAN"}
  BY MessageFacts DEF Silence, TypeOK
<1>2. tx' \in Senders /\ tx'.at = tx.at /\ tx'.n = tx.n /\ tx'.no = tx.no
  <2>1. CASE tx.at \in {"packet", "EOT"}
    <3>1. tx' = [tx EXCEPT !.waited = tx.waited + 1] /\ tx.waited < SenderWait
      BY <2>1 DEF Silence
    <3>2. tx.waited + 1 \in 0 .. SenderWait
      <4>1. tx.waited \in 0 .. SenderWait
        BY <1>1 DEF Senders
      <4> QED
        BY <3>1, <4>1, BoundFacts
    <3> QED
      BY <3>1, <3>2, <1>1 DEF Senders
  <2>2. CASE tx.at \notin {"packet", "EOT"}
    BY <2>2, <1>1 DEF Silence
  <2> QED
    BY <2>1, <2>2
<1>3. CASE /\ TryAgain
           /\ rx' = [rx EXCEPT !.retry = (rx.retry + 1) % Retries]
           /\ reply' \in {rx.trychar, reply}
  <2>1. (rx.retry + 1) % Retries \in 0 .. Retries - 1 /\ rx.trychar \in {"C", "NAK", "none"}
    <3>1. rx.retry \in 0 .. Retries - 1 /\ rx.trychar \in {"C", "NAK", "none"}
      BY <1>1 DEF Receivers
    <3> QED
      BY <3>1, BoundFacts
  <2>2. rx' \in Receivers /\ rx'.result = "running" /\ rx'.len = rx.len
        /\ rx'.packetno = rx.packetno
    BY <1>1, <1>3, <2>1 DEF Receivers
  <2>3. /\ reply' = "ACK" /\ tx.at = "packet" => acc = tx.n
        /\ reply' = "ACK" => tx.at # "start"
    BY <1>1, <1>3, <2>1 DEF Sync
  <2>4. reply' \in {"none", "C", "NAK", "ACK", "CAN"}
    BY <1>1, <1>3, <2>1
  <2> QED
    BY <2>2, <2>3, <2>4, <1>1, <1>2, WaitInv
<1>4. CASE rx' = [rx EXCEPT !.trychar = "NAK", !.retry = 0] /\ reply' \in {"NAK", reply}
  <2>1. rx' \in Receivers /\ rx'.result = "running" /\ rx'.len = rx.len
        /\ rx'.packetno = rx.packetno
    BY <1>1, <1>4, BoundFacts DEF Receivers
  <2>2. /\ reply' = "ACK" /\ tx.at = "packet" => acc = tx.n
        /\ reply' = "ACK" => tx.at # "start"
    BY <1>1, <1>4 DEF Sync
  <2> QED
    BY <2>1, <2>2, <1>1, <1>2, <1>4, WaitInv
<1>5. CASE Return("sync error", "CAN")
  BY <1>1, <1>2, <1>5, ReturnInv
<1> QED
  BY <1>3, <1>4, <1>5 DEF Silence

-----------------------------------------------------------------------------
(* The sender's steps leave the receiver alone.                            *)
LEMMA SenderInv ==
  ASSUME IInv, UNCHANGED <<rx, dest, acc>>, tx' \in Senders, line' \in Messages,
         reply' \in {"none", "C", "NAK", "ACK", "CAN"},
         errs' \in [n : 0 .. MaxErrs, noise : BOOLEAN, wrap : BOOLEAN],
         errs'.noise = errs.noise, Sync'
  PROVE  IInv'
<1>1. TypeOK'
  BY DEF IInv, TypeOK
<1>2. ReceivedIsPrefix'
  BY DEF IInv, ReceivedIsPrefix
<1>3. SuccessMeansAll'
  BY DEF IInv, SuccessMeansAll
<1> QED
  BY <1>1, <1>2, <1>3 DEF IInv

(* What is put on the line is the message, a packet that is damaged, or    *)
(* nothing.                                                                *)
LEMMA PutTyped ==
  ASSUME TypeOK, NEW m \in Messages, Put(m)
  PROVE  /\ line' \in Messages
         /\ line'.kind = "nothing" \/ (line'.kind = m.kind /\ line'.n = m.n /\ line'.no = m.no)
         /\ errs' \in [n : 0 .. MaxErrs, noise : BOOLEAN, wrap : BOOLEAN]
         /\ errs'.noise = errs.noise
<1>1. CASE line' = m /\ UNCHANGED errs
  BY <1>1 DEF TypeOK
<1>2. CASE errs.n < MaxErrs /\ errs' = [errs EXCEPT !.n = errs.n + 1]
  <2>1. errs.n + 1 \in 0 .. MaxErrs /\ errs \in [n : 0 .. MaxErrs, noise : BOOLEAN, wrap : BOOLEAN]
    <3>1. errs.n \in 0 .. MaxErrs
      BY DEF TypeOK
    <3> QED
      BY <3>1, <1>2, BoundFacts DEF TypeOK
  <2>2. /\ errs' \in [n : 0 .. MaxErrs, noise : BOOLEAN, wrap : BOOLEAN]
        /\ errs'.noise = errs.noise
    BY <1>2, <2>1
  <2>3. CASE line' = Nothing
    BY <2>2, <2>3, MessageFacts
  <2>4. CASE line' = m
    BY <2>2, <2>4
  <2>5. ASSUME NEW s \in {"bad", "headless"}, line' = [m EXCEPT !.state = s] PROVE
           /\ line' \in Messages
           /\ line'.kind = m.kind /\ line'.n = m.n /\ line'.no = m.no
    BY <2>5 DEF Messages
  <2> QED
    BY <1>2, <2>2, <2>3, <2>4, <2>5 DEF Put
<1> QED
  BY <1>1, <1>2 DEF Put

LEMMA SendNextInv ==
  ASSUME IInv, NEW t \in Senders, SendNext(t), UNCHANGED <<rx, dest, acc>>,
         rx.result = "running" => /\ t.n = acc \/ t.n = acc + 1
                                  /\ t.n = acc => rx.packetno = Succ(t.no)
                                  /\ t.n # acc => rx.packetno = t.no,
         reply' = "none"
  PROVE  IInv'
<1>1. t.n \in 1 .. Len(Off) /\ t.no \in 0 .. Mod - 1 /\ t.mode \in {"C", "NAK"}
  BY DEF Senders
<1>2. CASE t.n \in Packets
  <2> DEFINE m == [kind |-> "packet", n |-> t.n, no |-> t.no, mode |-> t.mode, state |-> "good"]
  <2>1. m \in Messages /\ m.kind = "packet" /\ m.n = t.n /\ m.no = t.no
    BY <1>1 DEF Messages
  <2>2. tx' = [t EXCEPT !.at = "packet"] /\ Put(m)
    BY <1>2 DEF SendNext
  <2>3. tx' \in Senders /\ tx'.at = "packet" /\ tx'.n = t.n /\ tx'.no = t.no
    BY <2>2 DEF Senders
  <2>4. TypeOK
    BY DEF IInv
  <2>5. /\ line' \in Messages
        /\ line'.kind = "nothing" \/ (line'.kind = "packet" /\ line'.n = t.n /\ line'.no = t.no)
        /\ errs' \in [n : 0 .. MaxErrs, noise : BOOLEAN, wrap : BOOLEAN]
        /\ errs'.noise = errs.noise
    BY <2>1, <2>2, <2>4, PutTyped
  <2>6. Sync'
    BY <1>2, <2>3, <2>5 DEF Sync
  <2> QED
    BY <2>3, <2>5, <2>6, SenderInv
<1>3. CASE t.n \notin Packets
  <2>1. t.n = Len(Off)
    BY <1>1, <1>3, OffFacts DEF Packets
  <2>2. tx' = [t EXCEPT !.at = "EOT"] /\ Put(Message("EOT"))
    BY <1>3 DEF SendNext
  <2>3. tx' \in Senders /\ tx'.at = "EOT" /\ tx'.n = t.n /\ tx'.no = t.no
    BY <2>2 DEF Senders
  <2>4. TypeOK
    BY DEF IInv
  <2>5. /\ line' \in Messages /\ line'.kind \in {"nothing", "EOT"}
        /\ errs' \in [n : 0 .. MaxErrs, noise : BOOLEAN, wrap : BOOLEAN]
        /\ errs'.noise = errs.noise
    BY <2>2, <2>4, PutTyped, MessageFacts
  <2>6. Sync'
    BY <2>1, <2>3, <2>5 DEF Sync
  <2> QED
    BY <2>3, <2>5, <2>6, SenderInv
<1> QED
  BY <1>2, <1>3

(* The sender stops: what is left on the line is nothing, or CAN.          *)
LEMMA StopInv ==
  ASSUME IInv, UNCHANGED <<rx, dest, acc, errs>>, NEW at \in {"failed", "done"},
         tx' = [tx EXCEPT !.at = at], line' \in {Nothing, Message("CAN")}, reply' = "none"
  PROVE  IInv'
<1>1. tx' \in Senders /\ tx'.at = at /\ tx'.n = tx.n /\ tx'.no = tx.no
  BY DEF IInv, TypeOK, Senders
<1>2. line' \in Messages /\ line'.kind \in {"nothing", "CAN"}
  BY MessageFacts
<1>3. Sync'
  BY <1>1, <1>2 DEF IInv, Sync
<1> QED
  BY <1>1, <1>2, <1>3, SenderInv DEF IInv, TypeOK

LEMMA SendAgainInv ==
  ASSUME IInv, SendAgain, UNCHANGED <<rx, dest, acc>>, reply' = "none"
  PROVE  IInv'
<1>1. tx \in Senders
  BY DEF IInv, TypeOK
<1>2. CASE tx.tries = SenderTries
  BY <1>2, StopInv DEF SendAgain
<1>3. CASE tx.tries # SenderTries
  <2> DEFINE t == [tx EXCEPT !.tries = tx.tries + 1, !.waited = 0]
  <2>1. tx.tries + 1 \in 0 .. SenderTries /\ 0 \in 0 .. SenderWait
    <3>1. tx.tries \in 0 .. SenderTries
      BY <1>1 DEF Senders
    <3> QED
      BY <3>1, <1>3, BoundFacts
  <2>2. t \in Senders /\ t.n = tx.n /\ t.no = tx.no
    BY <1>1, <2>1 DEF Senders
  <2>3. SendNext(t)
    BY <1>3 DEF SendAgain
  <2> HIDE DEF t
  <2> QED
    BY <2>2, <2>3, SendNextInv DEF IInv, Sync
<1> QED
  BY <1>2, <1>3

LEMMA BeginInv == IInv /\ Begin => IInv'
<1> SUFFICES ASSUME IInv, Begin PROVE IInv'
  OBVIOUS
<1> DEFINE t == [tx EXCEPT !.mode = reply]
<1>1. SendNext(t) /\ reply \in {"C", "NAK"} /\ reply' = "none" /\ UNCHANGED <<rx, dest, acc>>
  BY DEF Begin
<1>2. t \in Senders /\ t.n = tx.n /\ t.no = tx.no
  BY <1>1 DEF IInv, TypeOK, Senders
<1> HIDE DEF t
<1> QED
  BY <1>1, <1>2, SendNextInv DEF IInv, Sync

LEMMA AnsweredInv == IInv /\ Answered => IInv'
<1> SUFFICES ASSUME IInv, Answered PROVE IInv'
  OBVIOUS
<1>1. /\ line = Nothing /\ reply' = "none" /\ UNCHANGED <<rx, dest, acc>>
      /\ tx.at \in {"packet", "EOT"} /\ tx \in Senders
  BY DEF Answered, IInv, TypeOK
<1> DEFINE t == [tx EXCEPT !.n = tx.n + 1, !.no = Succ(tx.no), !.tries = 0, !.waited = 0]
<1>2. ASSUME reply = "ACK", tx.at = "packet", SendNext(t) PROVE IInv'
  <2>1. /\ tx.n \in Packets
        /\ rx.result = "running" => acc = tx.n /\ rx.packetno = Succ(tx.no)
    BY <1>2 DEF IInv, Sync
  <2>2. tx.n + 1 \in 1 .. Len(Off) /\ tx.no \in 0 .. Mod - 1 /\ tx.n + 1 # tx.n
    BY <1>1, <2>1, OffFacts DEF Senders, Packets
  <2>3. Succ(tx.no) \in 0 .. Mod - 1 /\ 0 \in 0 .. SenderTries /\ 0 \in 0 .. SenderWait
    BY <2>2, SuccFacts, BoundFacts
  <2>4. t \in Senders /\ t.n = tx.n + 1 /\ t.no = Succ(tx.no)
    BY <1>1, <2>2, <2>3 DEF Senders
  <2> HIDE DEF t
  <2> QED
    BY <1>1, <1>2, <2>1, <2>2, <2>4, SendNextInv
<1>3. CASE reply = "ACK" /\ tx.at = "EOT" /\ tx' = [tx EXCEPT !.at = "done"]
           /\ UNCHANGED <<line, errs>>
  BY <1>1, <1>3, StopInv
<1>4. CASE SendAgain
  BY <1>1, <1>4, SendAgainInv
<1>5. CASE tx' = [tx EXCEPT !.at = "failed"] /\ UNCHANGED <<line, errs>>
  BY <1>1, <1>5, StopInv
<1> QED
  BY <1>1, <1>2, <1>3, <1>4, <1>5 DEF Answered
LEMMA NextInv == IInv /\ [Next]_vars => IInv'
<1> SUFFICES ASSUME IInv, [Next]_vars PROVE IInv'
  OBVIOUS
<1>1. CASE Receive
  BY <1>1, ReceiveInv
<1>2. CASE ReceiveEnd
  BY <1>2, ReceiveEndInv
<1>3. CASE Silence
  BY <1>3, SilenceInv
<1>4. CASE Begin
  BY <1>4, BeginInv
<1>5. CASE Answered
  BY <1>5, AnsweredInv
<1>6. CASE Unanswered
  <2>1. SendAgain /\ reply' = "none" /\ UNCHANGED <<rx, dest, acc>>
    BY <1>6 DEF Unanswered
  <2> QED
    BY <2>1, SendAgainInv
<1>7. CASE Ignored
  <2>1. line' = Nothing /\ UNCHANGED <<rx, dest, acc, tx, reply, errs>> /\ rx.result # "running"
    BY <1>7 DEF Ignored
  <2>2. Sync'
    BY <2>1 DEF IInv, Sync
  <2> QED
    BY <2>1, <2>2, SenderInv, MessageFacts DEF IInv, TypeOK
<1>8. CASE LoseReply
  <2>1. /\ reply' = "none" /\ errs.n < MaxErrs /\ errs' = [errs EXCEPT !.n = errs.n + 1]
        /\ UNCHANGED <<rx, dest, acc, tx, line>>
    BY <1>8 DEF LoseReply
  <2>2. errs.n \in 0 .. MaxErrs
    BY DEF IInv, TypeOK
  <2>3. errs.n + 1 \in 0 .. MaxErrs
    BY <2>1, <2>2, BoundFacts
  <2>4. /\ errs' \in [n : 0 .. MaxErrs, noise : BOOLEAN, wrap : BOOLEAN]
        /\ errs'.noise = errs.noise
    BY <2>1, <2>3 DEF IInv, TypeOK
  <2>5. Sync'
    BY <2>1 DEF IInv, Sync
  <2> QED
    BY <2>1, <2>4, <2>5, SenderInv DEF IInv, TypeOK
<1>9. CASE UNCHANGED vars
  BY <1>9 DEF vars, IInv, TypeOK, Sync, ReceivedIsPrefix, SuccessMeansAll
<1> QED
  BY <1>1, <1>2, <1>3, <1>4, <1>5, <1>6, <1>7, <1>8, <1>9 DEF Next, Receiver, Sender

LEMMA Invariance == Spec => []IInv
  BY InitInv, NextInv, PTL DEF Spec

-----------------------------------------------------------------------------
(* Every variable stays in its range: the receiver's length within the     *)
(* destination, its counters within their bounds.                          *)
THEOREM XmodemTypeOK == Spec => []TypeOK
<1>1. IInv => TypeOK
  BY DEF IInv
<1> QED
  BY <1>1, Invariance, PTL

(* What is in memory is the beginning of the file, whatever was lost,      *)
(* damaged or sent twice.                                                  *)
THEOREM XmodemPrefix == Spec => []ReceivedIsPrefix
<1>1. IInv => ReceivedIsPrefix
  BY DEF IInv
<1> QED
  BY <1>1, Invariance, PTL

(* The sender never takes for received what the receiver has not accepted. *)
THEOREM XmodemSenderNotAhead == Spec => []SenderNotAhead
<1>1. IInv => SenderNotAhead
  <2> SUFFICES ASSUME IInv, rx.result = "running" PROVE tx.n - 1 <= acc /\ acc <= tx.n
    BY DEF SenderNotAhead
  <2>1. tx.n \in 1 .. Len(Off) /\ acc \in 0 .. Len(Off) - 1
    BY DEF IInv, TypeOK, Senders
  <2>2. tx.n = acc \/ tx.n = acc + 1
    BY DEF IInv, Sync
  <2> QED
    BY <2>1, <2>2, OffFacts
<1> QED
  BY <1>1, Invariance, PTL

(* A reported length means the whole file, unless noise was taken for the  *)
(* end.                                                                    *)
THEOREM XmodemSuccess == Spec => []SuccessMeansAll
<1>1. IInv => SuccessMeansAll
  BY DEF IInv
<1> QED
  BY <1>1, Invariance, PTL

-----------------------------------------------------------------------------
(* The environment of a test.                                              *)
LEMMA EnvInit == TestEnv!Init => TestEnv!EnvInv
BY DEF TestEnv!Init, TestEnv!EnvInv, TestEnv!EnvTypes, TestEnv!Enables, TestEnv!Trapped,
   TestEnv!Verdicts, TestEnv!PllInOrder, TestEnv!TrapsAreTransparent, TestEnv!NothingIsLost,
   TestEnv!ReportIsRight, TestEnv!Regs, TestEnv!Here, TestEnv!Resumes, TestEnv!Early,
   TestEnv!Interruptible, TestEnv!Irqs, TestEnv!BusErrors

(* What the environment does to the registers leaves them registers.       *)
LEMMA EnvRegs ==
  ASSUME TestEnv!EnvTypes, NEW rs
  PROVE  /\ TestEnv!Env(rs) \in TestEnv!Regs
         /\ \A r \in {"a0", "a1", "t5", "t6"} \ rs : TestEnv!Env(rs)[r] = v4[r]
         /\ v4 \in TestEnv!Regs /\ v9.regs \in TestEnv!Regs
BY DEF TestEnv!EnvTypes, TestEnv!Regs, TestEnv!Env

LEMMA RestoredRegs ==
  ASSUME TestEnv!EnvInv, v2 \in {"restore", "ebreak"}
  PROVE  TestEnv!Restored = v9.regs
BY DEF TestEnv!EnvInv, TestEnv!EnvTypes, TestEnv!Trapped, TestEnv!Regs, TestEnv!Restored,
   TestEnv!Resumes

(* What a trap does.                                                       *)
LEMMA TrapFacts ==
  ASSUME TestEnv!EnvTypes, NEW cause, NEW at, TestEnv!Trap(cause, at)
  PROVE  /\ v3' = [mie |-> FALSE, mpie |-> v3.mie, ie |-> v3.ie, mtvec |-> v3.mtvec,
                   mepc |-> at, mcause |-> cause, mscratch |-> v3.mscratch]
         /\ v2' = v3.mtvec /\ v4' = v4 /\ v9'.pc = at /\ v9'.regs = v4
         /\ UNCHANGED <<v1, v5, v6, v7, v8>>
BY DEF TestEnv!EnvTypes, TestEnv!Trap

LEMMA EnvStep ==
  ASSUME TestEnv!EnvInv, TestEnv!RiscvTestEnvAssumption, TestEnv!Next
  PROVE  TestEnv!EnvInv'
<1> USE DEF TestEnv!EnvInv, TestEnv!EnvTypes, TestEnv!Enables, TestEnv!Trapped,
      TestEnv!Verdicts, TestEnv!PllInOrder, TestEnv!TrapsAreTransparent,
      TestEnv!NothingIsLost, TestEnv!ReportIsRight, TestEnv!Here, TestEnv!Resumes,
      TestEnv!Early, TestEnv!Interruptible, TestEnv!Irqs, TestEnv!BusErrors, TestEnv!Jump
<1>1. CASE TestEnv!Interrupt
  <2>1. TestEnv!EnvTypes'
    <3>1. PICK cause, at : TestEnv!Trap(cause, at)
      BY <1>1 DEF TestEnv!Interrupt
    <3>2. v3.mtvec = "trap_vector"
      BY <1>1 DEF TestEnv!Interrupt
    <3>3. /\ v3' = [mie |-> FALSE, mpie |-> v3.mie, ie |-> v3.ie, mtvec |-> v3.mtvec,
                    mepc |-> at, mcause |-> cause, mscratch |-> v3.mscratch]
          /\ v2' = "trap_vector" /\ v4' = v4 /\ v9'.regs = v4 /\ v6' = v6
      BY <3>1, <3>2, TrapFacts
    <3> QED
      BY <3>3
  <2>5. TestEnv!Enables'
    BY <1>1 DEF TestEnv!Interrupt, TestEnv!Trap
  <2>2. TestEnv!Trapped'
    BY <1>1 DEF TestEnv!Interrupt, TestEnv!Trap
  <2>3. TestEnv!Verdicts' /\ TestEnv!PllInOrder'
    BY <1>1 DEF TestEnv!Interrupt, TestEnv!Trap, TestEnv!Crashed
  <2>4. TestEnv!TrapsAreTransparent' /\ TestEnv!NothingIsLost' /\ TestEnv!ReportIsRight'
    BY <1>1 DEF TestEnv!Interrupt, TestEnv!Trap
  <2> QED
    BY <2>1, <2>2, <2>3, <2>4, <2>5
<1>2. CASE TestEnv!EnableMie
  BY <1>2, EnvRegs DEF TestEnv!EnableMie
<1>3. CASE TestEnv!SetMpie
  <2>1. v2' \in {"pll", "mepc"} /\ v4' \in TestEnv!Regs
    BY <1>3, EnvRegs DEF TestEnv!SetMpie
  <2>2. v3' = [v3 EXCEPT !.mpie = TRUE]
    BY <1>3 DEF TestEnv!SetMpie
  <2>3. v2 = "mpie" /\ UNCHANGED <<v1, v5, v6, v7, v8, v9, v10>>
    BY <1>3 DEF TestEnv!SetMpie
  <2>4. TestEnv!EnvTypes' /\ TestEnv!Enables'
    BY <2>1, <2>2, <2>3
  <2>5. TestEnv!Trapped' /\ TestEnv!PllInOrder' /\ TestEnv!Verdicts'
    BY <2>1, <2>2, <2>3
  <2> QED
    BY <2>1, <2>2, <2>3, <2>4, <2>5
<1>4. CASE TestEnv!EnterTest
  BY <1>4, EnvRegs DEF TestEnv!EnterTest
<1>5. CASE TestEnv!EnableAll \/ TestEnv!SetMtvec
  BY <1>5 DEF TestEnv!EnableAll, TestEnv!SetMtvec
<1>20. CASE TestEnv!ClearMstatus
  BY <1>20 DEF TestEnv!ClearMstatus, TestEnv!Masked
<1>6. CASE TestEnv!Delegate
  BY <1>6 DEF TestEnv!Delegate, TestEnv!Crashed
<1>7. CASE TestEnv!SetUpPll
  BY <1>7 DEF TestEnv!SetUpPll, TestEnv!PllSteps
<1>8. CASE TestEnv!Case \/ TestEnv!Continue
  BY <1>8 DEF TestEnv!Case, TestEnv!Continue, TestEnv!RiscvTestEnvAssumption
<1>9. CASE TestEnv!Except
  <2>1. TestEnv!EnvTypes'
    <3>1. PICK cause, at : TestEnv!Trap(cause, at)
      BY <1>9 DEF TestEnv!Except
    <3>2. v3.mtvec = "trap_vector"
      BY <1>9 DEF TestEnv!Except
    <3>3. /\ v3' = [mie |-> FALSE, mpie |-> v3.mie, ie |-> v3.ie, mtvec |-> v3.mtvec,
                    mepc |-> at, mcause |-> cause, mscratch |-> v3.mscratch]
          /\ v2' = "trap_vector" /\ v4' = v4 /\ v9'.regs = v4 /\ v6' = v6
      BY <3>1, <3>2, TrapFacts
    <3> QED
      BY <3>3
  <2>5. TestEnv!Enables'
    BY <1>9 DEF TestEnv!Except, TestEnv!Trap
  <2>2. TestEnv!Trapped'
    BY <1>9 DEF TestEnv!Except, TestEnv!Trap
  <2>3. TestEnv!Verdicts' /\ TestEnv!PllInOrder'
    BY <1>9 DEF TestEnv!Except, TestEnv!Trap, TestEnv!Crashed
  <2>4. TestEnv!TrapsAreTransparent' /\ TestEnv!NothingIsLost' /\ TestEnv!ReportIsRight'
    BY <1>9 DEF TestEnv!Except, TestEnv!Trap, TestEnv!Crashed
  <2> QED
    BY <2>1, <2>2, <2>3, <2>4, <2>5
<1>10. CASE TestEnv!Pass \/ TestEnv!Fail \/ TestEnv!FailNumber
  BY <1>10 DEF TestEnv!Pass, TestEnv!Fail, TestEnv!FailNumber
<1>11. CASE TestEnv!Ecall
  <2>1. TestEnv!EnvTypes' /\ TestEnv!Enables' /\ TestEnv!Trapped'
    BY <1>11 DEF TestEnv!Ecall, TestEnv!Trap
  <2>2. TestEnv!Verdicts' /\ TestEnv!PllInOrder'
    BY <1>11 DEF TestEnv!Ecall, TestEnv!Trap, TestEnv!Crashed
  <2>3. TestEnv!TrapsAreTransparent' /\ TestEnv!NothingIsLost' /\ TestEnv!ReportIsRight'
    BY <1>11 DEF TestEnv!Ecall, TestEnv!Trap
  <2> QED
    BY <2>1, <2>2, <2>3
<1>12. CASE TestEnv!OwnHandler
  BY <1>12 DEF TestEnv!OwnHandler, TestEnv!RiscvTestEnvAssumption
<1>13. CASE TestEnv!Save
  BY <1>13, EnvRegs DEF TestEnv!Save, TestEnv!Crashed
<1>14. CASE TestEnv!Branch
  BY <1>14, EnvRegs DEF TestEnv!Branch, TestEnv!HandlerOf, TestEnv!Crashed
<1>15. CASE TestEnv!Restore
  BY <1>15, RestoredRegs DEF TestEnv!Restore, TestEnv!Crashed
<1>16. CASE TestEnv!StepOver
  <2>1. /\ v2 = "ebreak" /\ v2' = "mret" /\ v4' = [v9.regs EXCEPT !.a1 = "env"]
        /\ v3' = [v3 EXCEPT !.mepc = "more"]
        /\ v1' = v1 /\ v5' = v5 /\ v6' = v6 /\ v7' = v7 /\ v8' = v8 /\ v9' = v9 /\ v10' = v10
    BY <1>16, RestoredRegs DEF TestEnv!StepOver
  <2>2. v4' \in TestEnv!Regs /\ \A r \in {"a0", "t5", "t6"} : v4'[r] = v9.regs[r]
    BY <2>1 DEF TestEnv!Regs
  <2> QED
    BY <2>1, <2>2 DEF TestEnv!Crashed
<1>17. CASE TestEnv!Mret
  <2>1. TestEnv!EnvTypes' /\ TestEnv!Enables'
    BY <1>17 DEF TestEnv!Mret
  <2>2. TestEnv!Trapped' /\ TestEnv!TrapsAreTransparent' /\ TestEnv!NothingIsLost'
    BY <1>17 DEF TestEnv!Mret
  <2>3. TestEnv!Verdicts' /\ TestEnv!PllInOrder' /\ TestEnv!ReportIsRight'
    BY <1>17 DEF TestEnv!Mret, TestEnv!Crashed
  <2> QED
    BY <2>1, <2>2, <2>3
<1>18. CASE TestEnv!WriteTohost
  BY <1>18, EnvRegs DEF TestEnv!WriteTohost
<1>19. CASE TestEnv!Address \/ TestEnv!Store
  BY <1>19 DEF TestEnv!Address, TestEnv!Store, TestEnv!Regs
<1> QED
  BY <1>1, <1>2, <1>3, <1>4, <1>5, <1>6, <1>7, <1>8, <1>9, <1>10, <1>11, <1>12, <1>13, <1>14,
     <1>15, <1>16, <1>17, <1>18, <1>19, <1>20
  DEF TestEnv!Next, TestEnv!Reset, TestEnv!Test, TestEnv!Handle, TestEnv!Report

LEMMA EnvRight ==
  TestEnv!EnvInv => /\ TestEnv!TrapsAreTransparent /\ TestEnv!NothingIsLost
                    /\ TestEnv!ReportIsRight /\ TestEnv!PllIsSafe
BY DEF TestEnv!EnvInv, TestEnv!PllInOrder, TestEnv!PllIsSafe, TestEnv!PllSteps

-----------------------------------------------------------------------------
(* The timer of the DarkRISCV and the firmware that counts its ticks.      *)
Raises == hw.timerff # 0 /\ hw.timer = 0 /\ ~Timer!Pending

LEMMA TimerFacts ==
  ASSUME Timer!TimerTypes, Timer!DarkTimerAssumption,
         NEW ack \in BOOLEAN, NEW ff \in Periods, Timer!Timer(ack, ff)
  PROVE  /\ hw' \in [timerff : Periods, timer : Nat, ireq : {0, 1}, iack : {0, 1}]
         /\ hw'.timerff = ff
         /\ hw'.timer = IF hw.timerff = 0 THEN hw.timer
                        ELSE IF hw.timer # 0 THEN hw.timer - 1 ELSE hw.timerff
         /\ Timer!Pending' <=> Raises \/ (Timer!Pending /\ ~ack)
<1>1. /\ hw.timerff \in Nat /\ hw.timer \in Nat /\ hw.ireq \in {0, 1} /\ hw.iack \in {0, 1}
  BY DEF Timer!TimerTypes, Timer!DarkTimerAssumption
<1>2. /\ hw'.timerff = ff /\ hw'.iack = (IF ack THEN hw.ireq ELSE hw.iack)
      /\ hw'.timer = IF hw.timerff = 0 THEN hw.timer
                     ELSE IF hw.timer # 0 THEN hw.timer - 1 ELSE hw.timerff
      /\ hw'.ireq = IF hw.timerff # 0 /\ hw.timer = 0 /\ ~Timer!Pending
                    THEN 1 - hw.iack ELSE hw.ireq
      /\ hw' = [timerff |-> hw'.timerff, timer |-> hw'.timer,
                ireq |-> hw'.ireq, iack |-> hw'.iack]
  BY DEF Timer!Timer
<1>3. hw'.timer \in Nat /\ hw'.ireq \in {0, 1} /\ hw'.iack \in {0, 1}
  BY <1>1, <1>2
<1>4. Timer!Pending' <=> Raises \/ (Timer!Pending /\ ~ack)
  BY <1>1, <1>2 DEF Raises, Timer!Pending
<1> QED
  BY <1>2, <1>3, <1>4

(* A clock while usleep runs.                                              *)
LEMMA AsleepClock ==
  ASSUME Timer!TimerTypes, Timer!DarkTimerAssumption, Timer!Asleep,
         NEW ack \in BOOLEAN, Timer!Clock(ack, hw.timerff)
  PROVE  /\ hw' \in [timerff : Periods, timer : Nat, ireq : {0, 1}, iack : {0, 1}]
         /\ hw'.timerff = hw.timerff
         /\ hw'.timer = IF hw.timerff = 0 THEN hw.timer
                        ELSE IF hw.timer # 0 THEN hw.timer - 1 ELSE hw.timerff
         /\ Timer!Pending' <=> Raises \/ (Timer!Pending /\ ~ack)
         /\ span' \in [clocks : Nat, first : Nat] /\ span'.first = span.first
         /\ span'.clocks <= span.clocks + 1
         /\ \/ span'.clocks = span.clocks + 1
            \/ span'.clocks > Timer!Longest(span.first, hw.timerff)
<1>1. hw.timerff \in Periods /\ hw.timerff \in Nat /\ span.clocks \in Nat /\ span.first \in Nat
  BY DEF Timer!TimerTypes, Timer!DarkTimerAssumption
<1>2. Timer!Timer(ack, hw.timerff)
  BY DEF Timer!Clock
<1>3. span' = [span EXCEPT !.clocks =
                 Timer!Least(@ + 1, Timer!Longest(span.first, hw.timerff) + 1)]
  BY DEF Timer!Clock
<1>4. Timer!Longest(span.first, hw.timerff) \in Nat
  BY <1>1 DEF Timer!Longest, Timer!Slack, Timer!DarkTimerAssumption
<1>5. /\ span' \in [clocks : Nat, first : Nat] /\ span'.first = span.first
      /\ span'.clocks <= span.clocks + 1
      /\ \/ span'.clocks = span.clocks + 1
         \/ span'.clocks > Timer!Longest(span.first, hw.timerff)
  BY <1>1, <1>3, <1>4 DEF Timer!TimerTypes, Timer!Least
<1> QED
  BY <1>1, <1>2, <1>5, TimerFacts

LEMMA TicksTyped ==
  ASSUME Timer!TimerTypes, Timer!DarkTimerAssumption
  PROVE  /\ Timer!Ticks \in Nat /\ hw.timerff \in Nat /\ hw.timer \in Nat
         /\ span.clocks \in Nat /\ span.first \in Nat
         /\ Delay \in Nat /\ Delay >= 1 /\ main.delay \in 0 .. Delay
         /\ Slow \in Nat /\ Slow >= 8 /\ Reload \in Nat /\ Reload >= 1
<1>1. /\ hw.timerff \in Nat /\ hw.timer \in Nat /\ span.clocks \in Nat /\ span.first \in Nat
      /\ main.delay \in 0 .. Delay
  BY DEF Timer!TimerTypes, Timer!DarkTimerAssumption
<1>2. /\ Slow \in Nat /\ Slow >= 8 /\ Reload \in Nat /\ Reload >= 1
      /\ Delay \in Nat /\ Delay >= 1
  BY DEF Timer!DarkTimerAssumption
<1>3. /\ Delay - main.delay \in Nat
      /\ (IF Timer!Seen THEN 1 ELSE 0) \in Nat /\ (IF Timer!Uncounted THEN 1 ELSE 0) \in Nat
  BY <1>1, <1>2
<1>4. \A a, b, c \in Nat : a + b + c \in Nat
  OBVIOUS
<1> QED
  BY <1>1, <1>2, <1>3, <1>4 DEF Timer!Ticks

LEMMA TicksTypedNext ==
  ASSUME Timer!TimerTypes', Timer!DarkTimerAssumption
  PROVE  /\ Timer!Ticks' \in Nat /\ hw'.timerff \in Nat /\ hw'.timer \in Nat
         /\ span'.clocks \in Nat /\ span'.first \in Nat
<1>1. /\ hw'.timerff \in Nat /\ hw'.timer \in Nat /\ span'.clocks \in Nat
      /\ span'.first \in Nat /\ main'.delay \in 0 .. Delay
  BY DEF Timer!TimerTypes, Timer!DarkTimerAssumption
<1>2. Delay \in Nat
  BY DEF Timer!DarkTimerAssumption
<1>3. /\ Delay - main'.delay \in Nat
      /\ (IF Timer!Seen' THEN 1 ELSE 0) \in Nat /\ (IF Timer!Uncounted' THEN 1 ELSE 0) \in Nat
  BY <1>1, <1>2
<1>4. \A a, b, c \in Nat : a + b + c \in Nat
  OBVIOUS
<1> QED
  BY <1>1, <1>3, <1>4 DEF Timer!Ticks

LEMMA Distributes ==
  \A n, k \in Int : /\ (n + 1) * k = n * k + k /\ (n - 1) * k = n * k - k
                    /\ n * k \in Int
OBVIOUS

LEMMA Monotone ==
  \A m, n \in Int, k \in Nat : m <= n => m * k <= n * k
OBVIOUS

-----------------------------------------------------------------------------
(* A clock that counts no more ticks than are raised keeps usleep from     *)
(* being too short.                                                        *)
LEMMA ShortStep ==
  ASSUME Timer!TimerTypes, Timer!DarkTimerAssumption, Timer!Asleep, Timer!NotTooShort,
         NEW ack \in BOOLEAN, Timer!Clock(ack, hw.timerff),
         Timer!Ticks' \in Nat, Timer!Ticks' <= Timer!Ticks + (IF Raises THEN 1 ELSE 0),
         Timer!Ticks' >= 1
  PROVE  \/ span'.clocks > Timer!Longest(span'.first, hw'.timerff)
         \/ Timer!AtLeast(Timer!Ticks)'
<1> DEFINE P == hw.timerff + 1
           k == Timer!Ticks
           n == Timer!Ticks'
<1>1. /\ k \in Nat /\ n \in Nat /\ n >= 1 /\ P \in Nat /\ hw.timer \in Nat /\ hw.timerff \in Nat
      /\ span.clocks \in Nat
  BY TicksTyped
<1>2. /\ hw'.timerff = hw.timerff /\ span'.first = span.first
      /\ hw'.timer = IF hw.timerff = 0 THEN hw.timer
                     ELSE IF hw.timer # 0 THEN hw.timer - 1 ELSE hw.timerff
      /\ span'.clocks \in Nat
      /\ \/ span'.clocks = span.clocks + 1
         \/ span'.clocks > Timer!Longest(span.first, hw.timerff)
  BY AsleepClock
<1>3. CASE span'.clocks > Timer!Longest(span.first, hw.timerff)
  BY <1>2, <1>3
<1>4. CASE span'.clocks = span.clocks + 1 /\ span.clocks > Timer!Longest(span.first, hw.timerff)
  <2>1. Timer!Longest(span.first, hw.timerff) \in Nat
    BY <1>1, TicksTyped DEF Timer!Longest, Timer!Slack
  <2> QED
    BY <1>1, <1>2, <1>4, <2>1
<1>5. CASE span'.clocks = span.clocks + 1 /\ ~(span.clocks > Timer!Longest(span.first, hw.timerff))
  <2>1. k >= 1 => hw.timer <= hw.timerff /\ span.clocks >= (k - 1) * P + (hw.timerff - hw.timer)
    BY <1>5 DEF Timer!NotTooShort, Timer!AtLeast, Timer!Period
  <2> HIDE DEF k, n, P
  <2>2. n <= k + (IF Raises THEN 1 ELSE 0)
    BY DEF k, n
  <2>3. P = hw.timerff + 1
    BY DEF P
  <2>4. hw'.timer <= hw.timerff /\ span'.clocks >= (n - 1) * P + (hw.timerff - hw'.timer)
    <3>1. CASE Raises
      <4>1. hw'.timer = hw.timerff /\ hw.timer = 0
        BY <1>2, <3>1 DEF Raises
      <4>2. CASE k = 0
        <5>1. (n - 1) * P = 0
          <6>1. n - 1 = 0
            BY <1>1, <2>2, <3>1, <4>2
          <6> QED
            BY <1>1, <6>1
        <5> QED
          BY <1>1, <1>2, <4>1, <5>1
      <4>3. CASE k >= 1
        <5>1. (n - 1) * P <= k * P
          BY <1>1, <2>2, <3>1, Monotone
        <5>2. k * P = (k - 1) * P + P /\ (k - 1) * P \in Int /\ (n - 1) * P \in Int
          BY <1>1, Distributes
        <5> QED
          BY <1>1, <1>5, <2>1, <2>3, <4>1, <4>3, <5>1, <5>2
      <4> QED
        BY <1>1, <4>2, <4>3
    <3>2. CASE ~Raises
      <4>1. k >= 1 /\ n <= k
        BY <1>1, <2>2, <3>2
      <4>2. (n - 1) * P <= (k - 1) * P /\ (n - 1) * P \in Int /\ (k - 1) * P \in Int
        BY <1>1, <4>1, Monotone, Distributes
      <4>3. hw'.timer <= hw.timerff /\ hw.timerff - hw'.timer <= hw.timerff - hw.timer + 1
        BY <1>1, <1>2, <2>1, <4>1
      <4> QED
        BY <1>1, <1>2, <1>5, <2>1, <4>1, <4>2, <4>3
    <3> QED
      BY <3>1, <3>2
  <2> QED
    BY <1>2, <2>4 DEF Timer!AtLeast, Timer!Period, n, P
<1> QED
  BY <1>2, <1>3, <1>4, <1>5

(* A clock that counts every tick that is raised keeps it from being too   *)
(* long.                                                                   *)
LEMMA LongStep ==
  ASSUME Timer!TimerTypes, Timer!DarkTimerAssumption, Timer!Asleep,
         hw.timerff >= Slow,
         span.clocks + hw.timer <= span.first + (Timer!Ticks + 1) * Timer!Period,
         NEW ack \in BOOLEAN, Timer!Clock(ack, hw.timerff), Timer!Ticks' \in Nat,
         Timer!Ticks' >= Timer!Ticks + (IF hw.timer = 0 THEN 1 ELSE 0)
  PROVE  span'.clocks + hw'.timer <= span'.first + (Timer!Ticks' + 1) * Timer!Period'
<1> DEFINE P == hw.timerff + 1
           k == Timer!Ticks
           n == Timer!Ticks'
<1>1. /\ k \in Nat /\ n \in Nat /\ P \in Nat /\ hw.timer \in Nat /\ hw.timerff \in Nat
      /\ span.clocks \in Nat /\ span.first \in Nat
  BY TicksTyped
<1>2. /\ hw'.timerff = hw.timerff /\ span'.first = span.first
      /\ hw'.timer = IF hw.timer # 0 THEN hw.timer - 1 ELSE hw.timerff
      /\ span'.clocks \in Nat /\ span'.clocks <= span.clocks + 1
  BY AsleepClock, TicksTyped
<1>3. /\ span.clocks + hw.timer <= span.first + (k + 1) * P
      /\ n >= k + (IF hw.timer = 0 THEN 1 ELSE 0)
  BY DEF Timer!Period
<1>7. P = hw.timerff + 1
  OBVIOUS
<1> HIDE DEF k, n, P
<1>4. (k + 1) * P \in Int /\ (n + 1) * P \in Int
  BY <1>1, Distributes
<1>5. CASE hw.timer # 0
  <2>1. (k + 1) * P <= (n + 1) * P
    BY <1>1, <1>3, <1>5, Monotone
  <2>2. span'.clocks + hw'.timer <= span'.first + (n + 1) * P
    BY <1>1, <1>2, <1>3, <1>4, <1>5, <2>1
  <2> QED
    BY <1>2, <2>2 DEF Timer!Period, n, P
<1>6. CASE hw.timer = 0
  <2>1. (k + 1 + 1) * P <= (n + 1) * P
    <3>1. k + 1 + 1 \in Int /\ n + 1 \in Int /\ k + 1 + 1 <= n + 1
      BY <1>1, <1>3, <1>6
    <3> QED
      BY <1>1, <3>1, Monotone
  <2>2. (k + 1 + 1) * P = (k + 1) * P + P
    BY <1>1, Distributes
  <2>4. span'.clocks + hw'.timer <= span'.first + (n + 1) * P
    BY <1>1, <1>2, <1>3, <1>4, <1>6, <1>7, <2>1, <2>2
  <2> QED
    BY <1>2, <2>4 DEF Timer!Period, n, P
<1> QED
  BY <1>5, <1>6

LEMMA TimerInit == Timer!DarkTimerAssumption /\ Timer!Init => Timer!TimerInv
<1> SUFFICES ASSUME Timer!DarkTimerAssumption, Timer!Init PROVE Timer!TimerInv
  OBVIOUS
<1>1. Timer!TimerTypes
  BY DEF Timer!Init, Timer!TimerTypes, Timer!DarkTimerAssumption
<1>2. main.pc = "start" /\ irq = "none" /\ utimers + since = Reload
  BY DEF Timer!Init, Timer!DarkTimerAssumption
<1> QED
  BY <1>1, <1>2 DEF Timer!TimerInv, Timer!Handles, Timer!NotTooShort, Timer!NotTooLong,
     Timer!LedPeriod, Timer!SleepIsAccurate, Timer!Asleep

LEMMA CountTickFacts ==
  ASSUME Timer!TimerTypes, Timer!LedPeriod, Timer!DarkTimerAssumption, Timer!CountTick
  PROVE  /\ utimers' \in 0 .. Reload /\ utimers' # utimers
         /\ since' \in 0 .. Reload /\ Timer!LedPeriod'
<1>1. /\ utimers \in 0 .. Reload /\ Reload \in Nat /\ Reload >= 1
      /\ utimers + since = Reload /\ since \in 0 .. Reload
  BY DEF Timer!TimerTypes, Timer!LedPeriod, Timer!DarkTimerAssumption
<1> QED
  BY <1>1 DEF Timer!CountTick, Timer!LedPeriod, Timer!Least


(* The steps outside usleep.                                               *)
LEMMA TimerTypesStep ==
  ASSUME Timer!DarkTimerAssumption, Timer!TimerInv, Timer!Next
  PROVE  Timer!TimerTypes' /\ Timer!Handles' /\ Timer!LedPeriod'
<1> USE DEF Timer!TimerInv
<1>1. /\ main.rounds \in 0 .. Rounds /\ Rounds \in Nat \ {0} /\ Delay \in Nat \ {0}
      /\ main.delay \in 0 .. Delay /\ main.t \in 0 .. Reload /\ Reload \in Nat
      /\ utimers \in 0 .. Reload /\ hw.timer \in Nat /\ hw.timerff \in Periods
      /\ hw.timerff \in Nat /\ main.mtvec \in Cores /\ main.mtvec \in BOOLEAN
      /\ since \in 0 .. Reload
  BY DEF Timer!TimerTypes, Timer!DarkTimerAssumption
<1>2. ASSUME NEW ack \in BOOLEAN, NEW ff \in Periods, Timer!Clock(ack, ff)
      PROVE  /\ hw' \in [timerff : Periods, timer : Nat, ireq : {0, 1}, iack : {0, 1}]
             /\ Timer!Pending' <=> Raises \/ (Timer!Pending /\ ~ack)
             /\ span' \in [clocks : Nat, first : Nat]
  <2>1. Timer!Timer(ack, ff)
    BY <1>2 DEF Timer!Clock
  <2>2. \A f \in Nat : Timer!Longest(f, hw.timerff) \in Nat
    BY <1>1 DEF Timer!Longest, Timer!Slack
  <2>3. span' \in [clocks : Nat, first : Nat]
    BY <1>2, <2>2 DEF Timer!Clock, Timer!TimerTypes, Timer!Least
  <2> QED
    BY <2>1, <2>3, TimerFacts
<1>3. CASE Timer!Handler
  <2>1. Timer!Enter \/ Timer!Ack \/ Timer!Mret => UNCHANGED <<utimers, main, since>>
    BY DEF Timer!Enter, Timer!Ack, Timer!Mret
  <2>2. Timer!Count => Timer!CountTick /\ main' = main
    BY DEF Timer!Count
  <2>3. /\ utimers' \in 0 .. Reload /\ since' \in 0 .. Reload /\ Timer!LedPeriod'
        /\ main' = main
    BY <1>1, <1>3, <2>1, <2>2, CountTickFacts DEF Timer!Handler, Timer!LedPeriod
  <2>4. \E ack \in BOOLEAN : Timer!Clock(ack, hw.timerff)
    BY <1>3 DEF Timer!Handler, Timer!Enter, Timer!Count, Timer!Ack, Timer!Mret, Timer!Quiet,
       Timer!AckWrites
  <2>5. Timer!TimerTypes'
    BY <1>1, <1>2, <1>3, <2>3, <2>4
    DEF Timer!TimerTypes, Timer!Handler, Timer!Enter, Timer!Count, Timer!Ack, Timer!Mret
  <2>6. Timer!Handles'
    BY <1>1, <1>2, <1>3, <2>3
    DEF Timer!Handles, Timer!Handler, Timer!Enter, Timer!Count, Timer!Ack, Timer!Mret,
        Timer!Quiet, Timer!Asleep
  <2> QED
    BY <2>3, <2>5, <2>6
<1>4. CASE Timer!Main
  <2>1. irq' = irq /\ irq = "none"
    BY <1>4 DEF Timer!Main, Timer!Free, Timer!Start, Timer!Clear, Timer!PollTick, Timer!Idle,
       Timer!TimerCommand, Timer!RebootCommand, Timer!CallSleep, Timer!Arm, Timer!Wait, Timer!Slept
  <2>2. /\ utimers' \in 0 .. Reload /\ since' \in 0 .. Reload /\ Timer!LedPeriod'
    <3>1. CASE Timer!PollTick
      BY <3>1, CountTickFacts DEF Timer!PollTick
    <3>2. CASE Timer!Slept
      BY <1>1, <3>2 DEF Timer!Slept, Timer!LedPeriod
    <3>3. CASE UNCHANGED <<utimers, since>>
      BY <1>1, <3>3 DEF Timer!LedPeriod
    <3> QED
      BY <1>4, <3>1, <3>2, <3>3 DEF Timer!Main, Timer!Start, Timer!Clear, Timer!Idle,
         Timer!TimerCommand, Timer!RebootCommand, Timer!CallSleep, Timer!Arm, Timer!Wait
  <2>3. /\ hw' \in [timerff : Periods, timer : Nat, ireq : {0, 1}, iack : {0, 1}]
        /\ span' \in [clocks : Nat, first : Nat]
    <3>1. CASE Timer!CallSleep
      <4>1. Timer!Timer(FALSE, hw.timerff) /\ span' = [clocks |-> 1, first |-> hw.timer]
        BY <3>1 DEF Timer!CallSleep
      <4> QED
        BY <1>1, <4>1, TimerFacts
    <3>2. CASE ~Timer!CallSleep
      <4>1. \E ack \in BOOLEAN, ff \in Periods : Timer!Clock(ack, ff)
        BY <1>1, <1>4, <3>2
        DEF Timer!Main, Timer!Start, Timer!Clear, Timer!PollTick, Timer!Idle,
            Timer!TimerCommand, Timer!RebootCommand, Timer!Arm, Timer!Wait, Timer!Slept,
            Timer!Quiet, Timer!ClearsFirst
      <4> QED
        BY <1>2, <4>1
    <3> QED
      BY <3>1, <3>2
  <2>4. /\ main' \in [mtvec : Cores, rounds : 0 .. Rounds, delay : 0 .. Delay, t : 0 .. Reload,
                     pc : {"start", "clear", "prompt", "usleep", "arm", "wait", "slept"}]
        /\ main'.pc \in {"arm", "wait"} => main'.delay >= 1
        /\ main'.pc = "slept" => main'.delay = 0
        /\ main'.mtvec = main.mtvec
    <3>1. /\ main \in [mtvec : Cores, rounds : 0 .. Rounds, delay : 0 .. Delay, t : 0 .. Reload,
                      pc : {"start", "clear", "prompt", "usleep", "arm", "wait", "slept"}]
          /\ main.pc \in {"arm", "wait"} => main.delay >= 1
          /\ main.pc = "slept" => main.delay = 0
      BY DEF Timer!TimerTypes, Timer!Handles, Timer!Asleep
    <3>7. ASSUME NEW p \in {"start", "clear", "prompt", "usleep", "arm", "wait", "slept"},
                 NEW r \in 0 .. Rounds, NEW d \in 0 .. Delay, NEW t \in 0 .. Reload,
                 main' = [mtvec |-> main.mtvec, pc |-> p, rounds |-> r, delay |-> d, t |-> t],
                 p \in {"arm", "wait"} => d >= 1, p = "slept" => d = 0
          PROVE  /\ main' \in [mtvec : Cores, rounds : 0 .. Rounds, delay : 0 .. Delay, t : 0 .. Reload,
                           pc : {"start", "clear", "prompt", "usleep", "arm", "wait", "slept"}]
                 /\ main'.pc \in {"arm", "wait"} => main'.delay >= 1
                 /\ main'.pc = "slept" => main'.delay = 0
                 /\ main'.mtvec = main.mtvec
      BY <1>1, <3>7
    <3>8. main = [mtvec |-> main.mtvec, pc |-> main.pc, rounds |-> main.rounds,
                  delay |-> main.delay, t |-> main.t]
      BY <3>1
    <3>2. CASE Timer!Start \/ Timer!Clear \/ Timer!PollTick
      <4>1. PICK p \in {"clear", "prompt"} : main' = [main EXCEPT !.pc = p]
        BY <3>2 DEF Timer!Start, Timer!Clear, Timer!PollTick, Timer!Goto
      <4>2. main' = [mtvec |-> main.mtvec, pc |-> p, rounds |-> main.rounds,
                     delay |-> main.delay, t |-> main.t]
        BY <3>8, <4>1
      <4> QED
        BY <1>1, <3>7, <4>2
    <3>9. CASE Timer!RebootCommand
      <4>1. main' = [main EXCEPT !.pc = "usleep", !.rounds = Rounds]
        BY <3>9 DEF Timer!RebootCommand
      <4>2. main' = [mtvec |-> main.mtvec, pc |-> "usleep", rounds |-> Rounds,
                     delay |-> main.delay, t |-> main.t]
        BY <3>8, <4>1
      <4> QED
        BY <1>1, <3>7, <4>2
    <3>3. CASE Timer!Idle \/ \E n \in Periods : Timer!TimerCommand(n)
      BY <3>1, <3>3 DEF Timer!Idle, Timer!TimerCommand
    <3>4. CASE Timer!CallSleep \/ Timer!Arm
      <4>1. \/ main' = [mtvec |-> main.mtvec, pc |-> "arm", rounds |-> main.rounds,
                         delay |-> Delay, t |-> main.t]
            \/ /\ main' = [mtvec |-> main.mtvec, pc |-> "wait", rounds |-> main.rounds,
                            delay |-> main.delay, t |-> utimers]
               /\ main.pc = "arm"
        BY <1>1, <3>4, <3>8 DEF Timer!CallSleep, Timer!Arm, Timer!Sample
      <4> QED
        BY <1>1, <3>1, <3>7, <4>1
    <3>5. CASE Timer!Wait
      <4>1. \/ main' = main
            \/ /\ main' = [mtvec |-> main.mtvec, pc |-> "arm", rounds |-> main.rounds,
                            delay |-> main.delay - 1, t |-> main.t]
               /\ main.delay > 1
            \/ main' = [mtvec |-> main.mtvec, pc |-> "slept", rounds |-> main.rounds,
                         delay |-> 0, t |-> main.t]
        BY <1>1, <3>5, <3>8 DEF Timer!Wait
      <4>2. main.delay > 1 => main.delay - 1 \in 0 .. Delay /\ main.delay - 1 >= 1
        BY <1>1
      <4> QED
        BY <1>1, <3>1, <3>7, <4>1, <4>2
    <3>6. CASE Timer!Slept
      <4>1. \/ /\ main' = [mtvec |-> main.mtvec, pc |-> "usleep", rounds |-> main.rounds - 1,
                            delay |-> main.delay, t |-> main.t]
               /\ main.rounds > 1
            \/ main' = [mtvec |-> main.mtvec, pc |-> "start", rounds |-> 0,
                         delay |-> main.delay, t |-> main.t]
        BY <1>1, <3>6, <3>8 DEF Timer!Slept
      <4>2. main.rounds > 1 => main.rounds - 1 \in 0 .. Rounds
        BY <1>1
      <4> QED
        BY <1>1, <3>1, <3>7, <4>1, <4>2
    <3> QED
      BY <1>4, <3>2, <3>3, <3>4, <3>5, <3>6, <3>9 DEF Timer!Main
  <2> QED
    BY <2>1, <2>2, <2>3, <2>4 DEF Timer!TimerTypes, Timer!Handles, Timer!Asleep
<1> QED
  BY <1>3, <1>4 DEF Timer!Next

(* A step that ends outside usleep says nothing of it.                     *)
LEMMA AwakeStep ==
  ASSUME Timer!DarkTimerAssumption, Timer!TimerInv, Timer!Next,
         main'.pc \notin {"arm", "wait"}, main'.pc = "slept" => main.pc = "slept"
  PROVE  Timer!NotTooShort' /\ Timer!NotTooLong' /\ Timer!SleepIsAccurate'
<1>1. Timer!NotTooShort' /\ Timer!NotTooLong'
  BY DEF Timer!NotTooShort, Timer!NotTooLong, Timer!Asleep
<1>2. CASE main'.pc = "slept"
  <2>1. Timer!Handler \/ Timer!Start \/ Timer!Idle
    BY <1>2 DEF Timer!Next, Timer!Main, Timer!Start, Timer!Clear, Timer!PollTick, Timer!Idle,
       Timer!TimerCommand, Timer!RebootCommand, Timer!CallSleep, Timer!Arm, Timer!Wait,
       Timer!Slept, Timer!Goto, Timer!TimerInv, Timer!TimerTypes
  <2>2. \E ack \in BOOLEAN : Timer!Clock(ack, hw.timerff)
    BY <1>2, <2>1 DEF Timer!Start, Timer!Idle, Timer!Handler, Timer!Enter, Timer!Count,
       Timer!Ack, Timer!Mret, Timer!Quiet, Timer!AckWrites
  <2>3. main.pc = "slept" /\ span' = span /\ hw'.timerff = hw.timerff
    BY <1>2, <2>2 DEF Timer!Clock, Timer!Timer, Timer!Asleep
  <2> QED
    BY Zenon, <1>1, <2>3 DEF Timer!TimerInv, Timer!SleepIsAccurate, Timer!Longest
<1>3. CASE main'.pc # "slept"
  BY Zenon, <1>1, <1>3 DEF Timer!SleepIsAccurate
<1> QED
  BY <1>1, <1>2, <1>3

(* usleep is called.                                                       *)
LEMMA CallSleepStep ==
  ASSUME Timer!DarkTimerAssumption, Timer!TimerInv, Timer!TimerTypes', Timer!CallSleep
  PROVE  Timer!NotTooShort' /\ Timer!NotTooLong' /\ Timer!SleepIsAccurate'
<1> USE DEF Timer!TimerInv
<1>1. /\ main' = [main EXCEPT !.pc = "arm", !.delay = Delay] /\ irq' = irq /\ irq = "none"
      /\ span' = [clocks |-> 1, first |-> hw.timer]
      /\ main.pc = "usleep" /\ (main.mtvec => ~Timer!Pending)
      /\ Timer!Timer(FALSE, hw.timerff)
  BY DEF Timer!CallSleep, Timer!Free
<1>2. /\ main'.pc = "arm" /\ main'.delay = Delay /\ main'.mtvec = main.mtvec
  BY <1>1 DEF Timer!TimerTypes
<1>3. /\ hw'.timerff = hw.timerff
      /\ hw'.timer = IF hw.timerff = 0 THEN hw.timer
                     ELSE IF hw.timer # 0 THEN hw.timer - 1 ELSE hw.timerff
      /\ Timer!Pending' <=> Raises \/ Timer!Pending
      /\ hw.timerff \in Nat /\ hw.timer \in Nat /\ Delay \in Nat /\ Slow >= 8 /\ Slow \in Nat
  BY <1>1, TimerFacts, TicksTyped DEF Timer!TimerTypes
<1>4. ~Timer!Seen' /\ (Timer!Uncounted' => Raises)
  BY <1>1, <1>2, <1>3 DEF Timer!Seen, Timer!Uncounted
<1>5. Timer!Ticks' = IF Timer!Uncounted' THEN 1 ELSE 0
  BY <1>2, <1>3, <1>4 DEF Timer!Ticks
<1>6. Timer!NotTooShort'
  <2>1. SUFFICES ASSUME Timer!Ticks' >= 1 PROVE Timer!AtLeast(Timer!Ticks)'
    BY DEF Timer!NotTooShort
  <2>2. Timer!Ticks' = 1 /\ Raises
    BY <1>4, <1>5, <2>1
  <2>3. hw'.timer = hw'.timerff /\ span'.clocks = 1
    BY <1>1, <1>3, <2>2 DEF Raises
  <2>4. (Timer!Ticks' - 1) * Timer!Period' = 0
    BY <1>3, <2>2 DEF Timer!Period
  <2> QED
    BY <1>3, <2>3, <2>4 DEF Timer!AtLeast
<1>7. ASSUME hw'.timerff >= Slow
      PROVE  /\ span'.clocks + hw'.timer <= span'.first + (Timer!Ticks' + 1) * Timer!Period'
             /\ main'.mtvec /\ Timer!Pending' => span'.clocks + hw'.timer <= span'.first + Timer!Period'
  <2>1. Timer!Period' = hw.timerff + 1 /\ hw.timerff >= 8
    BY <1>3, <1>7 DEF Timer!Period
  <2>2. span'.clocks = 1 /\ span'.first = hw.timer
    BY <1>1
  <2>3. Timer!Ticks' \in {0, 1}
    BY <1>5
  <2>4. (Timer!Ticks' + 1) * Timer!Period' >= Timer!Period'
    BY <1>3, <2>1, <2>3
  <2>5. (Timer!Ticks' + 1) * Timer!Period' \in Int
    BY <1>3, <2>1, <2>3
  <2> QED
    BY <1>3, <2>1, <2>2, <2>4, <2>5
<1>8. ASSUME hw'.timerff >= Slow
      PROVE  IF main'.mtvec THEN Timer!HandlerInPeriod' ELSE Timer!PollInPeriod'
  BY <1>1, <1>2, <1>3, <1>4, <1>8 DEF Timer!HandlerInPeriod, Timer!PollInPeriod, Raises
<1> QED
  BY <1>1, <1>2, <1>6, <1>7, <1>8 DEF Timer!NotTooLong, Timer!SleepIsAccurate

(* A step of usleep, and what it makes of the ticks.                       *)
LEMMA AsleepStep ==
  ASSUME Timer!DarkTimerAssumption, Timer!TimerInv, Timer!TimerTypes', Timer!Asleep,
         NEW ack \in BOOLEAN, Timer!Clock(ack, hw.timerff),
         Timer!Ticks' <= Timer!Ticks + (IF Raises THEN 1 ELSE 0)
  PROVE  /\ Timer!NotTooShort'
         /\ main'.pc = "slept" /\ Timer!Ticks' >= Delay =>
              span'.clocks >= (Delay - 1) * (hw'.timerff + 1)
<1>1. Timer!Ticks' \in Nat
  BY TicksTypedNext
<1>2. Timer!Ticks' >= 1 =>
        \/ span'.clocks > Timer!Longest(span'.first, hw'.timerff)
        \/ Timer!AtLeast(Timer!Ticks)'
  BY <1>1, ShortStep DEF Timer!TimerInv
<1>3. Timer!NotTooShort'
  BY <1>2 DEF Timer!NotTooShort
<1>4. ASSUME main'.pc = "slept", Timer!Ticks' >= Delay
      PROVE  span'.clocks >= (Delay - 1) * (hw'.timerff + 1)
  <2> DEFINE P == hw'.timerff + 1
  <2>1. /\ P \in Nat /\ P >= 1 /\ Delay \in Nat /\ Delay >= 1 /\ span'.clocks \in Nat
        /\ span'.first \in Nat /\ hw'.timer \in Nat /\ hw'.timerff \in Nat
    BY TicksTyped, TicksTypedNext DEF Timer!TimerInv
  <2> HIDE DEF P
  <2>2. /\ (Delay - 1) * P <= Delay * P /\ Delay * P \in Int /\ (Delay - 1) * P \in Int
        /\ (Delay - 1) * P <= (Timer!Ticks' - 1) * P /\ (Timer!Ticks' - 1) * P \in Int
    <3>1. Delay - 1 \in Int /\ Delay \in Int /\ Delay - 1 <= Delay
      BY <2>1
    <3>2. \A n \in Nat : n >= Delay => n - 1 \in Int /\ Delay - 1 <= n - 1
      BY <2>1
    <3>3. Timer!Ticks' - 1 \in Int /\ Delay - 1 <= Timer!Ticks' - 1
      BY <1>1, <1>4, <3>2
    <3> QED
      BY <2>1, <3>1, <3>3, Monotone, Distributes
  <2>3. CASE span'.clocks > Timer!Longest(span'.first, hw'.timerff)
    <3>1. Timer!Longest(span'.first, hw'.timerff) = span'.first + Delay * P + 8
      BY DEF Timer!Longest, Timer!Slack, P
    <3>2. span'.clocks >= (Delay - 1) * P
      BY <2>1, <2>2, <2>3, <3>1
    <3> QED
      BY <3>2 DEF P
  <2>4. CASE Timer!AtLeast(Timer!Ticks)'
    <3>1. /\ hw'.timer <= hw'.timerff
          /\ span'.clocks >= (Timer!Ticks' - 1) * P + (hw'.timerff - hw'.timer)
      BY <2>4 DEF Timer!AtLeast, Timer!Period, P
    <3>2. span'.clocks >= (Delay - 1) * P
      BY <2>1, <2>2, <3>1
    <3> QED
      BY <3>2 DEF P
  <2>5. Timer!Ticks' >= 1
    BY <1>1, <1>4, <2>1
  <2> QED
    BY <1>2, <2>3, <2>4, <2>5
<1> QED
  BY <1>3, <1>4

(* irq_handler while usleep runs.                                          *)
LEMMA HandlerStep ==
  ASSUME Timer!DarkTimerAssumption, Timer!TimerInv, Timer!TimerTypes', Timer!Asleep,
         Timer!Handler
  PROVE  Timer!NotTooShort' /\ Timer!NotTooLong' /\ Timer!SleepIsAccurate'
<1> USE DEF Timer!TimerInv
<1>1. PICK ack \in BOOLEAN :
        Timer!Clock(ack, hw.timerff) /\ (ack => irq = "ack") /\ (irq = "ack" => ack)
  BY DEF Timer!Handler, Timer!Enter, Timer!Count, Timer!Ack, Timer!Mret, Timer!Quiet,
     Timer!AckWrites
<1>2. /\ hw'.timerff = hw.timerff
      /\ hw'.timer = IF hw.timerff = 0 THEN hw.timer
                     ELSE IF hw.timer # 0 THEN hw.timer - 1 ELSE hw.timerff
      /\ Timer!Pending' <=> Raises \/ (Timer!Pending /\ ~ack)
      /\ span'.first = span.first
      /\ span'.clocks <= span.clocks + 1
  BY <1>1, AsleepClock
<1>3. /\ main' = main /\ main.mtvec /\ main.pc \in {"arm", "wait"}
      /\ main.delay >= 1
      /\ irq # "count" => utimers' = utimers
  BY DEF Timer!Handler, Timer!Enter, Timer!Count, Timer!Ack, Timer!Mret, Timer!Handles,
     Timer!Asleep
<1>4. /\ Timer!Ticks' \in Nat /\ hw.timerff \in Nat /\ hw.timer \in Nat
      /\ Timer!Ticks \in Nat
      /\ span.clocks \in Nat /\ span.first \in Nat
      /\ Delay \in Nat /\ Delay >= 1 /\ main.delay \in 0 .. Delay
      /\ Slow \in Nat /\ Slow >= 8
  BY TicksTyped, TicksTypedNext
<1>5. irq = "count" => utimers' # utimers
  BY CountTickFacts DEF Timer!Handler, Timer!Enter, Timer!Count, Timer!Ack, Timer!Mret
<1>6. /\ irq = "none" => Timer!Pending /\ irq' = "count"
      /\ irq = "count" => Timer!Pending /\ irq' = "ack"
      /\ irq = "ack" => Timer!Pending /\ irq' = "return"
      /\ irq = "return" => irq' \in {"restore", "none"}
      /\ irq = "restore" => irq' = "none"
      /\ irq \in {"none", "count", "ack", "return", "restore"}
  BY DEF Timer!Handler, Timer!Enter, Timer!Count, Timer!Ack, Timer!Mret, Timer!Handles
<1>7. Timer!Uncounted' <=> (Timer!Uncounted /\ irq # "count") \/ Raises
  BY <1>1, <1>2, <1>3, <1>6 DEF Timer!Uncounted, Raises
<1>8. /\ irq # "count" => Timer!Seen' = Timer!Seen
      /\ Timer!Uncounted => ~Raises
      /\ irq = "count" => Timer!Uncounted
  BY <1>3, <1>6 DEF Timer!Seen, Timer!Uncounted, Timer!Ticked, Raises
<1>9. /\ irq # "count" => Timer!Ticks' = Timer!Ticks + (IF Raises THEN 1 ELSE 0)
      /\ irq = "count" => Timer!Ticks' <= Timer!Ticks
  BY <1>3, <1>4, <1>7, <1>8 DEF Timer!Ticks
<1>10. Timer!NotTooShort'
  BY <1>1, <1>4, <1>9, AsleepStep
<1>11. ASSUME hw'.timerff >= Slow PROVE Timer!HandlerInPeriod'
  <2>1. Timer!HandlerInPeriod
    BY <1>2, <1>3, <1>11 DEF Timer!NotTooLong
  <2>2. hw.timerff >= 8 /\ hw'.timer = IF hw.timer # 0 THEN hw.timer - 1 ELSE hw.timerff
    BY <1>2, <1>4, <1>11
  <2>3. /\ irq' = "none" /\ Timer!Pending' => hw'.timer = hw'.timerff
        /\ irq' = "count" => hw'.timer = hw'.timerff - 1
        /\ irq' = "ack" => hw'.timer = hw'.timerff - 2
        /\ irq' = "return" => hw'.timer = hw'.timerff - 3
        /\ irq' = "restore" => hw'.timer = hw'.timerff - 4
        /\ irq' \in {"return", "restore"} => ~Timer!Pending'
    BY <1>1, <1>2, <1>4, <1>6, <2>1, <2>2 DEF Timer!HandlerInPeriod, Raises
  <2>4. Timer!Seen' => ~Timer!Uncounted' /\ hw'.timer >= hw'.timerff - 5
    <3>1. irq = "none" => Timer!Uncounted
      BY <1>3, <1>6 DEF Timer!Uncounted
    <3>2. /\ irq \in {"count", "ack", "return", "restore"} => ~Raises
          /\ irq \in {"ack", "return", "restore"} => ~Timer!Uncounted
      BY <1>4, <1>6, <2>1, <2>2 DEF Timer!HandlerInPeriod, Raises, Timer!Uncounted
    <3>3. irq \in {"count", "ack", "return", "restore"} => hw'.timer >= hw'.timerff - 5
      BY <1>2, <1>4, <2>1, <2>2 DEF Timer!HandlerInPeriod
    <3>4. Timer!Seen /\ irq = "none" => FALSE
      BY <2>1, <3>1 DEF Timer!HandlerInPeriod
    <3> QED
      BY <1>6, <1>7, <1>8, <3>2, <3>3, <3>4
  <2>5. ~(main'.pc = "arm" /\ main'.delay < Delay)
    BY <1>3, <1>6, <2>1 DEF Timer!HandlerInPeriod
  <2> QED
    BY <2>3, <2>4, <2>5 DEF Timer!HandlerInPeriod
<1>12. ASSUME hw'.timerff >= Slow
       PROVE  /\ span'.clocks + hw'.timer <= span'.first + (Timer!Ticks' + 1) * Timer!Period'
              /\ main'.pc = "arm" /\ (Timer!Pending' \/ irq' # "none") =>
                   main'.delay = Delay /\ span'.clocks + hw'.timer <= span'.first + Timer!Period'
  <2>1. /\ Timer!HandlerInPeriod /\ Timer!Period' = Timer!Period
        /\ Timer!Period = hw.timerff + 1 /\ hw.timerff >= 8
        /\ span.clocks + hw.timer <= span.first + (Timer!Ticks + 1) * Timer!Period
        /\ main.pc = "arm" /\ (Timer!Pending \/ irq # "none") =>
             main.delay = Delay /\ span.clocks + hw.timer <= span.first + Timer!Period
    BY <1>2, <1>3, <1>4, <1>12 DEF Timer!NotTooLong, Timer!Asleep, Timer!Period
  <2>2. hw.timer = 0 => Raises
    BY <1>6, <2>1 DEF Timer!HandlerInPeriod, Raises
  <2>3. main.pc = "arm" => span'.clocks + hw'.timer <= span'.first + Timer!Period'
    <3>1. hw.timer # 0
      BY <1>4, <1>6, <2>1 DEF Timer!HandlerInPeriod
    <3>2. span'.clocks + hw'.timer <= span.clocks + hw.timer
      BY <1>2, <1>4, <2>1, <3>1, TicksTypedNext
    <3>3. Timer!Period \in Nat
      BY <1>4, <2>1
    <3> QED
      BY <1>2, <1>4, <1>6, <2>1, <3>2, <3>3, TicksTypedNext
  <2>4. CASE main.pc = "arm"
    <3>1. Timer!Period' <= (Timer!Ticks' + 1) * Timer!Period'
      BY <1>4, <2>1
    <3>2. (Timer!Ticks' + 1) * Timer!Period' \in Int /\ Timer!Period' \in Int
      BY <1>4, <2>1
    <3> QED
      BY <1>2, <1>3, <1>4, <1>6, <2>1, <2>3, <2>4, <3>1, <3>2, TicksTypedNext
  <2>5. CASE main.pc = "wait"
    <3>1. irq = "count" => Timer!Ticks' = Timer!Ticks
      <4>1. irq = "count" => Timer!Uncounted /\ ~Timer!Seen /\ ~Raises
        BY <1>8, <2>1 DEF Timer!HandlerInPeriod
      <4>2. irq = "count" => ~Timer!Uncounted' /\ Timer!Seen'
        BY <1>3, <1>5, <1>7, <2>5, <4>1 DEF Timer!Seen, Timer!Ticked
      <4> QED
        BY <1>3, <1>4, <4>1, <4>2 DEF Timer!Ticks
    <3>2. Timer!Ticks' >= Timer!Ticks + (IF hw.timer = 0 THEN 1 ELSE 0)
      <4>1. irq = "count" => hw.timer # 0
        BY <1>4, <2>1 DEF Timer!HandlerInPeriod
      <4> QED
        BY <1>4, <1>9, <2>2, <3>1, <4>1
    <3> QED
      BY <1>1, <1>2, <1>3, <1>4, <1>12, <2>1, <2>5, <3>2, LongStep
  <2> QED
    BY <1>3, <2>4, <2>5
<1> QED
  BY <1>3, <1>10, <1>11, <1>12 DEF Timer!NotTooLong, Timer!SleepIsAccurate

(* usleep samples utimers, or clears the flag.                             *)
LEMMA ArmStep ==
  ASSUME Timer!DarkTimerAssumption, Timer!TimerInv, Timer!TimerTypes', Timer!Arm
  PROVE  Timer!NotTooShort' /\ Timer!NotTooLong' /\ Timer!SleepIsAccurate'
<1> USE DEF Timer!TimerInv
<1> DEFINE ack == ~main.mtvec
<1>1. /\ main.pc = "arm" /\ main.mtvec \in BOOLEAN /\ irq = "none"
      /\ main.mtvec => ~Timer!Pending
      /\ main' = [main EXCEPT !.pc = "wait", !.t = utimers] /\ UNCHANGED <<utimers, irq, since>>
      /\ Timer!Clock(ack, hw.timerff)
  BY DEF Timer!Arm, Timer!Free, Timer!Sample, Timer!ClearsFirst, Timer!TimerTypes,
     Timer!DarkTimerAssumption
<1>2. /\ main'.pc = "wait" /\ main'.t = utimers /\ main'.mtvec = main.mtvec
      /\ main'.delay = main.delay /\ Timer!Asleep
  BY <1>1 DEF Timer!TimerTypes, Timer!Asleep
<1>3. /\ hw'.timerff = hw.timerff
      /\ hw'.timer = IF hw.timerff = 0 THEN hw.timer
                     ELSE IF hw.timer # 0 THEN hw.timer - 1 ELSE hw.timerff
      /\ Timer!Pending' <=> Raises \/ (Timer!Pending /\ main.mtvec)
      /\ span'.first = span.first
      /\ span'.clocks <= span.clocks + 1
  BY <1>1, <1>2, AsleepClock
<1>4. /\ Timer!Ticks' \in Nat /\ hw.timerff \in Nat /\ hw.timer \in Nat /\ Timer!Ticks \in Nat
      /\ span.clocks \in Nat /\ span.first \in Nat /\ span'.clocks \in Nat /\ hw'.timer \in Nat
      /\ Delay \in Nat /\ Delay >= 1 /\ main.delay \in 0 .. Delay
      /\ Slow \in Nat /\ Slow >= 8
  BY TicksTyped, TicksTypedNext
<1>5. Timer!Pending' <=> Raises
  BY <1>1, <1>3
<1>6. /\ ~Timer!Seen /\ ~Timer!Uncounted
      /\ Timer!Uncounted' <=> main.mtvec /\ Raises
      /\ Timer!Seen' <=> ~main.mtvec /\ Raises
  BY <1>1, <1>2, <1>5 DEF Timer!Seen, Timer!Uncounted, Timer!Ticked
<1>7. Timer!Ticks' = Timer!Ticks + (IF Raises THEN 1 ELSE 0)
  BY <1>1, <1>2, <1>4, <1>6 DEF Timer!Ticks
<1>8. Timer!NotTooShort'
  <2>1. ack \in BOOLEAN
    BY <1>1
  <2>2. Timer!Ticks' <= Timer!Ticks + (IF Raises THEN 1 ELSE 0)
    BY <1>4, <1>7
  <2> HIDE DEF ack, Timer!TimerInv
  <2> QED
    BY <1>1, <1>2, <2>1, <2>2, AsleepStep
<1>9. ASSUME hw'.timerff >= Slow
      PROVE  /\ IF main'.mtvec THEN Timer!HandlerInPeriod' ELSE Timer!PollInPeriod'
             /\ span'.clocks + hw'.timer <= span'.first + (Timer!Ticks' + 1) * Timer!Period'
  <2>1. /\ hw.timerff >= 8 /\ Timer!Period' = Timer!Period /\ Timer!Period = hw.timerff + 1
        /\ IF main.mtvec THEN Timer!HandlerInPeriod ELSE Timer!PollInPeriod
        /\ span.clocks + hw.timer <= span.first + (Timer!Ticks + 1) * Timer!Period
    BY <1>2, <1>3, <1>4, <1>9 DEF Timer!NotTooLong, Timer!Period
  <2>2. IF main'.mtvec THEN Timer!HandlerInPeriod' ELSE Timer!PollInPeriod'
    BY <1>1, <1>2, <1>3, <1>4, <1>5, <1>6, <2>1
    DEF Timer!HandlerInPeriod, Timer!PollInPeriod, Raises
  <2>3. CASE hw.timer = 0 => Raises
    BY <1>1, <1>2, <1>3, <1>4, <1>7, <1>9, <2>1, <2>2, <2>3, LongStep
  <2>4. CASE hw.timer = 0 /\ ~Raises
    <3>1. Timer!Pending /\ ~main.mtvec
      BY <1>1, <2>1, <2>4 DEF Raises
    <3>2. main.delay = Delay /\ span.clocks <= 1 /\ span.first = 1
      BY <1>1, <1>4, <2>1, <2>4, <3>1 DEF Timer!PollInPeriod
    <3>3. span'.clocks <= 2 /\ hw'.timer = hw.timerff
      BY <1>3, <1>4, <2>1, <2>4, <3>2
    <3>4. Timer!Ticks' = 0
      BY <1>2, <1>4, <1>6, <2>4, <3>2 DEF Timer!Ticks
    <3>5. (Timer!Ticks' + 1) * Timer!Period' = Timer!Period'
      BY <1>4, <2>1, <3>4
    <3> QED
      BY <1>3, <1>4, <2>1, <2>2, <3>2, <3>3, <3>5
  <2> QED
    BY <2>3, <2>4
<1> QED
  BY <1>2, <1>8, <1>9 DEF Timer!NotTooLong, Timer!SleepIsAccurate

(* usleep waits for a tick.                                                *)
LEMMA WaitStep ==
  ASSUME Timer!DarkTimerAssumption, Timer!TimerInv, Timer!TimerTypes', Timer!Wait
  PROVE  Timer!NotTooShort' /\ Timer!NotTooLong' /\ Timer!SleepIsAccurate'
<1> USE DEF Timer!TimerInv
<1>1. /\ main.pc = "wait" /\ main.mtvec \in BOOLEAN /\ irq = "none"
      /\ main.mtvec => ~Timer!Pending
      /\ UNCHANGED <<utimers, irq, since>>
      /\ Timer!Clock(FALSE, hw.timerff) /\ main.delay >= 1 /\ Timer!Asleep
  BY DEF Timer!Wait, Timer!Free, Timer!Quiet, Timer!TimerTypes, Timer!DarkTimerAssumption,
     Timer!Handles, Timer!Asleep
<1>2. /\ hw'.timerff = hw.timerff
      /\ hw'.timer = IF hw.timerff = 0 THEN hw.timer
                     ELSE IF hw.timer # 0 THEN hw.timer - 1 ELSE hw.timerff
      /\ Timer!Pending' <=> Raises \/ Timer!Pending
      /\ span'.first = span.first
      /\ span'.clocks <= span.clocks + 1
  BY <1>1, AsleepClock
<1>3. /\ Timer!Ticks' \in Nat /\ hw.timerff \in Nat /\ hw.timer \in Nat /\ Timer!Ticks \in Nat
      /\ span.clocks \in Nat /\ span.first \in Nat /\ span'.clocks \in Nat /\ hw'.timer \in Nat
      /\ Delay \in Nat /\ Delay >= 1 /\ main.delay \in 0 .. Delay
      /\ Slow \in Nat /\ Slow >= 8
  BY TicksTyped, TicksTypedNext
<1>4. /\ ~Timer!Ticked => main' = main
      /\ Timer!Ticked /\ main.delay > 1 => main' = [main EXCEPT !.pc = "arm", !.delay = main.delay - 1]
      /\ Timer!Ticked /\ ~(main.delay > 1) => main' = [main EXCEPT !.pc = "slept", !.delay = 0]
  BY DEF Timer!Wait
<1>5. /\ main'.mtvec = main.mtvec /\ main'.t = main.t
      /\ ~Timer!Ticked => main'.pc = "wait" /\ main'.delay = main.delay
      /\ Timer!Ticked => main'.delay = main.delay - 1
      /\ Timer!Ticked => main'.pc = IF main.delay > 1 THEN "arm" ELSE "slept"
  <2>1. /\ main.delay > 1 \/ (main.delay = 1 /\ main.delay - 1 = 0)
        /\ main = [mtvec |-> main.mtvec, rounds |-> main.rounds, delay |-> main.delay,
                   t |-> main.t, pc |-> main.pc]
    <3>1. main \in [mtvec : Cores, rounds : 0 .. Rounds, delay : 0 .. Delay, t : 0 .. Reload,
                    pc : {"start", "clear", "prompt", "usleep", "arm", "wait", "slept"}]
      BY DEF Timer!TimerTypes
    <3>2. main = [mtvec |-> main.mtvec, rounds |-> main.rounds, delay |-> main.delay,
                  t |-> main.t, pc |-> main.pc]
      BY <3>1
    <3>3. main.delay > 1 \/ (main.delay = 1 /\ main.delay - 1 = 0)
      <4>1. main.delay \in Int /\ main.delay >= 1
        BY <1>1, <1>3
      <4> HIDE DEF Timer!TimerInv
      <4> QED
        BY <4>1
    <3> QED
      BY <3>2, <3>3
  <2>2. CASE ~Timer!Ticked
    BY <1>1, <1>4, <2>2
  <2>3. CASE Timer!Ticked /\ main.delay > 1
    <3>1. main' = [mtvec |-> main.mtvec, rounds |-> main.rounds, delay |-> main.delay - 1,
                   t |-> main.t, pc |-> "arm"]
      BY <1>4, <2>1, <2>3
    <3> QED
      BY <2>3, <3>1
  <2>4. CASE Timer!Ticked /\ ~(main.delay > 1)
    <3>1. main' = [mtvec |-> main.mtvec, rounds |-> main.rounds, delay |-> 0,
                   t |-> main.t, pc |-> "slept"]
      BY <1>4, <2>1, <2>4
    <3> QED
      BY <2>1, <2>4, <3>1
  <2> QED
    BY <2>2, <2>3, <2>4
<1>6. /\ Timer!Seen <=> Timer!Ticked
      /\ ~Timer!Uncounted \/ ~Timer!Ticked
      /\ Timer!Uncounted' <=> main.mtvec /\ Raises
      /\ Timer!Seen' <=> ~Timer!Ticked /\ ~main.mtvec /\ Raises
      /\ ~main.mtvec => (Timer!Ticked <=> Timer!Pending)
  BY <1>1, <1>2, <1>5 DEF Timer!Seen, Timer!Uncounted, Timer!Ticked
<1>7. Raises => ~Timer!Pending
  BY DEF Raises
<1>8. Timer!Ticks' = Timer!Ticks + (IF Raises THEN 1 ELSE 0)
  BY <1>1, <1>3, <1>5, <1>6, <1>7 DEF Timer!Ticks, Timer!Seen, Timer!Uncounted
<1>9. /\ Timer!NotTooShort'
      /\ main'.pc = "slept" /\ Timer!Ticks' >= Delay =>
           span'.clocks >= (Delay - 1) * (hw'.timerff + 1)
  <2>1. Timer!Ticks' <= Timer!Ticks + (IF Raises THEN 1 ELSE 0)
    BY <1>3, <1>8
  <2> HIDE DEF Timer!TimerInv
  <2> QED
    BY <1>1, <2>1, AsleepStep
<1>10. ASSUME hw'.timerff >= Slow
       PROVE  /\ IF main.mtvec THEN Timer!HandlerInPeriod ELSE Timer!PollInPeriod
              /\ hw.timerff >= 8 /\ Timer!Period' = Timer!Period /\ Timer!Period = hw.timerff + 1
              /\ span.clocks + hw.timer <= span.first + (Timer!Ticks + 1) * Timer!Period
  BY <1>1, <1>2, <1>3, <1>10 DEF Timer!NotTooLong, Timer!Period
<1>11. ASSUME hw'.timerff >= Slow
       PROVE  span'.clocks + hw'.timer <= span'.first + (Timer!Ticks' + 1) * Timer!Period'
  <2>1. hw.timer = 0 => Raises
    BY <1>1, <1>2, <1>6, <1>10, <1>11 DEF Timer!PollInPeriod, Timer!Seen, Raises
  <2> QED
    BY <1>1, <1>2, <1>3, <1>8, <1>10, <1>11, <2>1, LongStep
<1>12. ASSUME hw'.timerff >= Slow
       PROVE  IF main'.mtvec THEN Timer!HandlerInPeriod' ELSE Timer!PollInPeriod'
  <2>1. CASE main.mtvec
    <3>1. Timer!HandlerInPeriod /\ hw.timerff >= 8 /\ irq' = "none" /\ ~Timer!Pending
      BY <1>1, <1>10, <1>12, <2>1
    <3>2. Timer!Pending' => hw'.timer = hw'.timerff
      BY <1>2, <3>1 DEF Raises
    <3>3. ~Timer!Seen'
      BY <1>6, <2>1
    <3>4. ASSUME main'.pc = "arm"
          PROVE  ~Timer!Pending' /\ hw'.timer >= hw'.timerff - 6
      <4>1. Timer!Seen
        BY <1>5, <1>6, <3>4
      <4>2. hw.timer >= hw.timerff - 5
        BY <3>1, <4>1 DEF Timer!HandlerInPeriod
      <4>3. hw'.timer = hw.timer - 1 /\ ~Raises
        BY <1>2, <1>3, <3>1, <4>2 DEF Raises
      <4> QED
        BY <1>2, <1>3, <3>1, <4>2, <4>3
    <3>5. Timer!HandlerInPeriod'
      BY <3>1, <3>2, <3>3, <3>4 DEF Timer!HandlerInPeriod
    <3> QED
      BY <1>5, <2>1, <3>5
  <2>2. CASE ~main.mtvec
    <3>1. Timer!PollInPeriod /\ hw.timerff >= 8
      BY <1>10, <1>12, <2>2
    <3>2. Timer!Seen' => hw'.timer = hw'.timerff
      BY <1>2, <1>6, <3>1 DEF Raises
    <3>3. ASSUME main'.pc = "arm"
          PROVE  /\ main'.delay < Delay /\ Timer!Pending' /\ hw'.timer = hw'.timerff - 1
      <4>1. Timer!Seen /\ Timer!Pending
        BY <1>5, <1>6, <2>2, <3>3
      <4>2. hw.timer = hw.timerff
        BY <3>1, <4>1 DEF Timer!PollInPeriod
      <4>3. main'.delay < Delay
        BY <1>3, <1>5, <1>6, <4>1
      <4> QED
        BY <1>2, <1>3, <3>1, <4>1, <4>2, <4>3
    <3>4. Timer!PollInPeriod'
      <4>1. main'.pc = "arm" => main'.delay # Delay
        BY <1>3, <1>5, <3>3
      <4> QED
        BY <3>2, <3>3, <4>1 DEF Timer!PollInPeriod
    <3> QED
      BY <1>5, <2>2, <3>4
  <2> QED
    BY <2>1, <2>2
<1>13. main'.pc = "arm" /\ hw'.timerff >= Slow /\ main'.mtvec => ~Timer!Pending' /\ irq' = "none"
  BY <1>1, <1>5, <1>6, <1>12, <1>3 DEF Timer!HandlerInPeriod
<1>14. ASSUME main'.pc = "slept" PROVE Timer!SleepIsAccurate'
  <2>1. Timer!Ticked /\ main.delay = 1 /\ Timer!Seen /\ ~Timer!Uncounted
    <3>1. Timer!Ticked
      BY <1>5, <1>14
    <3>2. main.delay = 1
      BY <1>1, <1>3, <1>5, <1>14, <3>1
    <3> QED
      BY <1>6, <3>1, <3>2
  <2>2. Timer!Ticks = Delay
    BY <1>3, <2>1 DEF Timer!Ticks
  <2>3. span'.clocks >= (Delay - 1) * (hw'.timerff + 1)
    BY <1>3, <1>8, <1>9, <1>14, <2>2
  <2>4. ASSUME hw'.timerff >= Slow
        PROVE  span'.clocks <= Timer!Longest(span'.first, hw'.timerff)
    <3>1. hw.timer >= hw.timerff - 5
      BY <1>3, <1>10, <2>1, <2>4 DEF Timer!HandlerInPeriod, Timer!PollInPeriod
    <3>2. (Delay + 1) * Timer!Period = Delay * Timer!Period + Timer!Period
          /\ Delay * Timer!Period \in Int
      BY <1>3, <1>10, <2>4, Distributes
    <3>3. span.clocks + hw.timer <= span.first + Delay * Timer!Period + Timer!Period
      BY <1>10, <1>3, <2>2, <2>4, <3>2
    <3>4. span'.clocks <= span'.first + Delay * Timer!Period + 8
      BY <1>2, <1>3, <1>10, <2>4, <3>1, <3>2, <3>3
    <3> QED
      BY <1>2, <1>10, <2>4, <3>4 DEF Timer!Longest, Timer!Slack
  <2> QED
    BY <2>3, <2>4 DEF Timer!SleepIsAccurate
<1>15. main'.pc # "slept" => Timer!SleepIsAccurate'
  BY DEF Timer!SleepIsAccurate
<1>16. Timer!NotTooLong'
  BY <1>5, <1>11, <1>12, <1>13 DEF Timer!NotTooLong
<1> QED
  BY <1>9, <1>14, <1>15, <1>16

LEMMA TimerStep ==
  ASSUME Timer!DarkTimerAssumption, Timer!TimerInv, Timer!Next PROVE Timer!TimerInv'
<1>1. Timer!TimerTypes' /\ Timer!Handles' /\ Timer!LedPeriod'
  BY TimerTypesStep
<1>2. CASE Timer!CallSleep
  BY <1>1, <1>2, CallSleepStep DEF Timer!TimerInv
<1>3. CASE Timer!Arm
  BY <1>1, <1>3, ArmStep DEF Timer!TimerInv
<1>4. CASE Timer!Wait
  BY <1>1, <1>4, WaitStep DEF Timer!TimerInv
<1>5. CASE Timer!Handler /\ Timer!Asleep
  BY <1>1, <1>5, HandlerStep DEF Timer!TimerInv
<1>6. CASE /\ ~Timer!CallSleep /\ ~Timer!Arm /\ ~Timer!Wait
           /\ ~(Timer!Handler /\ Timer!Asleep)
  <2>1. Timer!Handler => main' = main
    BY DEF Timer!Handler, Timer!Enter, Timer!Count, Timer!Ack, Timer!Mret
  <2>2. CASE Timer!Handler
    BY <1>1, <1>6, <2>1, <2>2, AwakeStep DEF Timer!TimerInv, Timer!Asleep
  <2>3. CASE Timer!Main
    <3>1. main \in [mtvec : Cores, rounds : 0 .. Rounds, delay : 0 .. Delay, t : 0 .. Reload,
                    pc : {"start", "clear", "prompt", "usleep", "arm", "wait", "slept"}]
      BY DEF Timer!TimerInv, Timer!TimerTypes
    <3>2. main'.pc \notin {"arm", "wait", "slept"}
      BY <1>6, <2>3, <3>1
      DEF Timer!Main, Timer!Start, Timer!Clear, Timer!PollTick, Timer!Idle, Timer!TimerCommand,
          Timer!RebootCommand, Timer!Slept, Timer!Goto
    <3> QED
      BY <1>1, <3>2, AwakeStep DEF Timer!TimerInv
  <2> QED
    BY <2>2, <2>3 DEF Timer!Next
<1> QED
  BY <1>2, <1>3, <1>4, <1>5, <1>6

-----------------------------------------------------------------------------
(* The multiplications and divisions of the DarkRISCV firmware.            *)
LEMMA DivMod ==
  ASSUME NEW n \in Int, NEW m \in Nat \ {0}
  PROVE  /\ n \div m \in Int /\ n % m \in 0 .. m - 1
         /\ n = m * (n \div m) + (n % m)
<1>1. n \div m \in Int /\ n % m \in 0 .. m - 1
  OBVIOUS
<1>2. n = m * (n \div m) + (n % m)
  BY Z3
<1> QED
  BY <1>1, <1>2

LEMMA DivModIs ==
  ASSUME NEW n \in Int, NEW m \in Nat \ {0}, NEW q \in Int, NEW r \in 0 .. m - 1,
         n = q * m + r
  PROVE  n \div m = q /\ n % m = r
  OBVIOUS

LEMMA Grows ==
  ASSUME NEW n \in Nat, NEW m \in Nat \ {0}
  PROVE  n * m \in Nat /\ n <= n * m
  OBVIOUS

(* A multiple of the modulus does not count.                               *)
LEMMA ModuloIs ==
  ASSUME NEW n \in Int, NEW k \in Int, NEW m \in Nat \ {0}
  PROVE  (n + k * m) % m = n % m
<1> DEFINE q == n \div m
           r == n % m
<1>1. q \in Int /\ r \in 0 .. m - 1 /\ n = m * q + r
  BY DivMod
<1> HIDE DEF q, r
<1>2. n + k * m = (q + k) * m + r /\ n + k * m \in Int /\ q + k \in Int
  BY <1>1
<1>3. (n + k * m) % m = r
  BY <1>1, <1>2, DivModIs
<1> QED
  BY <1>3 DEF r

LEMMA WordFacts ==
  ASSUME Arith!DarkArithAssumption
  PROVE  /\ Arith!Msb \in Nat \ {0} /\ Arith!M = 2 * Arith!Msb /\ Arith!M \in Nat \ {0}
         /\ Arith!Words = 0 .. 2 * Arith!Msb - 1
         /\ 1 \in Arith!Powers
<1>1. ArithWidth - 1 \in 0 .. ArithWidth - 1 /\ ArithWidth - 1 + 1 = ArithWidth
      /\ 0 \in 0 .. ArithWidth - 1
  BY DEF Arith!DarkArithAssumption
<1>2. /\ 2 ^ (ArithWidth - 1) \in Nat \ {0}
      /\ 2 ^ (ArithWidth - 1 + 1) = 2 * 2 ^ (ArithWidth - 1)
  BY <1>1 DEF Arith!DarkArithAssumption
<1>3. Arith!Msb \in Nat \ {0} /\ Arith!M = 2 * Arith!Msb
  BY <1>1, <1>2 DEF Arith!Msb, Arith!M
<1>4. 2 ^ 0 = 1
  OBVIOUS
<1>5. 1 \in Arith!Powers
  BY <1>1, <1>4 DEF Arith!Powers
<1> QED
  BY <1>3, <1>5 DEF Arith!Words

(* A power of two is halved to one, or to nothing, and doubled below Msb.  *)
LEMMA PowerFacts ==
  ASSUME Arith!DarkArithAssumption, NEW n \in Arith!Powers
  PROVE  /\ n \in Nat \ {0}
         /\ n < Arith!Msb => 2 * n \in Arith!Powers
         /\ \/ n = 1
            \/ \E h \in Arith!Powers : n = 2 * h
<1>1. PICK i \in 0 .. ArithWidth - 1 : n = 2 ^ i
  BY DEF Arith!Powers
<1>2. n \in Nat \ {0} /\ 2 ^ (i + 1) = 2 * n
  BY <1>1 DEF Arith!DarkArithAssumption
<1>3. ArithWidth \in Nat \ {0}
  BY DEF Arith!DarkArithAssumption
<1>4. ASSUME n < Arith!Msb PROVE 2 * n \in Arith!Powers
  <2>1. i # ArithWidth - 1
    BY <1>1, <1>2, <1>4 DEF Arith!Msb
  <2>2. i + 1 \in 0 .. ArithWidth - 1
    BY <1>3, <2>1
  <2> QED
    BY <1>2, <2>2 DEF Arith!Powers
<1>5. n = 1 \/ \E h \in Arith!Powers : n = 2 * h
  <2>1. CASE i = 0
    <3>1. 2 ^ 0 = 1
      OBVIOUS
    <3> QED
      BY <1>1, <2>1, <3>1
  <2>2. CASE i # 0
    <3>1. i - 1 \in 0 .. ArithWidth - 1 /\ i - 1 + 1 = i
      BY <1>3, <2>2
    <3>2. 2 ^ (i - 1 + 1) = 2 * 2 ^ (i - 1)
      BY <3>1 DEF Arith!DarkArithAssumption
    <3>3. 2 ^ (i - 1) \in Arith!Powers
      BY <3>1 DEF Arith!Powers
    <3> QED
      BY <1>1, <3>1, <3>2, <3>3
  <2> QED
    BY <2>1, <2>2
<1> QED
  BY <1>2, <1>4, <1>5

(* Two's complement.                                                       *)
LEMMA ArithNegIs ==
  ASSUME Arith!DarkArithAssumption, NEW n \in Arith!Words
  PROVE  /\ Arith!Neg(n) \in Arith!Words
         /\ Arith!Neg(n) = IF n = 0 THEN 0 ELSE Arith!M - n
<1>1. Arith!M \in Nat \ {0} /\ Arith!Words = 0 .. Arith!M - 1 /\ n \in 0 .. Arith!M - 1
  BY WordFacts
<1>2. CASE n = 0
  <2>1. Arith!M % Arith!M = 0
    BY <1>1, DivModIs
  <2> QED
    BY <1>1, <1>2, <2>1 DEF Arith!Neg
<1>3. CASE n # 0
  <2>1. Arith!M - n \in 0 .. Arith!M - 1
    BY <1>1, <1>3
  <2>2. (Arith!M - n) % Arith!M = Arith!M - n
    BY <1>1, <2>1
  <2> QED
    BY <1>1, <1>3, <2>1, <2>2 DEF Arith!Neg
<1> QED
  BY <1>2, <1>3

LEMMA ArithAbsIs ==
  ASSUME Arith!DarkArithAssumption, NEW n \in Arith!Words
  PROVE  /\ Arith!Abs(n) \in Arith!Words
         /\ Arith!Value(n) = IF Arith!Negative(n) THEN -Arith!Abs(n) ELSE Arith!Abs(n)
         /\ Arith!AbsInt(Arith!Value(n)) = Arith!Abs(n)
         /\ Arith!Value(n) \in Int
         /\ Arith!Value(n) < 0 <=> Arith!Negative(n)
         /\ Arith!Abs(n) = 0 <=> n = 0
<1>1. /\ Arith!M = 2 * Arith!Msb /\ Arith!Msb \in Nat \ {0} /\ n \in 0 .. 2 * Arith!Msb - 1
      /\ Arith!Words = 0 .. 2 * Arith!Msb - 1
  BY WordFacts
<1>2. Arith!Abs(n) = IF n >= Arith!Msb THEN 2 * Arith!Msb - n ELSE n
  BY <1>1, ArithNegIs DEF Arith!Abs, Arith!Negative
<1>3. Arith!Value(n) = IF n >= Arith!Msb THEN n - 2 * Arith!Msb ELSE n
  BY <1>1 DEF Arith!Value, Arith!Negative
<1> QED
  BY <1>1, <1>2, <1>3 DEF Arith!Negative, Arith!AbsInt

(* The word that stands for an integer, and for its negative.              *)
LEMMA WordOf ==
  ASSUME Arith!DarkArithAssumption, NEW n \in Int
  PROVE  /\ n % Arith!M \in Arith!Words
         /\ (-n) % Arith!M = Arith!Neg(n % Arith!M)
<1> DEFINE m == Arith!M
           q == n \div m
           r == n % m
<1>1. m \in Nat \ {0} /\ Arith!Words = 0 .. m - 1
  BY WordFacts
<1>2. q \in Int /\ r \in 0 .. m - 1 /\ n = m * q + r
  BY <1>1, DivMod
<1>3. Arith!Neg(r) = IF r = 0 THEN 0 ELSE m - r
  BY <1>1, <1>2, ArithNegIs
<1> HIDE DEF m, q, r
<1>4. CASE r = 0
  <2>1. -n = (-q) * m + 0 /\ -q \in Int /\ -n \in Int /\ 0 \in 0 .. m - 1
    BY <1>1, <1>2, <1>4
  <2>2. (-n) % m = 0
    BY <1>1, <2>1, DivModIs
  <2> QED
    BY <1>1, <1>2, <1>3, <1>4, <2>2 DEF m, r
<1>5. CASE r # 0
  <2>1. /\ -n = (-q - 1) * m + (m - r) /\ -q - 1 \in Int /\ -n \in Int
        /\ m - r \in 0 .. m - 1
    BY <1>1, <1>2, <1>5
  <2>2. (-n) % m = m - r
    BY <1>1, <2>1, DivModIs
  <2> QED
    BY <1>1, <1>2, <1>3, <1>5, <2>2 DEF m, r
<1> QED
  BY <1>4, <1>5

(* The operands of a call as C reads them, by their signs.                 *)
Operand(v) == IF Arith!Signed(call.op) THEN Arith!Value(v) ELSE v

LEMMA ArithOperands ==
  ASSUME Arith!DarkArithAssumption, Arith!Called
  PROVE  /\ Arith!Magnitude(call.a) \in Arith!Words /\ Arith!Magnitude(call.b) \in Arith!Words
         /\ Operand(call.a) = IF call.xs THEN -Arith!Magnitude(call.a) ELSE Arith!Magnitude(call.a)
         /\ Operand(call.b) = IF call.ys THEN -Arith!Magnitude(call.b) ELSE Arith!Magnitude(call.b)
         /\ Arith!AbsInt(Operand(call.a)) = Arith!Magnitude(call.a)
         /\ Arith!AbsInt(Operand(call.b)) = Arith!Magnitude(call.b)
         /\ Operand(call.a) < 0 <=> call.xs
         /\ Operand(call.b) < 0 <=> call.ys
         /\ Arith!Magnitude(call.b) = 0 <=> call.b = 0
         /\ call.xs \in BOOLEAN /\ call.ys \in BOOLEAN
<1>1. /\ call.a \in Arith!Words /\ call.b \in Arith!Words
      /\ call.xs \in BOOLEAN /\ call.ys \in BOOLEAN
      /\ call.xs = (Arith!Signed(call.op) /\ Arith!Negative(call.a))
      /\ call.ys = (Arith!Signed(call.op) /\ Arith!Negative(call.b))
  BY DEF Arith!Called
<1>2. \A v \in Arith!Words : v \in Int /\ v >= 0
  BY WordFacts
<1>3. CASE Arith!Signed(call.op)
  BY <1>1, <1>3, ArithAbsIs DEF Operand, Arith!Magnitude
<1>4. CASE ~Arith!Signed(call.op)
  <2>1. \A v : Operand(v) = v /\ Arith!Magnitude(v) = v
    BY <1>4 DEF Operand, Arith!Magnitude
  <2>2. ~call.xs /\ ~call.ys
    BY <1>1, <1>4
  <2>3. \A v \in Int : v >= 0 => Arith!AbsInt(v) = v /\ ~(v < 0)
    BY DEF Arith!AbsInt
  <2> QED
    BY <1>1, <1>2, <2>1, <2>2, <2>3
<1> QED
  BY <1>3, <1>4

LEMMA ExpectedProduct ==
  ASSUME Arith!DarkArithAssumption, Arith!Called, Arith!IsMul(call.op),
         NEW p, p = (Arith!Magnitude(call.a) * Arith!Magnitude(call.b)) % Arith!M
  PROVE  Arith!Expected = IF call.xs # call.ys THEN Arith!Neg(p) ELSE p
<1> DEFINE a == Operand(call.a)
           b == Operand(call.b)
           n == Arith!Magnitude(call.a)
           d == Arith!Magnitude(call.b)
<1>1. /\ n \in Int /\ d \in Int /\ call.xs \in BOOLEAN /\ call.ys \in BOOLEAN
      /\ a = (IF call.xs THEN -n ELSE n) /\ b = (IF call.ys THEN -d ELSE d)
  BY ArithOperands, WordFacts
<1>2. Arith!Expected = (a * b) % Arith!M
  BY DEF Arith!Expected, Operand
<1> HIDE DEF a, b, n, d
<1>3. n * d \in Int /\ (-n) * d = -(n * d) /\ n * (-d) = -(n * d) /\ (-n) * (-d) = n * d
  BY <1>1
<1>4. a * b = IF call.xs # call.ys THEN -(n * d) ELSE n * d
  BY <1>1, <1>3
<1>5. p = (n * d) % Arith!M
  BY DEF n, d
<1> QED
  BY <1>2, <1>3, <1>4, <1>5, WordOf

LEMMA ExpectedQuotient ==
  ASSUME Arith!DarkArithAssumption, Arith!Called, ~Arith!IsMul(call.op), call.b # 0,
         NEW q \in Nat, NEW r \in Nat, r < Arith!Magnitude(call.b),
         q * Arith!Magnitude(call.b) + r = Arith!Magnitude(call.a)
  PROVE  /\ q \in Arith!Words /\ r \in Arith!Words
         /\ Arith!IsDiv(call.op) =>
              Arith!Expected = IF call.xs # call.ys THEN Arith!Neg(q) ELSE q
         /\ ~Arith!IsDiv(call.op) => Arith!Expected = IF call.xs THEN Arith!Neg(r) ELSE r
<1> DEFINE a == Operand(call.a)
           b == Operand(call.b)
           n == Arith!Magnitude(call.a)
           d == Arith!Magnitude(call.b)
           Q == Arith!Quotient(a, b)
<1>1. /\ n \in Arith!Words /\ d \in Arith!Words /\ d # 0
      /\ call.xs \in BOOLEAN /\ call.ys \in BOOLEAN
      /\ a = (IF call.xs THEN -n ELSE n) /\ b = (IF call.ys THEN -d ELSE d)
      /\ Arith!AbsInt(a) = n /\ Arith!AbsInt(b) = d
      /\ a < 0 <=> call.xs
      /\ b < 0 <=> call.ys
  BY ArithOperands
<1>2. /\ Arith!M \in Nat \ {0} /\ Arith!Words = 0 .. Arith!M - 1
      /\ n \in 0 .. Arith!M - 1 /\ d \in 0 .. Arith!M - 1
  BY <1>1, WordFacts
<1>3. Arith!Expected = IF Arith!IsDiv(call.op) THEN Q % Arith!M ELSE (a - b * Q) % Arith!M
  <2>1. b # 0
    BY <1>1, <1>2
  <2> QED
    BY <2>1 DEF Arith!Expected, Operand
<1>4. q * d + r = n /\ r < d
  OBVIOUS
<1>5. Q = IF call.xs # call.ys THEN -(n \div d) ELSE n \div d
  BY <1>1 DEF Arith!Quotient
<1> HIDE DEF a, b, n, d, Q
<1>6. n \div d = q
  <2>1. n \in Int /\ d \in Nat \ {0} /\ r \in 0 .. d - 1 /\ q \in Int /\ n = q * d + r
    BY <1>1, <1>2, <1>4
  <2> QED
    BY <2>1, DivModIs
<1>7. q <= q * d /\ q * d \in Nat
  BY <1>1, <1>2
<1>8. q \in Arith!Words /\ r \in Arith!Words
  BY <1>2, <1>4, <1>7
<1>9. q % Arith!M = q /\ r % Arith!M = r /\ q \in Int /\ r \in Int
  BY <1>2, <1>8
<1>10. Q = IF call.xs # call.ys THEN -q ELSE q
  BY <1>5, <1>6
<1>11. Q % Arith!M = IF call.xs # call.ys THEN Arith!Neg(q) ELSE q
  BY <1>9, <1>10, WordOf
<1>12. a - b * Q = IF call.xs THEN -r ELSE r
  <2>1. d * q = q * d /\ (-d) * (-q) = q * d /\ d * (-q) = -(q * d) /\ (-d) * q = -(q * d)
    BY <1>2
  <2>2. b * Q = IF call.xs THEN -(q * d) ELSE q * d
    <3>1. CASE call.xs /\ call.ys
      BY <1>1, <1>10, <2>1, <3>1
    <3>2. CASE call.xs /\ ~call.ys
      BY <1>1, <1>10, <2>1, <3>2
    <3>3. CASE ~call.xs /\ call.ys
      BY <1>1, <1>10, <2>1, <3>3
    <3>4. CASE ~call.xs /\ ~call.ys
      BY <1>1, <1>10, <2>1, <3>4
    <3> QED
      BY <1>1, <3>1, <3>2, <3>3, <3>4
  <2> QED
    BY <1>1, <1>2, <1>4, <1>7, <2>2
<1>13. (a - b * Q) % Arith!M = IF call.xs THEN Arith!Neg(r) ELSE r
  BY <1>9, <1>12, WordOf
<1> QED
  BY <1>3, <1>8, <1>11, <1>13

LEMMA ArithInit == Arith!DarkArithAssumption /\ Arith!Init => Arith!ArithInv
<1> SUFFICES ASSUME Arith!DarkArithAssumption, Arith!Init PROVE Arith!ArithInv
  OBVIOUS
<1>1. 0 \in Arith!Words
  BY WordFacts
<1> QED
  BY <1>1 DEF Arith!Init, Arith!NoCall, Arith!ArithInv, Arith!TypeOK, Arith!Called,
     Arith!Operations, Arith!Signed, Arith!Multiplies, Arith!MovedUp, Arith!MovedDown,
     Arith!ResultIsExpected

LEMMA CallStep ==
  ASSUME Arith!DarkArithAssumption, Arith!ArithInv,
         NEW op \in Arith!Operations, NEW a \in Arith!Words, NEW b \in Arith!Words,
         Arith!Call(op, a, b)
  PROVE  Arith!ArithInv'
<1> DEFINE u == IF Arith!Signed(op) THEN Arith!Abs(a) ELSE a
           v == IF Arith!Signed(op) THEN Arith!Abs(b) ELSE b
<1>1. /\ call' = [op |-> op, a |-> a, b |-> b,
                  xs |-> Arith!Signed(op) /\ Arith!Negative(a),
                  ys |-> Arith!Signed(op) /\ Arith!Negative(b)]
      /\ (x' = v /\ y' = u /\ Arith!IsMul(op)) \/ (x' = u /\ y' = v)
      /\ sum' = 0 /\ aux' = 1 /\ result' = 0
      /\ Arith!IsMul(op) => pc' = "mul"
      /\ ~Arith!IsMul(op) /\ b = 0 => pc' = "done"
      /\ ~Arith!IsMul(op) /\ b # 0 => pc' = "up"
  <2>1. IF Arith!IsMul(op) /\ u < v THEN x' = v /\ y' = u ELSE x' = u /\ y' = v
    BY DEF Arith!Call
  <2>2. pc' = CASE Arith!IsMul(op) -> "mul" [] ~Arith!IsMul(op) /\ b = 0 -> "done"
                [] OTHER -> "up"
    BY DEF Arith!Call
  <2> HIDE DEF u, v
  <2> QED
    BY <2>1, <2>2 DEF Arith!Call
<1>2. u \in Arith!Words /\ v \in Arith!Words /\ (v = 0 <=> b = 0)
  BY ArithAbsIs
<1>3. /\ call'.op = op /\ call'.a = a /\ call'.b = b
      /\ Arith!Magnitude(call.a)' = u /\ Arith!Magnitude(call.b)' = v
  BY <1>1 DEF Arith!Magnitude
<1>4. Arith!Called'
  <2>1. call' \in [op : Arith!Operations, a : Arith!Words, b : Arith!Words,
                   xs : BOOLEAN, ys : BOOLEAN]
    BY <1>1 DEF Arith!Signed, Arith!Negative
  <2> QED
    BY <1>1, <2>1 DEF Arith!Called
<1>5. Arith!TypeOK'
  <2>1. 0 \in Arith!Words /\ 1 \in Arith!Words
    BY WordFacts
  <2>2. pc' \in {"mul", "done", "up"}
    BY <1>1
  <2> HIDE DEF u, v
  <2> QED
    BY <1>1, <1>2, <2>1, <2>2 DEF Arith!TypeOK
<1>6. Arith!Multiplies'
  <2>1. u \in Int /\ v \in Int
    BY <1>2, WordFacts
  <2> HIDE DEF u, v
  <2>2. sum' + x' * y' = u * v
    BY <1>1, <2>1
  <2>3. (sum' + x' * y') % Arith!M =
          (Arith!Magnitude(call.a)' * Arith!Magnitude(call.b)') % Arith!M
    BY <1>3, <2>2
  <2> QED
    BY <2>3 DEF Arith!Multiplies
<1>7. Arith!MovedUp'
  <2>1. ~Arith!IsMul(op) => x' = u /\ y' = 1 * v
    BY <1>1, <1>2, WordFacts
  <2> HIDE DEF u, v
  <2>2. pc' = "up" => /\ x' = Arith!Magnitude(call.a)' /\ y' = aux' * Arith!Magnitude(call.b)'
                      /\ sum' = 0 /\ aux' \in Arith!Powers
    BY <1>1, <1>3, <2>1, WordFacts
  <2> QED
    BY <2>2 DEF Arith!MovedUp
<1>8. Arith!MovedDown'
  BY <1>1 DEF Arith!MovedDown
<1>9. Arith!ResultIsExpected'
  <2>1. SUFFICES ASSUME pc' = "done" PROVE result' = Arith!Expected'
    BY DEF Arith!ResultIsExpected
  <2>2. b = 0 /\ ~Arith!IsMul(op)
    BY <1>1, <2>1
  <2>3. Arith!Value(0) = 0
    <3>1. ~(0 >= Arith!Msb)
      BY WordFacts
    <3> QED
      BY <3>1 DEF Arith!Value, Arith!Negative
  <2> QED
    BY <1>1, <1>3, <2>2, <2>3 DEF Arith!Expected
<1> QED
  BY <1>4, <1>5, <1>6, <1>7, <1>8, <1>9 DEF Arith!ArithInv

(* One pass of the multiplication.                                         *)
LEMMA MulStepInv ==
  ASSUME Arith!DarkArithAssumption, Arith!ArithInv, Arith!MulStep PROVE Arith!ArithInv'
<1> DEFINE h == y \div 2
           o == y % 2
           m == Arith!M
<1>1. /\ pc = "mul" /\ pc' = pc /\ call' = call /\ aux' = aux /\ result' = result
      /\ sum' = (IF o = 1 THEN (sum + x) % m ELSE sum)
      /\ x' = (2 * x) % m /\ y' = h
  BY DEF Arith!MulStep, Arith!Shl, Arith!Shr
<1>2. /\ m \in Nat \ {0} /\ Arith!Words = 0 .. m - 1
      /\ x \in 0 .. m - 1 /\ y \in 0 .. m - 1 /\ sum \in 0 .. m - 1
  BY WordFacts DEF Arith!ArithInv, Arith!TypeOK
<1>3. h \in Int /\ o \in 0 .. 1 /\ y = 2 * h + o
  <2>1. y \in Int /\ 2 \in Nat \ {0} /\ 2 - 1 = 1
    BY <1>2
  <2> QED
    BY <2>1, DivMod
<1> HIDE DEF h, o, m
<1>4. h \in Nat /\ h \in 0 .. m - 1 /\ (o = 0 \/ o = 1)
  BY <1>2, <1>3
<1>5. PICK k \in Int : sum' = sum + o * x + k * m /\ sum' \in 0 .. m - 1
  <2>1. CASE o = 0
    <3>1. sum' = sum + o * x + 0 * m /\ sum' \in 0 .. m - 1
      BY <1>1, <1>2, <2>1
    <3> QED
      BY <3>1
  <2>2. CASE o = 1
    <3>1. sum + x \in Int /\ sum' = (sum + x) % m
      BY <1>1, <1>2, <2>2
    <3>2. (sum + x) \div m \in Int /\ sum' \in 0 .. m - 1
          /\ sum + x = m * ((sum + x) \div m) + sum'
      BY <1>2, <3>1, DivMod
    <3> DEFINE q == (sum + x) \div m
    <3>3. q \in Int /\ sum + x = m * q + sum'
      BY <3>2
    <3> HIDE DEF q
    <3>4. (-q) * m = -(m * q) /\ -q \in Int /\ m * q \in Int /\ o * x = x
      BY <1>2, <2>2, <3>3
    <3>6. PICK p \in Int : p = m * q /\ sum + x = p + sum'
      BY <3>3, <3>4
    <3>7. sum \in Int /\ x \in Int /\ sum' \in Int
      BY <1>2, <3>2
    <3>8. sum' = sum + x + (-p)
      BY <3>6, <3>7
    <3>5. sum' = sum + o * x + (-q) * m
      BY <3>4, <3>6, <3>8
    <3> QED
      BY <3>2, <3>4, <3>5
  <2> QED
    BY <1>4, <2>1, <2>2
<1>6. PICK j \in Int : x' = 2 * x + j * m /\ x' \in 0 .. m - 1
  <2>1. 2 * x \in Int
    BY <1>2
  <2> DEFINE q == (2 * x) \div m
  <2>2. q \in Int /\ x' \in 0 .. m - 1 /\ 2 * x = m * q + x'
    BY <1>1, <1>2, <2>1, DivMod
  <2> HIDE DEF q
  <2>3. (-q) * m = -(m * q) /\ -q \in Int /\ m * q \in Int
    BY <1>2, <2>2
  <2>5. PICK p \in Int : p = m * q /\ 2 * x = p + x'
    BY <2>2, <2>3
  <2>6. x \in Int /\ x' \in Int
    BY <1>2, <2>2
  <2>7. x' = 2 * x + (-p)
    BY <2>5, <2>6
  <2>4. x' = 2 * x + (-q) * m
    BY <2>3, <2>5, <2>7
  <2> QED
    BY <2>2, <2>3, <2>4
<1>7. (sum' + x' * y') % m = (sum + x * y) % m
  <2>1. x' * h = (2 * x) * h + (j * h) * m
    BY <1>2, <1>4, <1>6
  <2>2. x * y = (2 * x) * h + o * x
    BY <1>2, <1>3, <1>4
  <2>3. /\ (k + j * h) * m = k * m + (j * h) * m /\ k * m \in Int /\ (j * h) * m \in Int
        /\ (2 * x) * h \in Int /\ o * x \in Int /\ k + j * h \in Int
    BY <1>2, <1>4
  <2> DEFINE A == (2 * x) * h
             B == (j * h) * m
             C == k * m
             D == o * x
             n == sum + x * y
             q == k + j * h
  <2>4. /\ A \in Int /\ B \in Int /\ C \in Int /\ D \in Int /\ q \in Int /\ q * m = C + B
        /\ x' * h = A + B /\ sum' = sum + D + C
        /\ n = sum + (A + D)
    BY <1>5, <2>1, <2>2, <2>3
  <2> HIDE DEF A, B, C, D, n, q
  <2>5. sum' + x' * h = n + q * m /\ n \in Int
    BY <1>2, <2>4
  <2>6. (n + q * m) % m = n % m
    BY <1>2, <2>4, <2>5, ModuloIs
  <2> QED
    BY <1>1, <2>5, <2>6 DEF n
<1>8. Arith!TypeOK'
  BY <1>1, <1>2, <1>4, <1>5, <1>6 DEF Arith!TypeOK, Arith!ArithInv
<1>9. Arith!Multiplies'
  BY <1>1, <1>7 DEF Arith!Multiplies, Arith!ArithInv, Arith!Magnitude, m
<1>10. Arith!Called' /\ Arith!MovedUp' /\ Arith!MovedDown' /\ Arith!ResultIsExpected'
  BY <1>1 DEF Arith!Called, Arith!MovedUp, Arith!MovedDown, Arith!ResultIsExpected, Arith!ArithInv
<1> QED
  BY <1>8, <1>9, <1>10 DEF Arith!ArithInv

(* One pass of the loop in which the divisor moves up.                     *)
LEMMA UpStepInv ==
  ASSUME Arith!DarkArithAssumption, Arith!ArithInv, Arith!UpStep PROVE Arith!ArithInv'
<1> DEFINE d == Arith!Magnitude(call.b)
           n == Arith!Magnitude(call.a)
           s == Arith!Msb
<1>1. /\ pc = "up" /\ call' = call /\ x' = x /\ sum' = sum /\ result' = result
      /\ IF y < x /\ ~(y >= s) THEN aux' = (2 * aux) % Arith!M /\ y' = (2 * y) % Arith!M /\ pc' = pc
         ELSE pc' = "down" /\ aux' = aux /\ y' = y
  BY DEF Arith!UpStep, Arith!MovesUp, Arith!Negative, Arith!Shl
<1>2. x = n /\ sum = 0 /\ aux \in Arith!Powers /\ y = aux * d
  BY <1>1 DEF Arith!ArithInv, Arith!MovedUp
<1>3. /\ s \in Nat \ {0} /\ Arith!M = 2 * s /\ Arith!Words = 0 .. 2 * s - 1
      /\ d \in 0 .. 2 * s - 1 /\ d # 0 /\ n \in 0 .. 2 * s - 1
      /\ y \in 0 .. 2 * s - 1 /\ aux \in Nat \ {0}
  <2>1. call.b # 0
    BY <1>1 DEF Arith!ArithInv, Arith!Called
  <2>2. d # 0 /\ d \in Arith!Words /\ n \in Arith!Words
    BY <2>1, ArithOperands DEF Arith!ArithInv
  <2> QED
    BY <1>2, <2>2, WordFacts, PowerFacts DEF Arith!ArithInv, Arith!TypeOK
<1>4. d' = d /\ n' = n
  BY <1>1 DEF Arith!Magnitude
<1>5. aux <= y /\ y >= 1
  <2> HIDE DEF d, n, s
  <2>1. aux <= aux * d /\ aux * d \in Nat
    BY <1>3
  <2> QED
    BY <1>2, <1>3, <2>1
<1>6. CASE y < x /\ ~(y >= s)
  <2>1. 2 * aux \in 0 .. 2 * s - 1 /\ 2 * y \in 0 .. 2 * s - 1 /\ aux < s
    BY <1>3, <1>5, <1>6
  <2>2. aux' = 2 * aux /\ y' = 2 * y /\ pc' = "up"
    BY <1>1, <1>3, <1>6, <2>1
  <2>3. aux' \in Arith!Powers
    BY <1>2, <2>1, <2>2, PowerFacts
  <2>4. y' = aux' * d'
    <3> HIDE DEF d, n, s
    <3>1. y' = (2 * aux) * d
      BY <1>2, <1>3, <2>2
    <3> QED
      BY <1>4, <2>2, <3>1
  <2>5. Arith!MovedUp'
    BY <1>1, <1>2, <1>4, <2>3, <2>4 DEF Arith!MovedUp
  <2>6. Arith!TypeOK'
    BY <1>1, <1>3, <2>1, <2>2 DEF Arith!TypeOK, Arith!ArithInv
  <2>7. Arith!Called' /\ Arith!Multiplies' /\ Arith!MovedDown' /\ Arith!ResultIsExpected'
    BY <1>1, <2>2 DEF Arith!Called, Arith!Multiplies, Arith!MovedDown, Arith!ResultIsExpected,
       Arith!ArithInv
  <2> QED
    BY <2>5, <2>6, <2>7 DEF Arith!ArithInv
<1>7. CASE ~(y < x /\ ~(y >= s))
  <2>1. pc' = "down" /\ aux' = aux /\ y' = y
    BY <1>1, <1>7
  <2>2. x < 2 * y
    BY <1>2, <1>3, <1>5, <1>7
  <2>3. sum' * d' + x' = n'
    BY <1>1, <1>2, <1>3, <1>4
  <2>4. Arith!MovedDown'
    BY <1>1, <1>2, <1>3, <1>4, <2>1, <2>2, <2>3 DEF Arith!MovedDown
  <2>5. Arith!TypeOK'
    BY <1>1, <2>1 DEF Arith!TypeOK, Arith!ArithInv
  <2>6. Arith!Called' /\ Arith!Multiplies' /\ Arith!MovedUp' /\ Arith!ResultIsExpected'
    BY <1>1, <2>1 DEF Arith!Called, Arith!Multiplies, Arith!MovedUp, Arith!ResultIsExpected,
       Arith!ArithInv
  <2> QED
    BY <2>4, <2>5, <2>6 DEF Arith!ArithInv
<1> QED
  BY <1>6, <1>7

(* One pass of the loop in which it moves down.                            *)
LEMMA DownStepInv ==
  ASSUME Arith!DarkArithAssumption, Arith!ArithInv, Arith!DownStep PROVE Arith!ArithInv'
<1> DEFINE d == Arith!Magnitude(call.b)
           n == Arith!Magnitude(call.a)
           m == Arith!M
<1>1. /\ pc = "down" /\ pc' = pc /\ call' = call /\ result' = result /\ aux # 0
      /\ IF y <= x THEN x' = x - y /\ sum' = sum + aux ELSE x' = x /\ sum' = sum
      /\ aux' = aux \div 2 /\ y' = y \div 2
  BY DEF Arith!DownStep, Arith!Fits, Arith!Shr
<1>2. sum * d + x = n /\ aux \in Arith!Powers /\ y = aux * d /\ x < 2 * y
  BY <1>1 DEF Arith!ArithInv, Arith!MovedDown
<1>3. /\ m \in Nat \ {0} /\ Arith!Words = 0 .. m - 1
      /\ d \in 0 .. m - 1 /\ d # 0 /\ n \in 0 .. m - 1
      /\ y \in 0 .. m - 1 /\ x \in 0 .. m - 1 /\ sum \in 0 .. m - 1 /\ aux \in Nat \ {0}
  <2>1. call.b # 0
    BY <1>1 DEF Arith!ArithInv, Arith!Called
  <2>2. d # 0 /\ d \in Arith!Words /\ n \in Arith!Words
    BY <2>1, ArithOperands DEF Arith!ArithInv
  <2> QED
    BY <1>2, <2>2, WordFacts, PowerFacts DEF Arith!ArithInv, Arith!TypeOK
<1>4. d' = d /\ n' = n
  BY <1>1 DEF Arith!Magnitude
<1>5. x' \in 0 .. m - 1 /\ sum' \in Nat /\ x' < y /\ sum' * d + x' = n
  <2> HIDE DEF d, n, m
  <2>1. (sum + aux) * d = sum * d + aux * d /\ sum * d \in Int /\ aux * d \in Int
    BY <1>3
  <2>2. CASE y <= x
    BY <1>1, <1>2, <1>3, <2>1, <2>2
  <2>3. CASE ~(y <= x)
    BY <1>1, <1>2, <1>3, <2>1, <2>3
  <2> QED
    BY <2>2, <2>3
<1>6. sum' \in 0 .. m - 1
  <2>1. sum' \in Nat /\ d \in Nat \ {0}
    BY <1>3, <1>5
  <2>2. sum' <= sum' * d /\ sum' * d \in Nat
    BY <2>1, Grows
  <2>3. PICK p \in Nat : p = sum' * d
    BY <2>2
  <2>4. p + x' = n /\ sum' <= p /\ x' \in 0 .. m - 1
    BY <1>5, <2>2, <2>3
  <2>5. m \in Nat \ {0} /\ n \in 0 .. m - 1
    BY <1>3
  <2>6. sum' <= n
    BY <2>1, <2>4, <2>5
  <2> QED
    BY <2>1, <2>5, <2>6
<1>7. y' \in 0 .. m - 1 /\ aux' \in 0 .. m - 1
  <2> HIDE DEF d, n, m
  <2>1. aux <= aux * d /\ aux * d \in Nat
    BY <1>3
  <2>2. aux <= m - 1
    BY <1>2, <1>3, <2>1
  <2>3. \A v \in Nat : v \div 2 \in 0 .. v
    OBVIOUS
  <2>4. y' \in 0 .. y /\ aux' \in 0 .. aux
    BY <1>1, <1>3, <2>3
  <2> QED
    BY <1>3, <2>2, <2>4
<1>8. IF aux' = 0 THEN x' < d ELSE aux' \in Arith!Powers /\ y' = aux' * d /\ x' < 2 * y'
  <2>1. CASE aux = 1
    <3>1. 1 \div 2 = 0
      OBVIOUS
    <3>2. 1 * d = d
      BY <1>3
    <3> QED
      BY <1>1, <1>2, <1>5, <2>1, <3>1, <3>2
  <2>2. CASE \E h \in Arith!Powers : aux = 2 * h
    <3>1. PICK h \in Arith!Powers : aux = 2 * h
      BY <2>2
    <3>2. h \in Nat \ {0}
      BY PowerFacts
    <3> HIDE DEF d, n, m
    <3>3. y = 2 * (h * d) /\ h * d \in Nat
      BY <1>2, <1>3, <3>1, <3>2
    <3>4. aux \div 2 = h /\ y \div 2 = h * d
      BY <3>1, <3>2, <3>3
    <3> QED
      BY <1>1, <1>5, <3>1, <3>2, <3>3, <3>4
  <2> QED
    BY <1>2, <2>1, <2>2, PowerFacts
<1>9. Arith!MovedDown'
  BY <1>1, <1>4, <1>5, <1>8 DEF Arith!MovedDown
<1>10. Arith!TypeOK'
  BY <1>1, <1>3, <1>5, <1>6, <1>7 DEF Arith!TypeOK, Arith!ArithInv
<1>11. Arith!Called' /\ Arith!Multiplies' /\ Arith!MovedUp' /\ Arith!ResultIsExpected'
  BY <1>1 DEF Arith!Called, Arith!Multiplies, Arith!MovedUp, Arith!ResultIsExpected,
     Arith!ArithInv
<1> QED
  BY <1>9, <1>10, <1>11 DEF Arith!ArithInv

(* The result and its sign.                                                *)
LEMMA FinishInv ==
  ASSUME Arith!DarkArithAssumption, Arith!ArithInv, Arith!Finish PROVE Arith!ArithInv'
<1> DEFINE d == Arith!Magnitude(call.b)
           n == Arith!Magnitude(call.a)
           v == IF pc = "mul" \/ Arith!IsDiv(call.op) THEN sum ELSE x
<1>1. /\ (pc = "mul" /\ y = 0) \/ (pc = "down" /\ (x = 0 \/ aux = 0))
      /\ result' = IF Arith!NegativeResult THEN Arith!Neg(v) ELSE v
      /\ pc' = "done" /\ UNCHANGED <<call, x, y, sum, aux>>
  BY DEF Arith!Finish
<1>2. /\ Arith!TypeOK /\ Arith!Called /\ call.op \in Arith!Operations
      /\ call.xs \in BOOLEAN /\ call.ys \in BOOLEAN
  BY DEF Arith!ArithInv, Arith!Called
<1>3. /\ Arith!Words = 0 .. Arith!M - 1 /\ Arith!M \in Nat \ {0}
      /\ sum \in Arith!Words /\ x \in Arith!Words
  BY <1>2, WordFacts DEF Arith!TypeOK
<1>4. Arith!Expected' = Arith!Expected
  BY <1>1 DEF Arith!Expected
<1>5. result' = Arith!Expected
  <2>1. CASE pc = "mul"
    <3>1. Arith!IsMul(call.op) /\ y = 0 /\ v = sum
      BY <1>1, <1>2, <2>1 DEF Arith!Called
    <3>2. sum + x * y = sum
      BY <1>3, <3>1
    <3>3. sum % Arith!M = sum
      BY <1>3
    <3>4. sum = (n * d) % Arith!M
      BY <2>1, <3>2, <3>3 DEF Arith!ArithInv, Arith!Multiplies
    <3>5. Arith!NegativeResult <=> call.xs # call.ys
      BY <3>1 DEF Arith!NegativeResult, Arith!IsMul
    <3>6. Arith!Expected = IF call.xs # call.ys THEN Arith!Neg(sum) ELSE sum
      BY <1>2, <3>1, <3>4, ExpectedProduct
    <3> QED
      BY <1>1, <3>1, <3>5, <3>6
  <2>2. CASE pc = "down"
    <3>1. ~Arith!IsMul(call.op) /\ call.b # 0
      BY <1>2, <2>2 DEF Arith!Called
    <3>2. n \in Arith!Words /\ d \in Arith!Words /\ d # 0
      BY <1>2, <3>1, ArithOperands
    <3>3. sum * d + x = n /\ x < d
      BY <1>1, <1>3, <2>2, <3>2 DEF Arith!ArithInv, Arith!MovedDown
    <3>4. sum \in Nat /\ x \in Nat
      BY <1>3
    <3>5. /\ Arith!IsDiv(call.op) =>
               Arith!Expected = IF call.xs # call.ys THEN Arith!Neg(sum) ELSE sum
          /\ ~Arith!IsDiv(call.op) => Arith!Expected = IF call.xs THEN Arith!Neg(x) ELSE x
      <4> HIDE DEF v
      <4> QED
        BY <1>2, <3>1, <3>3, <3>4, ExpectedQuotient
    <3>6. Arith!NegativeResult <=> IF Arith!IsDiv(call.op) THEN call.xs # call.ys ELSE call.xs
      <4>1. call.op \in {"udiv", "umod", "div", "mod"}
        BY <1>2, <3>1 DEF Arith!Operations, Arith!IsMul
      <4>2. call.op = "umod" => ~call.xs /\ ~call.ys
        BY <1>2 DEF Arith!Called, Arith!Signed
      <4> QED
        BY <1>2, <4>1, <4>2 DEF Arith!NegativeResult, Arith!IsDiv
    <3>7. v = IF Arith!IsDiv(call.op) THEN sum ELSE x
      BY <2>2
    <3> HIDE DEF v
    <3> QED
      BY <1>1, <3>5, <3>6, <3>7
  <2> QED
    BY <1>1, <2>1, <2>2
<1>6. Arith!TypeOK'
  <2>1. v \in Arith!Words
    BY <1>3
  <2>2. Arith!Neg(v) \in Arith!Words
    BY <2>1, ArithNegIs
  <2> HIDE DEF v
  <2>3. result' \in Arith!Words
    BY <1>1, <2>1, <2>2
  <2> QED
    BY <1>1, <1>2, <2>3 DEF Arith!TypeOK
<1>7. Arith!ResultIsExpected'
  BY <1>4, <1>5 DEF Arith!ResultIsExpected
<1>8. Arith!Called' /\ Arith!Multiplies' /\ Arith!MovedUp' /\ Arith!MovedDown'
  BY <1>1, <1>2 DEF Arith!Called, Arith!Multiplies, Arith!MovedUp, Arith!MovedDown
<1> QED
  BY <1>6, <1>7, <1>8 DEF Arith!ArithInv

LEMMA ArithStep ==
  ASSUME Arith!DarkArithAssumption, Arith!ArithInv, Arith!Next PROVE Arith!ArithInv'
<1>1. CASE Arith!Return
  <2>1. Arith!Init'
    BY <1>1 DEF Arith!Return, Arith!Init
  <2>2. 0 \in Arith!Words
    BY WordFacts
  <2> QED
    BY <2>1, <2>2 DEF Arith!Init, Arith!NoCall, Arith!ArithInv, Arith!TypeOK, Arith!Called,
       Arith!Operations, Arith!Signed, Arith!Multiplies, Arith!MovedUp, Arith!MovedDown,
       Arith!ResultIsExpected
<1> QED
  BY <1>1, CallStep, MulStepInv, UpStepInv, DownStepInv, FinishInv DEF Arith!Next, Arith!Loop

LEMMA ArithRight == Arith!ArithInv => Arith!ResultIsExpected /\ Arith!DivisionKeepsDividend
<1> SUFFICES ASSUME Arith!ArithInv PROVE Arith!DivisionKeepsDividend
  BY DEF Arith!ArithInv
<1>1. pc = "down" =>
        /\ sum * Arith!Magnitude(call.b) + x = Arith!Magnitude(call.a)
        /\ aux # 0 => y = aux * Arith!Magnitude(call.b) /\ x < 2 * y
  BY DEF Arith!ArithInv, Arith!MovedDown
<1> QED
  BY <1>1 DEF Arith!DivisionKeepsDividend, Arith!Magnitude

-----------------------------------------------------------------------------
(* The numbers of the DarkRISCV firmware.                                  *)
LEMMA DivDiv ==
  ASSUME NEW n \in Nat, NEW b \in Nat \ {0}, NEW c \in Nat \ {0}
  PROVE  /\ (n \div b) \div c = n \div (c * b)
         /\ n \div b \in 0 .. n
         /\ n \div b # 0 => b <= n
<1> DEFINE q == n \div b
           r == n % b
           p == q \div c
           s == q % c
<1>1. q \in Int /\ r \in 0 .. b - 1 /\ n = b * q + r
  BY DivMod
<1>2. p \in Int /\ s \in 0 .. c - 1 /\ q = c * p + s
  BY <1>1, DivMod
<1> HIDE DEF q, r, p, s
<1>3. n \div (c * b) = p
  <2>1. b * (c * p) = p * (c * b) /\ b * (c * p + s) = b * (c * p) + b * s
    BY <1>1, <1>2
  <2>2. n = p * (c * b) + (b * s + r)
    BY <1>1, <1>2, <2>1
  <2>3. b * s + r \in 0 .. c * b - 1
    <3>1. b * s >= 0 /\ b * s <= b * (c - 1) /\ b * s \in Int
      BY <1>2
    <3>2. b * (c - 1) = c * b - b /\ c * b \in Int
      OBVIOUS
    <3> QED
      BY <1>1, <3>1, <3>2
  <2>4. c * b \in Nat \ {0}
    OBVIOUS
  <2> QED
    BY <1>2, <2>2, <2>3, <2>4, DivModIs
<1>4. q \in 0 .. n
  <2>1. q >= 0
    <3>1. SUFFICES ASSUME q <= -1 PROVE FALSE
      BY <1>1
    <3>2. b * q <= -b
      BY <1>1, <3>1
    <3> QED
      BY <1>1, <3>2
  <2>2. q <= b * q
    BY <1>1, <2>1
  <2> QED
    BY <1>1, <2>1, <2>2
<1>5. q # 0 => b <= n
  <2>1. SUFFICES ASSUME q >= 1 PROVE b <= n
    BY <1>4
  <2>2. b <= b * q
    BY <1>1, <2>1
  <2> QED
    BY <1>1, <2>2
<1> QED
  BY <1>3, <1>4, <1>5 DEF p, q

LEMMA NumbersFacts ==
  ASSUME Numbers!DarkNumbersAssumption, Numbers!NumbersTypes
  PROVE  /\ Numbers!M \in Nat \ {0} /\ Numbers!Words = 0 .. Numbers!M - 1
         /\ v2 \in Nat /\ v2 > 1 /\ Stack \in Nat /\ Stack >= 2
         /\ Numbers!PerPass = (IF v2 = Dec THEN 1 ELSE 2)
         /\ Numbers!Sign = <<>> \/ (Numbers!Sign = <<Numbers!Minus>> /\ v2 = Dec)
         /\ Len(Numbers!Sign) = (IF Numbers!Sign = <<>> THEN 0 ELSE 1)
         /\ Numbers!Magnitude \in 0 .. Numbers!M - 1
<1>1. /\ Numbers!M = 2 ^ NumbersWidth /\ 2 ^ NumbersWidth = 2 * 2 ^ (NumbersWidth - 1)
      /\ 2 ^ (NumbersWidth - 1) \in Nat \ {0}
  BY DEF Numbers!M, Numbers!DarkNumbersAssumption
<1>2. Numbers!M \in Nat \ {0}
  BY <1>1
<1>3. v1 \in Numbers!Words /\ v2 \in {Dec, Hex}
  BY DEF Numbers!NumbersTypes
<1>4. Numbers!Neg(v1) \in 0 .. Numbers!M - 1
  <2>1. Numbers!M - v1 \in Int
    BY <1>2, <1>3 DEF Numbers!Words
  <2> QED
    BY <1>2, <2>1, DivMod DEF Numbers!Neg
<1>5. Numbers!Magnitude \in 0 .. Numbers!M - 1
  BY <1>3, <1>4 DEF Numbers!Magnitude, Numbers!Words
<1>6. Numbers!Sign = <<>> \/ (Numbers!Sign = <<Numbers!Minus>> /\ v2 = Dec)
  BY DEF Numbers!Sign
<1>7. Len(Numbers!Sign) = (IF Numbers!Sign = <<>> THEN 0 ELSE 1)
  BY <1>6
<1>8. Stack \in Nat /\ Stack >= 2 /\ v2 \in Nat /\ v2 > 1
  BY <1>3 DEF Numbers!DarkNumbersAssumption
<1> QED
  BY <1>2, <1>5, <1>6, <1>7, <1>8 DEF Numbers!Words, Numbers!PerPass

(* The digits from one on, one by one.                                     *)
LEMMA AboveFacts ==
  ASSUME Numbers!DarkNumbersAssumption, Numbers!NumbersTypes, NEW k \in 0 .. Stack
  PROVE  /\ v2 ^ k \in Nat \ {0} /\ v2 ^ (k + 1) = v2 * v2 ^ k
         /\ Numbers!Above(0) = Numbers!Magnitude
         /\ Numbers!Above(k) \in 0 .. Numbers!Magnitude
         /\ Numbers!Above(k) # 0 => v2 ^ k <= Numbers!Magnitude
         /\ Numbers!Above(k) \div v2 = Numbers!Above(k + 1)
         /\ Numbers!Above(k + 1) \in Nat
         /\ Numbers!Above(k) % v2 \in 0 .. v2 - 1
         /\ Numbers!Above(k) = v2 * Numbers!Above(k + 1) + (Numbers!Above(k) % v2)
<1>1. v2 \in {Dec, Hex} /\ v2 \in Nat \ {0} /\ Numbers!Magnitude \in Nat
  BY NumbersFacts DEF Numbers!NumbersTypes
<1>2. v2 ^ 0 = 1 /\ v2 ^ k \in Nat \ {0} /\ v2 ^ (k + 1) = v2 * v2 ^ k
  BY <1>1 DEF Numbers!DarkNumbersAssumption
<1>3. Numbers!Above(0) = Numbers!Magnitude
  <2>1. Numbers!Magnitude \div 1 = Numbers!Magnitude
    BY <1>1
  <2> QED
    BY <1>2, <2>1 DEF Numbers!Above
<1>4. /\ Numbers!Above(k) \in 0 .. Numbers!Magnitude
      /\ Numbers!Above(k) # 0 => v2 ^ k <= Numbers!Magnitude
      /\ Numbers!Above(k) \div v2 = Numbers!Above(k + 1)
  <2>1. \A n \in Nat, b, c \in Nat \ {0} :
          /\ (n \div b) \div c = n \div (c * b)
          /\ n \div b \in 0 .. n
          /\ n \div b # 0 => b <= n
    BY DivDiv
  <2>2. /\ (Numbers!Magnitude \div v2 ^ k) \div v2 = Numbers!Magnitude \div (v2 * v2 ^ k)
        /\ Numbers!Magnitude \div v2 ^ k \in 0 .. Numbers!Magnitude
        /\ Numbers!Magnitude \div v2 ^ k # 0 => v2 ^ k <= Numbers!Magnitude
    BY Zenon, <1>1, <1>2, <2>1
  <2>3. Numbers!Magnitude \div (v2 * v2 ^ k) = Numbers!Above(k + 1)
    BY Zenon, <1>2 DEF Numbers!Above
  <2> QED
    BY Zenon, <2>2, <2>3 DEF Numbers!Above
<1>5. Numbers!Above(k) \in Nat
  BY <1>1, <1>4
<1>6. /\ Numbers!Above(k + 1) \in Nat
      /\ Numbers!Above(k) % v2 \in 0 .. v2 - 1
      /\ Numbers!Above(k) = v2 * Numbers!Above(k + 1) + (Numbers!Above(k) % v2)
  <2> DEFINE n == Numbers!Above(k)
  <2>1. n \in Int /\ v2 \in Nat \ {0} /\ n \in Nat
    BY <1>1, <1>5
  <2>2. n \div v2 \in 0 .. n /\ n % v2 \in 0 .. v2 - 1 /\ n = v2 * (n \div v2) + (n % v2)
    BY <2>1, DivMod, DivDiv
  <2>3. n \div v2 = Numbers!Above(k + 1)
    BY <1>4
  <2> HIDE DEF n
  <2>4. n \div v2 \in Nat
    BY <2>1, <2>2
  <2> QED
    BY Zenon, <2>2, <2>3, <2>4 DEF n
<1> QED
  BY <1>2, <1>3, <1>4, <1>6

LEMMA NumbersInit ==
  ASSUME Numbers!DarkNumbersAssumption, Numbers!Init PROVE Numbers!NumbersInv
<1>1. /\ v1 \in Numbers!Words /\ v2 \in {Dec, Hex} /\ v3 = "digits" /\ v5 = <<>>
      /\ v6 = Numbers!Sign /\ v4 = Numbers!Magnitude /\ v7 = 0 /\ v8 = FALSE
  BY DEF Numbers!Init, Numbers!Magnitude
<1>2. Numbers!M \in Nat \ {0}
  <2>1. /\ Numbers!M = 2 ^ NumbersWidth /\ 2 ^ NumbersWidth = 2 * 2 ^ (NumbersWidth - 1)
        /\ 2 ^ (NumbersWidth - 1) \in Nat \ {0}
    BY DEF Numbers!M, Numbers!DarkNumbersAssumption
  <2> QED
    BY <2>1
<1>3. v4 \in Nat
  <2>1. Numbers!M - v1 \in Int
    BY <1>1, <1>2 DEF Numbers!Words
  <2>2. Numbers!Neg(v1) \in 0 .. Numbers!M - 1
    BY <1>2, <2>1, DivMod DEF Numbers!Neg
  <2>3. v4 = v1 \/ v4 = Numbers!Neg(v1)
    BY <1>1 DEF Numbers!Magnitude
  <2> QED
    BY <1>1, <1>2, <2>2, <2>3 DEF Numbers!Words
<1>4. Numbers!NumbersTypes
  <2>1. v5 \in Seq(Int)
    BY <1>1
  <2>2. v6 \in Seq(Int)
    <3>1. v6 = <<>> \/ v6 = <<Numbers!Minus>>
      BY <1>1 DEF Numbers!Sign
    <3>2. <<>> \in Seq(Int) /\ <<-1>> \in Seq(Int)
      OBVIOUS
    <3> QED
      BY <3>1, <3>2 DEF Numbers!Minus
  <2> QED
    BY <1>1, <1>3, <2>1, <2>2 DEF Numbers!NumbersTypes
<1>5. /\ Len(v6) \in {0, 1} /\ Len(Numbers!Sign) = Len(v6) /\ Len(v5) = 0
      /\ Numbers!Length = 0 /\ Stack \in Nat /\ Stack >= 2 /\ Numbers!PerPass \in {1, 2}
      /\ 0 % Numbers!PerPass = 0
  BY <1>1, <1>4, NumbersFacts DEF Numbers!Length
<1>6. /\ Numbers!InPlace
  <2>1. \A k \in 1 .. Len(v6) : v6[k] = Numbers!Minus
    BY <1>1 DEF Numbers!Sign
  <2> QED
    BY <1>5, <2>1 DEF Numbers!InPlace
<1>7. Numbers!Divided
  <2>1. Numbers!Above(0) = Numbers!Magnitude
    BY <1>4, <1>5, AboveFacts
  <2>2. 0 <= Stack - Numbers!PerPass
    BY <1>5
  <2> QED
    BY <1>1, <1>5, <2>1, <2>2 DEF Numbers!Divided
<1> QED
  BY <1>1, <1>4, <1>5, <1>6, <1>7
  DEF Numbers!NumbersInv, Numbers!AllDigits, Numbers!HasRead, Numbers!ShownReadsBack,
      Numbers!ShownIsShort

(* A step leaves the number and its base alone.                            *)
LEMMA SameNumber ==
  ASSUME v1' = v1, v2' = v2
  PROVE  /\ Numbers!Sign' = Numbers!Sign /\ Numbers!Magnitude' = Numbers!Magnitude
         /\ Numbers!PerPass' = Numbers!PerPass
         /\ \A k : Numbers!Above(k)' = Numbers!Above(k)
BY DEF Numbers!Sign, Numbers!Magnitude, Numbers!PerPass, Numbers!Above

(* What a pass puts on the stack.                                          *)
LEMMA PassFacts ==
  ASSUME Numbers!DarkNumbersAssumption, Numbers!NumbersInv, Numbers!Digits
  PROVE  /\ v5' \in Seq(Int) /\ Len(v5') = Len(v5) + Numbers!PerPass
         /\ v4' = Numbers!Above(Len(v5'))
         /\ \A k \in 1 .. Len(v5') : v5'[k] = Numbers!Above(k - 1) % v2
<1> USE DEF Numbers!NumbersInv
<1> DEFINE L == Len(v5)
           P == Numbers!PerPass
<1>1. /\ v3 = "digits" /\ v2 \in {Dec, Hex} /\ v2 \in Nat /\ v2 > 1
      /\ v5' = v5 \o [k \in 1 .. P |-> (v4 \div v2 ^ (k - 1)) % v2]
      /\ v4' = v4 \div v2 ^ P
      /\ v5 \in Seq(Int) /\ L \in Nat /\ P = (IF v2 = Dec THEN 1 ELSE 2)
  BY NumbersFacts DEF Numbers!Digits, Numbers!NumbersTypes
<1>2. /\ v4 = Numbers!Above(L) /\ L + P <= Stack /\ Stack \in Nat /\ Stack >= 2
  <2>1. Numbers!Length = L
    BY <1>1, NumbersFacts DEF Numbers!Divided, Numbers!Length
  <2> QED
    BY <1>1, <2>1, NumbersFacts DEF Numbers!Divided
<1>3. \A k \in 1 .. L : v5[k] = Numbers!Above(k - 1) % v2
  BY DEF Numbers!InPlace
<1>4. v2 ^ 0 = 1 /\ v2 ^ (0 + 1) = v2 * v2 ^ 0 /\ v2 ^ (1 + 1) = v2 * v2 ^ 1
  <2>1. 0 \in 0 .. Stack /\ 1 \in 0 .. Stack
    BY <1>2
  <2> QED
    BY <1>1, <2>1 DEF Numbers!DarkNumbersAssumption
<1>5. v2 ^ 0 = 1 /\ v2 ^ 1 = v2 /\ v2 ^ 2 = v2 * v2
  <2>1. v2 * 1 = v2 /\ 0 + 1 = 1 /\ 1 + 1 = 2
    BY <1>1
  <2> QED
    BY <1>4, <2>1
<1>6. /\ Numbers!Above(L) \div v2 = Numbers!Above(L + 1)
      /\ Numbers!Above(L) \in Nat
      /\ Numbers!Above(L) \div 1 = Numbers!Above(L)
      /\ Numbers!Above(L) % v2 \in Int
  <2>1. L \in 0 .. Stack /\ Numbers!Magnitude \in Nat
    BY <1>1, <1>2, NumbersFacts
  <2>2. /\ Numbers!Above(L) \div v2 = Numbers!Above(L + 1) /\ Numbers!Above(L) \in Nat
        /\ Numbers!Above(L) % v2 \in Int
    BY <1>1, <2>1, AboveFacts
  <2>3. \A n \in Nat : n \div 1 = n
    OBVIOUS
  <2> QED
    BY <2>2, <2>3
<1>7. CASE v2 = Dec
  <2>1. P = 1
    BY <1>1, <1>7
  <2>2. v5' = v5 \o <<Numbers!Above(L) % v2>>
    <3>1. [k \in 1 .. P |-> (v4 \div v2 ^ (k - 1)) % v2] = <<(v4 \div v2 ^ 0) % v2>>
      BY <2>1
    <3> QED
      BY <1>1, <1>2, <1>5, <1>6, <3>1
  <2>3. /\ v5' \in Seq(Int) /\ Len(v5') = L + 1
        /\ \A k \in 1 .. L : v5'[k] = v5[k]
        /\ v5'[L + 1] = Numbers!Above(L) % v2
    <3> DEFINE e == Numbers!Above(L) % v2
    <3>1. v5 \in Seq(Int) /\ e \in Int /\ v5' = v5 \o <<e>>
      BY <1>1, <1>6, <2>2
    <3> HIDE DEF e
    <3>2. /\ v5' \in Seq(Int) /\ Len(v5') = L + 1
          /\ \A k \in 1 .. L : v5'[k] = v5[k]
          /\ v5'[L + 1] = e
      BY <3>1
    <3> QED
      BY <3>2 DEF e
  <2>4. \A k \in 1 .. L + 1 : v5'[k] = Numbers!Above(k - 1) % v2
    <3> TAKE k \in 1 .. L + 1
    <3>1. CASE k = L + 1
      <4>1. k - 1 = L
        BY <1>1, <3>1
      <4> QED
        BY <2>3, <3>1, <4>1
    <3>2. CASE k \in 1 .. L
      BY <1>3, <2>3, <3>2
    <3> QED
      BY <1>1, <3>1, <3>2
  <2>5. v4' = Numbers!Above(L + 1)
    BY <1>1, <1>2, <1>5, <1>6, <2>1
  <2> QED
    BY <2>1, <2>3, <2>4, <2>5
<1>8. CASE v2 # Dec
  <2>1. P = 2
    BY <1>1, <1>8
  <2>2. /\ Numbers!Above(L + 1) \div v2 = Numbers!Above(L + 2)
        /\ Numbers!Above(L + 1) % v2 \in Int /\ L + 1 + 1 = L + 2
    <3>1. L + 1 \in 0 .. Stack /\ L + 1 + 1 = L + 2
      BY <1>1, <1>2, <2>1
    <3> QED
      BY <1>1, <3>1, AboveFacts
  <2>3. v5' = v5 \o <<Numbers!Above(L) % v2, Numbers!Above(L + 1) % v2>>
    <3>1. [k \in 1 .. P |-> (v4 \div v2 ^ (k - 1)) % v2] =
            <<(v4 \div v2 ^ 0) % v2, (v4 \div v2 ^ 1) % v2>>
      BY <2>1
    <3> QED
      BY <1>1, <1>2, <1>5, <1>6, <3>1
  <2>4. /\ v5' \in Seq(Int) /\ Len(v5') = L + 2
        /\ \A k \in 1 .. L : v5'[k] = v5[k]
        /\ v5'[L + 1] = Numbers!Above(L) % v2 /\ v5'[L + 2] = Numbers!Above(L + 1) % v2
    <3> DEFINE e == Numbers!Above(L) % v2
               f == Numbers!Above(L + 1) % v2
    <3>1. v5 \in Seq(Int) /\ e \in Int /\ f \in Int /\ v5' = v5 \o <<e, f>>
      BY <1>1, <1>6, <2>2, <2>3
    <3> HIDE DEF e, f
    <3>2. /\ v5' \in Seq(Int) /\ Len(v5') = L + 2
          /\ \A k \in 1 .. L : v5'[k] = v5[k]
          /\ v5'[L + 1] = e /\ v5'[L + 2] = f
      BY <3>1
    <3> QED
      BY <3>2 DEF e, f
  <2>5. \A k \in 1 .. L + 2 : v5'[k] = Numbers!Above(k - 1) % v2
    <3> TAKE k \in 1 .. L + 2
    <3>1. CASE k = L + 1
      <4>1. k - 1 = L
        BY <1>1, <3>1
      <4> QED
        BY <2>4, <3>1, <4>1
    <3>2. CASE k = L + 2
      <4>1. k - 1 = L + 1
        BY <1>1, <3>2
      <4> QED
        BY <2>4, <3>2, <4>1
    <3>3. CASE k \in 1 .. L
      BY <1>3, <2>4, <3>3
    <3>4. k = L + 1 \/ k = L + 2 \/ k \in 1 .. L
      <4>1. L \in Nat
        BY <1>1
      <4> HIDE DEF L
      <4> QED
        BY <4>1
    <3> QED
      BY <3>1, <3>2, <3>3, <3>4
  <2>6. v4' = Numbers!Above(L + 2)
    <3>1. v4 \div (v2 * v2) = (v4 \div v2) \div v2
      <4>1. v4 \in Nat /\ v2 \in Nat \ {0}
        BY <1>1, <1>2, <1>6
      <4> QED
        BY <4>1, DivDiv
    <3> QED
      BY <1>1, <1>2, <1>5, <1>6, <2>1, <2>2, <3>1
  <2> QED
    BY <2>1, <2>4, <2>5, <2>6
<1> QED
  BY <1>7, <1>8

LEMMA DigitsInv ==
  ASSUME Numbers!DarkNumbersAssumption, Numbers!NumbersInv, Numbers!Digits
  PROVE  Numbers!NumbersInv'
<1> DEFINE L == Len(v5)
           N == Len(v5')
           P == Numbers!PerPass
<1>1. /\ v1' = v1 /\ v2' = v2 /\ v6' = v6 /\ v7' = v7 /\ v8' = v8 /\ v3 = "digits"
      /\ v3' = IF v4' = 0 THEN "putchar" ELSE "digits"
  BY DEF Numbers!Digits
<1>2. Numbers!NumbersTypes /\ Numbers!InPlace /\ Numbers!Divided
  BY DEF Numbers!NumbersInv
<1>3. /\ v5' \in Seq(Int) /\ N = L + P /\ v4' = Numbers!Above(N)
      /\ \A k \in 1 .. N : v5'[k] = Numbers!Above(k - 1) % v2
  BY PassFacts
<1>4. /\ v6 = Numbers!Sign /\ L <= Stack - P /\ v4 = Numbers!Above(L) /\ (L = 0 \/ v4 # 0)
      /\ L \in Nat /\ L % P = 0 /\ P \in {1, 2} /\ Stack \in Nat /\ Stack >= 2
  <2>1. L \in Nat /\ v6 = Numbers!Sign /\ P \in {1, 2} /\ Stack \in Nat /\ Stack >= 2
        /\ Len(v6) \in {0, 1}
    BY <1>1, <1>2, NumbersFacts DEF Numbers!NumbersTypes, Numbers!Divided
  <2>2. Numbers!Length = L
    BY <2>1 DEF Numbers!Length
  <2> QED
    BY <1>1, <1>2, <2>1, <2>2 DEF Numbers!Divided, Numbers!InPlace
<1>5. N \in 0 .. Stack /\ N >= P /\ N - P = L /\ N % P = 0
  <2>1. N = L + P /\ P \in {1, 2} /\ L \in Nat /\ L <= Stack - P /\ Stack \in Nat /\ L % P = 0
    BY <1>3, <1>4
  <2>2. \A n \in Nat : (n % 1 = 0 => (n + 1) % 1 = 0) /\ (n % 2 = 0 => (n + 2) % 2 = 0)
    OBVIOUS
  <2> HIDE DEF L, N, P
  <2>3. N % P = 0
    BY <2>1, <2>2
  <2> QED
    BY <2>1, <2>3
<1>6. /\ Numbers!Sign' = Numbers!Sign /\ Numbers!Magnitude' = Numbers!Magnitude
      /\ Numbers!PerPass' = P /\ \A k : Numbers!Above(k)' = Numbers!Above(k)
  BY <1>1, SameNumber
<1>7. Numbers!Length' = N
  <2>1. Len(v6) \in Nat
    BY <1>2 DEF Numbers!NumbersTypes
  <2>2. Numbers!Length' = Len(v6) - Len(v6) + N
    BY <1>1, <1>4, <1>6 DEF Numbers!Length
  <2> QED
    BY <1>5, <2>1, <2>2
<1>8. v4' \in Nat /\ (v4' # 0 => v2 ^ N <= Numbers!Magnitude)
  <2>1. Numbers!Magnitude \in Nat
    BY <1>2, NumbersFacts
  <2> QED
    BY <1>2, <1>3, <1>5, <2>1, AboveFacts
<1>9. v4' # 0 => N <= Stack - P
  <2>1. Numbers!M \in Nat /\ Numbers!Magnitude \in 0 .. Numbers!M - 1 /\ P = (IF v2 = Dec THEN 1 ELSE 2)
        /\ v2 \in {Dec, Hex} /\ v2 \in Nat /\ v2 > 1
    BY <1>2, NumbersFacts DEF Numbers!NumbersTypes
  <2>2. /\ Numbers!M <= Dec ^ Stack /\ Numbers!M <= Hex ^ (Stack - 1)
    BY DEF Numbers!DarkNumbersAssumption, Numbers!M
  <2>3. SUFFICES ASSUME v2 ^ N <= Numbers!Magnitude PROVE N <= Stack - P
    BY <1>8
  <2>4. CASE v2 = Dec
    <3>1. Dec ^ Stack \in Nat
      BY DEF Numbers!DarkNumbersAssumption
    <3>2. N # Stack
      BY <2>1, <2>2, <2>3, <2>4, <3>1
    <3> QED
      BY <1>4, <1>5, <2>1, <2>4, <3>2
  <2>5. CASE v2 # Dec
    <3>1. v2 = Hex /\ P = 2
      BY <2>1, <2>5
    <3>2. Stack - 1 \in 0 .. Stack /\ Stack - 1 + 1 = Stack
      BY <1>4
    <3>3. Hex ^ (Stack - 1) \in Nat \ {0} /\ Hex ^ (Stack - 1 + 1) = Hex * Hex ^ (Stack - 1)
      BY <3>2 DEF Numbers!DarkNumbersAssumption
    <3>4. Hex ^ (Stack - 1) <= Hex ^ Stack /\ Hex ^ Stack \in Nat
      <4>1. \A n \in Nat : n <= Hex * n /\ Hex * n \in Nat
        BY <2>1, <3>1
      <4> QED
        BY <3>2, <3>3, <4>1
    <3>5. N # Stack - 1
      BY <2>1, <2>2, <2>3, <3>1, <3>3
    <3>6. N # Stack
      BY <2>1, <2>2, <2>3, <3>1, <3>3, <3>4
    <3> QED
      BY <1>4, <1>5, <3>1, <3>5, <3>6
  <2> QED
    BY <2>4, <2>5
<1>10. Numbers!NumbersTypes'
  BY <1>1, <1>2, <1>3, <1>8 DEF Numbers!NumbersTypes
<1>11. Numbers!InPlace'
  <2>1. \A k \in 1 .. Len(v6) : v6[k] = Numbers!Minus /\ k <= Len(Numbers!Sign)
    <3>1. \A k \in 1 .. Len(v6) : k <= Len(Numbers!Sign)
      BY <1>4
    <3> QED
      BY <1>2, <3>1 DEF Numbers!InPlace
  <2>2. Len(v6) = Len(Numbers!Sign) /\ Len(v6) \in Nat
    BY <1>2, <1>4 DEF Numbers!NumbersTypes
  <2>3. \A k \in 1 .. N : v5'[k] = Numbers!Above(k - 1)' % v2'
    BY <1>1, <1>3, <1>6
  <2>4. \A k \in 1 .. Len(v6') : v6'[k] = Numbers!Minus /\ k <= Len(Numbers!Sign')
    BY <1>1, <1>6, <2>1
  <2>5. Numbers!Length' <= Stack /\ Numbers!Length' % Numbers!PerPass' = 0
        /\ Len(Numbers!Sign') <= Len(v6')
    BY <1>1, <1>4, <1>5, <1>6, <1>7, <2>2
  <2> QED
    BY <2>3, <2>4, <2>5 DEF Numbers!InPlace
<1>12. Numbers!Divided'
  BY <1>1, <1>3, <1>4, <1>6, <1>7, <1>9 DEF Numbers!Divided
<1>13. Numbers!AllDigits'
  <2>1. v3' # "digits" => v4' = 0
    BY <1>1
  <2>2. N = P \/ Numbers!Above(L) # 0
    BY <1>3, <1>4
  <2> QED
    BY <1>3, <1>5, <1>6, <1>7, <2>1, <2>2 DEF Numbers!AllDigits
<1>14. Numbers!HasRead'
  <2>1. v7 = 0 /\ ~v8
    BY <1>1 DEF Numbers!NumbersInv, Numbers!HasRead
  <2> QED
    BY <1>1, <2>1 DEF Numbers!HasRead
<1>15. Numbers!ShownReadsBack' /\ Numbers!ShownIsShort'
  <2>1. v3' # "done" /\ v3' # "read" /\ N <= Stack
    BY <1>1, <1>5
  <2> QED
    BY <2>1 DEF Numbers!ShownReadsBack, Numbers!ShownIsShort
<1> QED
  BY <1>10, <1>11, <1>12, <1>13, <1>14, <1>15 DEF Numbers!NumbersInv

LEMMA Suffix ==
  ASSUME NEW q \in Seq(Int), NEW n \in 0 .. Len(q)
  PROVE  /\ Len(SubSeq(q, n + 1, Len(q))) = Len(q) - n
         /\ \A k \in 1 .. Len(q) - n : SubSeq(q, n + 1, Len(q))[k] = q[n + k]
OBVIOUS

LEMMA PopPush ==
  ASSUME NEW q \in Seq(Int), q # <<>>, NEW r \in Seq(Int)
  PROVE  /\ SubSeq(q, 1, Len(q) - 1) \in Seq(Int) /\ Len(SubSeq(q, 1, Len(q) - 1)) = Len(q) - 1
         /\ \A k \in 1 .. Len(q) - 1 : SubSeq(q, 1, Len(q) - 1)[k] = q[k]
         /\ Append(r, q[Len(q)]) \in Seq(Int) /\ Len(Append(r, q[Len(q)])) = Len(r) + 1
         /\ \A k \in 1 .. Len(r) : Append(r, q[Len(q)])[k] = r[k]
         /\ Append(r, q[Len(q)])[Len(r) + 1] = q[Len(q)]
         /\ Len(q) \in Nat \ {0} /\ Len(r) \in Nat
<1>1. Len(q) \in Nat \ {0} /\ Len(r) \in Nat /\ q[Len(q)] \in Int
  OBVIOUS
<1>2. /\ SubSeq(q, 1, Len(q) - 1) \in Seq(Int) /\ Len(SubSeq(q, 1, Len(q) - 1)) = Len(q) - 1
      /\ \A k \in 1 .. Len(q) - 1 : SubSeq(q, 1, Len(q) - 1)[k] = q[k]
  <2>1. \A n \in 0 .. Len(q) : /\ SubSeq(q, 1, n) \in Seq(Int) /\ Len(SubSeq(q, 1, n)) = n
                             /\ \A k \in 1 .. n : SubSeq(q, 1, n)[k] = q[k]
    OBVIOUS
  <2>2. Len(q) - 1 \in 0 .. Len(q)
    BY <1>1
  <2> QED
    BY <2>1, <2>2
<1>3. \A e \in Int : /\ Append(r, e) \in Seq(Int) /\ Len(Append(r, e)) = Len(r) + 1
                     /\ \A k \in 1 .. Len(r) : Append(r, e)[k] = r[k]
                     /\ Append(r, e)[Len(r) + 1] = e
  OBVIOUS
<1> QED
  BY <1>1, <1>2, <1>3

(* A number without leading zeros: the last pass of putnum was needed.     *)
LEMMA NoLeadingZeros ==
  ASSUME Numbers!DarkNumbersAssumption, Numbers!NumbersTypes, Numbers!InPlace,
         Numbers!AllDigits, v3 # "digits", v5 = <<>>,
         NEW digits, digits = SubSeq(v6, Len(Numbers!Sign) + 1, Len(v6))
  PROVE  /\ Len(digits) % Numbers!PerPass = 0
         /\ Len(digits) > Numbers!PerPass =>
              \E k \in 1 .. Numbers!PerPass : digits[k] # 0
<1> DEFINE N == Numbers!Length
           P == Numbers!PerPass
           s == Len(Numbers!Sign)
<1>1. /\ v6 \in Seq(Int) /\ s \in {0, 1} /\ s <= Len(v6) /\ N = Len(v6) - s /\ N <= Stack
      /\ Stack \in Nat /\ N \in Nat /\ N % P = 0 /\ P \in {1, 2} /\ v2 \in Nat /\ v2 > 1
      /\ N >= P
      /\ Numbers!Magnitude \in Nat
  <2>1. /\ v6 \in Seq(Int) /\ s \in {0, 1} /\ s <= Len(v6) /\ Len(v5) = 0 /\ Len(v6) \in Nat
        /\ Stack \in Nat /\ P \in {1, 2} /\ v2 \in Nat /\ v2 > 1 /\ Numbers!Magnitude \in Nat
    BY NumbersFacts DEF Numbers!NumbersTypes, Numbers!InPlace
  <2>2. N = Len(v6) - s
    BY <2>1 DEF Numbers!Length
  <2> QED
    BY <2>1, <2>2 DEF Numbers!InPlace, Numbers!AllDigits
<1>2. Len(digits) = N /\ \A k \in 1 .. N : digits[k] = v6[s + k]
  <2>1. s \in 0 .. Len(v6)
    BY <1>1
  <2> QED
    BY <1>1, <2>1, Suffix
<1>3. \A k \in 1 .. N : digits[k] = Numbers!Above(N - k) % v2
  <2> TAKE k \in 1 .. N
  <2>1. s + k \in 1 .. Len(v6) /\ ~(s + k <= s) /\ N - (s + k - s) = N - k
    BY <1>1
  <2> QED
    BY <1>2, <2>1 DEF Numbers!InPlace
<1>4. Numbers!Above(N) = 0 /\ (N = P \/ Numbers!Above(N - P) # 0)
  BY DEF Numbers!AllDigits
<1>5. ASSUME N > P PROVE \E k \in 1 .. P : digits[k] # 0
  <2>1. SUFFICES ASSUME \A k \in 1 .. P : digits[k] = 0 PROVE FALSE
    OBVIOUS
  <2>2. N - 1 \in 0 .. Stack /\ N - 1 + 1 = N /\ 1 \in 1 .. P /\ 1 \in 1 .. N
    BY <1>1, <1>5
  <2>3. Numbers!Above(N - 1) % v2 = 0
    BY <1>3, <2>1, <2>2
  <2>4. Numbers!Above(N - 1) = v2 * Numbers!Above(N) + (Numbers!Above(N - 1) % v2)
    BY <2>2, AboveFacts
  <2>5. Numbers!Above(N - 1) = 0
    BY <1>1, <1>4, <2>3, <2>4
  <2>6. CASE P = 1
    BY <1>4, <1>5, <2>5, <2>6
  <2>7. CASE P = 2
    <3>1. N - 2 \in 0 .. Stack /\ N - 2 + 1 = N - 1 /\ 2 \in 1 .. P /\ 2 \in 1 .. N
      BY <1>1, <1>5, <2>7
    <3>2. Numbers!Above(N - 2) % v2 = 0
      BY <1>3, <2>1, <3>1
    <3>3. Numbers!Above(N - 2) = v2 * Numbers!Above(N - 1) + (Numbers!Above(N - 2) % v2)
      BY <3>1, AboveFacts
    <3>4. Numbers!Above(N - 2) = 0
      BY <1>1, <2>5, <3>2, <3>3
    <3> QED
      BY <1>4, <1>5, <2>7, <3>4
  <2> QED
    BY <1>1, <2>6, <2>7
<1> QED
  BY <1>1, <1>2, <1>5

LEMMA PutcharInv ==
  ASSUME Numbers!DarkNumbersAssumption, Numbers!NumbersInv, Numbers!Putchar
  PROVE  Numbers!NumbersInv'
<1> DEFINE s == Len(Numbers!Sign)
<1>1. /\ v1' = v1 /\ v2' = v2 /\ v4' = v4 /\ v7' = v7 /\ v8' = v8 /\ v3 = "putchar"
  BY DEF Numbers!Putchar
<1>2. /\ Numbers!NumbersTypes /\ Numbers!InPlace /\ Numbers!AllDigits
      /\ v7 = 0 /\ ~v8 /\ v4 = 0 /\ Len(v5) <= Stack
  BY <1>1 DEF Numbers!NumbersInv, Numbers!HasRead, Numbers!ShownIsShort
<1>3. /\ Numbers!Sign' = Numbers!Sign /\ Numbers!Magnitude' = Numbers!Magnitude
      /\ Numbers!PerPass' = Numbers!PerPass /\ \A k : Numbers!Above(k)' = Numbers!Above(k)
  BY <1>1, SameNumber
<1>4. v5 \in Seq(Int) /\ v6 \in Seq(Int) /\ s \in {0, 1} /\ s <= Len(v6) /\ Stack \in Nat
  BY <1>2, NumbersFacts DEF Numbers!NumbersTypes, Numbers!InPlace
<1>5. CASE v5 = <<>>
  <2>1. v3' = "read" /\ v5' = v5 /\ v6' = v6
    BY <1>5 DEF Numbers!Putchar
  <2>2. Numbers!Length' = Numbers!Length
    BY <1>3, <2>1 DEF Numbers!Length
  <2>3. Numbers!NumbersTypes' /\ Numbers!InPlace' /\ Numbers!AllDigits' /\ Numbers!Divided'
    BY <1>1, <1>2, <1>3, <2>1, <2>2
    DEF Numbers!NumbersTypes, Numbers!InPlace, Numbers!AllDigits, Numbers!Divided
  <2>4. Numbers!HasRead'
    <3>1. 0 <= Len(v6) /\ (v8' <=> Numbers!Sign # <<>> /\ 0 > 0)
      BY <1>1, <1>2, <1>4
    <3> QED
      BY <1>1, <1>2, <1>3, <1>5, <2>1, <3>1 DEF Numbers!HasRead
  <2>5. Numbers!ShownIsShort'
    <3> DEFINE digits == SubSeq(v6, s + 1, Len(v6))
    <3>1. /\ Len(digits) % Numbers!PerPass = 0
          /\ Len(digits) > Numbers!PerPass => \E k \in 1 .. Numbers!PerPass : digits[k] # 0
      BY <1>1, <1>2, <1>5, NoLeadingZeros
    <3> HIDE DEF digits
    <3>2. /\ Len(v5') <= Stack
          /\ Len(digits) % Numbers!PerPass' = 0
          /\ Len(digits) > Numbers!PerPass' => \E k \in 1 .. Numbers!PerPass' : digits[k] # 0
          /\ digits = SubSeq(v6', Len(Numbers!Sign') + 1, Len(v6'))
      BY <1>2, <1>3, <2>1, <3>1 DEF digits
    <3> QED
      BY <3>2 DEF Numbers!ShownIsShort
  <2> QED
    BY <2>1, <2>3, <2>4, <2>5 DEF Numbers!NumbersInv, Numbers!ShownReadsBack
<1>6. CASE v5 # <<>>
  <2>1. /\ v3' = "putchar" /\ v6' = Append(v6, v5[Len(v5)])
        /\ v5' = SubSeq(v5, 1, Len(v5) - 1)
    BY <1>1, <1>6 DEF Numbers!Putchar
  <2>2. /\ v5' \in Seq(Int) /\ Len(v5') = Len(v5) - 1
        /\ \A k \in 1 .. Len(v5) - 1 : v5'[k] = v5[k]
        /\ v6' \in Seq(Int) /\ Len(v6') = Len(v6) + 1
        /\ \A k \in 1 .. Len(v6) : v6'[k] = v6[k]
        /\ v6'[Len(v6) + 1] = v5[Len(v5)]
        /\ Len(v5) \in Nat \ {0} /\ Len(v6) \in Nat
    BY <1>4, <1>6, <2>1, PopPush
  <2>3. Numbers!Length' = Numbers!Length /\ Numbers!Length = Len(v6) - s + Len(v5)
    <3>1. Numbers!Length' = Len(v6') - s + Len(v5')
      BY <1>3 DEF Numbers!Length
    <3> QED
      BY <1>4, <2>2, <3>1 DEF Numbers!Length
  <2>4. Numbers!NumbersTypes'
    BY <1>1, <1>2, <2>1, <2>2 DEF Numbers!NumbersTypes
  <2>5. \A k \in 1 .. Len(v5') : v5'[k] = Numbers!Above(k - 1) % v2
    BY <1>2, <2>2 DEF Numbers!InPlace
  <2>6. \A k \in 1 .. Len(v6') :
          v6'[k] = IF k <= s THEN Numbers!Minus
                   ELSE Numbers!Above(Numbers!Length - (k - s)) % v2
    <3> TAKE k \in 1 .. Len(v6')
    <3>1. CASE k \in 1 .. Len(v6)
      BY <1>2, <2>2, <3>1 DEF Numbers!InPlace
    <3>2. CASE k = Len(v6) + 1
      <4>1. ~(k <= s) /\ Numbers!Length - (k - s) = Len(v5) - 1 /\ Len(v5) \in 1 .. Len(v5)
        BY <1>4, <2>2, <2>3, <3>2
      <4>2. v5[Len(v5)] = Numbers!Above(Len(v5) - 1) % v2
        BY <1>2, <4>1 DEF Numbers!InPlace
      <4> QED
        BY <2>2, <3>2, <4>1, <4>2
    <3>3. k \in 1 .. Len(v6) \/ k = Len(v6) + 1
      BY <2>2
    <3> QED
      BY <3>1, <3>2, <3>3
  <2>7. Numbers!InPlace'
    <3>1. s <= Len(v6') /\ Numbers!Length <= Stack /\ Numbers!Length % Numbers!PerPass = 0
      BY <1>2, <1>4, <2>2 DEF Numbers!InPlace
    <3>2. \A k \in 1 .. Len(v5') : v5'[k] = Numbers!Above(k - 1)' % v2'
      BY <1>1, <1>3, <2>5
    <3>3. \A k \in 1 .. Len(v6') :
            v6'[k] = IF k <= Len(Numbers!Sign') THEN Numbers!Minus
                     ELSE Numbers!Above(Numbers!Length - (k - Len(Numbers!Sign)))' % v2'
      BY <1>1, <1>3, <2>3, <2>6
    <3>4. /\ Len(Numbers!Sign') <= Len(v6') /\ Numbers!Length' <= Stack
          /\ Numbers!Length' % Numbers!PerPass' = 0
      BY <1>3, <2>3, <3>1
    <3> QED
      BY <3>2, <3>3, <3>4 DEF Numbers!InPlace
  <2>8. Numbers!AllDigits' /\ Numbers!Divided'
    BY <1>1, <1>2, <1>3, <2>1, <2>3 DEF Numbers!AllDigits, Numbers!Divided
  <2>9. Numbers!HasRead' /\ Numbers!ShownReadsBack'
    BY <1>1, <1>2, <2>1 DEF Numbers!HasRead, Numbers!ShownReadsBack
  <2>10. Numbers!ShownIsShort'
    <3>1. Len(v5') <= Stack /\ v3' # "read"
      BY <1>2, <1>4, <2>1, <2>2
    <3> QED
      BY <3>1 DEF Numbers!ShownIsShort
  <2> QED
    BY <2>4, <2>7, <2>8, <2>9, <2>10 DEF Numbers!NumbersInv
<1> QED
  BY <1>5, <1>6

(* A character that atoi or xtoi reads.                                    *)
LEMMA ReadInv ==
  ASSUME Numbers!DarkNumbersAssumption, Numbers!NumbersInv, Numbers!Read
  PROVE  Numbers!NumbersInv'
<1> DEFINE s == Len(Numbers!Sign)
           N == Numbers!Length
           k == Len(v6) - v4 - 1
<1>1. /\ v1' = v1 /\ v2' = v2 /\ v3 = "read" /\ v3' = v3 /\ v5' = v5 /\ v6' = v6
      /\ v4 < Len(v6) /\ v4' = v4 + 1
      /\ IF v6[v4 + 1] = Numbers!Minus /\ v2 = Dec THEN v8' = TRUE /\ v7' = v7
         ELSE v7' = (v6[v4 + 1] + v7 * v2) % Numbers!M /\ v8' = v8
  BY DEF Numbers!Read
<1>2. /\ Numbers!NumbersTypes /\ Numbers!InPlace /\ Numbers!AllDigits
      /\ v5 = <<>> /\ (v8 <=> Numbers!Sign # <<>> /\ v4 > 0)
      /\ v7 = IF v4 = 0 THEN 0 ELSE Numbers!Above(Len(v6) - v4)
  BY <1>1 DEF Numbers!NumbersInv, Numbers!HasRead
<1>3. /\ Numbers!Sign' = Numbers!Sign /\ Numbers!Magnitude' = Numbers!Magnitude
      /\ Numbers!PerPass' = Numbers!PerPass /\ \A n : Numbers!Above(n)' = Numbers!Above(n)
      /\ Numbers!Length' = Numbers!Length
  <2>1. /\ Numbers!Sign' = Numbers!Sign /\ Numbers!Magnitude' = Numbers!Magnitude
        /\ Numbers!PerPass' = Numbers!PerPass /\ \A n : Numbers!Above(n)' = Numbers!Above(n)
    BY <1>1, SameNumber
  <2> QED
    BY <1>1, <2>1 DEF Numbers!Length
<1>4. /\ v6 \in Seq(Int) /\ Len(v6) \in Nat /\ s <= Len(v6) /\ N = Len(v6) - s /\ N <= Stack
      /\ Stack \in Nat /\ v4 \in Nat /\ Len(v5) = 0
      /\ Numbers!M \in Nat \ {0} /\ Numbers!Magnitude \in 0 .. Numbers!M - 1
      /\ v2 \in Nat /\ v2 > 1
      /\ (Numbers!Sign = <<>> /\ s = 0) \/ (Numbers!Sign # <<>> /\ s = 1 /\ v2 = Dec)
  <2>1. /\ v6 \in Seq(Int) /\ Len(v6) \in Nat /\ s <= Len(v6) /\ Stack \in Nat /\ v4 \in Nat
        /\ Len(v5) = 0 /\ N <= Stack
        /\ Numbers!M \in Nat \ {0} /\ Numbers!Magnitude \in 0 .. Numbers!M - 1
        /\ v2 \in Nat /\ v2 > 1
        /\ (Numbers!Sign = <<>> /\ s = 0) \/ (Numbers!Sign # <<>> /\ s = 1 /\ v2 = Dec)
    BY <1>2, NumbersFacts DEF Numbers!NumbersTypes, Numbers!InPlace
  <2>2. N = Len(v6) - s
    BY <2>1 DEF Numbers!Length
  <2> QED
    BY <2>1, <2>2
<1>5. Numbers!Above(N) = 0
  BY <1>1, <1>2 DEF Numbers!AllDigits
<1>6. v4 + 1 \in 1 .. Len(v6)
  BY <1>1, <1>4
<1>7. /\ v7' = Numbers!Above(k) /\ (v8' <=> Numbers!Sign # <<>> /\ v4' > 0)
  <2>1. CASE v4 + 1 <= s
    <3>1. v4 = 0 /\ s = 1 /\ Numbers!Sign # <<>> /\ v2 = Dec /\ k = N
      <4>1. s \in {0, 1} /\ v4 \in Nat
        BY <1>4
      <4> HIDE DEF s
      <4>2. v4 = 0 /\ s = 1
        BY <2>1, <4>1
      <4> QED
        BY <1>4, <4>2
    <3>2. v6[v4 + 1] = Numbers!Minus
      BY <1>2, <1>6, <2>1 DEF Numbers!InPlace
    <3>3. v8' /\ v7' = 0
      BY <1>1, <1>2, <3>1, <3>2
    <3>4. v4' > 0
      BY <1>1, <3>1
    <3> QED
      BY <1>5, <3>1, <3>3, <3>4
  <2>2. CASE ~(v4 + 1 <= s)
    <3>1. k \in 0 .. Stack /\ N - (v4 + 1 - s) = k /\ k + 1 = Len(v6) - v4
      BY <1>1, <1>4, <2>2
    <3>2. v6[v4 + 1] = Numbers!Above(k) % v2
      <4>1. \A j \in 1 .. Len(v6) : ~(j <= s) => v6[j] = Numbers!Above(N - (j - s)) % v2
        BY <1>2 DEF Numbers!InPlace
      <4>2. PICK j \in 1 .. Len(v6) : j = v4 + 1
        BY <1>6
      <4>3. ~(j <= s)
        BY <2>2, <4>2
      <4>4. N - (j - s) = k
        <5>1. s \in Int /\ N \in Int /\ v4 \in Int /\ Len(v6) \in Int
          BY <1>4
        <5> QED
          BY <3>1, <4>2, <5>1
      <4>5. v6[j] = Numbers!Above(N - (j - s)) % v2
        BY Zenon, <4>1, <4>3
      <4> QED
        BY Zenon, <4>2, <4>4, <4>5
    <3>3. /\ Numbers!Above(k) % v2 \in 0 .. v2 - 1 /\ Numbers!Above(k) \in 0 .. Numbers!Magnitude
          /\ Numbers!Above(k + 1) \in Nat
          /\ Numbers!Above(k) = v2 * Numbers!Above(k + 1) + (Numbers!Above(k) % v2)
      BY <1>2, <3>1, AboveFacts
    <3>4. v7 = Numbers!Above(k + 1)
      <4>1. v4 = 0 => k + 1 = N
        BY <1>4, <2>2, <3>1
      <4> QED
        BY <1>2, <1>5, <3>1, <4>1
    <3>5. v6[v4 + 1] # Numbers!Minus
      BY <1>4, <3>2, <3>3 DEF Numbers!Minus
    <3>6. v6[v4 + 1] + v7 * v2 = Numbers!Above(k)
      <4> DEFINE d == Numbers!Above(k) % v2
                 a == Numbers!Above(k)
                 b == Numbers!Above(k + 1)
      <4>1. d \in Int /\ a \in Int /\ b \in Int /\ a = v2 * b + d /\ v2 \in Int
        BY <1>4, <3>3
      <4> HIDE DEF d, a, b
      <4>2. d + b * v2 = a
        BY <4>1
      <4> QED
        BY <3>2, <3>4, <4>2 DEF d, a, b
    <3>7. Numbers!Above(k) % Numbers!M = Numbers!Above(k)
      <4>1. Numbers!Above(k) \in 0 .. Numbers!M - 1
        BY <1>4, <3>3
      <4>2. \A m \in Nat \ {0}, n \in Nat : n <= m - 1 => n % m = n
        OBVIOUS
      <4> QED
        BY <1>4, <4>1, <4>2
    <3>8. v7' = Numbers!Above(k) /\ v8' = v8
      BY <1>1, <3>5, <3>6, <3>7
    <3>9. Numbers!Sign # <<>> => v4 > 0 /\ v4' > 0
      BY <1>1, <1>4, <2>2
    <3> QED
      BY <1>2, <3>8, <3>9
  <2> QED
    BY <2>1, <2>2
<1>8. Numbers!HasRead'
  <2>1. v4' # 0 /\ Len(v6') - v4' = k /\ v4' <= Len(v6')
    BY <1>1, <1>4
  <2> QED
    BY <1>1, <1>2, <1>3, <1>7, <2>1 DEF Numbers!HasRead
<1>9. Numbers!NumbersTypes'
  <2>1. v4' \in Nat
    BY <1>1, <1>4
  <2>2. v8' = TRUE \/ v8' = v8
    BY <1>1
  <2>3. v8' \in BOOLEAN
    BY <1>2, <2>2 DEF Numbers!NumbersTypes
  <2> QED
    BY <1>1, <1>2, <2>1, <2>3 DEF Numbers!NumbersTypes
<1>10. Numbers!InPlace' /\ Numbers!AllDigits' /\ Numbers!Divided'
  BY <1>1, <1>2, <1>3 DEF Numbers!InPlace, Numbers!AllDigits, Numbers!Divided
<1>11. Numbers!ShownIsShort' /\ Numbers!ShownReadsBack'
  BY <1>1, <1>3 DEF Numbers!NumbersInv, Numbers!ShownIsShort, Numbers!ShownReadsBack
<1> QED
  BY <1>8, <1>9, <1>10, <1>11 DEF Numbers!NumbersInv

(* Its end.                                                                *)
LEMMA ReturnNumberInv ==
  ASSUME Numbers!DarkNumbersAssumption, Numbers!NumbersInv, Numbers!Return
  PROVE  Numbers!NumbersInv'
<1>1. /\ v1' = v1 /\ v2' = v2 /\ v3 = "read" /\ v3' = "done" /\ v4' = v4 /\ v5' = v5 /\ v6' = v6
      /\ v8' = v8 /\ v4 = Len(v6) /\ v7' = IF v8 THEN Numbers!Neg(v7) ELSE v7
  BY DEF Numbers!Return
<1>2. /\ Numbers!NumbersTypes /\ Numbers!InPlace /\ Numbers!AllDigits
      /\ v5 = <<>> /\ (v8 <=> Numbers!Sign # <<>> /\ v4 > 0)
      /\ v7 = IF v4 = 0 THEN 0 ELSE Numbers!Above(Len(v6) - v4)
  BY <1>1 DEF Numbers!NumbersInv, Numbers!HasRead
<1>3. /\ Numbers!Sign' = Numbers!Sign /\ Numbers!Magnitude' = Numbers!Magnitude
      /\ Numbers!PerPass' = Numbers!PerPass /\ \A n : Numbers!Above(n)' = Numbers!Above(n)
      /\ Numbers!Length' = Numbers!Length
  <2>1. /\ Numbers!Sign' = Numbers!Sign /\ Numbers!Magnitude' = Numbers!Magnitude
        /\ Numbers!PerPass' = Numbers!PerPass /\ \A n : Numbers!Above(n)' = Numbers!Above(n)
    BY <1>1, SameNumber
  <2> QED
    BY <1>1, <2>1 DEF Numbers!Length
<1>4. v4 > 0 /\ Len(v6) - v4 = 0
  <2>1. /\ Numbers!Length >= Numbers!PerPass /\ Numbers!PerPass \in {1, 2}
        /\ Len(v6) \in Nat /\ Len(Numbers!Sign) \in {0, 1} /\ Len(v5) = 0
    BY <1>1, <1>2, NumbersFacts DEF Numbers!AllDigits, Numbers!NumbersTypes
  <2> QED
    BY <1>1, <2>1 DEF Numbers!Length
<1>5. v7 = Numbers!Magnitude /\ (v8 <=> Numbers!Sign # <<>>)
  <2>1. Numbers!Above(0) = Numbers!Magnitude
    <3>1. 0 \in 0 .. Stack
      BY <1>2, NumbersFacts
    <3> QED
      BY <1>2, <3>1, AboveFacts
  <2>2. v4 # 0 /\ Numbers!Above(Len(v6) - v4) = Numbers!Above(0)
    BY <1>4
  <2> QED
    BY <1>2, <1>4, <2>1, <2>2
<1>6. v7' = v1
  <2>1. CASE Numbers!Sign = <<>>
    BY <1>1, <1>5, <2>1 DEF Numbers!Magnitude
  <2>2. CASE Numbers!Sign # <<>>
    <3>1. /\ Numbers!M = 2 ^ NumbersWidth /\ 2 ^ NumbersWidth = 2 * 2 ^ (NumbersWidth - 1)
          /\ 2 ^ (NumbersWidth - 1) \in Nat \ {0}
      BY DEF Numbers!M, Numbers!DarkNumbersAssumption
    <3>2. /\ v1 >= 2 ^ (NumbersWidth - 1)
      BY <2>2 DEF Numbers!Sign, Numbers!Negative
    <3>3. /\ Numbers!M \in Nat \ {0} /\ v1 \in 1 .. Numbers!M - 1
      BY <1>2, <3>1, <3>2 DEF Numbers!NumbersTypes, Numbers!Words
    <3>4. \A n \in 1 .. Numbers!M - 1 :
            (Numbers!M - n) % Numbers!M = Numbers!M - n /\ Numbers!M - n \in 1 .. Numbers!M - 1
      BY <3>3
    <3>5. Numbers!Neg(v1) = Numbers!M - v1 /\ Numbers!M - v1 \in 1 .. Numbers!M - 1
      BY <3>3, <3>4 DEF Numbers!Neg
    <3>6. Numbers!Neg(Numbers!M - v1) = Numbers!M - (Numbers!M - v1)
      BY <3>4, <3>5 DEF Numbers!Neg
    <3>7. Numbers!M - (Numbers!M - v1) = v1
      BY <3>3
    <3>8. v7 = Numbers!M - v1
      BY <1>5, <2>2, <3>5 DEF Numbers!Magnitude
    <3> QED
      BY <1>1, <1>5, <2>2, <3>6, <3>7, <3>8
  <2> QED
    BY <2>1, <2>2
<1>7. Numbers!NumbersTypes'
  BY <1>1, <1>2 DEF Numbers!NumbersTypes
<1>8. Numbers!InPlace' /\ Numbers!AllDigits' /\ Numbers!Divided' /\ Numbers!HasRead'
  BY <1>1, <1>2, <1>3 DEF Numbers!InPlace, Numbers!AllDigits, Numbers!Divided, Numbers!HasRead
<1>9. Numbers!ShownIsShort' /\ Numbers!ShownReadsBack'
  BY <1>1, <1>6 DEF Numbers!NumbersInv, Numbers!ShownIsShort, Numbers!ShownReadsBack
<1> QED
  BY <1>7, <1>8, <1>9 DEF Numbers!NumbersInv

LEMMA NumbersStep ==
  ASSUME Numbers!DarkNumbersAssumption, Numbers!NumbersInv, Numbers!Next
  PROVE  Numbers!NumbersInv'
BY DigitsInv, PutcharInv, ReadInv, ReturnNumberInv DEF Numbers!Next

-----------------------------------------------------------------------------
(* Every program by itself.                                                *)
FirmwareInv ==
  /\ Timer!TimerInv /\ Arith!ArithInv
  /\ program = "numbers" => Numbers!NumbersInv
  /\ program = "env" => TestEnv!EnvInv

LEMMA FirmwareInit == MCInit => FirmwareInv
<1> SUFFICES ASSUME MCInit PROVE FirmwareInv
  OBVIOUS
<1>1. Timer!Init /\ Arith!Init
  BY DEF MCInit
<1>2. Timer!TimerInv
  BY <1>1, TimerInit, ProgramsAssumption
<1>3. Arith!ArithInv
  BY <1>1, ArithInit, ProgramsAssumption
<1>4. program = "numbers" => Numbers!NumbersInv
  <2>1. program = "numbers" => Numbers!Init
    BY DEF MCInit
  <2> QED
    BY <2>1, NumbersInit, ProgramsAssumption
<1>5. program = "env" => TestEnv!EnvInv
  <2>1. program = "env" => TestEnv!Init
    BY DEF MCInit
  <2> QED
    BY <2>1, EnvInit
<1> QED
  BY <1>2, <1>3, <1>4, <1>5 DEF FirmwareInv

LEMMA TimerRests == Timer!TimerInv /\ UNCHANGED timerVars => Timer!TimerInv'
<1> SUFFICES ASSUME Timer!TimerInv, UNCHANGED timerVars PROVE Timer!TimerInv'
  OBVIOUS
<1>1. hw' = hw /\ utimers' = utimers /\ irq' = irq /\ main' = main /\ since' = since /\ span' = span
  BY DEF timerVars
<1>2. Timer!TimerTypes'
  BY <1>1
  DEF Timer!TimerInv, Timer!TimerTypes
<1>3. Timer!Handles'
  BY <1>1
  DEF Timer!TimerInv, Timer!Handles, Timer!Pending, Timer!Asleep
<1>4. Timer!NotTooShort'
  BY <1>1
  DEF Timer!TimerInv, Timer!NotTooShort, Timer!Asleep, Timer!Ticks,
      Timer!Seen, Timer!Ticked, Timer!Pending, Timer!Uncounted, Timer!Longest,
      Timer!Slack, Timer!AtLeast, Timer!Period
<1>5. Timer!NotTooLong'
  BY <1>1
  DEF Timer!TimerInv, Timer!NotTooLong, Timer!Asleep, Timer!Ticks, Timer!Seen,
      Timer!Ticked, Timer!Pending, Timer!Uncounted, Timer!Period,
      Timer!HandlerInPeriod, Timer!PollInPeriod
<1>6. Timer!LedPeriod'
  BY <1>1
  DEF Timer!TimerInv, Timer!LedPeriod
<1>7. Timer!SleepIsAccurate'
  BY <1>1
  DEF Timer!TimerInv, Timer!SleepIsAccurate, Timer!Longest, Timer!Slack
<1> QED
  BY <1>2, <1>3, <1>4, <1>5, <1>6, <1>7 DEF Timer!TimerInv

LEMMA ArithRests == Arith!ArithInv /\ UNCHANGED arithVars => Arith!ArithInv'
<1> SUFFICES ASSUME Arith!ArithInv, UNCHANGED arithVars PROVE Arith!ArithInv'
  OBVIOUS
<1>1. call' = call /\ pc' = pc /\ x' = x /\ y' = y /\ sum' = sum /\ aux' = aux /\ result' = result
  BY DEF arithVars
<1>2. Arith!TypeOK'
  BY <1>1
  DEF Arith!ArithInv, Arith!TypeOK, Arith!Words, Arith!M
<1>3. Arith!Called'
  BY <1>1
  DEF Arith!ArithInv, Arith!Called, Arith!Operations, Arith!Words, Arith!M,
      Arith!Signed, Arith!Negative, Arith!Msb, Arith!IsMul
<1>4. Arith!Multiplies'
  BY <1>1
  DEF Arith!ArithInv, Arith!Multiplies, Arith!M, Arith!Magnitude,
      Arith!Signed, Arith!Abs, Arith!Negative, Arith!Msb, Arith!Neg
<1>5. Arith!MovedUp'
  BY <1>1
  DEF Arith!ArithInv, Arith!MovedUp, Arith!Magnitude, Arith!Signed, Arith!Abs,
      Arith!Negative, Arith!Msb, Arith!Neg, Arith!M, Arith!Powers
<1>6. Arith!MovedDown'
  BY <1>1
  DEF Arith!ArithInv, Arith!MovedDown, Arith!Magnitude, Arith!Signed,
      Arith!Abs, Arith!Negative, Arith!Msb, Arith!Neg, Arith!M, Arith!Powers
<1>7. Arith!ResultIsExpected'
  BY <1>1
  DEF Arith!ArithInv, Arith!ResultIsExpected, Arith!Expected, Arith!Signed,
      Arith!Value, Arith!Negative, Arith!Msb, Arith!M, Arith!IsMul,
      Arith!IsDiv, Arith!Quotient, Arith!AbsInt
<1> QED
  BY <1>2, <1>3, <1>4, <1>5, <1>6, <1>7 DEF Arith!ArithInv

LEMMA NumbersRest == Numbers!NumbersInv /\ UNCHANGED turnVars => Numbers!NumbersInv'
<1> SUFFICES ASSUME Numbers!NumbersInv, UNCHANGED turnVars PROVE Numbers!NumbersInv'
  OBVIOUS
<1>1. /\ v1' = v1 /\ v2' = v2 /\ v3' = v3 /\ v4' = v4 /\ v5' = v5 /\ v6' = v6
     /\ v7' = v7 /\ v8' = v8 /\ v9' = v9 /\ v10' = v10 /\ v11' = v11 /\ v12' = v12
  BY DEF turnVars
<1>2. Numbers!NumbersTypes'
  BY <1>1
  DEF Numbers!NumbersInv, Numbers!NumbersTypes, Numbers!Words, Numbers!M
<1>3. Numbers!InPlace'
  BY <1>1
  DEF Numbers!NumbersInv, Numbers!InPlace, Numbers!Sign, Numbers!Negative,
      Numbers!Minus, Numbers!Length, Numbers!PerPass, Numbers!Above,
      Numbers!Magnitude, Numbers!Neg, Numbers!M
<1>4. Numbers!Divided'
  BY <1>1
  DEF Numbers!NumbersInv, Numbers!Divided, Numbers!Sign, Numbers!Negative,
      Numbers!Minus, Numbers!Length, Numbers!PerPass, Numbers!Above,
      Numbers!Magnitude, Numbers!Neg, Numbers!M
<1>5. Numbers!AllDigits'
  BY <1>1
  DEF Numbers!NumbersInv, Numbers!AllDigits, Numbers!Above, Numbers!Magnitude,
      Numbers!Sign, Numbers!Negative, Numbers!Minus, Numbers!Neg, Numbers!M,
      Numbers!Length, Numbers!PerPass
<1>6. Numbers!HasRead'
  BY <1>1
  DEF Numbers!NumbersInv, Numbers!HasRead, Numbers!Sign, Numbers!Negative,
      Numbers!Minus, Numbers!Above, Numbers!Magnitude, Numbers!Neg, Numbers!M
<1>7. Numbers!ShownReadsBack'
  BY <1>1
  DEF Numbers!NumbersInv, Numbers!ShownReadsBack
<1>8. Numbers!ShownIsShort'
  BY <1>1
  DEF Numbers!NumbersInv, Numbers!ShownIsShort, Numbers!Sign,
      Numbers!Negative, Numbers!Minus, Numbers!PerPass
<1> QED
  BY <1>2, <1>3, <1>4, <1>5, <1>6, <1>7, <1>8 DEF Numbers!NumbersInv

LEMMA EnvRests == TestEnv!EnvInv /\ UNCHANGED turnVars => TestEnv!EnvInv'
<1> SUFFICES ASSUME TestEnv!EnvInv, UNCHANGED turnVars PROVE TestEnv!EnvInv'
  OBVIOUS
<1>1. /\ v1' = v1 /\ v2' = v2 /\ v3' = v3 /\ v4' = v4 /\ v5' = v5 /\ v6' = v6
     /\ v7' = v7 /\ v8' = v8 /\ v9' = v9 /\ v10' = v10 /\ v11' = v11 /\ v12' = v12
  BY DEF turnVars
<1>2. TestEnv!EnvTypes'
  BY <1>1
  DEF TestEnv!EnvInv, TestEnv!EnvTypes, TestEnv!Regs, TestEnv!Early,
      TestEnv!Interruptible, TestEnv!Resumes
<1>3. TestEnv!Enables'
  BY <1>1
  DEF TestEnv!EnvInv, TestEnv!Enables, TestEnv!Early, TestEnv!Resumes
<1>4. TestEnv!Trapped'
  BY <1>1
  DEF TestEnv!EnvInv, TestEnv!Trapped, TestEnv!Resumes, TestEnv!Irqs,
      TestEnv!BusErrors, TestEnv!Interruptible
<1>5. TestEnv!Verdicts'
  BY <1>1
  DEF TestEnv!EnvInv, TestEnv!Verdicts, TestEnv!Here, TestEnv!Resumes,
      TestEnv!Irqs, TestEnv!BusErrors, TestEnv!Early, TestEnv!Crashed
<1>6. TestEnv!PllInOrder'
  BY <1>1
  DEF TestEnv!EnvInv, TestEnv!PllInOrder, TestEnv!Here, TestEnv!Resumes,
      TestEnv!Irqs, TestEnv!BusErrors, TestEnv!Early
<1>7. TestEnv!TrapsAreTransparent'
  BY <1>1
  DEF TestEnv!EnvInv, TestEnv!TrapsAreTransparent
<1>8. TestEnv!NothingIsLost'
  BY <1>1
  DEF TestEnv!EnvInv, TestEnv!NothingIsLost
<1>9. TestEnv!ReportIsRight'
  BY <1>1
  DEF TestEnv!EnvInv, TestEnv!ReportIsRight
<1> QED
  BY <1>2, <1>3, <1>4, <1>5, <1>6, <1>7, <1>8, <1>9 DEF TestEnv!EnvInv

LEMMA FirmwareStep == FirmwareInv /\ [MCNext]_programVars => FirmwareInv'
<1> SUFFICES ASSUME FirmwareInv, [MCNext]_programVars PROVE FirmwareInv'
  OBVIOUS
<1>1. program' = program
  BY DEF MCNext, programVars
<1>2. Timer!TimerInv'
  <2>1. (program = "timer" /\ Timer!Next) \/ UNCHANGED timerVars
    BY DEF MCNext, programVars
  <2> QED
    BY <2>1, TimerStep, TimerRests, ProgramsAssumption DEF FirmwareInv
<1>3. Arith!ArithInv'
  <2>1. (program = "arith" /\ Arith!Next) \/ UNCHANGED arithVars
    BY DEF MCNext, programVars
  <2> QED
    BY <2>1, ArithStep, ArithRests, ProgramsAssumption DEF FirmwareInv
<1>4. ASSUME program = "numbers" PROVE Numbers!NumbersInv'
  <2>1. Numbers!Next \/ UNCHANGED turnVars
    BY <1>4 DEF MCNext, Turn, programVars
  <2> QED
    BY <1>4, <2>1, NumbersStep, NumbersRest, ProgramsAssumption DEF FirmwareInv
<1>5. ASSUME program = "env" PROVE TestEnv!EnvInv'
  <2>1. TestEnv!Next \/ UNCHANGED turnVars
    BY <1>5 DEF MCNext, Turn, programVars
  <2> QED
    BY <1>5, <2>1, EnvStep, EnvRests, ProgramsAssumption DEF FirmwareInv
<1> QED
  BY <1>1, <1>2, <1>3, <1>4, <1>5 DEF FirmwareInv

(* The firmware counts and waits as long as it says, and multiplies,       *)
(* divides, shows and reads numbers as C does, whatever the width of its   *)
(* words, the period of its timer and the time asked for; the environment  *)
(* of a test hides interrupts from it and reports what it comes to         *)
(* (main.c:36-49, stdio.c:105-364, riscv_test.h_simple.h:116-326).         *)
THEOREM FirmwareIsRight == MCSpec => []FirmwareRight
<1>1. FirmwareInv => FirmwareRight
  <2>1. Timer!TimerInv => Timer!LedPeriod /\ Timer!SleepIsAccurate
    BY DEF Timer!TimerInv
  <2>2. Numbers!NumbersInv => Numbers!ShownReadsBack /\ Numbers!ShownIsShort
    BY DEF Numbers!NumbersInv
  <2> QED
    BY <2>1, <2>2, ArithRight, EnvRight DEF FirmwareInv, FirmwareRight
<1>2. MCInit /\ [][MCNext]_programVars => []FirmwareInv
  BY FirmwareInit, FirmwareStep, PTL
<1> QED
  BY <1>1, <1>2, PTL DEF MCSpec

(* A set of natural numbers has a least one.                              *)
LEMMA LeastNumber ==
  ASSUME NEW S \in SUBSET Nat, S # {}
  PROVE  \E m \in S : \A n \in S : m <= n
<1> DEFINE R == {ss \in Nat \X Nat : ss[1] < ss[2]}
<1>0. OpToRel(<, Nat) = R
  BY Zenon DEF OpToRel
<1>1. PICK m \in S : \A n \in S : ~(<<n, m>> \in R)
  BY <1>0, NatLessThanWellFounded, WFMin, Zenon
<1>2. ASSUME NEW n \in Nat, NEW k \in Nat, <<n, k>> \notin R PROVE k <= n
  <2>1. ~(n < k)
    BY <1>2
  <2> QED
    BY <2>1
<1> QED
  BY <1>1, <1>2

-----------------------------------------------------------------------------
(* The shell of the DarkRISCV firmware.  The string that begins at a place *)
(* ends at the first NUL behind it.                                        *)
LEMMA EndOfIs ==
  ASSUME Shell!DarkShellAssumption, NEW a \in Shell!Places, NEW e \in a .. BufSize - 1,
         v2[e].c = "NUL", \A j \in a .. e - 1 : v2[j].c # "NUL"
  PROVE  Shell!EndOf(a) = e
<1> DEFINE P(n) == v2[n].c = "NUL" /\ \A j \in a .. n - 1 : v2[j].c # "NUL"
<1>1. a \in Int /\ e \in Int
  BY DEF Shell!DarkShellAssumption, Shell!Places
<1>2. P(e)
  OBVIOUS
<1>3. Shell!EndOf(a) \in a .. BufSize - 1 /\ P(Shell!EndOf(a))
  BY <1>2 DEF Shell!EndOf
<1> QED
  BY <1>1, <1>3

LEMMA EndOfIsNul ==
  ASSUME Shell!DarkShellAssumption, NEW a \in Shell!Places, v2[BufSize - 1].c = "NUL"
  PROVE  /\ Shell!EndOf(a) \in a .. BufSize - 1 /\ v2[Shell!EndOf(a)].c = "NUL"
         /\ \A j \in a .. Shell!EndOf(a) - 1 : v2[j].c # "NUL"
<1> DEFINE S == {n \in a .. BufSize - 1 : v2[n].c = "NUL"}
<1>1. a \in Nat /\ BufSize - 1 \in S
  BY DEF Shell!DarkShellAssumption, Shell!Places
<1>2. S \in SUBSET Nat /\ S # {}
  BY <1>1
<1>3. PICK e \in S : \A n \in S : e <= n
  BY <1>2, LeastNumber
<1>4. \A j \in a .. e - 1 : v2[j].c # "NUL"
  BY <1>1, <1>2, <1>3 DEF Shell!DarkShellAssumption
<1>5. Shell!EndOf(a) = e
  BY <1>3, <1>4, EndOfIs
<1> QED
  BY <1>3, <1>4, <1>5

LEMMA StartIsCut ==
  ASSUME Shell!DarkShellAssumption, Shell!ShellInv, v1 = "strtok", Shell!Start # Shell!Null
  PROVE  Shell!Start = Shell!Cut /\ Shell!Start \in Shell!FieldStarts /\ Shell!Start \in 0 .. v3 /\ v3 \in Shell!Places
<1>1. v3 \in Nat /\ v3 \in 0 .. BufSize - 1 /\ Len(v8) = v3 /\ v3 \in Shell!Places
  BY DEF Shell!DarkShellAssumption, Shell!ShellInv, Shell!ShellTypes, Shell!Places
<1>2. CASE v6 = 0
  BY <1>1, <1>2 DEF Shell!Start, Shell!Cut, Shell!FieldStarts
<1>3. CASE v6 # 0
  <2>1. v6 > 0 /\ Shell!Start = v7 /\ v7 # Shell!Null /\ Shell!Cut = v7
    BY <1>3 DEF Shell!Start, Shell!Cut, Shell!ShellInv, Shell!ShellTypes
  <2>2. v7 \in Shell!FieldStarts
    BY <2>1 DEF Shell!ShellInv, Shell!FieldsSplit
  <2>3. v7 \in 0 .. v3
    BY <1>1, <2>2 DEF Shell!FieldStarts
  <2> QED
    BY <1>1, <2>1, <2>2, <2>3
<1> QED
  BY <1>2, <1>3

(* From the place where strtok begins the rest of the line is uncut.       *)
LEMMA RestOfLine ==
  ASSUME Shell!DarkShellAssumption, Shell!ShellInv, v1 = "strtok", Shell!Start # Shell!Null
  PROVE  /\ Shell!EndOf(Shell!Start) = v3
         /\ Shell!Blanks = {j \in Shell!Start .. v3 - 1 : v8[j + 1] = "SP"}
<1>1. Shell!Start = Shell!Cut /\ Shell!Start \in 0 .. v3 /\ v3 \in Shell!Places /\ v3 \in 0 .. BufSize - 1
  BY StartIsCut DEF Shell!Places
<1>2. ASSUME NEW j \in Shell!Start .. v3 - 1
      PROVE  v2[j].c = v8[j + 1] /\ v2[j].c # "NUL"
  <2>0. j \in Int /\ j < v3 /\ ~(j < Shell!Start) /\ j + 1 \in 1 .. v3 /\ j \in 0 .. BufSize - 1
    BY <1>1 DEF Shell!DarkShellAssumption
  <2>1. j \in Shell!Places /\ j < v3 /\ ~Shell!IsCut(j) /\ j + 1 \in 1 .. Len(v8)
    BY <1>1, <2>0 DEF Shell!IsCut, Shell!Places, Shell!ShellInv, Shell!ShellTypes
  <2>2. v2[j] = [c |-> v8[j + 1], line |-> "now"]
    BY <2>1 DEF Shell!ShellInv, Shell!LineInBuffer
  <2>3. v8[j + 1] \in ShellKeys
    BY <2>1 DEF Shell!ShellInv, Shell!ShellTypes
  <2> QED
    BY <2>2, <2>3 DEF Shell!DarkShellAssumption
<1>3. v2[v3].c = "NUL"
  <2>1. ~(v3 < v3)
    BY <1>1
  <2>2. v2[v3] = Shell!Nul
    BY <1>1, <2>1 DEF Shell!ShellInv, Shell!LineInBuffer
  <2> QED
    BY <2>2 DEF Shell!Nul
<1>4. Shell!EndOf(Shell!Start) = v3
  <2>1. Shell!Start \in Shell!Places /\ v3 \in Shell!Start .. BufSize - 1
    BY <1>1 DEF Shell!Places, Shell!DarkShellAssumption
  <2> QED
    BY <1>2, <1>3, <2>1, EndOfIs
<1> QED
  BY <1>2, <1>4 DEF Shell!Blanks

LEMMA ShellInit == ASSUME Shell!DarkShellAssumption, Shell!Init PROVE Shell!ShellInv
<1>1. Shell!ShellTypes
  <2>1. Shell!Nul \in [c : ShellKeys \cup {"NUL"}, line : {"now"}]
    BY DEF Shell!Nul
  <2> QED
    BY <2>1 DEF Shell!DarkShellAssumption, Shell!Init, Shell!ShellTypes, Shell!Places, Shell!Null, Shell!Unset
<1>2. Shell!LineInBuffer
  BY DEF Shell!DarkShellAssumption, Shell!Init, Shell!LineInBuffer, Shell!Places
<1>3. Shell!FieldsSplit
  BY DEF Shell!Init, Shell!FieldsSplit
<1> QED
  BY <1>1, <1>2, <1>3 DEF Shell!ShellInv

LEMMA NextLineStep == ASSUME Shell!DarkShellAssumption, Shell!ShellInv, Shell!NextLine PROVE Shell!ShellInv'
<1>1. Shell!ShellTypes'
  <2>1. Shell!Nul \in [c : ShellKeys \cup {"NUL"}, line : {"now"}]
    BY DEF Shell!Nul
  <2> QED
    BY <2>1 DEF Shell!DarkShellAssumption, Shell!NextLine, Shell!ShellInv, Shell!ShellTypes, Shell!Places, Shell!Memset
<1>2. Shell!LineInBuffer'
  BY DEF Shell!DarkShellAssumption, Shell!NextLine, Shell!Memset, Shell!LineInBuffer, Shell!Places, Shell!Nul
<1>3. Shell!FieldsSplit'
  BY DEF Shell!NextLine, Shell!FieldsSplit
<1> QED
  BY <1>1, <1>2, <1>3 DEF Shell!ShellInv

LEMMA GetKeyStep ==
  ASSUME Shell!DarkShellAssumption, Shell!ShellInv, NEW c \in ShellKeys, Shell!GetKey(c) PROVE Shell!ShellInv'
<1>0. v1 = "gets" /\ v1' = "gets" /\ v3 \in Shell!Places /\ v3 + 1 < BufSize /\ v4 - 1 \in 1 .. BufSize
  BY DEF Shell!GetKey, Shell!More, Shell!DarkShellAssumption, Shell!ShellInv, Shell!ShellTypes, Shell!Places
<1>1. CASE c = "BS" /\ v3 # 0
  <2>1. /\ v3' = v3 - 1 /\ v4' = v4 /\ v2' = [v2 EXCEPT ![v3 - 1] = Shell!Nul]
        /\ v8' = SubSeq(v8, 1, Len(v8) - 1) /\ UNCHANGED <<v5, v6, v7>>
    BY <1>1 DEF Shell!GetKey, Shell!Delete
  <2>2. v8' \in Seq(ShellKeys) /\ Len(v8') = v3 - 1 /\ \A j \in 1 .. v3 - 1 : v8'[j] = v8[j]
    BY <1>0, <1>1, <2>1 DEF Shell!ShellInv, Shell!ShellTypes, Shell!Places
  <2>3. Shell!ShellTypes'
    <3>1. v2' \in [Shell!Places -> [c : ShellKeys \cup {"NUL"}, line : {"now"}]]
      <4>1. Shell!Nul \in [c : ShellKeys \cup {"NUL"}, line : {"now"}]
        BY DEF Shell!Nul
      <4> QED
        BY <2>1, <4>1 DEF Shell!ShellInv, Shell!ShellTypes
    <3>2. v3 - 1 \in Nat /\ v3 - 1 + v4 <= BufSize
      BY <1>0, <1>1 DEF Shell!ShellInv, Shell!ShellTypes, Shell!Places, Shell!DarkShellAssumption
    <3> QED
      BY <1>0, <2>1, <2>2, <3>1, <3>2 DEF Shell!ShellInv, Shell!ShellTypes, Shell!Places
  <2>4. Shell!LineInBuffer'
    <3> SUFFICES ASSUME NEW j \in Shell!Places
                 PROVE  IF j < v3 - 1 THEN v2'[j] = [c |-> v8[j + 1], line |-> "now"]
                        ELSE v2'[j] = Shell!Nul
      <4>1. ASSUME NEW j \in Shell!Places, j < v3 - 1 PROVE v8'[j + 1] = v8[j + 1]
        BY <1>0, <2>2, <4>1 DEF Shell!Places, Shell!DarkShellAssumption
      <4> QED
        BY <1>0, <2>1, <4>1 DEF Shell!LineInBuffer, Shell!IsCut, Shell!Places, Shell!Nul
    <3>1. IF j < v3 THEN v2[j] = [c |-> v8[j + 1], line |-> "now"] ELSE v2[j] = Shell!Nul
      BY <1>0 DEF Shell!ShellInv, Shell!LineInBuffer, Shell!IsCut
    <3> QED
      BY <1>0, <2>1, <3>1 DEF Shell!Places, Shell!ShellInv, Shell!ShellTypes
  <2> QED
    BY <1>0, <2>3, <2>4 DEF Shell!ShellInv, Shell!FieldsSplit
<1>2. CASE c = "BS" /\ v3 = 0
  <2>1. v4' = v4 - 1 /\ UNCHANGED <<v3, v2, v8, v5, v6, v7>>
    BY <1>2 DEF Shell!GetKey
  <2>2. Shell!ShellTypes'
    BY <1>0, <2>1 DEF Shell!ShellInv, Shell!ShellTypes, Shell!Places, Shell!DarkShellAssumption
  <2>3. Shell!LineInBuffer'
    BY <1>0, <2>1 DEF Shell!ShellInv, Shell!LineInBuffer, Shell!IsCut
  <2> QED
    BY <1>0, <2>2, <2>3 DEF Shell!ShellInv, Shell!FieldsSplit
<1>3. CASE c # "BS"
  <2> DEFINE new == [c |-> c, line |-> "now"]
  <2>1. /\ v3' = v3 + 1 /\ v4' = v4 - 1 /\ v2' = [v2 EXCEPT ![v3] = new]
        /\ v8' = Append(v8, c) /\ UNCHANGED <<v5, v6, v7>>
    BY <1>3 DEF Shell!GetKey
  <2>2. /\ v8' \in Seq(ShellKeys) /\ Len(v8') = v3 + 1 /\ v8'[v3 + 1] = c
        /\ \A j \in 1 .. v3 : v8'[j] = v8[j]
    BY <2>1 DEF Shell!ShellInv, Shell!ShellTypes
  <2>3. Shell!ShellTypes'
    <3>1. v2' \in [Shell!Places -> [c : ShellKeys \cup {"NUL"}, line : {"now"}]]
      BY <2>1 DEF Shell!ShellInv, Shell!ShellTypes
    <3>2. v3 + 1 \in Nat /\ v3 + 1 + (v4 - 1) <= BufSize
      BY <1>0 DEF Shell!ShellInv, Shell!ShellTypes, Shell!Places, Shell!DarkShellAssumption
    <3> QED
      BY <1>0, <2>1, <2>2, <3>1, <3>2 DEF Shell!ShellInv, Shell!ShellTypes, Shell!Places
  <2>4. Shell!LineInBuffer'
    <3> SUFFICES ASSUME NEW j \in Shell!Places
                 PROVE  IF j < v3 + 1 THEN v2'[j] = [c |-> v8'[j + 1], line |-> "now"]
                        ELSE v2'[j] = Shell!Nul
      BY <1>0, <2>1, <2>2 DEF Shell!LineInBuffer, Shell!IsCut, Shell!Places
    <3>1. IF j < v3 THEN v2[j] = [c |-> v8[j + 1], line |-> "now"] ELSE v2[j] = Shell!Nul
      BY <1>0 DEF Shell!ShellInv, Shell!LineInBuffer, Shell!IsCut
    <3>2. CASE j = v3
      BY <1>0, <2>1, <2>2, <3>2 DEF Shell!Places, Shell!ShellInv, Shell!ShellTypes
    <3>3. CASE j # v3
      BY <1>0, <2>1, <2>2, <3>1, <3>3 DEF Shell!Places, Shell!ShellInv, Shell!ShellTypes
    <3> QED
      BY <3>2, <3>3
  <2> QED
    BY <1>0, <2>3, <2>4 DEF Shell!ShellInv, Shell!FieldsSplit
<1> QED
  BY <1>1, <1>2, <1>3

LEMMA SameCardinality == \A S : Shell!Cardinality(S) = Cardinality(S)
BY Zenon DEF Shell!Cardinality, Cardinality, Shell!IsFiniteSet, IsFiniteSet

LEMMA EndLineStep == ASSUME Shell!DarkShellAssumption, Shell!ShellInv, Shell!EndLine PROVE Shell!ShellInv'
<1>1. /\ v2' = [v2 EXCEPT ![v3] = Shell!Nul] /\ v1 = "gets" /\ v1' = "strtok" /\ v6' = 0
      /\ v3 \in Shell!Places /\ UNCHANGED <<v3, v4, v5, v7, v8>>
  BY DEF Shell!EndLine, Shell!DarkShellAssumption, Shell!ShellInv, Shell!ShellTypes, Shell!Places
<1>2. Shell!ShellTypes'
  <2>1. Shell!Nul \in [c : ShellKeys \cup {"NUL"}, line : {"now"}]
    BY DEF Shell!Nul
  <2>2. 0 \in 0 .. Slots
    BY DEF Shell!DarkShellAssumption
  <2> QED
    BY <1>1, <2>1, <2>2 DEF Shell!ShellInv, Shell!ShellTypes
<1>3. Shell!LineInBuffer'
  <2> SUFFICES ASSUME NEW j \in Shell!Places
               PROVE  IF j < v3 THEN v2'[j] = [c |-> v8[j + 1], line |-> "now"]
                      ELSE v2'[j] = Shell!Nul
    BY <1>1 DEF Shell!LineInBuffer, Shell!IsCut, Shell!Cut, Shell!Places, Shell!Nul
  <2>1. IF j < v3 THEN v2[j] = [c |-> v8[j + 1], line |-> "now"] ELSE v2[j] = Shell!Nul
    BY <1>1 DEF Shell!ShellInv, Shell!LineInBuffer, Shell!IsCut
  <2> QED
    BY <1>1, <2>1 DEF Shell!Places, Shell!ShellInv, Shell!ShellTypes, Shell!DarkShellAssumption
<1>4. Shell!FieldsSplit'
  <2>1. {f \in Shell!FieldStarts' : f < Shell!Cut'} = {}
    BY <1>1 DEF Shell!FieldStarts, Shell!Cut, Shell!ShellInv, Shell!ShellTypes
  <2>2. Shell!Cardinality({f \in Shell!FieldStarts' : f < Shell!Cut'}) = 0
    BY <2>1, FS_EmptySet, SameCardinality
  <2> QED
    BY <1>1, <2>2 DEF Shell!FieldsSplit
<1> QED
  BY <1>2, <1>3, <1>4 DEF Shell!ShellInv

(* A call of strtok takes the field that begins where the line is uncut.   *)
LEMMA FieldStartsFinite ==
  ASSUME Shell!DarkShellAssumption, Shell!ShellInv
  PROVE  /\ Shell!FieldStarts \in SUBSET (0 .. v3) /\ IsFiniteSet(Shell!FieldStarts)
         /\ \A S \in SUBSET Shell!FieldStarts : IsFiniteSet(S) /\ Cardinality(S) <= Cardinality(Shell!FieldStarts)
<1>1. Shell!FieldStarts \in SUBSET (0 .. v3) /\ v3 \in Int
  BY DEF Shell!FieldStarts, Shell!ShellInv, Shell!ShellTypes
<1>2. IsFiniteSet(Shell!FieldStarts)
  <2>1. IsFiniteSet(0 .. v3)
    BY <1>1, FS_Interval
  <2> QED
    BY <1>1, <2>1, FS_Subset
<1> QED
  BY <1>1, <1>2, FS_Subset

LEMMA StrtokStep == ASSUME Shell!DarkShellAssumption, Shell!ShellInv, Shell!Strtok PROVE Shell!ShellInv'
<1> DEFINE e == IF Shell!Blanks = {} THEN v3 ELSE v7' - 1
<1>1. /\ v1 = "strtok" /\ v1' = "strtok" /\ v6 \in 0 .. Slots - 1 /\ Shell!Start # Shell!Null
      /\ v5' = [v5 EXCEPT ![v6] = Shell!Start] /\ v6' = v6 + 1
      /\ UNCHANGED <<v3, v4, v8>>
  BY DEF Shell!Strtok, Shell!DarkShellAssumption, Shell!ShellInv, Shell!ShellTypes
<1>2. Shell!Start = Shell!Cut /\ Shell!Start \in Shell!FieldStarts /\ Shell!Start \in 0 .. v3 /\ v3 \in Shell!Places /\ v3 \in Nat
  BY <1>1, StartIsCut DEF Shell!ShellInv, Shell!ShellTypes
<1>3. Shell!Blanks = {j \in Shell!Start .. v3 - 1 : v8[j + 1] = "SP"}
  BY <1>1, RestOfLine
<1>4. PICK b \in Shell!Start .. v3 :
        /\ \A j \in Shell!Start .. b - 1 : v8[j + 1] # "SP"
        /\ b < v3 => v8[b + 1] = "SP"
        /\ Shell!Cut' = b + 1 /\ v7' \in Shell!Places \cup {Shell!Null}
        /\ IF b = v3 THEN v7' = Shell!Null /\ v2' = v2
           ELSE v7' = b + 1 /\ v2' = [v2 EXCEPT ![b] = Shell!Nul]
  <2>1. CASE Shell!Blanks = {}
    <3>1. \A j \in Shell!Start .. v3 - 1 : v8[j + 1] # "SP"
      BY <1>3, <2>1
    <3>2. v7' = Shell!Null /\ v2' = v2
      BY <2>1 DEF Shell!Strtok, Shell!Exhausted
    <3>3. Shell!Cut' = v3 + 1
      BY <1>1, <3>2 DEF Shell!Cut
    <3> QED
      BY <1>2, <3>1, <3>2, <3>3
  <2>2. CASE Shell!Blanks # {}
    <3>1. PICK b \in Shell!Blanks : /\ \A j \in Shell!Blanks : b <= j
                              /\ v2' = [v2 EXCEPT ![b] = Shell!Nul] /\ v7' = b + 1
      BY <2>2 DEF Shell!Strtok, Shell!After
    <3>2. b \in Shell!Start .. v3 - 1 /\ v8[b + 1] = "SP"
      BY <1>3, <3>1
    <3>3. \A j \in Shell!Start .. b - 1 : v8[j + 1] # "SP"
      BY <1>2, <1>3, <3>1, <3>2
    <3>4. b + 1 \in Shell!Places
      BY <1>2, <3>2 DEF Shell!Places, Shell!DarkShellAssumption
    <3>5. v7' # Shell!Null /\ Shell!Cut' = b + 1
      BY <1>1, <1>2, <3>1, <3>2 DEF Shell!Cut, Shell!Null
    <3>6. b \in Shell!Start .. v3 /\ b # v3 /\ b < v3
      BY <1>2, <3>2
    <3> QED
      BY <3>1, <3>2, <3>3, <3>4, <3>5, <3>6
  <2> QED
    BY <2>1, <2>2
<1>5. Shell!FieldStarts' = Shell!FieldStarts
  BY <1>1 DEF Shell!FieldStarts
<1>6. Shell!ShellTypes'
  <2>1. v2' \in [Shell!Places -> [c : ShellKeys \cup {"NUL"}, line : {"now"}]]
    <3>1. Shell!Nul \in [c : ShellKeys \cup {"NUL"}, line : {"now"}]
      BY DEF Shell!Nul
    <3> QED
      BY <1>4, <3>1 DEF Shell!ShellInv, Shell!ShellTypes
  <2>2. v5' \in [0 .. Slots - 1 -> Shell!Places \cup {Shell!Null, Shell!Unset}]
    <3>1. Shell!Start \in Shell!Places
      BY <1>2 DEF Shell!Places, Shell!DarkShellAssumption
    <3> QED
      BY <1>1, <3>1 DEF Shell!ShellInv, Shell!ShellTypes
  <2>3. v6' \in 0 .. Slots
    BY <1>1 DEF Shell!DarkShellAssumption
  <2> QED
    BY <1>1, <1>4, <2>1, <2>2, <2>3 DEF Shell!ShellInv, Shell!ShellTypes
<1>7. Shell!LineInBuffer'
  <2> SUFFICES ASSUME NEW j \in Shell!Places
               PROVE  IF j < v3 /\ ~(v8[j + 1] = "SP" /\ j < b + 1)
                      THEN v2'[j] = [c |-> v8[j + 1], line |-> "now"] ELSE v2'[j] = Shell!Nul
    BY <1>1, <1>4 DEF Shell!LineInBuffer, Shell!IsCut, Shell!Places, Shell!Nul
  <2>1. IF j < v3 /\ ~(v8[j + 1] = "SP" /\ j < Shell!Start)
        THEN v2[j] = [c |-> v8[j + 1], line |-> "now"] ELSE v2[j] = Shell!Nul
    BY <1>1, <1>2 DEF Shell!ShellInv, Shell!LineInBuffer, Shell!IsCut
  <2>2. j \in Int /\ b \in Int /\ v3 \in Int /\ Shell!Start \in Int
    BY <1>2 DEF Shell!Places
  <2>3. CASE j < Shell!Start \/ j > b
    <3>1. v2'[j] = v2[j]
      BY <1>4, <2>2, <2>3 DEF Shell!ShellInv, Shell!ShellTypes
    <3> QED
      BY <1>4, <2>1, <2>2, <2>3, <3>1
  <2>4. CASE j \in Shell!Start .. b - 1
    <3>1. v2'[j] = v2[j] /\ v8[j + 1] # "SP"
      BY <1>4, <2>2, <2>4 DEF Shell!ShellInv, Shell!ShellTypes
    <3> QED
      BY <2>1, <2>2, <3>1
  <2>5. CASE j = b
    BY <1>4, <2>1, <2>2, <2>5 DEF Shell!ShellInv, Shell!ShellTypes
  <2> QED
    BY <2>2, <2>3, <2>4, <2>5
<1>8. Shell!FieldsSplit'
  <2>1. /\ v6 > 0 /\ v7 # Shell!Null => v7 \in Shell!FieldStarts
        /\ \A k \in 0 .. v6 - 1 :
             v5[k] \in Shell!FieldStarts /\ v5[k] < Shell!Start /\ (k > 0 => v5[k - 1] < v5[k])
        /\ Shell!Cardinality({f \in Shell!FieldStarts : f < Shell!Start}) = v6
    BY <1>1, <1>2 DEF Shell!ShellInv, Shell!FieldsSplit
  <2>2. v7' # Shell!Null => v7' \in Shell!FieldStarts
    <3>1. CASE b < v3
      <4>1. b + 1 \in 1 .. Len(v8) /\ v8[b + 1] = "SP"
        BY <1>2, <1>4, <3>1 DEF Shell!ShellInv, Shell!ShellTypes
      <4> QED
        BY <1>2, <1>4, <3>1, <4>1 DEF Shell!FieldStarts
    <3> QED
      BY <1>2, <1>4, <3>1
  <2>3. ASSUME NEW k \in 0 .. v6
        PROVE  v5'[k] \in Shell!FieldStarts /\ v5'[k] < b + 1 /\ (k > 0 => v5'[k - 1] < v5'[k])
    <3>1. CASE k = v6
      <4>1. v5'[k] = Shell!Start
        BY <1>1, <3>1 DEF Shell!ShellInv, Shell!ShellTypes
      <4>2. k > 0 => v5'[k - 1] = v5[k - 1] /\ v5[k - 1] < Shell!Start
        <5>1. k > 0 => k - 1 \in 0 .. v6 - 1 /\ k - 1 # v6
          BY <1>1, <3>1
        <5> QED
          BY <1>1, <2>1, <3>1, <5>1 DEF Shell!ShellInv, Shell!ShellTypes
      <4> QED
        BY <1>2, <1>4, <4>1, <4>2
    <3>2. CASE k # v6
      <4>1. k \in 0 .. v6 - 1 /\ (k > 0 => k - 1 \in 0 .. v6 - 1)
        BY <1>1, <3>2
      <4>2. v5'[k] = v5[k] /\ (k > 0 => v5'[k - 1] = v5[k - 1])
        BY <1>1, <4>1 DEF Shell!ShellInv, Shell!ShellTypes
      <4>3. v5[k] \in 0 .. v3
        BY <2>1, <4>1, FieldStartsFinite
      <4> QED
        BY <1>2, <1>4, <2>1, <4>1, <4>2, <4>3
    <3> QED
      BY <3>1, <3>2
  <2>4. {f \in Shell!FieldStarts : f < b + 1} = {f \in Shell!FieldStarts : f < Shell!Start} \cup {Shell!Start}
    <3>1. ASSUME NEW f \in Shell!FieldStarts, f < b + 1, f > Shell!Start PROVE FALSE
      <4>1. f \in 0 .. v3
        BY FieldStartsFinite
      <4>2. f - 1 \in Shell!Start .. b - 1 /\ f > 0
        BY <1>2, <3>1, <4>1
      <4>3. v8[f] = "SP" /\ f = f - 1 + 1
        BY <4>1, <4>2 DEF Shell!FieldStarts
      <4> QED
        BY <1>4, <4>2, <4>3
    <3>2. \A f \in Shell!FieldStarts : f \in Int
      BY FieldStartsFinite
    <3>3. b + 1 \in Int /\ Shell!Start \in Int /\ Shell!Start < b + 1
      BY <1>2, <1>4
    <3>4. \A f \in Shell!FieldStarts : f < b + 1 <=> f < Shell!Start \/ f = Shell!Start
      BY <3>1, <3>2, <3>3
    <3> QED
      BY <1>2, <3>4
  <2>5. Shell!Cardinality({f \in Shell!FieldStarts : f < b + 1}) = v6 + 1
    <3>1. IsFiniteSet({f \in Shell!FieldStarts : f < Shell!Start})
      BY FieldStartsFinite
    <3>2. Shell!Start \notin {f \in Shell!FieldStarts : f < Shell!Start}
      BY <1>2
    <3> QED
      BY <2>1, <2>4, <3>1, <3>2, FS_AddElement, SameCardinality
  <2>6. 0 .. v6' - 1 = 0 .. v6
    BY <1>1
  <2> QED
    BY <1>1, <1>4, <1>5, <2>2, <2>3, <2>5, <2>6 DEF Shell!FieldsSplit
<1> QED
  BY <1>6, <1>7, <1>8 DEF Shell!ShellInv

LEMMA StrtokEndsStep == ASSUME Shell!DarkShellAssumption, Shell!ShellInv, Shell!StrtokEnds PROVE Shell!ShellInv'
<1>1. /\ v1 = "strtok" /\ v1' = "run" /\ UNCHANGED <<v2, v3, v4, v6, v7, v8>>
      /\ \/ v5' = v5 /\ v6 = Slots
         \/ v5' = [v5 EXCEPT ![v6] = Shell!Null] /\ v6 < Slots /\ Shell!Start = Shell!Null
  BY DEF Shell!StrtokEnds
<1>2. v6 \in Nat /\ Slots \in Nat /\ Slots > 1
  BY DEF Shell!ShellInv, Shell!ShellTypes, Shell!DarkShellAssumption
<1>3. Shell!ShellTypes'
  BY <1>1, <1>2 DEF Shell!ShellInv, Shell!ShellTypes
<1>4. Shell!LineInBuffer'
  BY <1>1 DEF Shell!ShellInv, Shell!LineInBuffer, Shell!IsCut, Shell!Cut
<1>5. Shell!FieldsSplit'
  <2>1. v6 > 0 /\ (v6 = Slots \/ v7 = Shell!Null)
    BY <1>1, <1>2 DEF Shell!Start, Shell!Null
  <2>2. Shell!FieldStarts' = Shell!FieldStarts /\ Shell!Cut' = Shell!Cut
    BY <1>1 DEF Shell!FieldStarts, Shell!Cut
  <2>3. \A k \in 0 .. v6 - 1 : v5'[k] = v5[k] /\ (k > 0 => v5'[k - 1] = v5[k - 1])
    BY <1>1, <1>2 DEF Shell!ShellInv, Shell!ShellTypes
  <2> QED
    BY <1>1, <2>1, <2>2, <2>3 DEF Shell!ShellInv, Shell!FieldsSplit
<1> QED
  BY <1>3, <1>4, <1>5 DEF Shell!ShellInv

LEMMA ShellStep == ASSUME Shell!DarkShellAssumption, Shell!ShellInv, Shell!Next PROVE Shell!ShellInv'
BY NextLineStep, GetKeyStep, EndLineStep, StrtokStep, StrtokEndsStep DEF Shell!Next

(* The properties: the string at 0 is the line before strtok has cut it.   *)
LEMMA LineIsTyped == ASSUME Shell!DarkShellAssumption, Shell!ShellInv PROVE Shell!LineIsWhatWasTyped
<1> SUFFICES ASSUME v1 = "strtok", v6 = 0
             PROVE  /\ Len(v8) = v3
                    /\ Shell!StringAt(0) = [j \in 1 .. Len(v8) |-> [c |-> v8[j], line |-> "now"]]
  BY DEF Shell!LineIsWhatWasTyped
<1>1. Shell!Start = 0 /\ Shell!Start # Shell!Null /\ Len(v8) = v3 /\ v3 \in 0 .. BufSize - 1 /\ v3 \in Nat
  BY StartIsCut DEF Shell!Start, Shell!Null, Shell!ShellInv, Shell!ShellTypes, Shell!DarkShellAssumption
<1>2. Shell!EndOf(0) = v3
  BY <1>1, RestOfLine
<1>3. ASSUME NEW j \in 1 .. v3 PROVE v2[0 + j - 1] = [c |-> v8[j], line |-> "now"]
  <2>1. 0 + j - 1 \in Shell!Places /\ 0 + j - 1 < v3 /\ 0 + j - 1 + 1 = j /\ ~(0 + j - 1 < 0)
    BY <1>1 DEF Shell!Places, Shell!DarkShellAssumption
  <2> QED
    BY <1>1, <2>1 DEF Shell!ShellInv, Shell!LineInBuffer, Shell!IsCut, Shell!Cut
<1>4. Shell!StringAt(0) = [j \in 1 .. v3 |-> v2[0 + j - 1]]
  BY <1>1, <1>2 DEF Shell!StringAt, Shell!Null
<1> QED
  BY <1>1, <1>3, <1>4

LEMMA LastIsNul == ASSUME Shell!DarkShellAssumption, Shell!ShellInv PROVE v2[BufSize - 1].c = "NUL"
<1>1. BufSize - 1 \in Shell!Places /\ ~(BufSize - 1 < v3)
  BY DEF Shell!DarkShellAssumption, Shell!ShellInv, Shell!ShellTypes, Shell!Places
<1>2. v2[BufSize - 1] = Shell!Nul
  BY <1>1 DEF Shell!ShellInv, Shell!LineInBuffer
<1> QED
  BY <1>2 DEF Shell!Nul

(* A field ends at the next cut, or at the end of the line.                *)
LEMMA FieldEnds ==
  ASSUME Shell!DarkShellAssumption, Shell!ShellInv, v1 = "run", NEW a \in Shell!FieldStarts, a < Shell!Cut
  PROVE  /\ a \in Shell!Places /\ Shell!EndOf(a) \in a .. v3
         /\ \A j \in a .. Shell!EndOf(a) - 1 :
              v2[j] = [c |-> v8[j + 1], line |-> "now"] /\ v8[j + 1] # "SP"
         /\ Shell!EndOf(a) = v3 \/ Shell!EndOf(a) + 1 \in Shell!FieldStarts
<1>1. /\ v3 \in 0 .. BufSize - 1 /\ v3 \in Nat /\ Len(v8) = v3 /\ v3 \in Shell!Places /\ BufSize \in Nat
  BY DEF Shell!DarkShellAssumption, Shell!ShellInv, Shell!ShellTypes, Shell!Places
<1>2. a \in 0 .. v3 /\ a \in Shell!Places
  BY <1>1, FieldStartsFinite DEF Shell!Places
<1>3. Shell!Cut = v3 + 1 \/ (Shell!Cut \in 1 .. v3 /\ v8[Shell!Cut] = "SP")
  <2>1. v6 > 0 /\ v6 \in Nat
    BY DEF Shell!ShellInv, Shell!FieldsSplit, Shell!ShellTypes
  <2>2. CASE v7 = Shell!Null
    <3>1. v6 # 0
      BY <2>1
    <3>2. Shell!Cut = v3 + 1
      BY <2>2, <3>1 DEF Shell!Cut
    <3> QED
      BY <3>2
  <2>3. CASE v7 # Shell!Null
    <3>1. Shell!Cut = v7 /\ v7 \in Shell!FieldStarts
      BY <2>1, <2>3 DEF Shell!Cut, Shell!ShellInv, Shell!FieldsSplit
    <3> QED
      BY <1>1, <1>2, <3>1 DEF Shell!FieldStarts
  <2> QED
    BY <2>2, <2>3
<1>4. ASSUME NEW j \in 0 .. v3
      PROVE  /\ j \in Shell!Places
             /\ IF j < v3 /\ ~(v8[j + 1] = "SP" /\ j < Shell!Cut)
                THEN v2[j] = [c |-> v8[j + 1], line |-> "now"] ELSE v2[j].c = "NUL"
             /\ j < v3 => v8[j + 1] # "NUL"
  <2>1. j \in Shell!Places
    BY <1>1 DEF Shell!Places
  <2>2. j < v3 => v8[j + 1] # "NUL"
    <3>1. j < v3 => v8[j + 1] \in ShellKeys
      BY <1>1 DEF Shell!ShellInv, Shell!ShellTypes
    <3> QED
      BY <3>1 DEF Shell!DarkShellAssumption
  <2> QED
    BY <2>1, <2>2 DEF Shell!ShellInv, Shell!LineInBuffer, Shell!IsCut, Shell!Nul
<1>5. v2[Shell!Cut - 1].c = "NUL" /\ Shell!Cut - 1 \in a .. v3
  <2>1. Shell!Cut \in Int /\ Shell!Cut - 1 \in 0 .. v3 /\ Shell!Cut - 1 \in a .. v3
    BY <1>1, <1>2, <1>3
  <2>2. Shell!Cut - 1 < v3 => v8[Shell!Cut - 1 + 1] = "SP" /\ Shell!Cut - 1 < Shell!Cut
    BY <1>1, <1>3, <2>1
  <2> QED
    BY <1>4, <2>1, <2>2
<1> DEFINE e == Shell!EndOf(a)
<1>6. e \in a .. BufSize - 1 /\ v2[e].c = "NUL" /\ \A j \in a .. e - 1 : v2[j].c # "NUL"
  BY <1>2, EndOfIsNul, LastIsNul
<1> HIDE DEF e
<1>7. e \in a .. Shell!Cut - 1 /\ e \in a .. v3
  BY <1>1, <1>2, <1>5, <1>6
<1>8. ASSUME NEW j \in a .. e - 1
      PROVE  v2[j] = [c |-> v8[j + 1], line |-> "now"] /\ v8[j + 1] # "SP"
  <2>1. j \in 0 .. v3 /\ j < v3 /\ j < Shell!Cut
    BY <1>1, <1>2, <1>3, <1>7
  <2> QED
    BY <1>4, <1>6, <2>1
<1>9. e = v3 \/ e + 1 \in Shell!FieldStarts
  <2>1. CASE e < v3
    <3>0. e \in 0 .. v3
      BY <1>1, <1>2, <1>7
    <3>1. v8[e + 1] = "SP"
      <4>1. v8[e + 1] # "SP" => v2[e] = [c |-> v8[e + 1], line |-> "now"]
        BY <1>4, <2>1, <3>0
      <4>2. v8[e + 1] # "NUL"
        BY <1>4, <2>1, <3>0
      <4> QED
        BY <1>6, <4>1, <4>2
    <3> QED
      BY <1>1, <1>2, <1>7, <2>1, <3>1 DEF Shell!FieldStarts
  <2> QED
    BY <1>1, <1>2, <1>7, <2>1
<1> QED
  BY <1>2, <1>7, <1>8, <1>9 DEF e

LEMMA ArgvIsFields == ASSUME Shell!DarkShellAssumption, Shell!ShellInv PROVE Shell!ArgvIsTheFields
<1> SUFFICES ASSUME v1 = "run" PROVE Shell!ArgvIsTheFields
  BY DEF Shell!ArgvIsTheFields
<1>0. Len(v8) = v3 /\ v6 \in 0 .. Slots /\ Slots \in Nat
  BY DEF Shell!ShellInv, Shell!ShellTypes, Shell!DarkShellAssumption
<1>1. ASSUME NEW k \in 0 .. v6 - 1
      PROVE  /\ v5[k] \in Shell!FieldStarts
             /\ k > 0 => v5[k - 1] < v5[k]
             /\ Shell!StringAt(v5[k]) = [j \in 1 .. Shell!EndOf(v5[k]) - v5[k] |->
                                       [c |-> v8[v5[k] + j], line |-> "now"]]
             /\ "SP" \notin {v8[v5[k] + j] : j \in 1 .. Shell!EndOf(v5[k]) - v5[k]}
             /\ Shell!EndOf(v5[k]) = Len(v8) \/ Shell!EndOf(v5[k]) + 1 \in Shell!FieldStarts
  <2> DEFINE a == v5[k]
             e == Shell!EndOf(a)
  <2>1. a \in Shell!FieldStarts /\ a < Shell!Cut /\ (k > 0 => v5[k - 1] < a)
    BY DEF Shell!ShellInv, Shell!FieldsSplit
  <2>2. /\ a \in Shell!Places /\ e \in a .. v3
        /\ \A j \in a .. e - 1 :
             v2[j] = [c |-> v8[j + 1], line |-> "now"] /\ v8[j + 1] # "SP"
        /\ e = v3 \/ e + 1 \in Shell!FieldStarts
    BY <2>1, FieldEnds
  <2>3. a # Shell!Null /\ Shell!StringAt(a) = [j \in 1 .. e - a |-> v2[a + j - 1]]
    BY <2>2 DEF Shell!Places, Shell!Null, Shell!StringAt
  <2> HIDE DEF e, a
  <2>4. a \in Int /\ e \in Int
    BY <2>2 DEF Shell!Places
  <2>5. ASSUME NEW j \in 1 .. e - a
        PROVE  v2[a + j - 1] = [c |-> v8[a + j], line |-> "now"] /\ v8[a + j] # "SP"
    <3>1. a + j - 1 \in a .. e - 1 /\ a + j - 1 + 1 = a + j
      BY <2>4
    <3> QED
      BY <2>2, <3>1
  <2> QED
    BY <1>0, <2>1, <2>2, <2>3, <2>5 DEF a, e
<1>2. v6 = IF Shell!Cardinality(Shell!FieldStarts) < Slots THEN Shell!Cardinality(Shell!FieldStarts) ELSE Slots
  <2>1. /\ IsFiniteSet(Shell!FieldStarts) /\ Shell!FieldStarts \in SUBSET (0 .. v3) /\ v3 \in Nat
        /\ \A S \in SUBSET Shell!FieldStarts : Cardinality(S) <= Cardinality(Shell!FieldStarts)
    BY FieldStartsFinite DEF Shell!ShellInv, Shell!ShellTypes
  <2>2. Cardinality({f \in Shell!FieldStarts : f < Shell!Cut}) = v6 /\ v6 > 0 /\ (v6 = Slots \/ v7 = Shell!Null)
    BY SameCardinality DEF Shell!ShellInv, Shell!FieldsSplit
  <2>3. Cardinality(Shell!FieldStarts) \in Nat /\ v6 <= Cardinality(Shell!FieldStarts)
    BY <2>1, <2>2, FS_CardinalityType
  <2>4. v7 = Shell!Null => Cardinality(Shell!FieldStarts) = v6
    <3>1. v7 = Shell!Null => Shell!Cut = v3 + 1
      BY <1>0, <2>2 DEF Shell!Cut
    <3>2. \A f \in Shell!FieldStarts : f < v3 + 1
      BY <2>1
    <3>3. v7 = Shell!Null => {f \in Shell!FieldStarts : f < Shell!Cut} = Shell!FieldStarts
      BY <3>1, <3>2
    <3> QED
      BY <2>2, <3>3
  <2> QED
    BY <1>0, <2>2, <2>3, <2>4, SameCardinality
<1> QED
  BY <1>1, <1>2 DEF Shell!ArgvIsTheFields

LEMMA NothingOld == ASSUME Shell!DarkShellAssumption, Shell!ShellInv PROVE Shell!NothingOfEarlierLines
<1> SUFFICES ASSUME NEW k \in Shell!Arguments, NEW j \in DOMAIN Shell!StringAt(v5[k])
             PROVE  Shell!StringAt(v5[k])[j].line = "now"
  BY DEF Shell!NothingOfEarlierLines
<1> DEFINE a == v5[k]
<1>1. a \in Shell!Places \cup {Shell!Null}
  <2>1. k \in 0 .. Slots - 1 /\ a # Shell!Unset
    BY DEF Shell!Arguments, Shell!DarkShellAssumption
  <2> QED
    BY <2>1 DEF Shell!ShellInv, Shell!ShellTypes
<1>2. a # Shell!Null
  BY DEF Shell!StringAt
<1>3. Shell!StringAt(a) = [n \in 1 .. Shell!EndOf(a) - a |-> v2[a + n - 1]]
  BY <1>2 DEF Shell!StringAt
<1>4. Shell!EndOf(a) \in a .. BufSize - 1 /\ a \in Nat /\ j \in 1 .. Shell!EndOf(a) - a
  BY <1>1, <1>2, <1>3, EndOfIsNul, LastIsNul DEF Shell!Places
<1>5. a + j - 1 \in Shell!Places
  BY <1>4 DEF Shell!Places, Shell!DarkShellAssumption
<1> QED
  BY <1>3, <1>4, <1>5 DEF Shell!ShellInv, Shell!ShellTypes

LEMMA ShellRests == Shell!ShellInv /\ UNCHANGED turnVars => Shell!ShellInv'
<1> SUFFICES ASSUME Shell!ShellInv, UNCHANGED turnVars PROVE Shell!ShellInv'
  OBVIOUS
<1>1. /\ v1' = v1 /\ v2' = v2 /\ v3' = v3 /\ v4' = v4
      /\ v5' = v5 /\ v6' = v6 /\ v7' = v7 /\ v8' = v8
  BY DEF turnVars
<1>2. Shell!ShellTypes'
  BY <1>1
  DEF Shell!ShellInv, Shell!ShellTypes, Shell!Places
<1>3. Shell!LineInBuffer'
  BY <1>1
  DEF Shell!ShellInv, Shell!LineInBuffer, Shell!Places, Shell!IsCut, Shell!Cut, Shell!Nul
<1>4. Shell!FieldsSplit'
  BY <1>1
  DEF Shell!ShellInv, Shell!FieldsSplit, Shell!FieldStarts, Shell!Cut
<1> QED
  BY <1>2, <1>3, <1>4 DEF Shell!ShellInv

(* The shell runs the line that was typed, split into its fields, whatever *)
(* is typed, however long, and whatever the sizes of the buffer and of     *)
(* argv; no command sees an earlier line (main.c:98-131, stdio.c:45-74).   *)
THEOREM ShellIsRight == MCSpec => []ShellRight
<1> DEFINE Inv == program = "shell" => Shell!ShellInv
<1>1. MCInit => Inv
  <2>1. MCInit /\ program = "shell" => Shell!Init
    BY DEF MCInit
  <2> QED
    BY <2>1, ShellInit, ProgramsAssumption
<1>2. Inv /\ [MCNext]_programVars => Inv'
  <2> SUFFICES ASSUME Inv, [MCNext]_programVars, program' = "shell" PROVE Shell!ShellInv'
    BY Zenon
  <2>1. program = "shell"
    BY DEF MCNext, programVars
  <2>2. Shell!Next \/ UNCHANGED turnVars
    BY <2>1 DEF MCNext, Turn, programVars
  <2> QED
    BY <2>1, <2>2, ShellStep, ShellRests, ProgramsAssumption
<1>3. Inv => ShellRight
  BY LineIsTyped, ArgvIsFields, NothingOld, ProgramsAssumption DEF ShellRight
<1>4. MCInit /\ [][MCNext]_programVars => []Inv
  BY <1>1, <1>2, PTL
<1> QED
  BY <1>3, <1>4, PTL DEF MCSpec
=============================================================================
