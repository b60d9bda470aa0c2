----------------------------- MODULE EthProofs -----------------------------
(***************************************************************************)
(* The parts of the Ethernet boot loader do not touch each other's         *)
(* variables, so each has its invariant by itself: the link and its ring   *)
(* of frames, the timers, and the upload of files, for all values of their *)
(* constants.                                                              *)
(***************************************************************************)
EXTENDS MCEthernet, SequencesExt, TLAPS

-----------------------------------------------------------------------------
(* Arithmetic.                                                             *)
LEMMA DivMod ==
  ASSUME NEW x \in Int, NEW m \in Nat \ {0}
  PROVE  /\ x \div m \in Int /\ x % m \in 0 .. m - 1
         /\ x = m * (x \div m) + (x % m)
<1>1. x \div m \in Int /\ x % m \in 0 .. m - 1
  OBVIOUS
<1>2. x = m * (x \div m) + (x % m)
  BY Z3
<1> QED
  BY <1>1, <1>2

LEMMA DivModIs ==
  ASSUME NEW x \in Int, NEW m \in Nat \ {0}, NEW q \in Int, NEW r \in 0 .. m - 1,
         x = q * m + r
  PROVE  x \div m = q /\ x % m = r
  OBVIOUS

(* The ring goes round by one.                                             *)
LEMMA NextSlot ==
  ASSUME NEW n \in Nat, NEW m \in Nat \ {0}
  PROVE  /\ n % m \in 0 .. m - 1
         /\ (n + 1) % m = IF (n % m) + 1 = m THEN 0 ELSE (n % m) + 1
         /\ ((n % m) + 1) % m = (n + 1) % m
<1> DEFINE q == n \div m
           r == n % m
<1>1. q \in Int /\ r \in 0 .. m - 1 /\ n = m * q + r
  BY DivMod
<1> HIDE DEF q, r
<1>2. CASE r + 1 = m
  <2>1. n + 1 = (q + 1) * m + 0 /\ r + 1 = 1 * m + 0
    BY <1>1, <1>2
  <2>2. 0 \in 0 .. m - 1 /\ q + 1 \in Int /\ n + 1 \in Int /\ r + 1 \in Int /\ 1 \in Int
    BY <1>1
  <2>3. (n + 1) % m = 0 /\ (r + 1) % m = 0
    BY <2>1, <2>2, DivModIs
  <2> QED
    BY <1>1, <1>2, <2>3 DEF r
<1>3. CASE r + 1 # m
  <2>1. n + 1 = q * m + (r + 1) /\ r + 1 = 0 * m + (r + 1)
    BY <1>1
  <2>2. r + 1 \in 0 .. m - 1 /\ n + 1 \in Int /\ r + 1 \in Int /\ 0 \in Int
    BY <1>1, <1>3
  <2>3. (n + 1) % m = r + 1 /\ (r + 1) % m = r + 1
    BY <1>1, <2>1, <2>2, DivModIs
  <2> QED
    BY <1>1, <1>3, <2>3 DEF r
<1> QED
  BY <1>2, <1>3

(* Numbers that are less than a turn apart have slots of their own.        *)
LEMMA SlotsDiffer ==
  ASSUME NEW a \in Int, NEW b \in Int, NEW m \in Nat \ {0}, a < b, a % m = b % m
  PROVE  b - a >= m
<1> DEFINE p == a \div m
           q == b \div m
           r == a % m
<1>1. p \in Int /\ r \in 0 .. m - 1 /\ a = m * p + r
  BY DivMod
<1>2. q \in Int /\ b = m * q + r
  BY DivMod
<1> HIDE DEF p, q, r
<1>3. b - a = m * (q - p)
  BY <1>1, <1>2
<1>4. q - p >= 1
  <2>1. CASE q - p <= 0
    <3>1. m * (q - p) <= 0
      BY <1>1, <1>2, <2>1
    <3> QED
      BY <1>3, <3>1
  <2> QED
    BY <1>1, <1>2, <2>1
<1>5. m * (q - p) >= m
  BY <1>1, <1>2, <1>4
<1> QED
  BY <1>3, <1>5

(* A turn further on it is the same slot.                                  *)
LEMMA SameSlot ==
  ASSUME NEW a \in Nat, NEW m \in Nat \ {0}
  PROVE  (a + m) % m = a % m
<1>1. a = (a \div m) * m + (a % m) /\ a \div m \in Int /\ a % m \in 0 .. m - 1
  BY DivMod
<1> DEFINE q == a \div m
           t == a % m
<1> HIDE DEF q, t
<1>2. q + 1 \in Int /\ t \in 0 .. m - 1 /\ a + m = (q + 1) * m + t /\ a + m \in Int
  BY <1>1 DEF q, t
<1>3. (a + m) % m = t
  BY <1>2, DivModIs
<1> QED
  BY <1>3 DEF t

(* The last one, or one before it.                                         *)
LEMMA UpToNext ==
  ASSUME NEW n \in Nat, NEW j \in 1 .. n + 1
  PROVE  j \in 1 .. n \/ j = n + 1
  OBVIOUS

(* Less than a turn behind, and not yet overtaken.                         *)
LEMMA WithinTurn ==
  ASSUME NEW n \in Nat, NEW m \in Nat, NEW w \in 1 .. n - 1, (n - 1) - w < m, n # w + m
  PROVE  w \in 1 .. n /\ n - w < m
  OBVIOUS

LEMMA InSeq ==
  ASSUME NEW S, NEW t \in Seq(S), NEW i \in 1 .. Len(t)
  PROVE  t[i] \in S
  OBVIOUS

-----------------------------------------------------------------------------
(* The link.                                                               *)
Ids == [by : {"nobody", "mixed", "isr", "tcp_tx", "tcp_reply"}, n : Int]

LinkTyped ==
  /\ ring \in [0 .. NRx - 1 -> Nat]
  /\ stored \in Seq(Frames)
  /\ mac \in [source : BOOLEAN, mask : BOOLEAN, rxen : BOOLEAN, enabled : BOOLEAN,
              next : 0 .. NRx - 1]
  /\ tx \in [buf : Ids, ready : BOOLEAN, for : Ids, out : Ids]
  /\ isr \in [at : {"idle", "scan", "answer", "wait"}, buffer : 0 .. NRx, left : Nat]
  /\ link_main \in [at : {"init", "loop", "copy", "wait", "gone"}, n : Nat,
                    by : {"tcp_tx", "tcp_reply"}]
  /\ parsed \in Seq(Nat)
  /\ wrong \subseteq [for : Ids, frame : Ids]
  /\ late \in [all : SUBSET Nat, last : SUBSET Nat]
  /\ pending \in Nat

Slot(n) == (n - 1) % NRx
Seen == {parsed[i] : i \in DOMAIN parsed}

(* Before the link is open nothing comes.                                  *)
LinkOpens ==
  /\ link_main.at = "init" => ~mac.rxen /\ ~mac.source /\ ~mac.enabled /\ stored = <<>>
  /\ isr.at = "idle" => isr.buffer = 0
  /\ isr.at \in {"answer", "wait"} => isr.buffer < NRx
  /\ isr.at # "idle" => link_main.at \notin {"init", "gone"}
  /\ link_main.at = "init" => ring = [b \in 0 .. NRx - 1 |-> 0] /\ mac.next = 0

(* A frame waits in its own buffer, for less than a turn of the ring.      *)
RingRight ==
  /\ mac.next = Len(stored) % NRx
  /\ \A b \in 0 .. NRx - 1 :
       ring[b] # 0 => ring[b] \in DOMAIN stored /\ Slot(ring[b]) = b /\ Len(stored) - ring[b] < NRx

(* A frame is handled once, and then its buffer is set empty.              *)
HandledOnce ==
  /\ Seen \subseteq DOMAIN stored
  /\ \A i, j \in DOMAIN parsed : i # j => parsed[i] # parsed[j]
  /\ isr.at \in {"answer", "wait"} => parsed # <<>> /\ ring[isr.buffer] = parsed[Len(parsed)]
                                      /\ ring[isr.buffer] # 0
  /\ \A b \in 0 .. NRx - 1 :
       ring[b] # 0 /\ ~(isr.at \in {"answer", "wait"} /\ b = isr.buffer) => ring[b] \notin Seen

(* What waits behind the scan came there after it.                         *)
LateRight ==
  /\ late.last \subseteq late.all
  /\ \A b \in 0 .. NRx - 1 :
       ring[b] # 0 /\ (b < isr.buffer \/ (isr.at = "idle" /\ ~mac.source)) => ring[b] \in late.last

(* A waiting frame is overtaken only as NearlyInOrder says.                *)
Overtaken(w) ==
  \A p \in Seen : p > w => /\ p - w \in 1 .. NRx - 1
                           /\ Slot(p) < Slot(w) \/ w \in late.all
OrderRight ==
  /\ Link!NearlyInOrder
  /\ \A b \in 0 .. NRx - 1 : ring[b] # 0 /\ ring[b] \notin Seen => Overtaken(ring[b])

(* The transmit buffer: whose frame is in it, and on the wire.             *)
TxRight ==
  /\ isr.at = "wait" => isr.left > 0 /\ tx.buf = [by |-> "isr", n |-> 3 * Len(parsed) + isr.left]
  /\ isr.at # "idle" /\ link_main.at \in {"copy", "wait"} => link_main.by = "tcp_reply"
  /\ link_main.at \in {"copy", "wait"} => (mac.enabled <=> link_main.by = "tcp_reply")
  /\ link_main.at = "wait" =>
       \/ tx.buf = [by |-> link_main.by, n |-> link_main.n]
       \/ link_main.by = "tcp_reply" /\ tx.buf.by = "isr"
  /\ tx.ready => \/ tx.out = tx.for \/ tx.out = Link!Mixed
                 \/ tx.for.by = "tcp_reply" /\ tx.out.by = "isr"
  /\ link_main.at = "gone" => ~tx.ready
  /\ Link!AllTransmitted
  /\ Link!OnlyUnmaskedReplaced

LinkInv == /\ LinkTyped /\ LinkOpens /\ RingRight /\ HandledOnce
           /\ LateRight /\ OrderRight /\ TxRight

LEMMA LinkFacts ==
  ASSUME Link!EthLinkAssumption
  PROVE  NRx \in Nat \ {0} /\ MaxFrames \in Nat /\ Link!Buffers = 0 .. NRx - 1
  BY DEF Link!EthLinkAssumption, Link!Buffers

LEMMA LinkInit == ASSUME Link!EthLinkAssumption, Link!Init PROVE LinkInv
<1> USE LinkFacts DEF Link!Init
<1>1. LinkTyped
  BY DEF LinkTyped, Ids, Link!NoId, Link!Id, Link!NoIsr
<1>2. LinkOpens /\ HandledOnce /\ LateRight
  BY DEF LinkOpens, HandledOnce, LateRight, Seen, Link!NoIsr
<1>3. RingRight
  BY NextSlot DEF RingRight
<1>4. OrderRight
  BY DEF OrderRight, Link!NearlyInOrder, Seen
<1>5. TxRight
  BY DEF TxRight, Link!NoIsr, Link!AllTransmitted, Link!OnlyUnmaskedReplaced
<1> QED
  BY <1>1, <1>2, <1>3, <1>4, <1>5 DEF LinkInv

(* What changes neither the ring nor the scan.                             *)
LEMMA RingRests ==
  ASSUME LinkInv, UNCHANGED <<ring, stored, isr, parsed, late>>,
         mac'.next = mac.next, mac'.source = mac.source
  PROVE  RingRight' /\ HandledOnce' /\ LateRight' /\ OrderRight'
<1>1. RingRight' /\ HandledOnce' /\ LateRight'
  BY DEF LinkInv, RingRight, HandledOnce, LateRight, Slot, Seen
<1>2. OrderRight'
  BY DEF LinkInv, OrderRight, Overtaken, Slot, Seen, Link!NearlyInOrder
<1> QED
  BY <1>1, <1>2

(* Whose frames there are, whoever moves.                                  *)
LEMMA IsrIds ==
  ASSUME LinkTyped
  PROVE  /\ Link!Id("isr", 3 * Len(parsed) + isr.left) \in Ids
         /\ Link!MainId \in Ids /\ Link!NoId \in Ids /\ Link!Mixed \in Ids
  BY DEF LinkTyped, Ids, Link!Id, Link!MainId, Link!NoId, Link!Mixed

LEMMA CopyTyped ==
  ASSUME LinkTyped, NEW id \in Ids, Link!Copy(id)
  PROVE  tx' \in [buf : Ids, ready : BOOLEAN, for : Ids, out : Ids]
<1>1. tx' = [buf |-> id, ready |-> tx.ready, for |-> tx.for,
             out |-> IF tx.ready THEN Link!Mixed ELSE tx.out]
  BY DEF Link!Copy, LinkTyped
<1>2. tx.ready \in BOOLEAN /\ tx.for \in Ids /\ tx.out \in Ids
  BY DEF LinkTyped
<1> QED
  BY <1>1, <1>2, IsrIds

LEMMA StartTyped ==
  ASSUME LinkTyped, NEW id \in Ids, Link!Start(id)
  PROVE  tx' \in [buf : Ids, ready : BOOLEAN, for : Ids, out : Ids] /\ pending' \in Nat
<1>1. tx' = [buf |-> tx.buf, ready |-> TRUE, for |-> id, out |-> tx.buf]
  BY DEF Link!Start, LinkTyped
<1>2. tx.buf \in Ids /\ pending' \in Nat
  BY DEF LinkTyped, Link!Start
<1> QED
  BY <1>1, <1>2

LEMMA TransmittedStep ==
  ASSUME Link!EthLinkAssumption, LinkInv, Link!Transmitted PROVE LinkInv'
<1> USE DEF Link!Transmitted
<1>1. LinkTyped'
  <2>1. pending' \in Nat
    BY DEF LinkInv, LinkTyped, LinkOpens, TxRight, Link!AllTransmitted
  <2>2. tx' = [buf |-> tx.buf, ready |-> FALSE, for |-> Link!NoId, out |-> Link!NoId]
    BY DEF LinkInv, LinkTyped
  <2>3. [for |-> tx.for, frame |-> tx.out] \in [for : Ids, frame : Ids] /\ tx.buf \in Ids
    BY DEF LinkInv, LinkTyped
  <2>4. tx' \in [buf : Ids, ready : BOOLEAN, for : Ids, out : Ids]
    BY <2>2, <2>3, IsrIds DEF LinkInv
  <2>5. wrong' \subseteq [for : Ids, frame : Ids]
    BY <2>3 DEF LinkInv, LinkTyped
  <2> QED
    BY <2>1, <2>4, <2>5 DEF LinkInv, LinkTyped
<1>2. LinkOpens'
  BY DEF LinkInv, LinkOpens
<1>3. TxRight'
  BY DEF LinkInv, LinkTyped, TxRight, Link!AllTransmitted, Link!OnlyUnmaskedReplaced
<1> QED
  BY <1>1, <1>2, <1>3, RingRests DEF LinkInv

LEMMA SendStep ==
  ASSUME Link!EthLinkAssumption, LinkInv,
         Link!Send \/ Link!SendCopy \/ Link!SendStart \/ Link!CloseLink
  PROVE  LinkInv'
<1> USE LinkFacts, IsrIds
<1>1. UNCHANGED <<ring, stored, isr, parsed, wrong, late>> /\ mac'.next = mac.next /\ mac'.source = mac.source
  BY DEF LinkInv, LinkTyped, Link!Send, Link!SendCopy, Link!SendStart, Link!CloseLink
<1>2. LinkTyped'
  <2> USE <1>1 DEF LinkInv, LinkTyped
  <2>1. CASE Link!Send
    <3>1. PICK by \in {"tcp_tx", "tcp_reply"} :
            /\ link_main' = [at |-> "copy", n |-> link_main.n + 1, by |-> by]
            /\ mac' = [mac EXCEPT !.enabled = Link!EnabledFor(by)]
      BY <2>1 DEF Link!Send
    <3>2. Link!EnabledFor(by) \in BOOLEAN
      BY DEF Link!EnabledFor
    <3>3. mac' \in [source : BOOLEAN, mask : BOOLEAN, rxen : BOOLEAN, enabled : BOOLEAN,
                    next : 0 .. NRx - 1]
      BY <3>1, <3>2
    <3>4. UNCHANGED <<tx, pending>>
      BY <2>1 DEF Link!Send
    <3>5. link_main' \in [at : {"init", "loop", "copy", "wait", "gone"}, n : Nat,
                          by : {"tcp_tx", "tcp_reply"}]
      BY <3>1
    <3> QED
      BY <3>3, <3>4, <3>5
  <2>2. CASE Link!SendCopy
    BY <2>2, CopyTyped DEF Link!SendCopy
  <2>3. CASE Link!SendStart
    BY <2>3, StartTyped DEF Link!SendStart
  <2>4. CASE Link!CloseLink
    BY <2>4 DEF Link!CloseLink
  <2> QED
    BY <2>1, <2>2, <2>3, <2>4
<1>3. LinkOpens'
  <2>1. link_main.at # "init" /\ isr.at = "idle" /\ link_main'.at # "init"
    <3>1. link_main \in [at : {"init", "loop", "copy", "wait", "gone"}, n : Nat, by : {"tcp_tx", "tcp_reply"}]
      BY DEF LinkInv, LinkTyped
    <3>2. CASE Link!Send
      BY <3>2 DEF Link!Send
    <3>3. CASE Link!SendCopy
      BY <3>1, <3>3 DEF Link!SendCopy
    <3>4. CASE Link!SendStart \/ Link!CloseLink
      BY <3>1, <3>4 DEF Link!SendStart, Link!CloseLink
    <3> QED
      BY <3>2, <3>3, <3>4
  <2> QED
    BY <1>1, <2>1 DEF LinkInv, LinkOpens
<1>4. TxRight'
  <2> USE <1>1 DEF LinkInv, LinkTyped, LinkOpens, TxRight, Link!AllTransmitted, Link!OnlyUnmaskedReplaced
  <2>1. CASE Link!Send
    <3>1. PICK by \in {"tcp_tx", "tcp_reply"} :
            /\ link_main' = [at |-> "copy", n |-> link_main.n + 1, by |-> by]
            /\ mac' = [mac EXCEPT !.enabled = Link!EnabledFor(by)]
      BY <2>1 DEF Link!Send
    <3>2. link_main.at = "loop" /\ isr.at = "idle" /\ UNCHANGED <<tx, pending>>
      BY <2>1 DEF Link!Send
    <3>3. mac'.enabled <=> by = "tcp_reply"
      BY <3>1 DEF Link!EnabledFor
    <3> QED
      BY <3>1, <3>2, <3>3
  <2>2. CASE Link!SendCopy
    BY <2>2 DEF Link!SendCopy, Link!Copy, Link!MainId, Link!Id
  <2>3. CASE Link!SendStart
    BY <2>3 DEF Link!SendStart, Link!Start, Link!MainId, Link!Id
  <2>4. CASE Link!CloseLink
    BY <2>4 DEF Link!CloseLink
  <2> QED
    BY <2>1, <2>2, <2>3, <2>4
<1> QED
  BY <1>1, <1>2, <1>3, <1>4, RingRests DEF LinkInv

LEMMA OpenStep ==
  ASSUME Link!EthLinkAssumption, LinkInv, Link!OpenLink PROVE LinkInv'
<1> USE LinkFacts DEF LinkInv
<1>1. /\ link_main.at = "init" /\ UNCHANGED <<stored, tx, isr, parsed, wrong, late, pending>>
      /\ isr.at = "idle" /\ mac.source = FALSE /\ mac.next = 0 /\ ring = [b \in 0 .. NRx - 1 |-> 0]
      /\ stored = <<>>
  BY DEF Link!OpenLink, LinkTyped, LinkOpens
<1> DEFINE Opened == /\ ring' = [b \in 0 .. NRx - 1 |-> 0]
                     /\ mac' = [source |-> FALSE, mask |-> TRUE, rxen |-> TRUE, enabled |-> TRUE,
                                next |-> 0]
                     /\ link_main' = [link_main EXCEPT !.at = "loop", !.n = 0]
           Failed == link_main' = [link_main EXCEPT !.n = @ + 1] /\ ring' = ring /\ mac' = mac
           Macs   == [source : BOOLEAN, mask : BOOLEAN, rxen : BOOLEAN, enabled : BOOLEAN,
                      next : 0 .. NRx - 1]
           Mains  == [at : {"init", "loop", "copy", "wait", "gone"}, n : Nat,
                      by : {"tcp_tx", "tcp_reply"}]
<1>2. Opened \/ Failed
  BY Zenon DEF Link!OpenLink, Link!Buffers
<1>3. /\ ring' = ring /\ mac'.next = 0 /\ mac'.source = FALSE
      /\ mac' \in Macs /\ link_main' \in Mains
      /\ link_main'.at = "init" => ~mac'.rxen /\ ~mac'.enabled
      /\ link_main'.at \in {"init", "loop"}
  <2>1. link_main \in Mains /\ mac \in Macs /\ 0 \in 0 .. NRx - 1
    BY DEF LinkTyped
  <2>2. CASE Opened
    <3>1. mac' \in Macs /\ mac'.next = 0 /\ mac'.source = FALSE
      BY <2>1, <2>2
    <3>2. link_main' \in Mains /\ link_main'.at = "loop"
      BY <2>1, <2>2
    <3> QED
      BY <1>1, <2>2, <3>1, <3>2
  <2>3. CASE Failed
    <3>1. link_main' \in Mains /\ link_main'.at = "init"
      <4>1. link_main' = [link_main EXCEPT !.n = @ + 1] /\ link_main \in Mains /\ link_main.at = "init"
        BY <1>1, <2>1, <2>3
      <4> HIDE DEF LinkInv, Failed, Opened
      <4> QED
        BY <4>1
    <3> QED
      BY <1>1, <2>1, <2>3, <3>1 DEF LinkOpens
  <2> QED
    BY <1>2, <2>2, <2>3
<1> HIDE DEF Opened, Failed
<1>4. LinkTyped'
  BY <1>1, <1>3 DEF LinkTyped
<1>5. LinkOpens'
  BY <1>1, <1>3 DEF LinkOpens
<1>6. TxRight'
  BY <1>1, <1>3 DEF TxRight, Link!AllTransmitted, Link!OnlyUnmaskedReplaced
<1> QED
  BY <1>1, <1>3, <1>4, <1>5, <1>6, RingRests

(* The core stores a frame.                                                *)
LEMMA ReceiveStep ==
  ASSUME Link!EthLinkAssumption, LinkInv, NEW f \in Frames, Link!Receive(f) PROVE LinkInv'
<1> USE LinkFacts DEF LinkInv
<1> DEFINE n == Len(stored) + 1
           s == mac.next
<1>1. /\ n \in Nat \ {0} /\ s \in 0 .. NRx - 1 /\ ring[s] = 0 /\ mac.rxen
      /\ stored' = Append(stored, f) /\ Len(stored') = n /\ DOMAIN stored = 1 .. n - 1
      /\ DOMAIN stored' = 1 .. n
      /\ ring' = [ring EXCEPT ![s] = n]
      /\ mac' = [mac EXCEPT !.next = (s + 1) % NRx, !.source = TRUE]
      /\ UNCHANGED <<tx, isr, link_main, parsed, wrong, pending>>
  BY DEF Link!Receive, LinkTyped
<1>2. late' = IF s >= isr.buffer THEN late
              ELSE [all |-> late.all \cup {n}, last |-> late.last \cup {n}]
  BY DEF Link!Receive
<1>3. Slot(n) = s /\ (s + 1) % NRx = n % NRx /\ n % NRx \in 0 .. NRx - 1
  <2>1. Len(stored) \in Nat /\ s = Len(stored) % NRx /\ Slot(n) = Len(stored) % NRx
    BY DEF RingRight, Slot, LinkTyped
  <2>2. ((Len(stored) % NRx) + 1) % NRx = (Len(stored) + 1) % NRx
    BY <2>1, NextSlot
  <2>3. Len(stored) + 1 \in Nat
    BY <2>1
  <2>4. (Len(stored) + 1) % NRx \in 0 .. NRx - 1
    BY <2>3, NextSlot
  <2> QED
    BY <2>1, <2>2, <2>4
<1>4. /\ \A b \in 0 .. NRx - 1 : ring'[b] = IF b = s THEN n ELSE ring[b]
      /\ mac'.next = n % NRx /\ mac'.source = TRUE /\ link_main.at # "init"
  BY <1>1, <1>3 DEF LinkTyped, LinkOpens
<1>5. /\ late.all \subseteq late'.all /\ late.last \subseteq late'.last
      /\ s < isr.buffer => n \in late'.last
      /\ late'.last \subseteq late'.all
      /\ late' \in [all : SUBSET Nat, last : SUBSET Nat]
  BY <1>1, <1>2 DEF LinkTyped, LateRight
<1> HIDE DEF n, s
<1>6. LinkTyped'
  <2>1. ring' \in [0 .. NRx - 1 -> Nat]
    BY <1>1 DEF LinkTyped
  <2>2. stored' \in Seq(Frames)
    BY <1>1 DEF LinkTyped
  <2>3. mac' \in [source : BOOLEAN, mask : BOOLEAN, rxen : BOOLEAN, enabled : BOOLEAN,
                  next : 0 .. NRx - 1]
    BY <1>1, <1>3 DEF LinkTyped
  <2> QED
    BY <1>1, <1>5, <2>1, <2>2, <2>3 DEF LinkTyped
<1>7. LinkOpens'
  BY <1>1, <1>4 DEF LinkTyped, LinkOpens
<1>8. RingRight'
  <2> SUFFICES ASSUME NEW b \in 0 .. NRx - 1, ring'[b] # 0
               PROVE  ring'[b] \in 1 .. n /\ Slot(ring'[b]) = b /\ n - ring'[b] < NRx
    BY <1>1, <1>4 DEF RingRight, Slot
  <2>1. CASE b = s
    BY <1>1, <1>3, <1>4, <2>1
  <2>2. CASE b # s
    <3>0. n \in Nat
      BY <1>1
    <3>1. ring'[b] = ring[b] /\ ring[b] \in 1 .. n - 1 /\ Slot(ring[b]) = b /\ (n - 1) - ring[b] < NRx
      BY <1>1, <1>4, <2>2 DEF RingRight
    <3>2. ASSUME n = ring[b] + NRx PROVE FALSE
      <4>1. ring[b] - 1 \in Nat /\ n - 1 = (ring[b] - 1) + NRx
        BY <1>1, <3>1, <3>2
      <4> QED
        BY <1>3, <2>2, <3>1, <4>1, SameSlot DEF Slot
    <3> QED
      BY <3>0, <3>1, <3>2, WithinTurn
  <2> QED
    BY <2>1, <2>2
<1>9. Seen \subseteq 1 .. n - 1 /\ Seen' = Seen
  BY <1>1 DEF HandledOnce, Seen
<1>10. HandledOnce'
  <2>1. isr.at \in {"answer", "wait"} => isr.buffer # s
    BY <1>1 DEF HandledOnce
  <2>2. n \notin Seen
    BY <1>1, <1>9
  <2>3. isr.at \in {"answer", "wait"} => ring'[isr.buffer] = ring[isr.buffer]
    BY <1>1, <1>4, <2>1 DEF LinkOpens, LinkTyped
  <2>4. ASSUME NEW b \in 0 .. NRx - 1, ring'[b] # 0, ~(isr.at \in {"answer", "wait"} /\ b = isr.buffer)
        PROVE  ring'[b] \notin Seen
    <3>1. CASE b = s
      BY <1>4, <2>2, <3>1
    <3>2. CASE b # s
      BY <1>4, <2>4, <3>2 DEF HandledOnce
    <3> QED
      BY <3>1, <3>2
  <2>5. Seen' \subseteq DOMAIN stored'
    BY <1>1, <1>9
  <2> QED
    BY <1>1, <1>9, <2>3, <2>4, <2>5 DEF HandledOnce
<1>11. LateRight'
  BY <1>1, <1>4, <1>5 DEF LateRight, LinkTyped
<1>12. OrderRight'
  <2>1. Link!NearlyInOrder'
    BY <1>1, <1>5 DEF OrderRight, Link!NearlyInOrder
  <2>2. ASSUME NEW b \in 0 .. NRx - 1, ring'[b] # 0, ring'[b] \notin Seen'
        PROVE  Overtaken(ring[b])'
    <3>1. CASE b = s
      BY <1>1, <1>4, <1>9, <3>1 DEF Overtaken
    <3>2. CASE b # s
      <4>1. ring'[b] = ring[b] /\ Overtaken(ring[b])
        BY <1>4, <1>9, <2>2, <3>2 DEF OrderRight
      <4> QED
        BY <1>1, <1>5, <1>9, <4>1 DEF Overtaken, Slot
    <3> QED
      BY <3>1, <3>2
  <2> QED
    BY <2>1, <2>2 DEF OrderRight
<1>13. TxRight'
  BY <1>1 DEF TxRight, Link!AllTransmitted, Link!OnlyUnmaskedReplaced, LinkTyped
<1> QED
  BY <1>6, <1>7, <1>8, <1>10, <1>11, <1>12, <1>13

(* What leaves the ring, the registers of the core and the frames alone.   *)
LEMMA ScanStep ==
  ASSUME Link!EthLinkAssumption, LinkInv, Link!Enter \/ Link!Skip \/ Link!Leave PROVE LinkInv'
<1> USE LinkFacts DEF LinkInv
<1>1. /\ UNCHANGED <<ring, stored, tx, link_main, parsed, wrong, pending>>
      /\ late'.all = late.all /\ late' \in [all : SUBSET Nat, last : SUBSET Nat]
      /\ mac'.next = mac.next /\ mac'.enabled = mac.enabled /\ mac'.rxen = mac.rxen
      /\ mac' \in [source : BOOLEAN, mask : BOOLEAN, rxen : BOOLEAN, enabled : BOOLEAN,
                   next : 0 .. NRx - 1]
      /\ mac'.source => mac.source
  <2>1. CASE Link!Enter
    <3>1. mac' = [mac EXCEPT !.mask = FALSE] /\ late' = [late EXCEPT !.last = {}]
          /\ UNCHANGED <<ring, stored, tx, link_main, parsed, wrong, pending>>
      BY <2>1 DEF Link!Enter
    <3> QED
      BY <3>1 DEF LinkTyped
  <2>2. CASE Link!Skip
    BY <2>2 DEF Link!Skip, LinkTyped
  <2>3. CASE Link!Leave
    <3>1. mac' = [mac EXCEPT !.source = FALSE, !.mask = TRUE]
          /\ UNCHANGED <<ring, stored, tx, link_main, parsed, wrong, late, pending>>
      BY <2>3 DEF Link!Leave
    <3> QED
      BY <3>1 DEF LinkTyped
  <2> QED
    BY <2>1, <2>2, <2>3
<1>2. isr.at \in {"idle", "scan"} /\ isr'.at \in {"idle", "scan"}
  BY DEF Link!Enter, Link!Skip, Link!Leave, Link!NoIsr, LinkTyped
<1>3. LinkTyped'
  <2>1. isr' \in [at : {"idle", "scan", "answer", "wait"}, buffer : 0 .. NRx, left : Nat]
    BY DEF Link!Enter, Link!Skip, Link!Leave, Link!NoIsr, Link!ScanEnds, LinkTyped
  <2> QED
    BY <1>1, <2>1 DEF LinkTyped
<1>4. LinkOpens'
  BY <1>1, <1>2 DEF LinkOpens, LinkTyped, Link!Enter, Link!Skip, Link!Leave, Link!NoIsr
<1>5. RingRight' /\ HandledOnce'
  BY <1>1, <1>2 DEF RingRight, HandledOnce, Slot, Seen
<1>6. LateRight'
  <2>1. CASE Link!Enter
    BY <2>1 DEF Link!Enter, Link!NoIsr, LateRight, LinkTyped
  <2>2. CASE Link!Skip
    BY <2>2 DEF Link!Skip, LateRight, LinkTyped
  <2>3. CASE Link!Leave
    BY <2>3 DEF Link!Leave, Link!ScanEnds, Link!NoIsr, LateRight, LinkTyped
  <2> QED
    BY <2>1, <2>2, <2>3
<1>7. OrderRight'
  BY <1>1 DEF OrderRight, Overtaken, Slot, Seen, Link!NearlyInOrder
<1>8. TxRight'
  BY <1>1, <1>2 DEF TxRight, Link!AllTransmitted, Link!OnlyUnmaskedReplaced, Link!Enter,
     Link!Skip, Link!Leave, LinkTyped
<1> QED
  BY <1>3, <1>4, <1>5, <1>6, <1>7, <1>8

LEMMA ParseStep ==
  ASSUME Link!EthLinkAssumption, LinkInv, Link!Parse PROVE LinkInv'
<1> USE LinkFacts DEF LinkInv
<1> DEFINE b == isr.buffer
           p == ring[b]
<1>1. /\ b \in 0 .. NRx - 1 /\ isr.at = "scan" /\ p # 0 /\ p \in Nat
      /\ parsed' = Append(parsed, p) /\ Len(parsed) \in Nat
      /\ UNCHANGED <<ring, stored, mac, tx, link_main, wrong, late, pending>>
  BY DEF Link!Parse, Link!ScanEnds, LinkTyped
<1>2. PICK n \in Link!parse_rx_packet(stored[p]) : isr' = [isr EXCEPT !.at = "answer", !.left = n]
  BY DEF Link!Parse
<1>3. n \in Nat
  BY DEF Link!parse_rx_packet, Link!parse_arp_packet, Link!parse_ip_packet, Link!arp_reply, Link!ping_reply
<1>4. isr'.at = "answer" /\ isr'.buffer = b
  BY <1>2 DEF LinkTyped
<1>5. p \in DOMAIN stored /\ p \notin Seen /\ Slot(p) = b /\ Len(stored) \in Nat
      /\ DOMAIN stored = 1 .. Len(stored)
  BY <1>1 DEF RingRight, HandledOnce, LinkTyped
<1> HIDE DEF b
<1>6. /\ Seen' = Seen \cup {p} /\ DOMAIN parsed' = 1 .. Len(parsed) + 1
      /\ DOMAIN parsed = 1 .. Len(parsed) /\ Len(parsed') = Len(parsed) + 1
      /\ parsed'[Len(parsed) + 1] = p
      /\ \A i \in 1 .. Len(parsed) : parsed'[i] = parsed[i] /\ parsed[i] \in Seen
      /\ parsed' \in Seq(Nat)
  <2>1. parsed \in Seq(Nat) /\ p \in Nat
    BY <1>1 DEF LinkTyped
  <2>2. /\ DOMAIN parsed' = 1 .. Len(parsed) + 1 /\ parsed'[Len(parsed) + 1] = p
        /\ DOMAIN parsed = 1 .. Len(parsed) /\ Len(parsed') = Len(parsed) + 1
        /\ \A i \in 1 .. Len(parsed) : parsed'[i] = parsed[i]
        /\ parsed' \in Seq(Nat)
    BY <1>1, <2>1
  <2> HIDE DEF p
  <2>3. Seen' = Seen \cup {p}
    BY <1>1, <2>2 DEF Seen
  <2> QED
    BY <2>2, <2>3 DEF Seen
<1>7. LinkTyped'
  <2>1. isr' \in [at : {"idle", "scan", "answer", "wait"}, buffer : 0 .. NRx, left : Nat]
    BY <1>2, <1>3 DEF LinkTyped
  <2> QED
    BY <1>1, <1>6, <2>1 DEF LinkTyped
<1>8. LinkOpens'
  BY <1>1, <1>4 DEF LinkOpens, LinkTyped
<1>9. RingRight'
  BY <1>1 DEF RingRight, Slot
<1>10. HandledOnce'
  <2>1. \A i, j \in DOMAIN parsed' : i # j => parsed'[i] # parsed'[j]
    <3> HIDE DEF p
    <3> SUFFICES ASSUME NEW i \in 1 .. Len(parsed) + 1, NEW j \in 1 .. Len(parsed) + 1, i # j
                 PROVE  parsed'[i] # parsed'[j]
      BY <1>6
    <3>1. CASE i \in 1 .. Len(parsed) /\ j \in 1 .. Len(parsed)
      BY <1>6, <3>1 DEF HandledOnce
    <3>2. CASE i = Len(parsed) + 1 /\ j \in 1 .. Len(parsed)
      BY <1>5, <1>6, <3>2
    <3>3. CASE i \in 1 .. Len(parsed) /\ j = Len(parsed) + 1
      BY <1>5, <1>6, <3>3
    <3> QED
      BY <1>1, <3>1, <3>2, <3>3
  <2>2. \A c \in 0 .. NRx - 1 : ring[c] # 0 /\ c # b => ring[c] \notin Seen'
    BY <1>1, <1>5, <1>6 DEF HandledOnce, RingRight
  <2>3. Seen' \subseteq DOMAIN stored
    BY <1>5, <1>6 DEF HandledOnce
  <2> QED
    BY <1>1, <1>4, <1>6, <2>1, <2>2, <2>3 DEF HandledOnce
<1>11. LateRight'
  BY <1>1, <1>4 DEF LateRight, LinkTyped, b
<1>12. OrderRight'
  <2>1. Overtaken(p)
    BY <1>1, <1>5 DEF OrderRight
  <2>2. Link!NearlyInOrder'
    <3> SUFFICES ASSUME NEW i \in 1 .. Len(parsed) + 1, NEW j \in 1 .. Len(parsed) + 1, i < j
                 PROVE  \/ parsed'[i] < parsed'[j]
                        \/ /\ parsed'[i] - parsed'[j] \in 1 .. NRx - 1
                           /\ Slot(parsed'[i]) < Slot(parsed'[j]) \/ parsed'[j] \in late.all
      BY <1>1, <1>6 DEF Link!NearlyInOrder, Slot
    <3>1. i \in 1 .. Len(parsed) /\ parsed'[i] = parsed[i] /\ parsed[i] \in Seen
      BY <1>1, <1>6
    <3>2. CASE j \in 1 .. Len(parsed)
      BY <1>6, <3>1, <3>2 DEF OrderRight, Link!NearlyInOrder, Slot
    <3>3. CASE j = Len(parsed) + 1
      <4>0. parsed[i] \in Nat
        <5>1. parsed \in Seq(Nat)
          BY DEF LinkTyped
        <5> QED
          BY <3>1, <5>1, InSeq
      <4> HIDE DEF p
      <4>1. parsed[i] # p /\ parsed[i] \in Nat
        BY <1>5, <3>1, <4>0
      <4>2. p \in Nat /\ parsed'[j] = p /\ parsed'[i] = parsed[i]
        BY <1>1, <1>6, <3>1, <3>3
      <4> QED
        BY <2>1, <3>1, <4>1, <4>2 DEF Overtaken
    <3>4. j \in 1 .. Len(parsed) \/ j = Len(parsed) + 1
      <4>1. Len(parsed) \in Nat
        BY <1>1
      <4> QED
        BY <4>1, UpToNext
    <3> QED
      BY <3>2, <3>3, <3>4
  <2>3. ASSUME NEW c \in 0 .. NRx - 1, ring[c] # 0, ring[c] \notin Seen'
        PROVE  Overtaken(ring[c])'
    <3>1. Overtaken(ring[c]) /\ ring[c] # p /\ ring[c] \in Nat
      BY <1>6, <2>3 DEF OrderRight, LinkTyped
    <3>2. ASSUME p > ring[c] PROVE p - ring[c] \in 1 .. NRx - 1
      <4>1. Len(stored) - ring[c] < NRx /\ p <= Len(stored)
        BY <1>5, <2>3 DEF RingRight
      <4> QED
        BY <1>1, <1>5, <3>1, <3>2, <4>1
    <3>3. Slot(p) = b /\ Slot(ring[c]) = c /\ c # b
      BY <1>1, <1>5, <2>3, <3>1 DEF RingRight
    <3>4. c < b => ring[c] \in late.all
      BY <1>1, <2>3 DEF LateRight, b
    <3>5. b \in Int /\ c \in Int
      BY <1>1
    <3>6. ASSUME NEW q \in Seen', q > ring[c]
          PROVE  /\ q - ring[c] \in 1 .. NRx - 1
                 /\ Slot(q) < Slot(ring[c]) \/ ring[c] \in late.all
      <4>1. CASE q \in Seen
        BY <3>1, <3>6, <4>1 DEF Overtaken
      <4>2. CASE q = p
        BY <3>2, <3>3, <3>4, <3>5, <3>6, <4>2
      <4> QED
        BY <1>6, <4>1, <4>2
    <3> QED
      BY <1>1, <3>6 DEF Overtaken, Slot
  <2> QED
    BY <1>1, <2>2, <2>3 DEF OrderRight
<1>13. TxRight'
  BY <1>1, <1>4 DEF TxRight, Link!AllTransmitted, Link!OnlyUnmaskedReplaced
<1> QED
  BY <1>7, <1>8, <1>9, <1>10, <1>11, <1>12, <1>13

LEMMA AnswerStep ==
  ASSUME Link!EthLinkAssumption, LinkInv, Link!Answer PROVE LinkInv'
<1> USE LinkFacts DEF LinkInv
<1> DEFINE id == Link!Id("isr", 3 * Len(parsed) + isr.left)
<1>1. /\ UNCHANGED <<ring, stored, mac, link_main, parsed, wrong, late>>
      /\ isr.at \in {"answer", "wait"} /\ isr'.at \in {"answer", "wait"} /\ isr'.buffer = isr.buffer
      /\ isr' \in [at : {"idle", "scan", "answer", "wait"}, buffer : 0 .. NRx, left : Nat]
  <2>1. \/ isr.at = "answer" /\ isr' = [isr EXCEPT !.at = "wait"]
        \/ isr.at = "wait" /\ isr' = [isr EXCEPT !.at = "answer", !.left = @ - 1] /\ isr.left > 0
    BY DEF Link!Answer, TxRight
  <2>2. UNCHANGED <<ring, stored, mac, link_main, parsed, wrong, late>>
    BY DEF Link!Answer
  <2>3. isr \in [at : {"idle", "scan", "answer", "wait"}, buffer : 0 .. NRx, left : Nat]
    BY DEF LinkTyped
  <2>4. CASE isr.at = "answer"
    BY <2>1, <2>2, <2>3, <2>4
  <2>5. CASE isr.at = "wait"
    <3>1. isr.left - 1 \in Nat
      BY <2>1, <2>3, <2>5
    <3> QED
      BY <2>1, <2>2, <2>3, <2>5, <3>1
  <2> QED
    BY <2>1, <2>4, <2>5
<1>2. id \in Ids /\ id.by = "isr"
  BY IsrIds DEF Link!Id
<1>3. LinkTyped'
  BY <1>1, <1>2, CopyTyped, StartTyped DEF LinkTyped, Link!Answer
<1>4. LinkOpens' /\ RingRight' /\ HandledOnce' /\ LateRight'
  BY <1>1 DEF LinkOpens, RingRight, HandledOnce, LateRight, Slot, Seen
<1>5. OrderRight'
  BY <1>1 DEF OrderRight, Overtaken, Slot, Seen, Link!NearlyInOrder
<1>6. TxRight'
  <2> USE DEF TxRight, LinkOpens, Link!AllTransmitted, Link!OnlyUnmaskedReplaced, LinkTyped
  <2>1. CASE isr.at = "answer"
    <3>1. Link!Copy(id) /\ isr'.at = "wait" /\ isr'.left = isr.left /\ isr.left > 0 /\ UNCHANGED pending
      BY <2>1 DEF Link!Answer
    <3>2. /\ tx'.buf = id /\ tx'.ready = tx.ready /\ tx'.for = tx.for
          /\ tx'.out = IF tx.ready THEN Link!Mixed ELSE tx.out
      BY <3>1 DEF Link!Copy
    <3>3. id = [by |-> "isr", n |-> 3 * Len(parsed') + isr'.left] /\ id.by = "isr"
      BY <1>1, <3>1 DEF Link!Id
    <3> HIDE DEF id
    <3> QED
      BY <1>1, <2>1, <3>1, <3>2, <3>3
  <2>2. CASE isr.at = "wait"
    <3>1. Link!Start(id) /\ isr'.at = "answer"
      BY <2>2 DEF Link!Answer
    <3> QED
      BY <1>1, <1>2, <2>2, <3>1 DEF Link!Start, Link!Id
  <2> QED
    BY <1>1, <2>1, <2>2
<1> QED
  BY <1>3, <1>4, <1>5, <1>6

LEMMA SetEmptyStep ==
  ASSUME Link!EthLinkAssumption, LinkInv, Link!SetEmpty PROVE LinkInv'
<1> USE LinkFacts DEF LinkInv
<1> DEFINE b == isr.buffer
<1>1. /\ UNCHANGED <<stored, mac, tx, link_main, parsed, wrong, late, pending>>
      /\ b \in 0 .. NRx - 1 /\ isr.at = "answer" /\ isr'.at = "scan" /\ isr'.buffer = b + 1
      /\ isr' \in [at : {"idle", "scan", "answer", "wait"}, buffer : 0 .. NRx, left : Nat]
      /\ ring' \in [0 .. NRx - 1 -> Nat]
      /\ \A c \in 0 .. NRx - 1 : ring'[c] = IF c = b THEN 0 ELSE ring[c]
  <2>1. /\ UNCHANGED <<stored, mac, tx, link_main, parsed, wrong, late, pending>>
        /\ isr.at = "answer" /\ ring' = [ring EXCEPT ![b] = 0]
        /\ isr' = [isr EXCEPT !.at = "scan", !.buffer = b + 1]
    BY DEF Link!SetEmpty, Link!Emptied
  <2>2. b \in 0 .. NRx - 1
    BY <2>1 DEF LinkTyped, LinkOpens
  <2>3. isr'.at = "scan" /\ isr'.buffer = b + 1
        /\ isr' \in [at : {"idle", "scan", "answer", "wait"}, buffer : 0 .. NRx, left : Nat]
    <3>1. b + 1 \in 0 .. NRx
      BY <2>2
    <3> HIDE DEF b
    <3> QED
      BY <2>1, <3>1 DEF LinkTyped
  <2> QED
    BY <2>1, <2>2, <2>3 DEF LinkTyped
<1> HIDE DEF b
<1>2. LinkTyped'
  BY <1>1 DEF LinkTyped
<1>3. LinkOpens'
  BY <1>1 DEF LinkOpens
<1>4. RingRight'
  BY <1>1 DEF RingRight, Slot
<1>5. HandledOnce'
  BY <1>1 DEF HandledOnce, Seen, b
<1>6. LateRight'
  BY <1>1 DEF LateRight, b
<1>7. OrderRight'
  <2>1. ASSUME NEW c \in 0 .. NRx - 1, ring'[c] # 0, ring'[c] \notin Seen'
        PROVE  Overtaken(ring[c])' /\ ring'[c] = ring[c]
    BY <1>1, <2>1 DEF OrderRight, Overtaken, Slot, Seen
  <2> QED
    BY <1>1, <2>1 DEF OrderRight, Link!NearlyInOrder
<1>8. TxRight'
  BY <1>1 DEF TxRight, Link!AllTransmitted, Link!OnlyUnmaskedReplaced
<1> QED
  BY <1>2, <1>3, <1>4, <1>5, <1>6, <1>7, <1>8

LEMMA LinkStep == ASSUME Link!EthLinkAssumption, LinkInv, Link!Next PROVE LinkInv'
<1>1. ASSUME NEW f \in Frames, Link!Receive(f) PROVE LinkInv'
  BY <1>1, ReceiveStep
<1> QED
  BY <1>1, ScanStep, ParseStep, AnswerStep, SetEmptyStep, OpenStep, SendStep, TransmittedStep
     DEF Link!Next, Link!Interrupt, Link!Main

LEMMA LinkPromises == ASSUME Link!EthLinkAssumption, LinkInv PROVE FramesHandled
<1>1. Link!NoneForgotten
  BY LinkFacts DEF LinkInv, LinkTyped, LateRight, Link!NoneForgotten, Link!Waiting
<1> QED
  BY <1>1 DEF LinkInv, OrderRight, TxRight, FramesHandled

(* Frames are handled at most once and in the order in which they came,    *)
(* but for a turn of the ring; a frame that waits with no interrupt        *)
(* pending came behind the scan of the last one; each frame that is        *)
(* started is transmitted, and one that goes out in place of another was   *)
(* asked for without the mask of tcp_tx (ethmac.c:159-340,                 *)
(* tcp.c:380-389): for any ring and any number of frames.                  *)
THEOREM FramesAreHandled == MCSpec => []FramesHandled
<1> USE EthernetAssumption
<1>1. MCInit => LinkInv
  BY LinkInit DEF MCInit
<1>2. LinkInv /\ [MCNext]_ethVars => LinkInv'
  <2> SUFFICES ASSUME LinkInv, [MCNext]_ethVars PROVE LinkInv'
    OBVIOUS
  <2>1. CASE Link!Next
    BY <2>1, LinkStep
  <2>2. CASE UNCHANGED linkVars
    BY <2>2 DEF linkVars, LinkInv, LinkTyped, LinkOpens, RingRight, HandledOnce, LateRight,
       OrderRight, Overtaken, TxRight, Slot, Seen, Link!NearlyInOrder, Link!AllTransmitted,
       Link!OnlyUnmaskedReplaced
  <2> QED
    BY <2>1, <2>2 DEF MCNext, ethVars
<1>3. LinkInv => FramesHandled
  BY LinkPromises
<1> QED
  BY <1>1, <1>2, <1>3, PTL DEF MCSpec

-----------------------------------------------------------------------------
(* The upload of files.                                                    *)
Ups    == 1 .. Len(plan.ups)
Blocks == Seq(Nat \X Nat)
TftpPackets == [op : {"wrq", "rrq", "data"}, up : Ups, k : Nat, block : 0 .. BlockMod - 1]
TftpAnswers == [type : {"ack", "error"}, up : Ups, block : 0 .. BlockMod - 1]

UpTyped ==
  /\ plan \in Plans
  /\ file \in [up : 0 .. Len(plan.ups), blocks : Blocks, full : BOOLEAN,
               last_block : 0 .. BlockMod - 1, ready : BOOLEAN, linux_boot : BOOLEAN]
  /\ main \in [at : {"loop", "clear", "alloc", "copy", "split", "timer", "rebooted"},
               size : Nat, copy : Blocks, linux : BOOLEAN]
  /\ timer \in [is : {"off", "set", "expired"}, stage : {0, 1}]
  /\ memory \in [image : Blocks, vectors : Blocks]
  /\ client \in [at : {"ready", "start", "wait"}, up : 0 .. Len(plan.ups), k : Nat]
  /\ net \subseteq TftpPackets /\ back \subseteq TftpAnswers
  /\ starts \in Seq(Ups)
  /\ faults \in [lost : Nat, dup : Nat, stray : BOOLEAN, raced : BOOLEAN]

Started == {starts[i] : i \in DOMAIN starts}

(* An upload whose request is acknowledged.                                *)
Accepts(u) == Tftp!Up(u).op = "wrq" /\ Tftp!Up(u).octet

(* Where the client is, and what it has sent.                              *)
ClientRight ==
  /\ client.up = 0 => client.at = "ready" /\ client.k = 0
  /\ client.up # 0 => client.k <= Tftp!Up(client.up).blocks + 1
  /\ client.at # "ready" => client.k <= Tftp!Up(client.up).blocks
  /\ client.k > 0 => client.up \in Started /\ Accepts(client.up)
  /\ client.at = "ready" /\ client.up # 0 /\ Accepts(client.up) =>
       client.k = Tftp!Up(client.up).blocks + 1
  /\ client.at = "ready" /\ client.up # 0 /\ Tftp!Up(client.up).op = "wrq" => client.up \in Started
  /\ \A u \in Ups : u < client.up /\ Tftp!Up(u).op = "wrq" => u \in Started

PacketsRight ==
  \A m \in net :
    /\ m.up <= client.up /\ m.block = m.k % BlockMod /\ m.k <= Tftp!Up(m.up).blocks
    /\ m.up = client.up => m.k <= client.k
    /\ m.op = "data" => m.up \in Started /\ Accepts(m.up)
    /\ m.op # "data" => m.k = 0 /\ m.op = Tftp!Up(m.up).op

AnswersRight ==
  \A b \in back :
    /\ b.type = "ack" <=> Accepts(b.up)
    /\ Tftp!Up(b.up).op = "wrq" => b.up \in Started

StartsRight ==
  /\ starts = <<>> <=> file.up = 0
  /\ starts # <<>> => Last(starts) = file.up
  /\ file.up # 0 => file.linux_boot = Tftp!Up(file.up).linux /\ Tftp!Up(file.up).op = "wrq"
  /\ \A u \in Started : u <= client.up /\ Tftp!Up(u).op = "wrq"

(* The first n blocks of upload u.                                         *)
FirstBlocks(u, n) == [k \in 1 .. n |-> <<u, k>>]

(* As long as nothing comes too late.                                      *)
FileRight ==
  /\ \A u \in Started : u <= file.up
  /\ file.up # 0 =>
       /\ file.blocks = FirstBlocks(file.up, file.last_block)
       /\ file.last_block <= Tftp!Up(file.up).blocks
       /\ file.full <=> file.last_block < Tftp!Up(file.up).blocks
       /\ file.ready => ~file.full

ReachedRight ==
  /\ file.up # 0 /\ client.up = file.up =>
       client.k <= file.last_block + 1 \/ file.last_block = BlockMod - 1
  /\ file.up # 0 /\ file.up < client.up /\ Accepts(file.up) => ~file.full \/ file.last_block = BlockMod - 1
  /\ \A b \in back : b.up = file.up => b.block <= file.last_block

(* And as long as no request comes while a file is copied.                 *)
CopyRight ==
  /\ main.at \in {"clear", "alloc", "copy"} => file.up # 0 /\ ~file.full
  /\ main.at = "copy" => main.size = Len(file.blocks)
  /\ main.at = "split" =>
       \E c \in 1 .. file.up : main.copy = Tftp!Content(c) /\ main.size = Len(main.copy)

ImageRight ==
  memory.image # <<>> =>
    \E c \in 1 .. file.up :
      /\ memory.image = Tftp!Content(c) /\ Tftp!Up(c).elf
      /\ c = file.up => memory.vectors = memory.image
      /\ main.at = "split" => \E d \in c .. file.up : main.copy = Tftp!Content(d)

RebootRight ==
  /\ timer.is # "off" => memory.image # <<>>
  /\ main.at = "rebooted" => timer.is = "expired" /\ main.linux = file.linux_boot

UpInv ==
  /\ UpTyped /\ ClientRight /\ PacketsRight /\ AnswersRight /\ StartsRight /\ RebootRight
  /\ ~faults.stray => FileRight /\ ReachedRight
  /\ ~faults.stray /\ ~faults.raced => CopyRight /\ ImageRight

LEMMA UpFacts ==
  ASSUME Tftp!EthTftpAssumption, UpTyped
  PROVE  /\ BlockMod \in Nat \ {0, 1} /\ Len(plan.ups) \in Nat
         /\ \A u \in Ups : /\ Tftp!Up(u).op \in {"wrq", "rrq"} /\ Tftp!Up(u).blocks \in Nat \ {0}
                           /\ Tftp!Up(u).linux \in BOOLEAN /\ Tftp!Up(u).octet \in BOOLEAN
                           /\ Tftp!Up(u).elf \in BOOLEAN
<1>1. plan.ups \in Seq(Tftp!Upload) /\ BlockMod \in Nat \ {0, 1}
  BY DEF Tftp!EthTftpAssumption, UpTyped
<1>2. ASSUME NEW u \in Ups PROVE Tftp!Up(u) \in Tftp!Upload
  BY <1>1 DEF Ups, Tftp!Up
<1> QED
  BY <1>1, <1>2 DEF Tftp!Upload

LEMMA BlocksFacts ==
  ASSUME NEW u \in Nat, NEW n \in Nat
  PROVE  /\ FirstBlocks(u, n) \in Blocks /\ Len(FirstBlocks(u, n)) = n
         /\ \A i \in 1 .. n : FirstBlocks(u, n)[i] = <<u, i>>
         /\ FirstBlocks(u, 0) = <<>>
         /\ Append(FirstBlocks(u, n), <<u, n + 1>>) = FirstBlocks(u, n + 1)
         /\ \A k \in 0 .. n : SubSeq(FirstBlocks(u, n), 1, k) = FirstBlocks(u, k)
<1>1. FirstBlocks(u, n) \in Blocks /\ Len(FirstBlocks(u, n)) = n
  BY DEF FirstBlocks, Blocks
<1>2. \A i \in 1 .. n : FirstBlocks(u, n)[i] = <<u, i>>
  BY DEF FirstBlocks
<1>3. FirstBlocks(u, 0) = <<>>
  BY DEF FirstBlocks
<1>4. Append(FirstBlocks(u, n), <<u, n + 1>>) = FirstBlocks(u, n + 1)
  BY DEF FirstBlocks
<1>5. ASSUME NEW k \in 0 .. n PROVE SubSeq(FirstBlocks(u, n), 1, k) = FirstBlocks(u, k)
  BY DEF FirstBlocks
<1> QED
  BY <1>1, <1>2, <1>3, <1>4, <1>5

LEMMA ContentIs == ASSUME NEW u PROVE Tftp!Content(u) = FirstBlocks(u, Tftp!Up(u).blocks)
  BY DEF Tftp!Content, FirstBlocks

LEMMA FirstOf ==
  ASSUME NEW u \in Nat, Tftp!Up(u).blocks \in Nat \ {0}
  PROVE  /\ Tftp!Content(u) \in Blocks /\ Tftp!Content(u) # <<>>
         /\ Tftp!Content(u)[1] = <<u, 1>> /\ Len(Tftp!Content(u)) = Tftp!Up(u).blocks
<1> DEFINE n == Tftp!Up(u).blocks
<1>1. Tftp!Content(u) = FirstBlocks(u, n) /\ n \in Nat \ {0}
  BY ContentIs
<1> HIDE DEF n
<1>2. /\ FirstBlocks(u, n) \in Blocks /\ Len(FirstBlocks(u, n)) = n
      /\ FirstBlocks(u, n)[1] = <<u, 1>>
  <2>1. /\ FirstBlocks(u, n) \in Blocks /\ Len(FirstBlocks(u, n)) = n
        /\ \A i \in 1 .. n : FirstBlocks(u, n)[i] = <<u, i>>
    BY <1>1, BlocksFacts
  <2>2. 1 \in 1 .. n
    BY <1>1
  <2> QED
    BY <2>1, <2>2
<1>3. FirstBlocks(u, n) # <<>>
  BY <1>1, <1>2
<1> QED
  BY <1>1, <1>2, <1>3 DEF n

LEMMA UploadInit == ASSUME Tftp!EthTftpAssumption, Tftp!Init PROVE UpInv
<1> USE DEF Tftp!Init
<1>1. UpTyped
  BY DEF UpTyped, Tftp!EthTftpAssumption, Tftp!NoFile, Blocks
<1>2. ClientRight /\ PacketsRight /\ AnswersRight /\ StartsRight /\ RebootRight
  BY <1>1, UpFacts DEF ClientRight, PacketsRight, AnswersRight, StartsRight, RebootRight, Started, Ups, Tftp!NoFile
<1>3. FileRight /\ ReachedRight /\ CopyRight /\ ImageRight
  BY DEF FileRight, ReachedRight, CopyRight, ImageRight, Started, Tftp!NoFile
<1> QED
  BY <1>1, <1>2, <1>3 DEF UpInv

(* What the main loop does leaves the upload alone, and what the client    *)
(* and the network do leaves the main loop alone.                          *)
LEMMA UploadRests ==
  ASSUME UpInv, UNCHANGED <<file, client, plan, net, back, starts, faults>>
  PROVE  /\ ClientRight' /\ PacketsRight' /\ AnswersRight' /\ StartsRight'
         /\ ~faults'.stray => FileRight' /\ ReachedRight'
<1> USE DEF UpInv
<1>1. Started' = Started /\ Ups' = Ups /\ \A u : Tftp!Up(u)' = Tftp!Up(u) /\ (Accepts(u)' <=> Accepts(u))
  BY DEF Started, Ups, Tftp!Up, Accepts
<1>2. ClientRight' /\ PacketsRight' /\ AnswersRight' /\ StartsRight'
  BY <1>1 DEF ClientRight, PacketsRight, AnswersRight, StartsRight
<1>3. ~faults'.stray => FileRight' /\ ReachedRight'
  BY <1>1 DEF FileRight, ReachedRight, FirstBlocks
<1> QED
  BY <1>2, <1>3

LEMMA MainRests ==
  ASSUME UpInv, UNCHANGED <<file, main, timer, memory, plan>>, faults'.stray = faults.stray,
         faults'.raced = faults.raced
  PROVE  /\ RebootRight'
         /\ ~faults'.stray /\ ~faults'.raced => CopyRight' /\ ImageRight'
  BY DEF UpInv, RebootRight, CopyRight, ImageRight, Tftp!Content, Tftp!Up

LEMMA UpNext ==
  ASSUME UpTyped', ClientRight', PacketsRight', AnswersRight', StartsRight', RebootRight',
         ~faults'.stray => FileRight' /\ ReachedRight',
         ~faults'.stray /\ ~faults'.raced => CopyRight' /\ ImageRight'
  PROVE  UpInv'
  BY DEF UpInv

(* The plan does not change.                                               *)
LEMMA SamePlan ==
  ASSUME plan' = plan
  PROVE  /\ Ups' = Ups /\ TftpPackets' = TftpPackets /\ TftpAnswers' = TftpAnswers
         /\ \A u : /\ Tftp!Up(u)' = Tftp!Up(u) /\ (Accepts(u)' <=> Accepts(u))
                   /\ Tftp!Content(u)' = Tftp!Content(u)
  BY DEF Ups, TftpPackets, TftpAnswers, Tftp!Up, Accepts, Tftp!Content

LEMMA FileStarted ==
  ASSUME Tftp!EthTftpAssumption, UpInv, file.up # 0
  PROVE  file.up \in Started /\ file.up \in Ups /\ file.up \in Nat /\ file.up <= client.up
<1>1. starts \in Seq(Ups) /\ starts # <<>> /\ Last(starts) = file.up
  BY DEF UpInv, UpTyped, StartsRight
<1>2. file.up \in Started
  BY <1>1 DEF Started, Last
<1> QED
  BY <1>2, UpFacts DEF UpInv, UpTyped, StartsRight, Ups

LEMMA BeginStep == ASSUME Tftp!EthTftpAssumption, UpInv, Tftp!Begin PROVE UpInv'
<1>1. /\ client.at = "ready" /\ client.up < Len(plan.ups)
      /\ client' = [at |-> "start", up |-> client.up + 1, k |-> 0]
      /\ UNCHANGED <<file, main, timer, memory, plan, net, back, starts, faults>>
  BY DEF Tftp!Begin
<1>2. /\ UpTyped /\ Started' = Started /\ Len(plan.ups) \in Nat
      /\ client.up \in Nat /\ client.up + 1 \in Ups
      /\ client'.at = "start" /\ client'.up = client.up + 1 /\ client'.k = 0
  BY <1>1, UpFacts DEF Started, Ups, UpTyped, UpInv
<1>3. \A u \in Ups : u \in Nat /\ u # 0 /\ Tftp!Up(u).blocks \in Nat
  BY <1>2, UpFacts DEF Ups
<1>4. UpTyped'
  <2>1. client' \in [at : {"ready", "start", "wait"}, up : 0 .. Len(plan.ups), k : Nat]
    BY <1>1, <1>2 DEF Ups
  <2> QED
    BY <1>1, <1>2, <2>1, SamePlan DEF UpTyped
<1>5. ClientRight'
  <2>1. ASSUME NEW u \in Ups, u < client.up + 1, Tftp!Up(u).op = "wrq" PROVE u \in Started
    <3>1. CASE u < client.up
      BY <2>1, <3>1 DEF UpInv, ClientRight
    <3>2. CASE u = client.up
      BY <1>1, <1>3, <2>1, <3>2 DEF UpInv, ClientRight
    <3> QED
      BY <1>2, <1>3, <2>1, <3>1, <3>2
  <2> QED
    BY <1>1, <1>2, <1>3, <2>1, SamePlan DEF ClientRight
<1>6. PacketsRight'
  <2>1. \A m \in net : m.up \in Nat /\ m.up <= client.up
    BY <1>2, <1>3 DEF UpInv, UpTyped, TftpPackets, PacketsRight
  <2> QED
    BY <1>1, <1>2, <2>1, SamePlan DEF UpInv, PacketsRight
<1>7. AnswersRight'
  BY <1>1, <1>2, SamePlan DEF UpInv, AnswersRight
<1>8. StartsRight'
  <2>1. \A u \in Started : u \in Nat /\ u <= client.up
    BY <1>2, <1>3 DEF UpInv, UpTyped, StartsRight, Started
  <2> QED
    BY <1>1, <1>2, <2>1, SamePlan DEF UpInv, StartsRight
<1>9. ASSUME ~faults.stray PROVE FileRight' /\ ReachedRight'
  <2>1. FileRight /\ ReachedRight
    BY <1>9 DEF UpInv
  <2>2. FileRight'
    BY <1>1, <1>2, <2>1, SamePlan DEF FileRight, FirstBlocks
  <2>3. file.up # 0 => file.up <= client.up /\ file.up \in Nat /\ file.up \in Ups
    BY FileStarted
  <2>4. ASSUME file.up # 0, Accepts(file.up), file.up <= client.up
        PROVE  ~file.full \/ file.last_block = BlockMod - 1
    <3>1. CASE file.up < client.up
      BY <2>1, <2>4, <3>1 DEF ReachedRight
    <3>2. CASE file.up = client.up
      <4>1. client.k = Tftp!Up(file.up).blocks + 1
        BY <1>1, <2>4, <3>2 DEF UpInv, ClientRight
      <4>2. file.last_block \in Int /\ Tftp!Up(file.up).blocks \in Nat
        BY <1>2, <1>3, <2>3, <2>4, UpFacts DEF UpTyped
      <4> QED
        BY <2>1, <2>4, <3>2, <4>1, <4>2 DEF ReachedRight, FileRight
    <3> QED
      BY <1>2, <2>3, <2>4, <3>1, <3>2
  <2> QED
    BY <1>1, <1>2, <2>1, <2>2, <2>3, <2>4, SamePlan DEF ReachedRight
<1> QED
  BY <1>1, <1>4, <1>5, <1>6, <1>7, <1>8, <1>9, MainRests, UpNext

LEMMA TransmitStep == ASSUME Tftp!EthTftpAssumption, UpInv, Tftp!Transmit PROVE UpInv'
<1> USE DEF Tftp!Transmit
<1> DEFINE p == Tftp!Packet
<1>1. /\ net' = net \cup {p} /\ client' = [client EXCEPT !.at = "wait"] /\ client.at # "ready"
      /\ UNCHANGED <<file, main, timer, memory, plan, back, starts, faults>>
  BY DEF UpInv, UpTyped
<1>2. UpTyped /\ client.up \in Ups /\ client.k \in Nat /\ client.k % BlockMod \in 0 .. BlockMod - 1
  BY <1>1, UpFacts DEF UpInv, UpTyped, ClientRight, Ups
<1>3. /\ p.op = (IF client.k = 0 THEN Tftp!Up(client.up).op ELSE "data")
      /\ p.up = client.up /\ p.k = client.k /\ p.block = client.k % BlockMod
      /\ p \in TftpPackets
  BY <1>2, UpFacts DEF Tftp!Packet, TftpPackets
<1> HIDE DEF p
<1>4. UpTyped'
  BY <1>1, <1>2, <1>3, SamePlan DEF UpTyped
<1>5. ClientRight' /\ AnswersRight' /\ StartsRight'
  BY <1>1, <1>2, SamePlan DEF UpInv, UpTyped, ClientRight, AnswersRight, StartsRight, Started
<1>6. PacketsRight'
  <2> SUFFICES ASSUME NEW m \in net'
               PROVE  /\ m.up <= client.up /\ m.block = m.k % BlockMod /\ m.k <= Tftp!Up(m.up).blocks
                      /\ m.up = client.up => m.k <= client.k
                      /\ m.op = "data" => m.up \in Started /\ Accepts(m.up)
                      /\ m.op # "data" => m.k = 0 /\ m.op = Tftp!Up(m.up).op
    BY <1>1, <1>2, SamePlan DEF PacketsRight, UpTyped, Started
  <2>1. CASE m \in net
    BY <2>1 DEF UpInv, PacketsRight
  <2>2. CASE m = p
    <3>1. m.op = "data" <=> client.k > 0
      BY <1>2, <1>3, <2>2, UpFacts
    <3>2. client.up \in Nat /\ client.k <= Tftp!Up(client.up).blocks
      BY <1>1, <1>2 DEF UpInv, ClientRight, Ups
    <3> QED
      BY <1>2, <1>3, <2>2, <3>1, <3>2 DEF UpInv, ClientRight
  <2> QED
    BY <1>1, <2>1, <2>2
<1>7. ~faults'.stray => FileRight' /\ ReachedRight'
  BY <1>1, <1>2, SamePlan DEF UpInv, UpTyped, FileRight, ReachedRight, FirstBlocks, Started
<1> QED
  BY <1>1, <1>4, <1>5, <1>6, <1>7, MainRests, UpNext

LEMMA LoseStep == ASSUME Tftp!EthTftpAssumption, UpInv, Tftp!Lose PROVE UpInv'
<1> USE DEF Tftp!Lose
<1>1. /\ net' \subseteq net /\ back' \subseteq back
      /\ UNCHANGED <<file, main, timer, memory, client, plan, starts>>
      /\ faults' = [faults EXCEPT !.lost = @ + 1]
  BY Zenon
<1>2. /\ faults'.stray = faults.stray /\ faults'.raced = faults.raced
      /\ faults' \in [lost : Nat, dup : Nat, stray : BOOLEAN, raced : BOOLEAN]
  <2>1. faults \in [lost : Nat, dup : Nat, stray : BOOLEAN, raced : BOOLEAN]
    BY DEF UpInv, UpTyped
  <2> HIDE DEF Tftp!Lose
  <2> QED
    BY <1>1, <2>1
<1>3. UpTyped'
  BY <1>1, <1>2, SamePlan DEF UpInv, UpTyped
<1>4. ClientRight' /\ PacketsRight' /\ AnswersRight' /\ StartsRight'
  BY <1>1, SamePlan DEF UpInv, ClientRight, PacketsRight, AnswersRight, StartsRight, Started
<1>5. ~faults'.stray => FileRight' /\ ReachedRight'
  BY <1>1, <1>2, SamePlan DEF UpInv, FileRight, ReachedRight, FirstBlocks, Started
<1> QED
  BY <1>1, <1>2, <1>3, <1>4, <1>5, MainRests, UpNext

LEMMA ClientStep ==
  ASSUME Tftp!EthTftpAssumption, UpInv, NEW b \in back, Tftp!ClientReceive(b) PROVE UpInv'
<1> USE DEF UpInv
<1>1. back' = back \ {b} /\ UNCHANGED <<file, main, timer, memory, plan, net, starts, faults>>
  BY DEF Tftp!ClientReceive
<1>2. UpTyped /\ Started' = Started
  BY <1>1 DEF Started
<1>3. CASE client' = client
  <2>1. UpTyped'
    BY <1>1, <1>3, SamePlan DEF UpTyped
  <2>2. ClientRight' /\ PacketsRight' /\ AnswersRight' /\ StartsRight'
    BY <1>1, <1>2, <1>3, SamePlan DEF ClientRight, PacketsRight, AnswersRight, StartsRight
  <2>3. ~faults'.stray => FileRight' /\ ReachedRight'
    BY <1>1, <1>2, <1>3, SamePlan DEF FileRight, ReachedRight, FirstBlocks
  <2> QED
    BY <1>1, <2>1, <2>2, <2>3, MainRests, UpNext
<1>4. CASE client' # client
  <2> DEFINE u == client.up
             k == client.k
             n == Tftp!Up(client.up).blocks
  <2>1. /\ client.at = "wait" /\ b.up = u /\ b.block = k % BlockMod
        /\ \/ b.type = "error" /\ client' = [client EXCEPT !.at = "ready"]
           \/ b.type # "error" /\ k = n /\ client' = [client EXCEPT !.at = "ready", !.k = @ + 1]
           \/ b.type # "error" /\ k # n /\ client' = [client EXCEPT !.at = "start", !.k = @ + 1]
    BY <1>4, Zenon DEF Tftp!ClientReceive
  <2>2. /\ u \in Ups /\ u \in Nat /\ k \in Nat /\ n \in Nat \ {0} /\ k <= n
        /\ b \in TftpAnswers /\ b.type \in {"ack", "error"}
    BY <2>1, UpFacts DEF UpTyped, ClientRight, Ups, TftpAnswers
  <2>3. client'.up = u
    BY <2>1 DEF UpTyped
  <2>4. \/ ~Accepts(u) /\ client'.at = "ready" /\ client'.k = k
        \/ /\ Accepts(u) /\ u \in Started /\ client'.k = k + 1 /\ k + 1 <= n + 1
           /\ \/ client'.at = "ready" /\ k = n
              \/ client'.at = "start" /\ k + 1 <= n
    <3>1. b.type = "ack" <=> Accepts(u)
      BY <2>1 DEF AnswersRight
    <3>2. Accepts(u) => u \in Started
      BY <2>1 DEF AnswersRight, Accepts
    <3>3. client \in [at : {"ready", "start", "wait"}, up : 0 .. Len(plan.ups), k : Nat]
      BY DEF UpTyped
    <3>4. CASE b.type = "error"
      <4>1. client' = [client EXCEPT !.at = "ready"]
        BY <2>1, <3>4
      <4> QED
        BY <3>1, <3>3, <3>4, <4>1
    <3>5. CASE b.type = "ack"
      <4>1. \/ k = n /\ client' = [client EXCEPT !.at = "ready", !.k = @ + 1]
            \/ k # n /\ client' = [client EXCEPT !.at = "start", !.k = @ + 1]
        BY <2>1, <3>5
      <4>2. client'.k = k + 1 /\ (\/ k = n /\ client'.at = "ready"
                                  \/ k # n /\ client'.at = "start")
        BY <3>3, <4>1
      <4> HIDE DEF k, n
      <4> QED
        BY <2>2, <3>1, <3>2, <3>5, <4>2
    <3> QED
      BY <2>2, <3>4, <3>5
  <2>5. Tftp!Up(u).op = "wrq" => u \in Started
    BY <2>1 DEF AnswersRight
  <2>6. client' \in [at : {"ready", "start", "wait"}, up : 0 .. Len(plan.ups), k : Nat]
    <3>1. client \in [at : {"ready", "start", "wait"}, up : 0 .. Len(plan.ups), k : Nat] /\ k + 1 \in Nat
      BY DEF UpTyped
    <3> QED
      BY <2>1, <3>1
  <2> HIDE DEF u, k, n
  <2>7. UpTyped'
    BY <1>1, <2>6, SamePlan DEF UpTyped
  <2>8. ClientRight'
    <3>1. k <= n /\ (k > 0 => Accepts(u)) /\ (\A v \in Ups : v < u /\ Tftp!Up(v).op = "wrq" => v \in Started)
      BY <2>2 DEF ClientRight, u, k
    <3>2. k <= n + 1 /\ k + 1 > 0 /\ u # 0 /\ k \in Nat /\ n \in Nat
      BY <1>2, <2>2, <3>1 DEF Ups
    <3>3. /\ client'.k <= n + 1
          /\ client'.at # "ready" => client'.k <= n
          /\ client'.k > 0 => u \in Started /\ Accepts(u)
          /\ client'.at = "ready" /\ Accepts(u) => client'.k = n + 1
      <4>1. CASE ~Accepts(u) /\ client'.at = "ready" /\ client'.k = k
        BY <3>1, <3>2, <4>1
      <4>2. CASE Accepts(u) /\ u \in Started /\ client'.k = k + 1 /\ k + 1 <= n + 1
        BY <2>4, <3>2, <4>2
      <4> QED
        BY <2>4, <4>1, <4>2
    <3> QED
      BY <1>1, <1>2, <2>3, <2>5, <3>1, <3>2, <3>3, SamePlan DEF ClientRight, n, u
  <2>9. client'.k \in Nat /\ client'.k >= k
    BY <2>2, <2>4
  <2>10. PacketsRight' /\ AnswersRight' /\ StartsRight'
    BY <1>1, <1>2, <2>2, <2>3, <2>9, SamePlan DEF PacketsRight, AnswersRight, StartsRight, UpTyped,
       TftpPackets, u, k
  <2>11. ASSUME ~faults.stray PROVE FileRight' /\ ReachedRight'
    <3>1. FileRight /\ ReachedRight
      BY <2>11
    <3>2. FileRight'
      BY <1>1, <1>2, <3>1, SamePlan DEF FileRight, FirstBlocks
    <3>3. CASE file.up # 0 /\ u = file.up
      <4>1. b.block <= file.last_block /\ file.last_block \in 0 .. BlockMod - 1
            /\ BlockMod \in Nat \ {0, 1}
        BY <2>1, <3>1, <3>3, UpFacts DEF ReachedRight, UpTyped
      <4>2. k <= file.last_block + 1 \/ file.last_block = BlockMod - 1
        BY <3>1, <3>3 DEF ReachedRight, u, k
      <4>3. client'.k <= file.last_block + 1 \/ file.last_block = BlockMod - 1
        <5>1. CASE k < BlockMod
          <6>1. k % BlockMod = k
            BY <2>2, <4>1, <5>1
          <6> QED
            BY <2>1, <2>2, <2>4, <4>1, <6>1 DEF k
        <5>2. CASE k >= BlockMod
          BY <2>2, <4>1, <4>2, <5>2
        <5> QED
          BY <2>2, <4>1, <5>1, <5>2
      <4> QED
        BY <1>1, <2>2, <2>3, <3>1, <3>2, <3>3, <4>3, SamePlan DEF ReachedRight, u
    <3>4. CASE file.up = 0 \/ u # file.up
      BY <1>1, <2>3, <3>1, <3>2, <3>4, SamePlan DEF ReachedRight, u
    <3> QED
      BY <3>3, <3>4
  <2> QED
    BY <1>1, <2>7, <2>8, <2>10, <2>11, MainRests, UpNext
<1> QED
  BY <1>3, <1>4

(* The steps of the main loop.                                             *)
Places == {"loop", "clear", "alloc", "copy", "split", "timer", "rebooted"}

LEMMA MainStep ==
  ASSUME UpInv, UNCHANGED <<file, client, plan, net, back, starts, faults>>,
         main' \in [at : Places, size : Nat, copy : Blocks, linux : BOOLEAN],
         timer' \in [is : {"off", "set", "expired"}, stage : {0, 1}],
         memory' \in [image : Blocks, vectors : Blocks], RebootRight',
         ~faults.stray /\ ~faults.raced => CopyRight' /\ ImageRight'
  PROVE  UpInv'
<1>1. UpTyped'
  BY SamePlan DEF UpInv, UpTyped, Places
<1> QED
  BY <1>1, UploadRests, UpNext

(* A step that goes on to a place where nothing is promised of the copy.   *)
LEMMA MoveStep ==
  ASSUME Tftp!EthTftpAssumption, UpInv,
         Tftp!CheckReady \/ Tftp!NotExpired \/ Tftp!DisconnectAll \/ Tftp!Reboot \/ Tftp!TimerRuns
  PROVE  UpInv'
<1> USE DEF UpInv
<1>1. /\ UNCHANGED <<file, memory, client, plan, net, back, starts, faults>>
      /\ main' \in [at : Places, size : Nat, copy : Blocks, linux : BOOLEAN]
      /\ timer' \in [is : {"off", "set", "expired"}, stage : {0, 1}]
      /\ timer'.is # "off" => timer.is # "off"
      /\ main'.at = "split" => main' = main
      /\ memory' \in [image : Blocks, vectors : Blocks]
  <2> USE DEF UpTyped, Places
  <2>1. CASE Tftp!CheckReady
    BY <2>1 DEF Tftp!CheckReady
  <2>2. CASE Tftp!NotExpired
    BY <2>2 DEF Tftp!NotExpired
  <2>3. CASE Tftp!DisconnectAll
    BY <2>3 DEF Tftp!DisconnectAll
  <2>4. CASE Tftp!Reboot
    BY <2>4 DEF Tftp!Reboot
  <2>5. CASE Tftp!TimerRuns
    BY <2>5 DEF Tftp!TimerRuns
  <2> QED
    BY <2>1, <2>2, <2>3, <2>4, <2>5
<1>2. RebootRight'
  BY <1>1 DEF RebootRight, UpTyped, Tftp!CheckReady, Tftp!NotExpired, Tftp!DisconnectAll, Tftp!Reboot,
     Tftp!TimerRuns
<1>3. ASSUME ~faults.stray, ~faults.raced PROVE CopyRight'
  <2>1. FileRight /\ CopyRight
    BY <1>3
  <2>2. \/ main' = main
        \/ main'.at \notin {"clear", "alloc", "copy", "split"}
        \/ main'.at = "clear" /\ file.up # 0 /\ file.ready
    <3>1. CASE Tftp!CheckReady
      <4>1. main' = [main EXCEPT !.at = IF file.up # 0 /\ file.ready THEN "clear" ELSE "timer"]
        BY <3>1 DEF Tftp!CheckReady
      <4>2. main'.at = IF file.up # 0 /\ file.ready THEN "clear" ELSE "timer"
        BY <4>1 DEF UpTyped
      <4> QED
        BY <4>2
    <3>2. CASE ~Tftp!CheckReady
      BY <3>2 DEF UpTyped, Tftp!NotExpired, Tftp!DisconnectAll, Tftp!Reboot, Tftp!TimerRuns
    <3> QED
      BY <3>1, <3>2
  <2> QED
    BY <1>1, <2>1, <2>2, SamePlan DEF CopyRight, FileRight
<1>4. ASSUME ~faults.stray, ~faults.raced PROVE ImageRight'
  <2>1. ImageRight
    BY <1>4
  <2> QED
    BY <1>1, <2>1, SamePlan DEF ImageRight
<1> QED
  BY <1>1, <1>2, <1>3, <1>4, MainStep

LEMMA ClearStep == ASSUME Tftp!EthTftpAssumption, UpInv, Tftp!ClearReady PROVE UpInv'
<1> USE DEF UpInv
<1>1. /\ UNCHANGED <<timer, memory, client, plan, net, back, starts, faults>>
      /\ file' = [file EXCEPT !.ready = FALSE] /\ main' = [main EXCEPT !.at = "alloc"]
      /\ main.at = "clear"
  BY DEF Tftp!ClearReady, Tftp!Cleared
<1>2. /\ file'.up = file.up /\ file'.blocks = file.blocks /\ file'.full = file.full
      /\ file'.last_block = file.last_block /\ file'.linux_boot = file.linux_boot
      /\ file'.ready = FALSE /\ main'.at = "alloc"
  BY <1>1 DEF UpTyped
<1>3. UpTyped'
  BY <1>1, SamePlan DEF UpTyped
<1>4. Started' = Started
  BY <1>1 DEF Started
<1>5. ClientRight' /\ PacketsRight' /\ AnswersRight' /\ StartsRight' /\ RebootRight'
  BY <1>1, <1>2, <1>4, SamePlan DEF ClientRight, PacketsRight, AnswersRight, StartsRight, RebootRight
<1>6. ASSUME ~faults.stray PROVE FileRight' /\ ReachedRight'
  <2>1. FileRight /\ ReachedRight
    BY <1>6
  <2> QED
    BY <1>1, <1>2, <1>4, <2>1, SamePlan DEF FileRight, ReachedRight, FirstBlocks
<1>7. ASSUME ~faults.stray, ~faults.raced PROVE CopyRight' /\ ImageRight'
  <2>1. CopyRight /\ ImageRight
    BY <1>7
  <2> QED
    BY <1>1, <1>2, <2>1, SamePlan DEF CopyRight, ImageRight
<1> QED
  BY <1>1, <1>3, <1>5, <1>6, <1>7, UpNext

LEMMA AllocateStep ==
  ASSUME Tftp!EthTftpAssumption, UpInv, Tftp!Allocate \/ Tftp!CopyFile PROVE UpInv'
<1> USE DEF UpInv
<1>1. /\ UNCHANGED <<file, timer, memory, client, plan, net, back, starts, faults>>
      /\ \/ main.at = "alloc" /\ main' = [main EXCEPT !.at = "copy", !.size = Len(file.blocks)]
         \/ main.at = "copy" /\ main' = [main EXCEPT !.at = "split", !.copy = file.blocks]
  BY DEF Tftp!Allocate, Tftp!CopyFile, Tftp!Joined
<1>2. Len(file.blocks) \in Nat /\ file.blocks \in Blocks
  BY DEF UpTyped, Blocks
<1>3. main' \in [at : Places, size : Nat, copy : Blocks, linux : BOOLEAN]
  BY <1>1, <1>2 DEF UpTyped, Places
<1>4. /\ main.at \in {"alloc", "copy"}
      /\ main.at = "alloc" => main'.at = "copy" /\ main'.size = Len(file.blocks)
      /\ main.at = "copy" => main'.at = "split" /\ main'.size = main.size /\ main'.copy = file.blocks
  BY <1>1 DEF UpTyped
<1>5. RebootRight'
  BY <1>1, <1>4 DEF RebootRight
<1>6. ASSUME ~faults.stray, ~faults.raced PROVE CopyRight' /\ ImageRight'
  <2>1. FileRight /\ CopyRight /\ ImageRight
    BY <1>6
  <2>2. file.up \in Nat \ {0} /\ file.up \in 1 .. file.up /\ ~file.full /\ file.up \in Ups
    BY <1>4, <2>1, FileStarted DEF CopyRight
  <2>3. file.blocks = Tftp!Content(file.up)
    <3>1. file.last_block = Tftp!Up(file.up).blocks
      BY <2>1, <2>2, UpFacts DEF FileRight, UpTyped
    <3> QED
      BY <2>1, <2>2, <3>1, ContentIs DEF FileRight
  <2>4. CopyRight'
    BY <1>1, <1>4, <2>1, <2>2, <2>3, SamePlan DEF CopyRight
  <2>5. ImageRight'
    BY <1>1, <1>4, <2>1, <2>2, <2>3, SamePlan DEF ImageRight
  <2> QED
    BY <2>4, <2>5
<1> QED
  BY <1>1, <1>3, <1>5, <1>6, MainStep DEF UpTyped

LEMMA SplitStep == ASSUME Tftp!EthTftpAssumption, UpInv, Tftp!Split PROVE UpInv'
<1> USE DEF UpInv
<1>1. /\ UNCHANGED <<file, client, plan, net, back, starts, faults>>
      /\ main.at = "split" /\ memory' = Tftp!elfsplitter(main.copy)
      /\ timer' = IF Tftp!IsElf(main.copy) THEN [timer EXCEPT !.is = "set"] ELSE timer
      /\ main' = [main EXCEPT !.at = "timer", !.copy = <<>>]
  BY DEF Tftp!Split
<1>0. <<>> \in Blocks
  BY DEF Blocks
<1>2. main' \in [at : Places, size : Nat, copy : Blocks, linux : BOOLEAN] /\ main'.at = "timer"
  BY <1>1, <1>0 DEF UpTyped, Places
<1>3. timer' \in [is : {"off", "set", "expired"}, stage : {0, 1}]
  BY <1>1 DEF UpTyped
<1>4. /\ memory'.image = IF Tftp!IsElf(main.copy) THEN main.copy ELSE memory.image
      /\ memory'.vectors = IF Tftp!IsElf(main.copy) THEN main.copy ELSE <<>>
      /\ memory' \in [image : Blocks, vectors : Blocks]
  <2>1. CASE Tftp!IsElf(main.copy)
    <3>1. memory' = [image |-> main.copy, vectors |-> main.copy]
      BY <1>1, <2>1 DEF Tftp!elfsplitter
    <3> QED
      BY <2>1, <3>1 DEF UpTyped
  <2>2. CASE ~Tftp!IsElf(main.copy)
    <3>1. memory' = [memory EXCEPT !.vectors = <<>>]
      BY <1>1, <2>2 DEF Tftp!elfsplitter
    <3> QED
      BY <1>0, <2>2, <3>1 DEF UpTyped
  <2> QED
    BY <2>1, <2>2
<1>5. RebootRight'
  BY <1>1, <1>2, <1>4 DEF RebootRight, UpTyped, Tftp!IsElf
<1>6. ASSUME ~faults.stray, ~faults.raced PROVE CopyRight' /\ ImageRight'
  <2>1. CopyRight /\ ImageRight
    BY <1>6
  <2>2. CopyRight'
    BY <1>2 DEF CopyRight
  <2>3. PICK d \in 1 .. file.up : main.copy = Tftp!Content(d)
    BY <1>1, <2>1 DEF CopyRight
  <2>4. /\ d \in Ups /\ d \in Nat /\ file.up \in Nat /\ main.copy[1] = <<d, 1>>
        /\ main.copy # <<>>
    <3>1. d \in Ups /\ d \in Nat /\ file.up \in Nat
      BY <2>3, UpFacts DEF UpTyped, Ups
    <3>2. Tftp!Up(d).blocks \in Nat \ {0}
      BY <3>1, UpFacts
    <3>3. main.copy[1] = <<d, 1>> /\ main.copy # <<>>
      BY <2>3, <3>1, <3>2, FirstOf
    <3> QED
      BY <3>1, <3>3
  <2>5. Tftp!IsElf(main.copy) <=> Tftp!Up(d).elf
    BY <2>4 DEF Tftp!IsElf
  <2>6. CASE Tftp!Up(d).elf
    <3>1. memory'.image = Tftp!Content(d) /\ memory'.vectors = memory'.image
      BY <1>4, <2>3, <2>5, <2>6
    <3>2. ImageRight'
      BY <1>1, <1>2, <2>3, <2>6, <3>1, SamePlan DEF ImageRight
    <3> QED
      BY <2>2, <3>2
  <2>7. CASE ~Tftp!Up(d).elf
    <3>1. memory'.image = memory.image
      BY <1>4, <2>5, <2>7
    <3>2. ASSUME memory.image # <<>>
          PROVE  \E c \in 1 .. file.up : /\ memory.image = Tftp!Content(c) /\ Tftp!Up(c).elf
                                         /\ c # file.up
      <4>1. PICK c \in 1 .. file.up : /\ memory.image = Tftp!Content(c) /\ Tftp!Up(c).elf
                                      /\ \E e \in c .. file.up : main.copy = Tftp!Content(e)
        BY <1>1, <2>1, <3>2 DEF ImageRight
      <4>2. PICK e \in c .. file.up : main.copy = Tftp!Content(e)
        BY <4>1
      <4>3. e \in Ups /\ e \in Nat /\ Tftp!Up(e).blocks \in Nat \ {0}
        <5>1. file.up \in 0 .. Len(plan.ups) /\ Len(plan.ups) \in Nat
          BY UpFacts DEF UpTyped
        <5>2. e \in Ups /\ e \in Nat
          BY <5>1 DEF Ups
        <5> QED
          BY <5>2, UpFacts
      <4>4. main.copy[1] = <<e, 1>>
        BY <4>2, <4>3, FirstOf
      <4>5. e = d
        BY <2>4, <4>4
      <4>6. c # d
        BY <2>7, <4>1
      <4> QED
        BY <2>4, <4>1, <4>2, <4>5, <4>6
    <3>3. ImageRight'
      BY <1>1, <1>2, <3>1, <3>2, SamePlan DEF ImageRight
    <3> QED
      BY <2>2, <3>3
  <2> QED
    BY <2>4, <2>6, <2>7, UpFacts
<1> QED
  BY <1>1, <1>2, <1>3, <1>4, <1>5, <1>6, MainStep

(* The interrupt takes a packet: what all packets have in common.          *)
LEMMA TakeFacts ==
  ASSUME Tftp!EthTftpAssumption, UpInv, NEW m \in net, Tftp!Interrupt(m)
  PROVE  /\ UNCHANGED <<main, timer, memory, client, plan>> /\ main.at # "rebooted"
         /\ net' \subseteq net
         /\ faults' \in [lost : Nat, dup : Nat, stray : BOOLEAN, raced : BOOLEAN]
         /\ faults'.stray = (faults.stray \/ Tftp!Stray(m))
         /\ faults'.raced = (faults.raced \/ Tftp!Races(m))
         /\ Tftp!parse_tftp_packet(m)
         /\ m.up \in Ups /\ m.up \in Nat \ {0} /\ m.k \in Nat /\ m.block \in 0 .. BlockMod - 1
         /\ m.block = m.k % BlockMod /\ m.block <= m.k /\ m.up <= client.up
<1>1. /\ UNCHANGED <<main, timer, memory, client, plan>> /\ main.at # "rebooted"
      /\ Tftp!parse_tftp_packet(m)
  BY DEF Tftp!Interrupt
<1>2. PICK again \in {0, 1} :
        /\ faults' = [faults EXCEPT !.dup = @ + again, !.stray = @ \/ Tftp!Stray(m),
                                    !.raced = @ \/ Tftp!Races(m)]
        /\ net' = IF again = 1 THEN net ELSE net \ {m}
  BY DEF Tftp!Interrupt
<1>3. net' \subseteq net
  BY <1>2
<1>4. /\ faults' \in [lost : Nat, dup : Nat, stray : BOOLEAN, raced : BOOLEAN]
      /\ faults'.stray = (faults.stray \/ Tftp!Stray(m))
      /\ faults'.raced = (faults.raced \/ Tftp!Races(m))
  <2> DEFINE s == faults.stray \/ Tftp!Stray(m)
             r == faults.raced \/ Tftp!Races(m)
             d == faults.dup + again
  <2>1. s \in BOOLEAN /\ r \in BOOLEAN
    OBVIOUS
  <2>2. faults \in [lost : Nat, dup : Nat, stray : BOOLEAN, raced : BOOLEAN] /\ d \in Nat
    BY DEF UpInv, UpTyped
  <2>3. faults' = [faults EXCEPT !.dup = d, !.stray = s, !.raced = r]
    BY <1>2
  <2> HIDE DEF s, r, d
  <2>4. faults'.stray = s /\ faults'.raced = r
    BY <2>2, <2>3
  <2>5. faults' \in [lost : Nat, dup : Nat, stray : BOOLEAN, raced : BOOLEAN]
    BY <2>1, <2>2, <2>3
  <2> QED
    BY <2>4, <2>5 DEF s, r
<1>5. /\ m.up \in Ups /\ m.k \in Nat /\ m.block \in 0 .. BlockMod - 1
      /\ m.block = m.k % BlockMod /\ m.up <= client.up
  BY DEF UpInv, UpTyped, PacketsRight, TftpPackets
<1>6. m.up \in Nat \ {0} /\ m.block <= m.k
  <2>1. BlockMod \in Nat \ {0} /\ Len(plan.ups) \in Nat
    BY UpFacts DEF UpInv
  <2> QED
    BY <1>5, <2>1 DEF Ups
<1> QED
  BY <1>1, <1>3, <1>4, <1>5, <1>6

(* A read request is refused.                                              *)
LEMMA ReadStep ==
  ASSUME Tftp!EthTftpAssumption, UpInv, NEW m \in net, Tftp!Interrupt(m), m.op = "rrq"
  PROVE  UpInv'
<1> USE TakeFacts DEF UpInv
<1>1. /\ back' = back \cup {[type |-> "error", up |-> m.up, block |-> m.block]}
      /\ UNCHANGED <<file, starts>>
  BY DEF Tftp!parse_tftp_packet, Tftp!Reply
<1>2. /\ ~Tftp!Stray(m) /\ ~Tftp!Races(m) /\ Tftp!Up(m.up).op = "rrq" /\ Started' = Started
  BY <1>1 DEF Tftp!Stray, Tftp!Races, PacketsRight, Started
<1>3. UpTyped'
  BY <1>1, SamePlan DEF UpTyped, TftpAnswers
<1>4. ClientRight' /\ PacketsRight' /\ StartsRight'
  BY <1>1, <1>2, SamePlan DEF ClientRight, PacketsRight, StartsRight
<1>5. AnswersRight'
  BY <1>1, <1>2, SamePlan DEF AnswersRight, Accepts
<1>6. ASSUME ~faults'.stray PROVE FileRight' /\ ReachedRight'
  <2>1. FileRight /\ ReachedRight /\ m.up # file.up
    BY <1>2, <1>6 DEF StartsRight
  <2>2. FileRight'
    BY <1>1, <1>2, <2>1, SamePlan DEF FileRight, FirstBlocks
  <2>3. ReachedRight'
    BY <1>1, <1>2, <2>1, SamePlan DEF ReachedRight
  <2> QED
    BY <2>2, <2>3
<1>7. faults'.stray = faults.stray /\ faults'.raced = faults.raced
  BY <1>2 DEF UpTyped
<1> QED
  BY <1>1, <1>3, <1>4, <1>5, <1>6, <1>7, MainRests, UpNext

(* A write request begins a new file.                                      *)
LEMMA WriteStep ==
  ASSUME Tftp!EthTftpAssumption, UpInv, NEW m \in net, Tftp!Interrupt(m), m.op = "wrq"
  PROVE  UpInv'
<1> USE TakeFacts DEF UpInv
<1> DEFINE u == m.up
           answer == [type |-> IF Tftp!Up(u).octet THEN "ack" ELSE "error", up |-> u, block |-> m.block]
<1>1. /\ file' = Tftp!init_buffer_512(u) /\ starts' = Append(starts, u)
      /\ back' = back \cup {answer}
  BY DEF Tftp!parse_tftp_packet, Tftp!Reply
<1>2. m.block = 0 /\ Tftp!Up(u).op = "wrq"
  BY DEF PacketsRight
<1>3. /\ file'.up = u /\ file'.blocks = <<>> /\ file'.full /\ file'.last_block = 0 /\ ~file'.ready
      /\ file'.linux_boot = Tftp!Up(u).linux
  BY <1>1 DEF Tftp!init_buffer_512, Tftp!NoFile
<1>4. /\ starts' \in Seq(Ups) /\ starts' # <<>> /\ Last(starts') = u
      /\ Started' = Started \cup {u}
  <2>1. starts \in Seq(Ups)
    BY DEF UpTyped
  <2>2. Started' = Started \cup {u}
    BY <1>1, <2>1 DEF Started
  <2> QED
    BY <1>1, <2>1, <2>2 DEF Last
<1>5. answer.up = u /\ answer.block = 0 /\ (answer.type = "ack" <=> Accepts(u)) /\ answer \in TftpAnswers
  BY <1>2 DEF Accepts, TftpAnswers
<1> HIDE DEF answer, u
<1>6. UpTyped'
  <2>1. <<>> \in Blocks /\ u \in 0 .. Len(plan.ups) /\ Tftp!Up(u).linux \in BOOLEAN /\ 0 \in 0 .. BlockMod - 1
    BY UpFacts DEF Ups, Blocks, u
  <2>2. file' = [up |-> u, blocks |-> <<>>, full |-> TRUE, last_block |-> 0, ready |-> FALSE,
                 linux_boot |-> Tftp!Up(u).linux]
    BY <1>1 DEF Tftp!init_buffer_512, Tftp!NoFile
  <2>3. file' \in [up : 0 .. Len(plan.ups), blocks : Blocks, full : BOOLEAN,
                   last_block : 0 .. BlockMod - 1, ready : BOOLEAN, linux_boot : BOOLEAN]
    BY <2>1, <2>2
  <2> QED
    BY <1>1, <1>4, <1>5, <2>3, SamePlan DEF UpTyped
<1>7. /\ u \in Ups /\ u \in Nat \ {0} /\ u <= client.up /\ client.up \in Nat
  BY UpFacts DEF UpTyped, u
<1>8. ClientRight' /\ PacketsRight'
  BY <1>4, SamePlan DEF ClientRight, PacketsRight
<1>9. AnswersRight'
  BY <1>1, <1>4, <1>5, SamePlan DEF AnswersRight
<1>10. StartsRight'
  BY <1>2, <1>3, <1>4, <1>7, SamePlan DEF StartsRight
<1>11. RebootRight'
  BY DEF RebootRight
<1>12. ASSUME ~faults'.stray
       PROVE  /\ ~faults.stray /\ FileRight /\ ReachedRight
              /\ \/ u = client.up /\ u \notin Started
                 \/ u \in Started /\ file.up = u /\ file.last_block = 0
  <2>1. ~faults.stray /\ FileRight /\ ReachedRight /\ ~Tftp!Stray(m)
    BY <1>12
  <2>2. CASE u \in Started
    <3>1. file.up = u /\ file.blocks = <<>>
      BY <2>1, <2>2 DEF Tftp!Stray, Started, Tftp!Range, u
    <3>2. file.last_block \in Nat /\ <<>> = FirstBlocks(u, file.last_block)
      BY <2>1, <3>1, <1>7, UpFacts DEF FileRight, UpTyped
    <3>3. Len(FirstBlocks(u, file.last_block)) = file.last_block
      BY <1>7, <3>2, BlocksFacts
    <3> QED
      BY <2>1, <2>2, <3>1, <3>2, <3>3
  <2>3. CASE u \notin Started
    BY <1>2, <1>7, <2>1, <2>3 DEF ClientRight
  <2> QED
    BY <2>2, <2>3
<1>13. ASSUME ~faults'.stray
       PROVE  /\ \A v \in Started : v <= u
              /\ file.up # 0 => file.up <= u /\ (file.up < u <=> u \notin Started)
  <2>1. \A v \in Started : v \in Nat /\ v <= client.up
    <3>1. starts \in Seq(Ups) /\ \A v \in Ups : v \in Nat
      BY UpFacts DEF UpTyped, Ups
    <3>2. \A v \in Started : v \in Ups
      BY <3>1 DEF Started
    <3> QED
      BY <3>1, <3>2 DEF StartsRight
  <2>2. file.up # 0 => file.up \in Started /\ file.up \in Nat
    BY FileStarted
  <2>3. CASE u = client.up /\ u \notin Started
    BY <1>7, <2>1, <2>2, <2>3
  <2>4. CASE u \in Started /\ file.up = u
    BY <1>7, <1>12, <1>13, <2>4 DEF FileRight
  <2> QED
    BY <1>12, <1>13, <2>3, <2>4
<1>14. ASSUME ~faults'.stray PROVE FileRight'
  <2>1. Tftp!Up(u).blocks \in Nat \ {0} /\ FirstBlocks(u, 0) = <<>>
    BY <1>7, UpFacts, BlocksFacts DEF u
  <2> QED
    BY <1>3, <1>4, <1>7, <1>13, <1>14, <2>1, SamePlan DEF FileRight, FirstBlocks
<1>15. ASSUME ~faults'.stray PROVE ReachedRight'
  <2>1. CASE u = client.up /\ u \notin Started
    <3>1. client.k = 0
      BY <2>1 DEF ClientRight, UpTyped
    <3>2. \A b \in back : b.up # u
      BY <1>2, <2>1 DEF AnswersRight
    <3>3. client' = client /\ BlockMod \in Nat /\ \A b \in back' : b.up = u => b.block = 0
      BY <1>1, <1>5, <3>2, UpFacts
    <3> QED
      BY <1>3, <1>7, <2>1, <3>1, <3>3, SamePlan DEF ReachedRight
  <2>2. CASE file.up = u /\ file.last_block = 0
    <3>1. ReachedRight /\ FileRight /\ BlockMod \in Nat \ {0, 1} /\ Tftp!Up(u).blocks \in Nat \ {0}
      BY <1>7, <1>12, <1>15, UpFacts
    <3>2. file.full
      BY <1>7, <2>2, <3>1 DEF FileRight
    <3> QED
      BY <1>1, <1>3, <1>5, <1>7, <2>2, <3>1, <3>2, SamePlan DEF ReachedRight
  <2> QED
    BY <1>12, <1>15, <2>1, <2>2
<1>16. ASSUME ~faults'.stray, ~faults'.raced PROVE CopyRight' /\ ImageRight'
  <2>1. /\ CopyRight /\ ImageRight /\ main.at \notin {"clear", "alloc", "copy"} /\ ~faults.stray
    BY <1>12, <1>16 DEF Tftp!Races
  <2>2. file.up \in Nat /\ file.up <= u /\ (file.up = u \/ file.up < u)
    BY <1>7, <1>13, <1>16 DEF UpTyped
  <2>3. CopyRight'
    <3>1. ASSUME NEW c \in 1 .. file.up PROVE c \in 1 .. u
      BY <1>7, <2>2
    <3> QED
      BY <1>3, <2>1, <3>1, SamePlan DEF CopyRight
  <2>4. ImageRight'
    <3>1. ASSUME NEW c \in 1 .. file.up
          PROVE  /\ c \in 1 .. u /\ (c = u => c = file.up)
                 /\ \A d \in c .. file.up : d \in c .. u
      BY <1>7, <2>2
    <3> QED
      BY <1>3, <2>1, <3>1, SamePlan DEF ImageRight
  <2> QED
    BY <2>3, <2>4
<1> QED
  BY <1>6, <1>8, <1>9, <1>10, <1>11, <1>14, <1>15, <1>16, UpNext

(* A block of the file is saved, or dropped.                               *)
LEMMA SaveTyped ==
  ASSUME NEW f \in [up : Nat, blocks : Blocks, full : BOOLEAN, last_block : 0 .. BlockMod - 1,
                    ready : BOOLEAN, linux_boot : BOOLEAN],
         NEW m, m.block \in 0 .. BlockMod - 1, m.up \in Nat, m.k \in Nat
  PROVE  LET g == Tftp!Save(f, m)
             full == m.k < Tftp!Up(m.up).blocks
         IN /\ g \in [up : {f.up}, blocks : Blocks, full : BOOLEAN, last_block : 0 .. BlockMod - 1,
                      ready : BOOLEAN, linux_boot : {f.linux_boot}]
            /\ g.last_block = m.block /\ g.full = full /\ g.ready = (f.ready \/ ~full)
            /\ f.full => g.blocks = Append(f.blocks, <<m.up, m.k>>)
<1> DEFINE kept == IF f.full THEN f.blocks ELSE Tftp!Front(f.blocks)
           full == m.k < Tftp!Up(m.up).blocks
           blocks == Append(kept, <<m.up, m.k>>)
           ready == f.ready \/ ~full
           g == Tftp!Save(f, m)
<1>1. kept \in Blocks
  BY DEF Blocks, Tftp!Front
<1>2. blocks \in Blocks /\ (f.full => blocks = Append(f.blocks, <<m.up, m.k>>))
  <2> HIDE DEF kept
  <2>1. blocks \in Blocks
    BY <1>1 DEF Blocks
  <2> QED
    BY <2>1 DEF kept
<1>3. full \in BOOLEAN /\ ready \in BOOLEAN
  OBVIOUS
<1>4. g = [f EXCEPT !.last_block = m.block, !.blocks = blocks, !.full = full, !.ready = ready]
  BY DEF Tftp!Save
<1> HIDE DEF kept, blocks, ready, full, g
<1>5. /\ g.up = f.up /\ g.linux_boot = f.linux_boot /\ g.last_block = m.block /\ g.blocks = blocks
      /\ g.full = full /\ g.ready = ready
  BY <1>4
<1>6. g \in [up : {f.up}, blocks : Blocks, full : BOOLEAN, last_block : 0 .. BlockMod - 1,
            ready : BOOLEAN, linux_boot : {f.linux_boot}]
  BY <1>2, <1>3, <1>4
<1> QED
  BY <1>2, <1>5, <1>6 DEF full, ready, g

LEMMA DataStep ==
  ASSUME Tftp!EthTftpAssumption, UpInv, NEW m \in net, Tftp!Interrupt(m), m.op = "data"
  PROVE  UpInv'
<1> USE TakeFacts DEF UpInv
<1> DEFINE u == m.up
           n == Tftp!Up(m.up).blocks
           answer == [type |-> "ack", up |-> u, block |-> m.block]
<1>1. /\ back' = back \cup {answer} /\ starts' = starts
      /\ file' = IF file.up # 0 /\ m.block > file.last_block THEN Tftp!Save(file, m) ELSE file
  BY DEF Tftp!parse_tftp_packet, Tftp!Reply, Tftp!IsNew
<1>2. /\ u \in Started /\ Accepts(u) /\ m.k <= n /\ Tftp!Up(u).op = "wrq" /\ Started' = Started
      /\ n \in Nat \ {0}
  BY <1>1, UpFacts DEF PacketsRight, Started, Accepts
<1>3. answer.up = u /\ answer.block = m.block /\ answer.type = "ack" /\ answer \in TftpAnswers
  BY DEF TftpAnswers
<1>4. file \in [up : Nat, blocks : Blocks, full : BOOLEAN, last_block : 0 .. BlockMod - 1,
               ready : BOOLEAN, linux_boot : BOOLEAN] /\ file.up \in 0 .. Len(plan.ups)
  BY UpFacts DEF UpTyped
<1> HIDE DEF answer
<1>5. \/ file' = file /\ (file.up = 0 \/ m.block <= file.last_block)
      \/ /\ file.up # 0 /\ m.block > file.last_block
         /\ file' \in [up : {file.up}, blocks : Blocks, full : BOOLEAN, last_block : 0 .. BlockMod - 1,
                       ready : BOOLEAN, linux_boot : {file.linux_boot}]
         /\ file'.last_block = m.block /\ file'.full = (m.k < n)
         /\ file'.ready = (file.ready \/ ~(m.k < n))
         /\ file.full => file'.blocks = Append(file.blocks, <<u, m.k>>)
  <2>1. CASE file.up # 0 /\ m.block > file.last_block
    BY <1>1, <1>4, <2>1, SaveTyped
  <2>2. CASE ~(file.up # 0 /\ m.block > file.last_block)
    BY <1>1, <1>4, <2>2
  <2> QED
    BY <2>1, <2>2
<1>6. /\ file'.up = file.up /\ file'.linux_boot = file.linux_boot
      /\ file' \in [up : 0 .. Len(plan.ups), blocks : Blocks, full : BOOLEAN,
                   last_block : 0 .. BlockMod - 1, ready : BOOLEAN, linux_boot : BOOLEAN]
  BY <1>4, <1>5
<1>7. UpTyped'
  BY <1>1, <1>3, <1>6, SamePlan DEF UpTyped
<1>8. ClientRight' /\ PacketsRight'
  BY <1>2, SamePlan DEF ClientRight, PacketsRight
<1>9. AnswersRight'
  BY <1>1, <1>2, <1>3, SamePlan DEF AnswersRight
<1>10. StartsRight' /\ RebootRight'
  BY <1>1, <1>2, <1>6, SamePlan DEF StartsRight, RebootRight
<1>11. faults'.raced = faults.raced
  BY DEF Tftp!Races, UpTyped
<1>12. ASSUME ~faults'.stray
       PROVE  /\ ~faults.stray /\ FileRight /\ ReachedRight /\ file.up = u /\ u # 0
              /\ \/ file' = file /\ m.block <= file.last_block
                 \/ /\ m.k = file.last_block + 1 /\ m.block = m.k /\ file.full
                    /\ file'.last_block = m.k /\ file'.full = (m.k < n)
                    /\ file'.ready = ~(m.k < n)
                    /\ file'.blocks = Append(file.blocks, <<u, m.k>>)
  <2>1. ~faults.stray /\ ~Tftp!Stray(m)
    BY <1>12
  <2>2. FileRight /\ ReachedRight /\ file.up = u /\ u # 0
    BY <2>1 DEF Tftp!Stray
  <2>3. CASE m.block > file.last_block
    <3>1. BlockMod \in Nat /\ file.last_block \in 0 .. BlockMod - 1 /\ file.last_block # BlockMod - 1
      BY <1>4, <2>3, UpFacts
    <3>2. CASE file.up < client.up
      <4>1. ~file.full
        BY <1>2, <2>2, <3>1, <3>2 DEF ReachedRight
      <4>2. file.last_block >= n
        BY <1>2, <2>2, <3>1, <4>1 DEF FileRight
      <4> QED
        BY <1>2, <2>3, <3>1, <4>2
    <3>3. CASE file.up = client.up
      <4>1. m.k <= client.k
        BY <2>2, <3>3 DEF PacketsRight
      <4>2. client.k <= file.last_block + 1 /\ client.k \in Nat
        BY <2>2, <3>1, <3>3 DEF ReachedRight, UpTyped
      <4>3. m.k = file.last_block + 1 /\ m.block = m.k
        BY <2>3, <3>1, <4>1, <4>2
      <4>4. file.full
        BY <1>2, <2>2, <3>1, <4>3 DEF FileRight
      <4>5. ~file.ready
        BY <2>2, <4>4 DEF FileRight
      <4> QED
        BY <1>5, <2>1, <2>2, <2>3, <3>1, <4>3, <4>4, <4>5
    <3> QED
      BY <2>2, <3>2, <3>3 DEF UpTyped
  <2>4. CASE m.block <= file.last_block
    BY <1>4, <1>5, <2>1, <2>2, <2>4, UpFacts
  <2> QED
    BY <1>4, <2>3, <2>4, UpFacts
<1>13. ASSUME ~faults'.stray PROVE FileRight'
  <2>1. CASE file' = file
    BY <1>2, <1>12, <1>13, <2>1, SamePlan DEF FileRight, FirstBlocks
  <2>2. CASE file' # file
    <3>1. /\ m.k = file.last_block + 1 /\ file'.last_block = m.k /\ file'.full = (m.k < n)
          /\ file'.ready = ~(m.k < n) /\ file.up = u /\ FileRight /\ u # 0
          /\ file'.blocks = Append(FirstBlocks(u, file.last_block), <<u, file.last_block + 1>>)
      BY <1>12, <1>13, <2>2 DEF FileRight
    <3>2. file'.blocks = FirstBlocks(u, m.k) /\ FirstBlocks(u, m.k)' = FirstBlocks(u, m.k)
      <4>1. file.last_block \in Nat /\ u \in Nat
        BY <1>4
      <4> QED
        BY <3>1, <4>1, BlocksFacts DEF FirstBlocks
    <3>3. FirstBlocks(file.up, file.last_block)' = FirstBlocks(file'.up, file'.last_block)
      BY DEF FirstBlocks
    <3> HIDE DEF u, n
    <3> QED
      BY <1>2, <1>6, <3>1, <3>2, <3>3, SamePlan DEF FileRight, n, u
  <2> QED
    BY <2>1, <2>2
<1>14. ASSUME ~faults'.stray PROVE ReachedRight'
  <2>1. BlockMod \in Nat /\ file.last_block \in 0 .. BlockMod - 1 /\ client.k \in Nat
    BY <1>4, UpFacts DEF UpTyped
  <2>2. CASE file' = file /\ m.block <= file.last_block
    BY <1>1, <1>3, <1>12, <1>14, <2>2, SamePlan DEF ReachedRight
  <2>3. CASE m.k = file.last_block + 1 /\ file'.last_block = m.k /\ file.full /\ m.block = m.k
    <3>1. ReachedRight /\ file.up = u /\ u # 0 /\ file.last_block # BlockMod - 1
      BY <1>12, <1>14, <2>1, <2>3
    <3>2. \A b \in back' : b.up = u => b.block <= m.k
      BY <1>1, <1>3, <2>1, <2>3, <3>1 DEF ReachedRight, UpTyped, TftpAnswers
    <3>3. u = client.up => client.k <= m.k + 1
      BY <2>1, <2>3, <3>1 DEF ReachedRight
    <3>4. ~(file.up < client.up /\ Accepts(file.up))
      BY <2>1, <2>3, <3>1 DEF ReachedRight
    <3> QED
      BY <1>6, <2>3, <3>1, <3>2, <3>3, <3>4, SamePlan DEF ReachedRight
  <2> QED
    BY <1>12, <1>14, <2>2, <2>3
<1>15. ASSUME ~faults'.stray, ~faults'.raced PROVE CopyRight' /\ ImageRight'
  <2>1. CopyRight /\ ImageRight
    BY <1>11, <1>12, <1>15
  <2>2. file' = file \/ (file.full /\ file.up # 0)
    BY <1>12, <1>15
  <2>3. CopyRight'
    BY <1>6, <2>1, <2>2, SamePlan DEF CopyRight
  <2>4. ImageRight'
    BY <1>6, <2>1, SamePlan DEF ImageRight
  <2> QED
    BY <2>3, <2>4
<1> QED
  BY <1>7, <1>8, <1>9, <1>10, <1>13, <1>14, <1>15, UpNext

LEMMA UploadStep == ASSUME Tftp!EthTftpAssumption, UpInv, Tftp!Next PROVE UpInv'
<1>1. ASSUME NEW m \in net, Tftp!Interrupt(m) PROVE UpInv'
  <2>1. m.op \in {"wrq", "rrq", "data"}
    BY DEF UpInv, UpTyped, TftpPackets
  <2> QED
    BY <1>1, <2>1, ReadStep, WriteStep, DataStep
<1>2. ASSUME NEW b \in back, Tftp!ClientReceive(b) PROVE UpInv'
  BY <1>2, ClientStep
<1>3. ASSUME Tftp!process_tftp PROVE UpInv'
  BY <1>3, MoveStep, ClearStep, AllocateStep, SplitStep DEF Tftp!process_tftp
<1> QED
  BY <1>1, <1>2, <1>3, MoveStep, BeginStep, TransmitStep, LoseStep DEF Tftp!Next

LEMMA UploadPromises == ASSUME Tftp!EthTftpAssumption, UpInv PROVE UploadRight
<1> USE DEF UpInv
<1>1. ASSUME ~faults.stray, file.up # 0
      PROVE  /\ FileRight /\ ReachedRight /\ file.up \in Ups /\ file.up \in Nat \ {0}
             /\ Tftp!Up(file.up).blocks \in Nat /\ file.last_block \in 0 .. Tftp!Up(file.up).blocks
             /\ Len(file.blocks) = file.last_block
  <2>1. FileRight /\ ReachedRight /\ file.up \in Ups /\ file.up \in Nat \ {0}
    BY <1>1, FileStarted
  <2>2. Tftp!Up(file.up).blocks \in Nat
    BY <2>1, UpFacts
  <2>3. file.last_block \in 0 .. Tftp!Up(file.up).blocks
    BY <1>1, <2>1, <2>2, UpFacts DEF UpTyped, FileRight
  <2>4. Len(file.blocks) = file.last_block
    <3>1. file.blocks = FirstBlocks(file.up, file.last_block) /\ file.last_block \in Nat
      BY <1>1, <2>1, <2>2, <2>3 DEF FileRight
    <3>2. Len(FirstBlocks(file.up, file.last_block)) = file.last_block
      BY <2>1, <3>1, BlocksFacts
    <3> QED
      BY <3>1, <3>2
  <2> QED
    BY <2>1, <2>2, <2>3, <2>4
<1>2. Tftp!FileInOrder
  <2> SUFFICES ASSUME ~faults.stray, file.up # 0
               PROVE  Tftp!IsPrefix(file.blocks, Tftp!Content(file.up))
    BY DEF Tftp!FileInOrder
  <2> DEFINE u == file.up
             n == Tftp!Up(file.up).blocks
             k == file.last_block
  <2>1. /\ file.blocks = FirstBlocks(u, k) /\ Tftp!Content(u) = FirstBlocks(u, n)
        /\ u \in Nat /\ n \in Nat /\ k \in 0 .. n /\ k \in Nat
    BY <1>1, ContentIs DEF FileRight
  <2> HIDE DEF u, n, k
  <2>2. /\ Len(FirstBlocks(u, k)) = k /\ Len(FirstBlocks(u, n)) = n
        /\ SubSeq(FirstBlocks(u, n), 1, k) = FirstBlocks(u, k)
        /\ SubSeq(FirstBlocks(u, k), 1, k) = FirstBlocks(u, k)
    <3>1. Len(FirstBlocks(u, k)) = k /\ Len(FirstBlocks(u, n)) = n
      BY <2>1, BlocksFacts
    <3>2. \A i \in 0 .. n : SubSeq(FirstBlocks(u, n), 1, i) = FirstBlocks(u, i)
      BY <2>1, BlocksFacts
    <3>3. \A i \in 0 .. k : SubSeq(FirstBlocks(u, k), 1, i) = FirstBlocks(u, i)
      BY <2>1, BlocksFacts
    <3>4. k \in 0 .. k
      BY <2>1
    <3> QED
      BY <2>1, <3>1, <3>2, <3>3, <3>4
  <2> QED
    BY <2>1, <2>2 DEF Tftp!IsPrefix, u
<1>3. Tftp!AckedIsSaved
  <2> SUFFICES ASSUME ~faults.stray, client.up # 0, client.up = file.up,
                      Tftp!Up(client.up).blocks < BlockMod
               PROVE  client.k - 1 <= Len(file.blocks)
    BY DEF Tftp!AckedIsSaved
  <2>1. client.k \in Nat /\ BlockMod \in Nat
    BY UpFacts DEF UpTyped
  <2>2. /\ client.k <= Tftp!Up(file.up).blocks + 1
        /\ client.k <= file.last_block + 1 \/ file.last_block = BlockMod - 1
    BY <1>1 DEF ClientRight, ReachedRight
  <2> QED
    BY <1>1, <2>1, <2>2
<1>4. Tftp!BootsWhatItLoaded
  <2> SUFFICES ASSUME main.at = "rebooted", ~faults.stray, ~faults.raced,
                      Tftp!Last(starts) = memory.image[1][1]
               PROVE  LET u == memory.image[1][1]
                      IN /\ memory.image = Tftp!Content(u) /\ memory.vectors = Tftp!Content(u)
                         /\ main.linux = Tftp!Up(u).linux
    BY DEF Tftp!BootsWhatItLoaded
  <2>1. memory.image # <<>> /\ main.linux = file.linux_boot
    BY DEF RebootRight
  <2>2. PICK c \in 1 .. file.up : /\ memory.image = Tftp!Content(c)
                                  /\ c = file.up => memory.vectors = memory.image
    BY <2>1 DEF ImageRight
  <2>3. c \in Ups /\ c \in Nat /\ file.up # 0
    BY <2>2, UpFacts DEF UpTyped, Ups
  <2>4. memory.image[1] = <<c, 1>>
    <3>1. Tftp!Up(c).blocks \in Nat \ {0}
      BY <2>3, UpFacts
    <3>2. Tftp!Content(c)[1] = <<c, 1>>
      BY <2>3, <3>1, FirstOf
    <3> QED
      BY <2>2, <3>2
  <2>5. Tftp!Last(starts) = file.up
    BY <2>3 DEF StartsRight, Last, Tftp!Last
  <2>6. memory.image[1][1] = c /\ c = file.up
    BY <2>4, <2>5
  <2>7. memory.vectors = Tftp!Content(c) /\ memory.image = Tftp!Content(c)
    BY <2>2, <2>6
  <2>8. file.linux_boot = Tftp!Up(file.up).linux
    BY <2>3 DEF StartsRight
  <2> HIDE DEF UpInv
  <2> QED
    BY <2>1, <2>6, <2>7, <2>8
<1>5. Tftp!CopyFits
  <2> SUFFICES ASSUME main.at = "split", ~faults.stray, ~faults.raced
               PROVE  Len(main.copy) <= main.size
    BY DEF Tftp!CopyFits
  <2>1. main.size = Len(main.copy) /\ main.size \in Nat
    BY DEF CopyRight, UpTyped
  <2> QED
    BY <2>1
<1> QED
  BY <1>2, <1>3, <1>4, <1>5 DEF UploadRight

(* However packets are lost, repeated and reordered, as long as none comes *)
(* too late: the file is what the client sent, acknowledged blocks are in  *)
(* it, and if no request comes between the check and the copy, the upload  *)
(* that is started is the last one, complete, in memory that was large     *)
(* enough (tftp.c:78-230): for uploads of any number and length, however   *)
(* many packets are lost and come twice.                                   *)
THEOREM UploadsAreRight == MCSpec => []UploadRight
<1> USE EthernetAssumption
<1>1. MCInit => UpInv
  BY UploadInit DEF MCInit
<1>2. UpInv /\ [MCNext]_ethVars => UpInv'
  <2> SUFFICES ASSUME UpInv, [MCNext]_ethVars PROVE UpInv'
    OBVIOUS
  <2>1. CASE Tftp!Next
    BY <2>1, UploadStep
  <2>2. CASE UNCHANGED tftpVars
    <3>1. UNCHANGED <<file, main, timer, memory, client, plan, net, back, starts, faults>>
      BY <2>2 DEF tftpVars
    <3>2. UpTyped'
      BY <3>1, SamePlan DEF UpInv, UpTyped
    <3> QED
      BY <3>1, <3>2, UploadRests, MainRests, UpNext
  <2> QED
    BY <2>1, <2>2 DEF MCNext, ethVars
<1>3. UpInv => UploadRight
  BY UploadPromises
<1> QED
  BY <1>1, <1>2, <1>3, PTL DEF MCSpec

-----------------------------------------------------------------------------
(* The timers.                                                             *)
Whole == led_main.dur \div SecTicks    \* the seconds of the duration
Rest  == led_main.dur % SecTicks       \* and its part of a second
Carry == IF led_main.carry THEN 1 ELSE 0

TimerTyped ==
  /\ ms \in 0 .. SecTicks - 1
  /\ led_timer \in [seconds : Int, milliseconds : Nat]
  /\ led_main \in [at : {"compare", "seconds", "milliseconds", "earlier", "equal", "within"},
                   dur : Durations, carry : BOOLEAN]
  /\ led \in {0, 1}
  /\ age \in [set : Nat, read : 0 .. TicksPerRead]

(* Where the second may have turned while the timer is set.                *)
SetsRight ==
  /\ led_main.at = "compare" => age.set = age.read
  /\ led_main.at = "seconds" =>
       /\ age.read <= age.set /\ age.set <= TicksPerRead + age.read
       /\ Rest = 0 => ~led_main.carry
       /\ Rest # 0 /\ led_main.carry => ms >= SecTicks - Rest + age.read \/ ms < age.read
       /\ Rest # 0 /\ ~led_main.carry => age.read <= ms /\ ms < Rest + age.read
  /\ led_main.at = "milliseconds" =>
       /\ age.read <= age.set /\ age.set <= 2 * TicksPerRead + age.read
       /\ \/ led_timer.seconds = Whole + Carry /\ age.read <= ms
          \/ led_timer.seconds = Whole + Carry - 1 /\ ms < age.read
       /\ Rest = 0 => ~led_main.carry
       /\ Rest # 0 /\ ~led_main.carry =>
            led_timer.seconds = Whole /\ ms < Rest + age.set /\ ms < Rest + TicksPerRead + age.read
       /\ Rest # 0 /\ led_main.carry /\ led_timer.seconds = Whole + 1 =>
            \/ ms >= SecTicks - Rest
            \/ /\ ms < TicksPerRead + age.read /\ ms < age.set
               /\ age.set <= ms + 2 * TicksPerRead

(* The ticks left until the second of the timer is over, and the age at    *)
(* which it is; by how much the timer is set too late.                     *)
Left == (led_timer.seconds + 1) * SecTicks - ms
Ends == age.set + Left
Margin == Ends - SecTicks + led_timer.milliseconds - led_main.dur

(* The timer fires at its time; or up to a second early, if it is set to   *)
(* whole seconds; or not before its second is over, if the milliseconds    *)
(* are none.                                                               *)
PollsRight ==
  led_main.at \in {"earlier", "equal", "within"} =>
    /\ led_main.at = "earlier" => Left >= 1 - TicksPerRead - age.read
    /\ led_main.at # "earlier" => Left >= 1 - age.read
    /\ led_main.at = "within" => led_timer.seconds <= 0
    /\ \/ /\ Rest = 0 /\ led_timer.milliseconds < SecTicks
          /\ Margin >= -SecTicks /\ Margin <= 3 * TicksPerRead
       \/ /\ Rest # 0 /\ led_timer.milliseconds < SecTicks + Margin
          /\ Margin >= 0 /\ Margin <= 3 * TicksPerRead
       \/ /\ Rest # 0 /\ led_timer.milliseconds >= SecTicks
          /\ Ends > led_main.dur /\ 2 * Ends <= 2 * led_main.dur + 3 * SecTicks + 4 * TicksPerRead

TimerInv == TimerTyped /\ SetsRight /\ PollsRight

LEMMA TimerFacts ==
  ASSUME Timer!EthTimerAssumption, TimerTyped
  PROVE  /\ SecTicks \in Nat \ {0, 1} /\ TicksPerRead \in Nat /\ 4 * TicksPerRead <= SecTicks
         /\ led_main.dur \in Nat \ {0} /\ Longest \in Nat /\ led_main.dur <= Longest
         /\ Rest \in 0 .. SecTicks - 1 /\ (Rest = 0 \/ 2 * Rest = SecTicks)
         /\ Whole \in Nat /\ Whole * SecTicks \in Nat /\ led_main.dur = Whole * SecTicks + Rest
         /\ Carry \in {0, 1} /\ ms \in Nat /\ ms < SecTicks
         /\ led_timer.seconds \in Int /\ led_timer.milliseconds \in Nat
         /\ age.set \in Nat /\ age.read \in Nat /\ age.read <= TicksPerRead
         /\ Left \in Int /\ Ends \in Int /\ Margin \in Int
<1>1. /\ SecTicks \in Nat \ {0, 1} /\ TicksPerRead \in Nat /\ 4 * TicksPerRead <= SecTicks
      /\ led_main.dur \in Nat \ {0} /\ Longest \in Nat /\ led_main.dur <= Longest
      /\ Rest = 0 \/ 2 * Rest = SecTicks
  BY DEF Timer!EthTimerAssumption, TimerTyped, Rest
<1>2. /\ Carry \in {0, 1} /\ ms \in Nat /\ ms < SecTicks
      /\ led_timer.seconds \in Int /\ led_timer.milliseconds \in Nat
      /\ age.set \in Nat /\ age.read \in Nat /\ age.read <= TicksPerRead
  BY <1>1 DEF TimerTyped, Carry
<1>3. Rest \in 0 .. SecTicks - 1 /\ Whole \in Int /\ led_main.dur = SecTicks * Whole + Rest
  <2> DEFINE x == led_main.dur
  <2>1. x \in Int /\ SecTicks \in Nat \ {0}
    BY <1>1
  <2> HIDE DEF x
  <2>2. x \div SecTicks \in Int /\ x % SecTicks \in 0 .. SecTicks - 1
        /\ x = SecTicks * (x \div SecTicks) + (x % SecTicks)
    BY <2>1, DivMod
  <2> QED
    BY <2>2 DEF Rest, Whole, x
<1>4. Whole \in Nat
  BY <1>1, <1>3
<1>5. Whole * SecTicks \in Nat /\ SecTicks * Whole = Whole * SecTicks
  BY <1>1, <1>4
<1>6. Left \in Int
  BY <1>1, <1>2 DEF Left
<1>7. Ends \in Int
  BY <1>2, <1>6 DEF Ends
<1>8. Margin \in Int
  BY <1>1, <1>2, <1>7 DEF Margin
<1> QED
  BY <1>1, <1>2, <1>3, <1>4, <1>5, <1>6, <1>7, <1>8

LEMMA OneMore ==
  ASSUME NEW s \in Int, NEW m \in Int
  PROVE  (s + 1) * m = s * m + m /\ (s - 1) * m = s * m - m /\ s * m \in Int /\ 0 * m = 0
  BY Z3

(* So it does not fire too late, and its age is counted up to then.        *)
LEMMA InTime ==
  ASSUME Timer!EthTimerAssumption, TimerInv
  PROVE  Timer!NotLate /\ age.set + 1 <= Timer!MaxAge
<1> USE TimerFacts DEF TimerInv
<1>1. 2 * age.set < 2 * led_main.dur + 3 * SecTicks + 8 * TicksPerRead - 1
  <2>1. CASE led_main.at \in {"compare", "seconds", "milliseconds"}
    <3>1. age.set <= 3 * TicksPerRead
      BY <2>1 DEF SetsRight
    <3> QED
      BY <3>1
  <2>2. CASE led_main.at \in {"earlier", "equal", "within"}
    <3>1. Left >= 1 - 2 * TicksPerRead
      BY <2>2 DEF PollsRight
    <3>2. age.set = Ends - Left
      BY DEF Ends
    <3>3. 2 * Ends <= 2 * led_main.dur + 3 * SecTicks + 4 * TicksPerRead
      BY <2>2 DEF PollsRight, Margin
    <3> QED
      BY <3>1, <3>2, <3>3
  <2> QED
    BY <2>1, <2>2 DEF TimerTyped
<1>2. Timer!NotLate
  <2> DEFINE f == (3 * SecTicks) \div 2
  <2>1. f \in Int /\ 2 * f >= 3 * SecTicks - 1
    OBVIOUS
  <2> HIDE DEF f
  <2>2. age.set < led_main.dur + f + 4 * TicksPerRead
    BY <1>1, <2>1
  <2> QED
    BY <2>2 DEF Timer!NotLate, f
<1>3. age.set + 1 <= Timer!MaxAge
  BY <1>1 DEF Timer!MaxAge
<1> QED
  BY <1>2, <1>3

LEMMA TimerInit == ASSUME Timer!EthTimerAssumption, Timer!Init PROVE TimerInv
<1>1. SecTicks \in Nat \ {0, 1} /\ TicksPerRead \in Nat
  BY DEF Timer!EthTimerAssumption
<1>2. led_main.at = "compare" /\ age.set = 0 /\ age.read = 0
  BY DEF Timer!Init
<1>3. TimerTyped
  BY <1>1 DEF Timer!Init, TimerTyped
<1>4. SetsRight /\ PollsRight
  BY <1>2 DEF SetsRight, PollsRight
<1> QED
  BY <1>3, <1>4 DEF TimerInv

LEMMA SameDuration ==
  ASSUME led_main'.dur = led_main.dur, led_main'.carry = led_main.carry
  PROVE  Whole' = Whole /\ Rest' = Rest /\ Carry' = Carry
  BY DEF Whole, Rest, Carry

(* Whole numbers of seconds.                                               *)
LEMMA Seconds ==
  ASSUME NEW s \in Int, NEW m \in Nat \ {0}
  PROVE  /\ s * m \in Int /\ (s + 1) * m = s * m + m /\ (s + 2) * m = s * m + 2 * m
         /\ s <= -2 => (s + 1) * m <= -m
         /\ s <= -1 => (s + 1) * m <= 0
         /\ s <= 0 => (s + 1) * m <= m
         /\ s >= 0 => (s + 1) * m >= m
         /\ s = 0 => s * m = 0
         /\ s >= 1 => s * m >= m
  BY Z3

LEMMA LastSecond ==
  ASSUME Timer!EthTimerAssumption, TimerInv, led_main.at \in {"earlier", "equal", "within"}
  PROVE  led_timer.seconds >= -1
<1> USE TimerFacts DEF TimerInv
<1>1. Left >= 1 - 2 * TicksPerRead
  BY DEF PollsRight
<1>2. (led_timer.seconds + 1) * SecTicks >= 1 - 2 * TicksPerRead
  <2> DEFINE p == (led_timer.seconds + 1) * SecTicks
  <2>1. p \in Int /\ Left = p - ms
    BY Seconds DEF Left
  <2> HIDE DEF p
  <2>2. p >= 1 - 2 * TicksPerRead
    BY <1>1, <2>1
  <2> QED
    BY <2>2 DEF p
<1>3. led_timer.seconds <= -2 => (led_timer.seconds + 1) * SecTicks <= -SecTicks
  BY Seconds
<1> DEFINE p == (led_timer.seconds + 1) * SecTicks
<1> HIDE DEF p
<1>4. p \in Int /\ p >= 1 - 2 * TicksPerRead /\ (led_timer.seconds <= -2 => p <= -SecTicks)
  BY <1>2, <1>3, Seconds DEF p
<1> QED
  BY <1>4

LEMMA TickStep ==
  ASSUME Timer!EthTimerAssumption, TimerInv, Timer!timer_interrupt PROVE TimerInv'
<1> USE TimerFacts
<1>1. /\ UNCHANGED <<led_main, led>> /\ age.read < TicksPerRead /\ ms' = (ms + 1) % SecTicks
      /\ led_timer' = IF ms' = 0 /\ led_timer.seconds > -5
                      THEN [led_timer EXCEPT !.seconds = @ - 1] ELSE led_timer
      /\ age' = [set |-> Timer!Min({age.set + 1, Timer!MaxAge}), read |-> age.read + 1]
  BY DEF Timer!timer_interrupt
<1>2. TimerTyped /\ Whole' = Whole /\ Rest' = Rest /\ Carry' = Carry
  BY <1>1, SameDuration DEF TimerInv
<1>3. age'.set = age.set + 1 /\ age'.read = age.read + 1
  <2>1. Timer!Min({age.set + 1, Timer!MaxAge}) = age.set + 1
    <3> DEFINE a == age.set + 1
    <3>1. a \in Int /\ Timer!MaxAge \in Int /\ a <= Timer!MaxAge
      BY <1>2, InTime DEF Timer!MaxAge
    <3> HIDE DEF a
    <3> QED
      BY <3>1 DEF Timer!Min, a
  <2> QED
    BY <1>1, <2>1
<1>4. \/ ms + 1 < SecTicks /\ ms' = ms + 1
      \/ ms + 1 = SecTicks /\ ms' = 0
  <2>1. CASE ms + 1 < SecTicks
    <3>1. ms + 1 = 0 * SecTicks + (ms + 1) /\ ms + 1 \in 0 .. SecTicks - 1
      BY <1>2, <2>1
    <3>2. (ms + 1) % SecTicks = ms + 1
      BY <1>2, <3>1, DivModIs
    <3> QED
      BY <1>1, <2>1, <3>2
  <2>2. CASE ms + 1 = SecTicks
    <3>1. SecTicks % SecTicks = 0
      BY <1>2
    <3> QED
      BY <1>1, <2>2, <3>1
  <2> QED
    BY <1>2, <2>1, <2>2
<1>5. /\ led_timer' \in [seconds : Int, milliseconds : Nat]
      /\ led_timer'.milliseconds = led_timer.milliseconds
      /\ led_timer'.seconds = IF ms' = 0 /\ led_timer.seconds > -5 THEN led_timer.seconds - 1
                              ELSE led_timer.seconds
  BY <1>1, <1>2 DEF TimerTyped
<1>6. TimerTyped'
  <2>1. age' \in [set : Nat, read : 0 .. TicksPerRead]
    <3>1. age.set + 1 \in Nat /\ age.read + 1 \in 0 .. TicksPerRead
      BY <1>1, <1>2
    <3> QED
      BY <1>1, <1>3, <3>1
  <2> QED
    BY <1>1, <1>2, <1>4, <1>5, <2>1 DEF TimerTyped
<1>7. led_timer.seconds > -5 => Left' = Left - 1
  <2> DEFINE s == led_timer.seconds
             t == led_timer'.seconds
             x == ms
             y == ms'
  <2>1. s \in Int /\ x \in Nat /\ SecTicks \in Nat \ {0}
    BY <1>2
  <2>2. s > -5 => \/ t = s /\ y = x + 1
                  \/ t = s - 1 /\ y = 0 /\ x + 1 = SecTicks
    BY <1>2, <1>4, <1>5
  <2>3. Left = (s + 1) * SecTicks - x /\ Left' = (t + 1) * SecTicks - y
    BY DEF Left
  <2> HIDE DEF s, t, x, y
  <2>4. (s + 1) * SecTicks = s * SecTicks + SecTicks /\ s * SecTicks \in Int
    BY <2>1, Seconds
  <2>5. (s - 1) + 1 = s
    BY <2>1
  <2> QED
    BY <2>1, <2>2, <2>3, <2>4, <2>5 DEF s
<1>8. SetsRight'
  <2>1. CASE led_main.at = "compare"
    BY <1>1, <1>3, <2>1 DEF TimerInv, SetsRight
  <2>2. CASE led_main.at = "seconds"
    <3>1. /\ age.read <= age.set /\ age.set <= TicksPerRead + age.read
          /\ Rest = 0 => ~led_main.carry
          /\ Rest # 0 /\ led_main.carry => ms >= SecTicks - Rest + age.read \/ ms < age.read
          /\ Rest # 0 /\ ~led_main.carry => age.read <= ms /\ ms < Rest + age.read
      BY <2>2 DEF TimerInv, SetsRight
    <3>2. /\ age'.read <= age'.set /\ age'.set <= TicksPerRead + age'.read
          /\ Rest # 0 /\ led_main.carry => ms' >= SecTicks - Rest + age'.read \/ ms' < age'.read
          /\ Rest # 0 /\ ~led_main.carry => age'.read <= ms' /\ ms' < Rest + age'.read
      <4>1. age'.read <= age'.set /\ age'.set <= TicksPerRead + age'.read
        BY <1>2, <1>3, <3>1
      <4>2. ASSUME Rest # 0, led_main.carry
            PROVE  ms' >= SecTicks - Rest + age'.read \/ ms' < age'.read
        <5>1. ms' = 0 \/ ms' = ms + 1
          BY <1>4
        <5> QED
          BY <1>2, <1>3, <3>1, <4>2, <5>1
      <4>3. ASSUME Rest # 0, ~led_main.carry PROVE age'.read <= ms' /\ ms' < Rest + age'.read
        <5>1. ms + 1 < SecTicks
          BY <1>1, <1>2, <3>1, <4>3
        <5> QED
          BY <1>2, <1>3, <1>4, <3>1, <4>3, <5>1
      <4> QED
        BY <4>1, <4>2, <4>3
    <3> QED
      BY <1>1, <1>2, <2>2, <3>1, <3>2 DEF SetsRight
  <2>3. CASE led_main.at = "milliseconds"
    <3>1. /\ age.read <= age.set /\ age.set <= 2 * TicksPerRead + age.read
          /\ \/ led_timer.seconds = Whole + Carry /\ age.read <= ms
             \/ led_timer.seconds = Whole + Carry - 1 /\ ms < age.read
          /\ Rest = 0 => ~led_main.carry
          /\ Rest # 0 /\ ~led_main.carry =>
               led_timer.seconds = Whole /\ ms < Rest + age.set /\ ms < Rest + TicksPerRead + age.read
          /\ Rest # 0 /\ led_main.carry /\ led_timer.seconds = Whole + 1 =>
               \/ ms >= SecTicks - Rest
               \/ /\ ms < TicksPerRead + age.read /\ ms < age.set
                  /\ age.set <= ms + 2 * TicksPerRead
      BY <2>3 DEF TimerInv, SetsRight
    <3>2. led_timer'.seconds = IF ms' = 0 THEN led_timer.seconds - 1 ELSE led_timer.seconds
      BY <1>2, <1>5, <3>1
    <3>3. \/ led_timer'.seconds = Whole + Carry /\ age'.read <= ms'
          \/ led_timer'.seconds = Whole + Carry - 1 /\ ms' < age'.read
      BY <1>1, <1>2, <1>3, <1>4, <3>1, <3>2
    <3>4. Rest # 0 /\ ~led_main.carry =>
            /\ led_timer'.seconds = Whole /\ ms' < Rest + age'.set
            /\ ms' < Rest + TicksPerRead + age'.read
      <4> SUFFICES ASSUME Rest # 0, ~led_main.carry
                   PROVE  /\ led_timer'.seconds = Whole /\ ms' < Rest + age'.set
                          /\ ms' < Rest + TicksPerRead + age'.read
        OBVIOUS
      <4>1. ms + 1 < SecTicks
        BY <1>1, <1>2, <3>1
      <4> QED
        BY <1>2, <1>3, <1>4, <3>1, <3>2, <4>1
    <3>5. Rest # 0 /\ led_main.carry /\ led_timer'.seconds = Whole + 1 =>
             \/ ms' >= SecTicks - Rest
             \/ /\ ms' < TicksPerRead + age'.read /\ ms' < age'.set
                /\ age'.set <= ms' + 2 * TicksPerRead
      <4> SUFFICES ASSUME Rest # 0, led_main.carry, led_timer'.seconds = Whole + 1
                   PROVE  \/ ms' >= SecTicks - Rest
                          \/ /\ ms' < TicksPerRead + age'.read /\ ms' < age'.set
                             /\ age'.set <= ms' + 2 * TicksPerRead
        OBVIOUS
      <4>1. Carry = 1 /\ led_timer.seconds = Whole + 1 /\ ms' = ms + 1
        BY <1>2, <1>4, <3>1, <3>2 DEF Carry
      <4>2. CASE ms >= SecTicks - Rest
        BY <1>2, <4>1, <4>2
      <4>3. CASE ms < TicksPerRead + age.read /\ ms < age.set /\ age.set <= ms + 2 * TicksPerRead
        <5>1. ms + 1 < TicksPerRead + (age.read + 1) /\ ms + 1 < age.set + 1
          BY <1>2, <4>3
        <5>2. age.set + 1 <= (ms + 1) + 2 * TicksPerRead
          BY <1>2, <4>3
        <5> QED
          BY <1>3, <4>1, <5>1, <5>2
      <4> QED
        BY <3>1, <4>1, <4>2, <4>3
    <3>6. age'.read <= age'.set /\ age'.set <= 2 * TicksPerRead + age'.read
      BY <1>2, <1>3, <3>1
    <3> QED
      BY <1>1, <1>2, <2>3, <3>1, <3>3, <3>4, <3>5, <3>6 DEF SetsRight
  <2>4. CASE led_main.at \notin {"compare", "seconds", "milliseconds"}
    BY <1>1, <2>4 DEF SetsRight
  <2> QED
    BY <2>1, <2>2, <2>3, <2>4
<1>9. PollsRight'
  <2> SUFFICES ASSUME led_main.at \in {"earlier", "equal", "within"} PROVE PollsRight'
    BY <1>1 DEF PollsRight
  <2>1. PollsRight /\ led_timer.seconds >= -1 /\ Left' = Left - 1
    BY <1>2, <1>7, LastSecond DEF TimerInv
  <2>2. Ends' = Ends
    BY <1>2, <1>3, <2>1 DEF Ends
  <2>3. Margin' = Margin
    BY <1>1, <1>5, <2>2 DEF Margin
  <2>4. led_timer'.seconds <= led_timer.seconds
    BY <1>2, <1>5
  <2> QED
    BY <1>1, <1>2, <1>3, <1>5, <2>1, <2>2, <2>3, <2>4 DEF PollsRight
<1> QED
  BY <1>6, <1>8, <1>9 DEF TimerInv

(* A step of the main loop that is not the last one.                       *)
LEMMA ReadFacts ==
  ASSUME Timer!EthTimerAssumption, TimerInv, NEW from, NEW to, Timer!Reads(from, to),
         to \in {"compare", "seconds", "milliseconds", "earlier", "equal", "within"}
  PROVE  /\ led_main.at = from /\ led_main'.at = to /\ ms' = ms
         /\ led_main'.dur = led_main.dur /\ led_main'.carry = led_main.carry
         /\ Whole' = Whole /\ Rest' = Rest /\ Carry' = Carry
         /\ age'.set = age.set /\ age'.read = 0
         /\ led_main' \in [at : {"compare", "seconds", "milliseconds", "earlier", "equal", "within"},
                           dur : Durations, carry : BOOLEAN]
         /\ age' \in [set : Nat, read : 0 .. TicksPerRead]
<1>1. TicksPerRead \in Nat /\ TimerTyped
  BY TimerFacts DEF TimerInv
<1>2. /\ led_main.at = from /\ led_main' = [led_main EXCEPT !.at = to]
      /\ age' = [age EXCEPT !.read = 0] /\ ms' = ms
  BY DEF Timer!Reads
<1>3. led_main'.at = to /\ led_main'.dur = led_main.dur /\ led_main'.carry = led_main.carry
  BY <1>1, <1>2 DEF TimerTyped
<1>4. age'.set = age.set /\ age'.read = 0 /\ age' \in [set : Nat, read : 0 .. TicksPerRead]
  BY <1>1, <1>2 DEF TimerTyped
<1>5. led_main' \in [at : {"compare", "seconds", "milliseconds", "earlier", "equal", "within"},
                    dur : Durations, carry : BOOLEAN]
  BY <1>1, <1>2 DEF TimerTyped
<1> QED
  BY <1>2, <1>3, <1>4, <1>5, SameDuration

LEMMA CompareStep ==
  ASSUME Timer!EthTimerAssumption, TimerInv, Timer!SetCompare PROVE TimerInv'
<1>1. /\ led_main.at = "compare" /\ UNCHANGED <<ms, led_timer, led>>
      /\ led_main' = [led_main EXCEPT !.at = "seconds", !.carry = Timer!Carries(led_main.dur)]
      /\ age' = [age EXCEPT !.read = 0]
  BY DEF Timer!SetCompare
<1>2. Timer!Carries(led_main.dur) = (ms >= SecTicks - Rest)
  BY DEF Timer!Carries, Rest
<1> DEFINE c == ms >= SecTicks - Rest
<1>3. c \in BOOLEAN /\ TimerTyped
  BY DEF TimerInv
<1>4. led_main' = [led_main EXCEPT !.at = "seconds", !.carry = c]
  BY <1>1, <1>2
<1> HIDE DEF c
<1>5. led_main'.at = "seconds" /\ led_main'.dur = led_main.dur /\ led_main'.carry = c
  BY <1>3, <1>4 DEF TimerTyped
<1>6. led_main' \in [at : {"compare", "seconds", "milliseconds", "earlier", "equal", "within"},
                    dur : Durations, carry : BOOLEAN]
  BY <1>3, <1>4 DEF TimerTyped
<1>7. age'.set = age.set /\ age'.read = 0 /\ age' \in [set : Nat, read : 0 .. TicksPerRead]
  BY <1>1, <1>3, TimerFacts DEF TimerTyped
<1>8. TimerTyped'
  BY <1>1, <1>3, <1>6, <1>7 DEF TimerTyped
<1>9. Rest' = Rest
  BY <1>5 DEF Rest
<1>10. /\ 0 <= age.set /\ age.set <= TicksPerRead /\ (Rest = 0 => ~c)
       /\ Rest # 0 /\ c => ms >= SecTicks - Rest
       /\ Rest # 0 /\ ~c => 0 <= ms /\ ms < Rest
  BY <1>1, <1>3, TimerFacts DEF TimerInv, SetsRight, c
<1>11. SetsRight'
  BY <1>1, <1>3, <1>5, <1>7, <1>9, <1>10, TimerFacts DEF SetsRight
<1>12. PollsRight'
  BY <1>5 DEF PollsRight
<1> QED
  BY <1>8, <1>11, <1>12 DEF TimerInv

LEMMA SecondsStep ==
  ASSUME Timer!EthTimerAssumption, TimerInv, Timer!SetSeconds PROVE TimerInv'
<1> USE TimerFacts
<1>1. /\ Timer!Reads("seconds", "milliseconds") /\ led' = led
      /\ led_timer' = [led_timer EXCEPT !.seconds = Whole + Carry]
  BY DEF Timer!SetSeconds, Whole, Carry
<1>2. TimerTyped
  BY DEF TimerInv
<1>3. /\ led_main.at = "seconds" /\ led_main'.at = "milliseconds" /\ ms' = ms
      /\ Whole' = Whole /\ Rest' = Rest /\ Carry' = Carry /\ led_main'.carry = led_main.carry
      /\ age'.set = age.set /\ age'.read = 0
      /\ led_main' \in [at : {"compare", "seconds", "milliseconds", "earlier", "equal", "within"},
                        dur : Durations, carry : BOOLEAN]
      /\ age' \in [set : Nat, read : 0 .. TicksPerRead]
  BY <1>1, ReadFacts
<1>4. led_timer' \in [seconds : Int, milliseconds : Nat] /\ led_timer'.seconds = Whole + Carry
  BY <1>1, <1>2 DEF TimerTyped
<1>5. TimerTyped'
  BY <1>1, <1>2, <1>3, <1>4 DEF TimerTyped
<1>6. /\ age.read <= age.set /\ age.set <= TicksPerRead + age.read
      /\ Rest = 0 => ~led_main.carry
      /\ Rest # 0 /\ led_main.carry => ms >= SecTicks - Rest + age.read \/ ms < age.read
      /\ Rest # 0 /\ ~led_main.carry => age.read <= ms /\ ms < Rest + age.read
  BY <1>3 DEF TimerInv, SetsRight
<1>7. 0 <= age.set /\ age.set <= 2 * TicksPerRead /\ 0 <= ms
  BY <1>2, <1>6
<1>8. Rest # 0 /\ ~led_main.carry =>
         Whole + Carry = Whole /\ ms < Rest + age.set /\ ms < Rest + TicksPerRead
  BY <1>2, <1>6 DEF Carry
<1>9. Rest # 0 /\ led_main.carry =>
         \/ ms >= SecTicks - Rest
         \/ ms < TicksPerRead /\ ms < age.set /\ age.set <= ms + 2 * TicksPerRead
  BY <1>2, <1>6
<1>10. SetsRight'
  BY <1>2, <1>3, <1>4, <1>6, <1>7, <1>8, <1>9 DEF SetsRight
<1>11. PollsRight'
  BY <1>3 DEF PollsRight
<1> QED
  BY <1>5, <1>10, <1>11 DEF TimerInv

(* What the milliseconds become: a negative number is a large one.         *)
LEMMA StoredMilliseconds ==
  ASSUME NEW x \in Int, NEW s \in Nat \ {0}, x >= -s, x < 2 * s
  PROVE  x % (16 * s) = IF x >= 0 THEN x ELSE x + 16 * s
<1>1. CASE x >= 0
  <2>1. x = 0 * (16 * s) + x /\ x \in 0 .. 16 * s - 1 /\ 16 * s \in Nat \ {0}
    BY <1>1
  <2> QED
    BY <1>1, <2>1, DivModIs
<1>2. CASE x < 0
  <2>1. x = -1 * (16 * s) + (x + 16 * s) /\ x + 16 * s \in 0 .. 16 * s - 1 /\ 16 * s \in Nat \ {0}
    BY <1>2
  <2> QED
    BY <1>2, <2>1, DivModIs
<1> QED
  BY <1>1, <1>2

LEMMA MillisecondsStep ==
  ASSUME Timer!EthTimerAssumption, TimerInv, Timer!SetMilliseconds PROVE TimerInv'
<1> USE TimerFacts
<1> DEFINE x == ms + Rest - (IF led_main.carry THEN SecTicks ELSE 0)
           p == Whole * SecTicks
<1>1. /\ Timer!Reads("milliseconds", "earlier") /\ led' = led
      /\ led_timer' = [led_timer EXCEPT !.milliseconds = x % (16 * SecTicks)]
  BY DEF Timer!SetMilliseconds, Timer!Wrap, Rest
<1>2. TimerTyped
  BY DEF TimerInv
<1>3. /\ led_main.at = "milliseconds" /\ led_main'.at = "earlier" /\ ms' = ms
      /\ led_main'.dur = led_main.dur /\ Rest' = Rest /\ age'.set = age.set /\ age'.read = 0
      /\ led_main' \in [at : {"compare", "seconds", "milliseconds", "earlier", "equal", "within"},
                        dur : Durations, carry : BOOLEAN]
      /\ age' \in [set : Nat, read : 0 .. TicksPerRead]
  BY <1>1, ReadFacts
<1>4. x \in Int /\ x >= -SecTicks /\ x < 2 * SecTicks /\ x = ms + Rest - Carry * SecTicks
      /\ Carry * SecTicks = (IF led_main.carry THEN SecTicks ELSE 0)
  <2>1. Carry * SecTicks = (IF led_main.carry THEN SecTicks ELSE 0)
    BY <1>2 DEF Carry
  <2> QED
    BY <1>2, <2>1
<1> HIDE DEF x
<1>5. x % (16 * SecTicks) = IF x >= 0 THEN x ELSE x + 16 * SecTicks
  BY <1>2, <1>4, StoredMilliseconds
<1>6. /\ led_timer' \in [seconds : Int, milliseconds : Nat]
      /\ led_timer'.seconds = led_timer.seconds
      /\ led_timer'.milliseconds = IF x >= 0 THEN x ELSE x + 16 * SecTicks
  <2> DEFINE m == IF x >= 0 THEN x ELSE x + 16 * SecTicks
  <2>1. m \in Nat
    BY <1>2, <1>4
  <2>2. led_timer' = [led_timer EXCEPT !.milliseconds = m]
    BY <1>1, <1>5
  <2> HIDE DEF m
  <2>3. led_timer' \in [seconds : Int, milliseconds : Nat]
        /\ led_timer'.seconds = led_timer.seconds /\ led_timer'.milliseconds = m
    BY <1>2, <2>1, <2>2 DEF TimerTyped
  <2> QED
    BY <2>3 DEF m
<1>7. TimerTyped'
  BY <1>1, <1>2, <1>3, <1>6 DEF TimerTyped
<1>8. SetsRight'
  BY <1>3 DEF SetsRight
<1>9. /\ age.read <= age.set /\ age.set <= 2 * TicksPerRead + age.read
      /\ \/ led_timer.seconds = Whole + Carry /\ age.read <= ms
         \/ led_timer.seconds = Whole + Carry - 1 /\ ms < age.read
      /\ Rest = 0 => ~led_main.carry
      /\ Rest # 0 /\ ~led_main.carry =>
           led_timer.seconds = Whole /\ ms < Rest + age.set /\ ms < Rest + TicksPerRead + age.read
      /\ Rest # 0 /\ led_main.carry /\ led_timer.seconds = Whole + 1 =>
           \/ ms >= SecTicks - Rest
           \/ /\ ms < TicksPerRead + age.read /\ ms < age.set
              /\ age.set <= ms + 2 * TicksPerRead
  BY <1>3 DEF TimerInv, SetsRight
<1>10. /\ p \in Nat /\ led_main.dur = p + Rest
       /\ Whole >= 1 => p >= SecTicks
       /\ Whole = 0 => p = 0
       /\ (Whole + 1) * SecTicks = p + SecTicks /\ (Whole + 2) * SecTicks = p + 2 * SecTicks
  <2>1. p \in Nat /\ led_main.dur = p + Rest /\ Whole \in Int /\ SecTicks \in Nat \ {0}
    BY <1>2
  <2>2. /\ (Whole + 1) * SecTicks = p + SecTicks /\ (Whole + 2) * SecTicks = p + 2 * SecTicks
        /\ Whole = 0 => p = 0
        /\ Whole >= 1 => p >= SecTicks
    BY <2>1, Seconds
  <2> QED
    BY <2>1, <2>2
<1> HIDE DEF p
<1>11. /\ Left' = (led_timer.seconds + 1) * SecTicks - ms
       /\ Ends' = age.set + Left'
       /\ Margin' = Ends' - SecTicks + led_timer'.milliseconds - led_main.dur
  BY <1>3, <1>6 DEF Left, Ends, Margin
<1>12. CASE Rest = 0
  <2>1. Carry = 0 /\ x = ms /\ Whole >= 1 /\ p >= SecTicks /\ led_main.dur = p
    BY <1>2, <1>4, <1>9, <1>10, <1>12 DEF Carry
  <2>2. Left' = p + SecTicks - ms \/ Left' = p - ms
    <3>1. led_timer.seconds + 1 = Whole + 1 \/ led_timer.seconds + 1 = Whole
      BY <1>2, <1>9, <2>1
    <3>2. CASE led_timer.seconds + 1 = Whole + 1
      BY <1>2, <1>10, <1>11, <3>2
    <3>3. CASE led_timer.seconds + 1 = Whole
      BY <1>11, <3>3 DEF p
    <3> QED
      BY <3>1, <3>2, <3>3
  <2>3. Left' >= 1 - TicksPerRead - 0
    BY <1>2, <1>10, <2>1, <2>2
  <2>4. Margin' = age.set \/ Margin' = age.set - SecTicks
    BY <1>2, <1>6, <1>10, <1>11, <2>1, <2>2
  <2>5. Margin' >= -SecTicks /\ Margin' <= 3 * TicksPerRead /\ led_timer'.milliseconds < SecTicks
    BY <1>2, <1>6, <1>9, <2>1, <2>4
  <2> QED
    BY <1>3, <1>7, <1>8, <1>12, <2>3, <2>5 DEF PollsRight, TimerInv
<1>13. CASE Rest # 0 /\ ~led_main.carry
  <2>1. Carry = 0 /\ x = ms + Rest /\ led_timer.seconds + 1 = Whole + 1
    BY <1>2, <1>4, <1>9, <1>13 DEF Carry
  <2>2. Left' = p + SecTicks - ms
    BY <1>2, <1>10, <1>11, <2>1
  <2>3. Left' >= 1 - TicksPerRead - 0
    BY <1>2, <1>10, <2>2
  <2>4. Margin' = age.set
    <3>1. led_timer'.milliseconds = ms + Rest
      BY <1>2, <1>6, <2>1
    <3>2. Ends' = age.set + (p + SecTicks - ms)
      BY <1>11, <2>2
    <3>3. Margin' = (age.set + (p + SecTicks - ms)) - SecTicks + (ms + Rest) - (p + Rest)
      BY <1>10, <1>11, <3>1, <3>2
    <3> QED
      BY <1>2, <1>10, <3>3
  <2>5. Margin' >= 0 /\ Margin' <= 3 * TicksPerRead /\ led_timer'.milliseconds < SecTicks + Margin'
    BY <1>2, <1>6, <1>9, <1>13, <2>1, <2>4
  <2> QED
    BY <1>3, <1>7, <1>8, <1>13, <2>3, <2>5 DEF PollsRight, TimerInv
<1>14. CASE Rest # 0 /\ led_main.carry /\ led_timer.seconds = Whole + 1
  <2>1. x = ms + Rest - SecTicks /\ Left' = p + 2 * SecTicks - ms
    <3>1. led_timer.seconds + 1 = Whole + 2
      BY <1>2, <1>14
    <3> QED
      BY <1>2, <1>4, <1>10, <1>11, <1>14, <3>1
  <2>2. Left' >= 1 - TicksPerRead - 0
    BY <1>2, <1>10, <2>1
  <2>3. CASE ms >= SecTicks - Rest
    <3>1. led_timer'.milliseconds = x /\ x < SecTicks
      BY <1>2, <1>6, <2>1, <2>3
    <3>2. Margin' = age.set
      BY <1>2, <1>10, <1>11, <2>1, <3>1
    <3>3. Margin' >= 0 /\ Margin' <= 3 * TicksPerRead /\ led_timer'.milliseconds < SecTicks + Margin'
      BY <1>2, <1>6, <1>9, <3>1, <3>2
    <3> QED
      BY <1>3, <1>7, <1>8, <1>14, <2>2, <3>3 DEF PollsRight, TimerInv
  <2>4. CASE ms < SecTicks - Rest
    <3>1. /\ led_timer'.milliseconds = x + 16 * SecTicks
          /\ ms < age.set /\ age.set <= ms + 2 * TicksPerRead
      BY <1>2, <1>6, <1>9, <1>14, <2>1, <2>4
    <3>2. led_timer'.milliseconds >= SecTicks
      BY <1>2, <1>4, <3>1
    <3>3. Ends' > led_main.dur /\ 2 * Ends' <= 2 * led_main.dur + 3 * SecTicks + 4 * TicksPerRead
      BY <1>2, <1>10, <1>11, <1>14, <2>1, <3>1
    <3> QED
      BY <1>3, <1>7, <1>8, <1>14, <2>2, <3>2, <3>3 DEF PollsRight, TimerInv
  <2> QED
    BY <1>2, <2>3, <2>4
<1>15. CASE Rest # 0 /\ led_main.carry /\ led_timer.seconds # Whole + 1
  <2>1. x = ms + Rest - SecTicks /\ led_timer.seconds + 1 = Whole + 1 /\ ms < age.read
    BY <1>2, <1>4, <1>9, <1>15 DEF Carry
  <2>2. Left' = p + SecTicks - ms
    BY <1>2, <1>10, <1>11, <2>1
  <2>3. Left' >= 1 - TicksPerRead - 0
    BY <1>2, <1>10, <2>2
  <2>4. led_timer'.milliseconds >= SecTicks
    BY <1>2, <1>4, <1>6, <1>15, <2>1
  <2>5. Ends' > led_main.dur /\ 2 * Ends' <= 2 * led_main.dur + 3 * SecTicks + 4 * TicksPerRead
    BY <1>2, <1>9, <1>10, <1>11, <1>15, <2>1, <2>2
  <2> QED
    BY <1>3, <1>7, <1>8, <1>15, <2>3, <2>4, <2>5 DEF PollsRight, TimerInv
<1> QED
  BY <1>12, <1>13, <1>14, <1>15

(* It fires and is set again, or it reads on.                              *)
LEMMA FireStep ==
  ASSUME Timer!EthTimerAssumption, TimerInv, Timer!Fire PROVE TimerInv'
<1>1. SecTicks \in Nat \ {0, 1} /\ TicksPerRead \in Nat /\ TimerTyped
  BY TimerFacts DEF TimerInv
<1>2. PICK d \in Durations : led_main' = [at |-> "compare", dur |-> d, carry |-> FALSE]
  BY DEF Timer!Fire
<1>3. /\ led' = 1 - led /\ age' = [set |-> 0, read |-> 0] /\ UNCHANGED <<ms, led_timer>>
  BY DEF Timer!Fire
<1>4. TimerTyped'
  BY <1>1, <1>2, <1>3 DEF TimerTyped
<1>5. SetsRight' /\ PollsRight'
  BY <1>2, <1>3 DEF SetsRight, PollsRight
<1> QED
  BY <1>4, <1>5 DEF TimerInv

LEMMA PollStep ==
  ASSUME Timer!EthTimerAssumption, TimerInv,
         NEW from \in {"earlier", "equal", "within"}, NEW to \in {"earlier", "equal", "within"},
         Timer!Reads(from, to), UNCHANGED <<led_timer, led>>,
         from = "earlier" => led_timer.seconds >= 0 /\ to = "equal",
         to = "equal" => from = "earlier",
         to = "within" => led_timer.seconds = 0
  PROVE  TimerInv'
<1> USE TimerFacts
<1>1. /\ led_main.at = from /\ led_main'.at = to /\ ms' = ms
      /\ led_main'.dur = led_main.dur /\ Rest' = Rest /\ age'.set = age.set /\ age'.read = 0
      /\ led_main' \in [at : {"compare", "seconds", "milliseconds", "earlier", "equal", "within"},
                        dur : Durations, carry : BOOLEAN]
      /\ age' \in [set : Nat, read : 0 .. TicksPerRead]
  BY ReadFacts
<1>2. TimerTyped /\ PollsRight
  BY DEF TimerInv
<1>3. TimerTyped' /\ SetsRight'
  BY <1>1, <1>2 DEF TimerTyped, SetsRight
<1>4. Left' = Left /\ Ends' = Ends /\ Margin' = Margin
  BY <1>1 DEF Left, Ends, Margin
<1>5. led_timer.seconds >= 0 => Left >= 1
  <2> DEFINE p == (led_timer.seconds + 1) * SecTicks
  <2>1. p \in Int /\ (led_timer.seconds >= 0 => p >= SecTicks) /\ Left = p - ms
    <3>1. led_timer.seconds + 1 \in Int
      BY <1>2
    <3> QED
      BY <1>2, <3>1, Seconds DEF Left
  <2> HIDE DEF p
  <2> QED
    BY <1>2, <2>1
<1>6. /\ to = "earlier" => Left >= 1 - TicksPerRead
      /\ to # "earlier" => Left >= 1
  BY <1>1, <1>2, <1>5 DEF PollsRight
<1>7. PollsRight'
  BY <1>1, <1>2, <1>4, <1>6 DEF PollsRight
<1> QED
  BY <1>3, <1>7 DEF TimerInv

(* How early it fires.                                                     *)
LEMMA FiresInTime ==
  ASSUME Timer!EthTimerAssumption, TimerInv,
         \/ led_main.at = "earlier" /\ led_timer.seconds < 0
         \/ led_main.at = "within" /\ led_timer.milliseconds < ms
  PROVE  age.set + SecTicks > led_main.dur /\ (Rest # 0 => age.set > led_main.dur)
<1> USE TimerFacts
<1> DEFINE p == (led_timer.seconds + 1) * SecTicks
<1>1. TimerTyped /\ PollsRight
  BY DEF TimerInv
<1>2. /\ p \in Int /\ Left = p - ms /\ Left \in Int /\ Ends = age.set + Left
      /\ Margin = Ends - SecTicks + led_timer.milliseconds - led_main.dur
  <2>1. led_timer.seconds + 1 \in Int
    BY <1>1
  <2> QED
    BY <1>1, <2>1, Seconds DEF Left, Ends, Margin
<1>3. /\ led_timer.seconds <= -1 => p <= 0
      /\ led_timer.seconds <= 0 => p <= SecTicks
  BY <1>1, Seconds
<1> HIDE DEF p
<1>4. CASE led_main.at = "earlier" /\ led_timer.seconds < 0
  <2>1. Left <= -ms
    BY <1>1, <1>2, <1>3, <1>4
  <2> QED
    BY <1>1, <1>2, <1>4, <2>1 DEF PollsRight
<1>5. CASE led_main.at = "within" /\ led_timer.milliseconds < ms
  <2>1. Left < SecTicks - led_timer.milliseconds
    BY <1>1, <1>2, <1>3, <1>5 DEF PollsRight
  <2> QED
    BY <1>1, <1>2, <1>5, <2>1 DEF PollsRight
<1> QED
  BY <1>4, <1>5

LEMMA LoopStep ==
  ASSUME Timer!EthTimerAssumption, TimerInv, Timer!MainLoop
  PROVE  /\ TimerInv'
         /\ led' # led => age.set + SecTicks > led_main.dur /\ (Rest # 0 => age.set > led_main.dur)
<1>1. CASE Timer!SetCompare
  BY <1>1, CompareStep DEF Timer!SetCompare
<1>2. CASE Timer!SetSeconds
  BY <1>2, SecondsStep DEF Timer!SetSeconds
<1>3. CASE Timer!SetMilliseconds
  BY <1>3, MillisecondsStep DEF Timer!SetMilliseconds
<1>4. CASE Timer!PollEarlier
  <2>1. CASE led_timer.seconds < 0
    <3>1. Timer!Fire /\ led_main.at = "earlier"
      BY <1>4, <2>1 DEF Timer!PollEarlier, Timer!Poll
    <3> QED
      BY <2>1, <3>1, FireStep, FiresInTime
  <2>2. CASE ~(led_timer.seconds < 0)
    <3>1. Timer!Reads("earlier", "equal") /\ UNCHANGED <<led_timer, led>>
      BY <1>4, <2>2 DEF Timer!PollEarlier, Timer!Poll
    <3>2. led_timer.seconds >= 0
      BY <2>2, TimerFacts DEF TimerInv
    <3> QED
      BY <3>1, <3>2, PollStep
  <2> QED
    BY <2>1, <2>2
<1>5. CASE Timer!PollEqual
  <2>1. CASE led_timer.seconds = 0
    <3>1. Timer!Reads("equal", "within") /\ UNCHANGED <<led_timer, led>>
      BY <1>5, <2>1 DEF Timer!PollEqual, Timer!Poll
    <3> QED
      BY <2>1, <3>1, PollStep
  <2>2. CASE led_timer.seconds # 0
    <3>1. Timer!Reads("equal", "earlier") /\ UNCHANGED <<led_timer, led>>
      BY <1>5, <2>2 DEF Timer!PollEqual, Timer!Poll
    <3> QED
      BY <3>1, PollStep
  <2> QED
    BY <2>1, <2>2
<1>6. CASE Timer!PollWithin
  <2>1. CASE led_timer.milliseconds < ms
    <3>1. Timer!Fire /\ led_main.at = "within"
      BY <1>6, <2>1 DEF Timer!PollWithin, Timer!Poll
    <3> QED
      BY <2>1, <3>1, FireStep, FiresInTime
  <2>2. CASE ~(led_timer.milliseconds < ms)
    <3>1. Timer!Reads("within", "earlier") /\ UNCHANGED <<led_timer, led>>
      BY <1>6, <2>2 DEF Timer!PollWithin, Timer!Poll
    <3> QED
      BY <3>1, PollStep
  <2> QED
    BY <2>1, <2>2
<1> QED
  BY <1>1, <1>2, <1>3, <1>4, <1>5, <1>6 DEF Timer!MainLoop

(* A timer fires neither early by a second nor late by a second and a      *)
(* half, and one of half a second never early, wherever the ticks come     *)
(* between the accesses to its two words (timer.c:85-138): for any length  *)
(* of a second, timers of any number of half seconds, and reads as far     *)
(* apart as a quarter of a second.                                         *)
THEOREM TimersAreAccurate == MCSpec => TimerAccurate
<1> USE EthernetAssumption
<1>1. MCInit => TimerInv
  BY TimerInit DEF MCInit
<1>2. TimerInv /\ [MCNext]_ethVars =>
        /\ TimerInv'
        /\ led' # led => age.set + SecTicks > led_main.dur /\ (Rest # 0 => age.set > led_main.dur)
  <2> SUFFICES ASSUME TimerInv, [MCNext]_ethVars
               PROVE  /\ TimerInv'
                      /\ led' # led => /\ age.set + SecTicks > led_main.dur
                                       /\ Rest # 0 => age.set > led_main.dur
    OBVIOUS
  <2>1. CASE Timer!timer_interrupt
    BY <2>1, TickStep DEF Timer!timer_interrupt
  <2>2. CASE Timer!MainLoop
    BY <2>2, LoopStep
  <2>3. CASE UNCHANGED timerVars
    BY <2>3 DEF timerVars, TimerInv, TimerTyped, SetsRight, PollsRight, Left, Ends, Margin, Whole, Rest,
       Carry
  <2> QED
    BY <2>1, <2>2, <2>3 DEF MCNext, ethVars, Timer!Next
<1>3. TimerInv /\ [MCNext]_ethVars =>
        [led' # led /\ led_main.dur % SecTicks # 0 => age.set > led_main.dur]_(Timer!vars)
  BY <1>2 DEF Rest
<1>4. TimerInv /\ [MCNext]_ethVars => [led' # led => age.set + SecTicks > led_main.dur]_(Timer!vars)
  BY <1>2
<1>5. TimerInv => Timer!NotLate
  BY InTime
<1> QED
  BY <1>1, <1>2, <1>3, <1>4, <1>5, PTL
     DEF MCSpec, TimerAccurate, Timer!NotEarly, Timer!EarlyByLessThanASecond
=============================================================================
