------------------------------- MODULE EthLink -------------------------------
(***************************************************************************)
(* The Ethernet link of the boot loader (ethmac.c, the dispatch and the    *)
(* replies of packet.c, main) and the ethmac core it drives.  The core     *)
(* puts the frames it receives into a ring of buffers and has one buffer   *)
(* for the frame it transmits.  The interrupt empties the ring and answers *)
(* on the spot; the main loop transmits too, and only tcp_tx masks the     *)
(* interrupt meanwhile.                                                    *)
(*                                                                         *)
(* Received frames are numbered in the order in which they are stored; a   *)
(* frame to transmit is known by who asked for it.  The interrupt runs to  *)
(* its end before the main loop goes on; the core works all the time.      *)
(***************************************************************************)
EXTENDS Integers, Sequences, FiniteSets

CONSTANTS
  NRx,         \* ETHMAC_RX_BUFFERS (8)
  Frames,      \* the kinds of frames on the network
  MaxFrames,   \* bound on the frames that are stored
  MaxSends,    \* bound on the frames the main loop transmits
  MaxTries     \* bound on the calls of open_link that fail

EthLinkAssumption ==
  /\ {NRx, MaxFrames, MaxTries} \subseteq Nat \ {0}
  /\ MaxSends \in Nat
  /\ Frames \subseteq [eth_type : {"arp", "ip", "other"}, version : {4, 6}, mine : BOOLEAN,
                       what : {"request", "ping", "tcp", "udp", "other"}]

VARIABLES
  ring,    \* the receive descriptors: the frame that waits, or 0 for empty
  stored,  \* the kinds of the frames stored so far
  mac,     \* registers: INT_SOURCE, INT_MASK, rxen, IC enable, next descriptor
  tx,      \* the transmit buffer, its ready bit, what the wire makes of it
  isr,     \* ethmac_interrupt
  main,    \* the main program
  parsed,  \* history: the frames parse_rx_packet has seen
  wrong,   \* history: the frames transmitted in place of others
  late,    \* history: the frames stored behind the scan of an interrupt: all,
           \* and those of the last one
  pending  \* history: the frames started less those transmitted

vars == <<ring, stored, mac, tx, isr, main, parsed, wrong, late, pending>>

Id(by, n) == [by |-> by, n |-> n]
NoId == Id("nobody", 0)
Mixed == Id("mixed", 0)  \* a frame whose bytes changed while it was on the wire
NoIsr == [at |-> "idle", buffer |-> 0, left |-> 0]
Buffers == 0 .. NRx - 1

-----------------------------------------------------------------------------
(* parse_rx_packet and what it calls: how many frames answer a frame.  A   *)
(* TCP segment may be acknowledged and echoed; a ping is always answered,  *)
(* with its own bytes.                                                     *)
arp_reply  == {1}
ping_reply == {1}

parse_arp_packet(f) == IF f.what = "request" /\ f.mine THEN arp_reply ELSE {0}

parse_ip_packet(f) ==
  IF f.version # 4 \/ ~f.mine THEN {0}
  ELSE CASE f.what = "ping" -> ping_reply
         [] f.what = "tcp" -> {0, 1, 2}
         [] f.what = "udp" -> {0, 1}
         [] OTHER -> {0}

parse_rx_packet(f) ==
  CASE f.eth_type = "arp" -> parse_arp_packet(f)
    [] f.eth_type = "ip" -> parse_ip_packet(f)
    [] OTHER -> {0}

-----------------------------------------------------------------------------
(* ethmac_tx_packet, in its three steps: copy, wait for the ready bit,     *)
(* start.  The bytes of a frame on the wire change with the buffer.        *)
Copy(id) == tx' = [tx EXCEPT !.buf = id, !.out = IF tx.ready THEN Mixed ELSE @]

Start(id) ==
  /\ ~tx.ready
  /\ tx' = [tx EXCEPT !.ready = TRUE, !.for = id, !.out = tx.buf]
  /\ pending' = pending + 1

-----------------------------------------------------------------------------
(* The ethmac core.                                                        *)
Receive(f) ==
  /\ mac.rxen /\ Len(stored) < MaxFrames
  /\ ring[mac.next] = 0                    \* else the frame is dropped
  /\ stored' = Append(stored, f)
  /\ ring' = [ring EXCEPT ![mac.next] = Len(stored) + 1]
  /\ mac' = [mac EXCEPT !.next = (@ + 1) % NRx, !.source = TRUE]
  /\ late' = IF mac.next >= isr.buffer THEN late
             ELSE [all |-> late.all \cup {Len(stored) + 1}, last |-> late.last \cup {Len(stored) + 1}]
  /\ UNCHANGED <<tx, isr, main, parsed, wrong, pending>>

Transmitted ==
  /\ tx.ready
  /\ tx' = [tx EXCEPT !.ready = FALSE, !.for = NoId, !.out = NoId]
  /\ wrong' = IF tx.out = tx.for THEN wrong
               ELSE wrong \cup {[for |-> tx.for, frame |-> tx.out]}
  /\ pending' = pending - 1
  /\ UNCHANGED <<ring, stored, mac, isr, main, parsed, late>>

-----------------------------------------------------------------------------
(* ethmac_interrupt: the buffers in the order of their addresses.  The     *)
(* source is cleared with the value read at first, after the whole scan.   *)
Enter ==
  /\ isr.at = "idle" /\ main.at # "gone"
  /\ mac.source /\ mac.mask /\ mac.enabled
  /\ mac' = [mac EXCEPT !.mask = FALSE]
  /\ isr' = [NoIsr EXCEPT !.at = "scan"]
  /\ late' = [late EXCEPT !.last = {}]
  /\ UNCHANGED <<ring, stored, tx, main, parsed, wrong, pending>>

(* A bug: the scan leaves out the last buffer.                             *)
ScanEnds_OneShort == isr.buffer >= NRx - 1

ScanEnds == isr.buffer = NRx

Skip ==
  /\ isr.at = "scan" /\ ~ScanEnds /\ ring[isr.buffer] = 0
  /\ isr' = [isr EXCEPT !.buffer = @ + 1]
  /\ UNCHANGED <<ring, stored, mac, tx, main, parsed, wrong, late, pending>>

Parse ==
  /\ isr.at = "scan" /\ ~ScanEnds /\ ring[isr.buffer] # 0
  /\ parsed' = Append(parsed, ring[isr.buffer])
  /\ \E n \in parse_rx_packet(stored[ring[isr.buffer]]) :
       isr' = [isr EXCEPT !.at = "answer", !.left = n]
  /\ UNCHANGED <<ring, stored, mac, tx, main, wrong, late, pending>>

Answer ==
  LET id == Id("isr", 3 * Len(parsed) + isr.left)
  IN /\ \/ /\ isr.at = "answer" /\ isr.left > 0
           /\ Copy(id) /\ isr' = [isr EXCEPT !.at = "wait"]
           /\ UNCHANGED pending
        \/ /\ isr.at = "wait"
           /\ Start(id) /\ isr' = [isr EXCEPT !.at = "answer", !.left = @ - 1]
     /\ UNCHANGED <<ring, stored, mac, main, parsed, wrong, late>>

(* A bug: the frame stays in its buffer.                                   *)
Emptied_Not(b) == ring

Emptied(b) == [ring EXCEPT ![b] = 0]

SetEmpty ==
  /\ isr.at = "answer" /\ isr.left = 0
  /\ ring' = Emptied(isr.buffer)
  /\ isr' = [isr EXCEPT !.at = "scan", !.buffer = @ + 1]
  /\ UNCHANGED <<stored, mac, tx, main, parsed, wrong, late, pending>>

Leave ==
  /\ isr.at = "scan" /\ ScanEnds
  /\ mac' = [mac EXCEPT !.source = FALSE, !.mask = TRUE]
  /\ isr' = NoIsr
  /\ UNCHANGED <<ring, stored, tx, main, parsed, wrong, late, pending>>

-----------------------------------------------------------------------------
(* The main program.  init_phy finds no PHY, or its link does not come up  *)
(* in time: open_link is called again, and allocates another timer.        *)
init_phy == {TRUE} \cup (IF main.n < MaxTries THEN {FALSE} ELSE {})

OpenLink ==
  /\ main.at = "init"
  /\ \E up \in init_phy :
       IF up
       THEN /\ ring' = [b \in Buffers |-> 0]
            /\ mac' = [source |-> FALSE, mask |-> TRUE, rxen |-> TRUE, enabled |-> TRUE, next |-> 0]
            /\ main' = [main EXCEPT !.at = "loop", !.n = 0]
       ELSE main' = [main EXCEPT !.n = @ + 1] /\ UNCHANGED <<ring, mac>>
  /\ UNCHANGED <<stored, tx, isr, parsed, wrong, late, pending>>

MainId == Id(main.by, main.n)

(* tcp_tx masks the interrupt in the controller for tcp_reply; the other   *)
(* callers of tcp_reply do not.                                            *)
EnabledFor(by) == by # "tcp_tx"

Send ==
  /\ main.at = "loop" /\ isr.at = "idle" /\ main.n < MaxSends
  /\ \E by \in {"tcp_tx", "tcp_reply"} :
       /\ main' = [at |-> "copy", n |-> main.n + 1, by |-> by]
       /\ mac' = [mac EXCEPT !.enabled = EnabledFor(by)]
  /\ UNCHANGED <<ring, stored, tx, isr, parsed, wrong, late, pending>>

SendCopy ==
  /\ main.at = "copy" /\ isr.at = "idle"
  /\ Copy(MainId) /\ main' = [main EXCEPT !.at = "wait"]
  /\ UNCHANGED <<ring, stored, mac, isr, parsed, wrong, late, pending>>

SendStart ==
  /\ main.at = "wait" /\ isr.at = "idle"
  /\ Start(MainId) /\ main' = [main EXCEPT !.at = "loop"]
  /\ mac' = [mac EXCEPT !.enabled = TRUE]
  /\ UNCHANGED <<ring, stored, isr, parsed, wrong, late>>

(* close_link, before the loaded program takes over.                       *)
CloseLink ==
  /\ main.at = "loop" /\ isr.at = "idle"
  /\ mac' = [mac EXCEPT !.mask = FALSE, !.enabled = FALSE, !.rxen = FALSE]
  /\ tx' = [tx EXCEPT !.ready = FALSE]
  /\ main' = [main EXCEPT !.at = "gone"]
  /\ UNCHANGED <<ring, stored, isr, parsed, wrong, late, pending>>

-----------------------------------------------------------------------------
Init ==
  /\ ring = [b \in Buffers |-> 0] /\ stored = <<>>
  /\ mac = [source |-> FALSE, mask |-> FALSE, rxen |-> FALSE, enabled |-> FALSE, next |-> 0]
  /\ tx = [buf |-> NoId, ready |-> FALSE, for |-> NoId, out |-> NoId]
  /\ isr = NoIsr /\ main = [at |-> "init", n |-> 0, by |-> "tcp_tx"]
  /\ parsed = <<>> /\ wrong = {} /\ late = [all |-> {}, last |-> {}] /\ pending = 0

Interrupt == Enter \/ Skip \/ Parse \/ Answer \/ SetEmpty \/ Leave
Main == OpenLink \/ Send \/ SendCopy \/ SendStart \/ CloseLink
Next == Interrupt \/ Main \/ Transmitted \/ \E f \in Frames : Receive(f)

Spec == Init /\ [][Next]_vars

(* The interrupt is taken before the main loop goes on, for good; a frame  *)
(* on the wire comes to its end.                                           *)
FairSpec ==
  /\ Spec
  /\ WF_vars(Interrupt) /\ WF_vars(Transmitted)
  /\ WF_vars(OpenLink) /\ WF_vars(SendCopy \/ SendStart)

-----------------------------------------------------------------------------
TypeOK ==
  /\ ring \in [Buffers -> 0 .. MaxFrames]
  /\ mac.next \in Buffers
  /\ isr.at \in {"idle", "scan", "answer", "wait"} /\ isr.buffer \in 0 .. NRx
  /\ main.at \in {"init", "loop", "copy", "wait", "gone"}
  /\ late.last \subseteq late.all /\ late.all \subseteq DOMAIN stored

Waiting == {b \in Buffers : ring[b] # 0}

(* Every frame is handled at most once, and a frame overtakes another one  *)
(* only in one turn of the ring, and only if the scan finds it in a lower  *)
(* buffer or had passed the other one's buffer when that one came.         *)
NearlyInOrder ==
  \A i, j \in DOMAIN parsed : i < j =>
    \/ parsed[i] < parsed[j]
    \/ /\ parsed[i] - parsed[j] \in 1 .. NRx - 1
       /\ (parsed[i] - 1) % NRx < (parsed[j] - 1) % NRx \/ parsed[j] \in late.all

(* A frame that waits while no interrupt is pending or at work came behind *)
(* the scan of the last one: the source was cleared after the scan.        *)
NoneForgotten ==
  isr.at = "idle" /\ ~mac.source => {ring[b] : b \in Waiting} \subseteq late.last

(* Every frame that is started is transmitted: none is started while the   *)
(* core is still busy with another one.                                    *)
AllTransmitted ==
  main.at # "gone" => pending = (IF tx.ready THEN 1 ELSE 0)

(* The frame that goes out in place of another one was asked for without   *)
(* the mask of tcp_tx, and the interrupt's answer came in between.         *)
OnlyUnmaskedReplaced ==
  \A w \in wrong : w.frame # Mixed => w.for.by = "tcp_reply" /\ w.frame.by = "isr"

(* A frame that was stored is handled, unless it came behind the scan of   *)
(* the last interrupt there is, or the link is closed.                     *)
Handled ==
  \A n \in 1 .. MaxFrames :
    Len(stored) >= n ~> n \in {parsed[i] : i \in DOMAIN parsed} \/ n \in late.last \/ main.at = "gone"
=============================================================================
