------------------------------ MODULE XmodemRx ------------------------------
(***************************************************************************)
(* The XMODEM receiver of the serial boot loader (xmodem.c), a sender, and *)
(* the serial line between them.  The file is the units 1 .. Off[Last]; a  *)
(* packet n holds the units Off[n] + 1 .. Off[n + 1] (128 or 1024 bytes).  *)
(*                                                                         *)
(* One message is on the line at a time in each direction, and a second    *)
(* without one is a step of its own (Silence).  A packet arrives whole,    *)
(* or damaged: "bad" (a wrong byte, or bytes missing behind the header),   *)
(* or "headless" (its first byte is gone and the rest is read as noise).   *)
(***************************************************************************)
EXTENDS Integers, Sequences

CONSTANTS
  Off,          \* where each packet of the file begins, and where the file ends
  Mod,          \* packet numbers count modulo this (256)
  DestSize,     \* destsz, in units
  MaxRetrans,   \* MAXRETRANS (25)
  Retries,      \* seconds without a packet before the receiver gives up (80)
  SenderWait,   \* seconds after which the sender sends again
  SenderTries,  \* how often it does before it gives up
  MaxErrs       \* bound on the messages damaged or lost

Packets == 1 .. Len(Off) - 1

ASSUME XmodemRxAssumption ==
  /\ Off \in Seq(Nat) /\ Len(Off) >= 2 /\ Off[1] = 0
  /\ \A n \in Packets : Off[n] <= Off[n + 1]
  /\ Mod \in Nat /\ Mod > 1
  /\ DestSize \in Nat /\ MaxErrs \in Nat
  /\ {MaxRetrans, Retries, SenderWait, SenderTries} \subseteq Nat \ {0}

VARIABLES
  rx,     \* the receiver: its locals, and result once it has returned
  dest,   \* what it has written to memory
  acc,    \* history: how many packets it has accepted
  tx,     \* the sender
  line,   \* what is on the line to the receiver
  reply,  \* the character on the line to the sender
  errs    \* history: damaged messages and what they led to

vars == <<rx, dest, acc, tx, line, reply, errs>>

Least(a, b) == IF a < b THEN a ELSE b
Succ(no) == IF no = Mod - 1 THEN 0 ELSE no + 1     \* an unsigned char
Nothing == [kind |-> "nothing", n |-> 1, no |-> 1, mode |-> "C", state |-> "good"]
Message(kind) == [Nothing EXCEPT !.kind = kind]

-----------------------------------------------------------------------------
(* A bug: a repeated packet is stored again.                               *)
IsNext_OrPrevious(no) == no \in {rx.packetno, rx.packetno - 1}

(* The tests on a packet number.  (unsigned char)packetno-1 is an int: for *)
(* packet number 0 it is -1, which no number equals.                       *)
IsNext(no) == no = rx.packetno

IsPrevious(no) == no = rx.packetno - 1

(* check: with the checksum or with the CRC, as the first packet settled.  *)
Crc == rx.crc \/ rx.trychar = "C"
Passes(m) == m.state = "good" /\ (m.mode = "C") = Crc

(* The returned value: len, or -1, -2 and -3.                              *)
Return(result, char) ==
  /\ rx' = [rx EXCEPT !.result = result, !.trychar = "none", !.retry = 0]
  /\ reply' = char

(* A bug: the end of the destination is not looked at.                     *)
NewLen_Whole(n) == Off[n + 1]

(* Units behind the end of the destination are dropped.                    *)
NewLen(n) == Least(DestSize, rx.len + (Off[n + 1] - Off[n]))

Accept(n) ==
  /\ dest' = [u \in 1 .. NewLen(n) |-> IF u <= rx.len THEN dest[u] ELSE Off[n] + (u - rx.len)]
  /\ acc' = acc + 1
  /\ rx' = [rx EXCEPT !.len = NewLen(n), !.packetno = Succ(@), !.retrans = MaxRetrans,
                      !.trychar = "none", !.crc = Crc, !.retry = 0]
  /\ reply' = "ACK"

Again ==
  /\ UNCHANGED <<dest, acc>>
  /\ IF rx.retrans = 1 THEN Return("too many", "CAN")
     ELSE /\ rx' = [rx EXCEPT !.retrans = @ - 1, !.trychar = "none", !.crc = Crc, !.retry = 0]
          /\ reply' = "ACK"

(* A bug: a packet out of step is acknowledged.                            *)
Reject_Acked ==
  /\ UNCHANGED <<dest, acc>>
  /\ rx' = [rx EXCEPT !.trychar = "none", !.crc = Crc, !.retry = 0]
  /\ reply' = "ACK"

Reject ==
  /\ UNCHANGED <<dest, acc>>
  /\ rx' = [rx EXCEPT !.trychar = "none", !.crc = Crc, !.retry = 0]
  /\ reply' = "NAK"

(* Noise is read byte by byte, and each byte counts as one of the 80       *)
(* tries.  What it is taken for depends on the first special character.    *)
Noise ==
  /\ UNCHANGED <<dest, acc>>
  /\ \/ Return("len", "ACK")                      \* EOT
     \/ Return("cancelled", "ACK")                          \* CAN CAN
     \/ rx' = [rx EXCEPT !.trychar = "none", !.crc = Crc, !.retry = 0] /\ reply' = "NAK"   \* SOH
     \/ /\ rx.trychar = "C"                        \* none of them
        /\ rx' = [rx EXCEPT !.trychar = "NAK", !.retry = 0] /\ reply' = "NAK"
     \/ rx.trychar # "C" /\ Return("sync error", "CAN")

Receive ==
  /\ rx.result = "running" /\ line.kind = "packet" /\ reply = "none"
  /\ \/ line.state = "headless" /\ Noise
     \/ line.state # "headless" /\ Passes(line) /\ IsNext(line.no) /\ Accept(line.n)
     \/ line.state # "headless" /\ Passes(line) /\ ~IsNext(line.no) /\ IsPrevious(line.no) /\ Again
     \/ /\ line.state # "headless" /\ (~Passes(line) \/ ~(IsNext(line.no) \/ IsPrevious(line.no)))
        /\ Reject
  /\ line' = Nothing
  /\ errs' = [errs EXCEPT !.noise = @ \/ line.state = "headless",
                          !.wrap = @ \/ (line.no = Mod - 1 /\ rx.packetno = 0)]
  /\ UNCHANGED tx

ReceiveEnd ==
  /\ rx.result = "running" /\ reply = "none"
  /\ \/ line.kind = "EOT" /\ Return("len", "ACK")
     \/ line.kind = "CAN" /\ Return("cancelled", "ACK")
  /\ line' = Nothing
  /\ UNCHANGED <<dest, acc, tx, errs>>

(* A bug: the prompts are not counted.                                     *)
TryAgain_Forever == TRUE

(* A second passes without a byte.  The receiver prompts again, if it has  *)
(* not got a packet yet.                                                   *)
TryAgain == rx.retry + 1 < Retries

Silence ==
  /\ rx.result = "running" /\ line = Nothing
  /\ tx.at \in {"start", "failed", "done"} \/ (reply = "none" /\ tx.waited < SenderWait)
  /\ tx' = IF tx.at \in {"packet", "EOT"} THEN [tx EXCEPT !.waited = @ + 1] ELSE tx
  /\ IF TryAgain
     THEN rx' = [rx EXCEPT !.retry = (@ + 1) % Retries] /\ reply' \in {rx.trychar, reply}
     ELSE IF rx.trychar = "C"
     THEN rx' = [rx EXCEPT !.trychar = "NAK", !.retry = 0] /\ reply' \in {"NAK", reply}
     ELSE Return("sync error", "CAN")
  /\ UNCHANGED <<dest, acc, line, errs>>

-----------------------------------------------------------------------------
(* The sender, and what becomes of its messages.                           *)
Put(m) ==
  \/ line' = m /\ UNCHANGED errs
  \/ /\ errs.n < MaxErrs /\ errs' = [errs EXCEPT !.n = @ + 1]
     /\ \/ line' = Nothing
        \/ m.kind = "packet" /\ \E s \in {"bad", "headless"} : line' = [m EXCEPT !.state = s]

SendNext(t) ==
  IF t.n \in Packets
  THEN /\ tx' = [t EXCEPT !.at = "packet"]
       /\ Put([kind |-> "packet", n |-> t.n, no |-> t.no, mode |-> t.mode, state |-> "good"])
  ELSE tx' = [t EXCEPT !.at = "EOT"] /\ Put(Message("EOT"))

SendAgain ==
  IF tx.tries = SenderTries
  THEN tx' = [tx EXCEPT !.at = "failed"] /\ line' = Message("CAN") /\ UNCHANGED errs
  ELSE SendNext([tx EXCEPT !.tries = @ + 1, !.waited = 0])

Begin ==
  /\ tx.at = "start" /\ reply \in {"C", "NAK"} /\ line = Nothing
  /\ SendNext([tx EXCEPT !.mode = reply])
  /\ reply' = "none"
  /\ UNCHANGED <<rx, dest, acc>>

(* A receiver that has returned listens to nobody.                         *)
Answered ==
  /\ tx.at \in {"packet", "EOT"} /\ reply # "none" /\ line = Nothing
  /\ \/ /\ reply = "ACK" /\ tx.at = "packet"
        /\ SendNext([tx EXCEPT !.n = @ + 1, !.no = Succ(@), !.tries = 0, !.waited = 0])
     \/ /\ reply = "ACK" /\ tx.at = "EOT"
        /\ tx' = [tx EXCEPT !.at = "done"] /\ UNCHANGED <<line, errs>>
     \/ reply \in {"NAK", "C"} /\ SendAgain
     \/ reply = "CAN" /\ tx' = [tx EXCEPT !.at = "failed"] /\ UNCHANGED <<line, errs>>
  /\ reply' = "none"
  /\ UNCHANGED <<rx, dest, acc>>

Unanswered ==
  /\ tx.at \in {"packet", "EOT"} /\ reply = "none" /\ line = Nothing
  /\ tx.waited = SenderWait \/ rx.result # "running"
  /\ SendAgain
  /\ UNCHANGED <<rx, dest, acc, reply>>

(* What is sent to a receiver that has returned goes to the console.       *)
Ignored ==
  /\ rx.result # "running" /\ line # Nothing
  /\ line' = Nothing
  /\ UNCHANGED <<rx, dest, acc, tx, reply, errs>>

LoseReply ==
  /\ reply # "none" /\ tx.at # "start" /\ errs.n < MaxErrs
  /\ reply' = "none" /\ errs' = [errs EXCEPT !.n = @ + 1]
  /\ UNCHANGED <<rx, dest, acc, tx, line>>

-----------------------------------------------------------------------------
Init ==
  /\ rx = [result |-> "running", trychar |-> "C", crc |-> FALSE, packetno |-> 1, len |-> 0,
           retry |-> 0, retrans |-> MaxRetrans]
  /\ dest = <<>> /\ acc = 0
  /\ tx = [at |-> "start", n |-> 1, no |-> 1, mode |-> "C", tries |-> 0, waited |-> 0]
  /\ line = Nothing /\ reply = "C"
  /\ errs = [n |-> 0, noise |-> FALSE, wrap |-> FALSE]

Receiver == Receive \/ ReceiveEnd \/ Silence
Sender == Begin \/ Answered \/ Unanswered
Next == Receiver \/ Sender \/ Ignored \/ LoseReply

Spec == Init /\ [][Next]_vars

(* Time passes, the receiver polls, the sender answers.                    *)
FairSpec ==
  /\ Spec
  /\ WF_vars(Receive \/ ReceiveEnd) /\ WF_vars(Silence)
  /\ WF_vars(Answered \/ Unanswered) /\ WF_vars(Ignored)

-----------------------------------------------------------------------------
Receivers == [result : {"running", "len", "cancelled", "sync error", "too many"},
              trychar : {"C", "NAK", "none"}, crc : BOOLEAN, packetno : 0 .. Mod - 1,
              len : 0 .. DestSize, retry : 0 .. Retries - 1, retrans : 1 .. MaxRetrans]
Senders == [at : {"start", "packet", "EOT", "done", "failed"}, n : 1 .. Len(Off),
            no : 0 .. Mod - 1, mode : {"C", "NAK"}, tries : 0 .. SenderTries,
            waited : 0 .. SenderWait]
Messages == [kind : {"nothing", "packet", "EOT", "CAN"}, n : 1 .. Len(Off), no : 0 .. Mod - 1,
             mode : {"C", "NAK"}, state : {"good", "bad", "headless"}]

TypeOK ==
  /\ rx \in Receivers
  /\ acc \in 0 .. Len(Off) - 1
  /\ tx \in Senders
  /\ line \in Messages
  /\ reply \in {"none", "C", "NAK", "ACK", "CAN"}
  /\ errs \in [n : 0 .. MaxErrs, noise : BOOLEAN, wrap : BOOLEAN]

(* Whatever is lost or damaged, and whatever is sent twice: what is in     *)
(* memory is the beginning of the file, each packet once and in its place. *)
ReceivedIsPrefix ==
  /\ dest = [u \in 1 .. rx.len |-> u]
  /\ rx.len = Least(DestSize, Off[acc + 1])

(* The sender is never ahead of the receiver: what it takes for received,  *)
(* the receiver has accepted, and at most one packet more.                 *)
SenderNotAhead ==
  rx.result = "running" => tx.n - 1 <= acc /\ acc <= tx.n

(* The receiver reports a length only with the whole file accepted, unless *)
(* noise was taken for the end of the transmission.                        *)
SuccessMeansAll ==
  rx.result = "len" /\ ~errs.noise => acc = Len(Off) - 1

(* xmodemReceive returns: there is no way to keep it waiting.              *)
Returns == <>(rx.result # "running")

(* Once its first packet has been accepted, a transfer in which fewer than *)
(* MAXRETRANS messages are damaged succeeds, unless a packet loses its     *)
(* first byte, or the acknowledgement of the packet with the highest       *)
(* number is lost.                                                         *)
Transferred ==
  acc = 1 ~> rx.result = "len" \/ errs.noise \/ errs.wrap \/ errs.n >= MaxRetrans
=============================================================================
