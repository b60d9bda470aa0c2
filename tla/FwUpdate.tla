------------------------------ MODULE FwUpdate ------------------------------
(***************************************************************************)
(* Loading a firmware image over the serial line: the state machine of     *)
(* rtl/debug/uart_debug.v on one end and tools/tinyriscv_fw_downloader.py  *)
(* on the other.  A packet is a number, WordsPerPacket words (32 in the    *)
(* source, 128 bytes) and a CRC.  The line may lose or damage what is on   *)
(* it.  The unit on the line is a word, not a byte; the CRC is perfect: a  *)
(* packet that is not what its CRC was computed from is refused.           *)
(***************************************************************************)
EXTENDS Integers, Sequences

CONSTANTS
  WordsPerPacket,  \* words of data in a packet
  Files,           \* images that the user may load: sequences of words
  RomWords,        \* size of the memory
  Attempts,        \* bound: how often the user runs the script
  Faults,          \* bound: how often the line loses or damages something
  PulsesPin        \* the user turns uart_debug_pin off and on before a run

FwUpdateAssumption ==
  /\ WordsPerPacket \in Nat \ {0, 1} /\ {RomWords, Attempts} \subseteq Nat \ {0}
  /\ Files \subseteq Seq(Nat)
  /\ Faults \in Nat /\ PulsesPin \in BOOLEAN

PacketUnits == WordsPerPacket + 2           \* UART_REMAIN_PACKET_LEN
NamePad == 0                                \* words of packet 0 but the size
Blank == 77                                 \* memory before the first run

Word(w) == [kind |-> "word", of |-> <<w>>]
Crc(s)  == [kind |-> "crc", of |-> s]
Damaged == [kind |-> "damaged", of |-> <<>>]

VARIABLES
  host,    \* the script: state, file, packet number, runs so far
  wire,    \* what the host has sent and the device has not received
  resp,    \* what the device has answered and the script has not read
  dev,     \* uart_debug
  rom,     \* the memory that is programmed
  faults   \* bound: losses and damages so far

vars == <<host, wire, resp, dev, rom, faults>>

DevReset == [state |-> "IDLE", rx |-> <<>>, remain |-> 0, addr |-> 0,
             data |-> 0, k |-> 0]

Init ==
  /\ \E f \in Files : host = [state |-> "stopped", file |-> f, pkt |-> 0, runs |-> 0]
  /\ wire = <<>> /\ resp = <<>>
  /\ dev = DevReset
  /\ rom = [a \in 0 .. RomWords - 1 |-> Blank]
  /\ faults = 0

-----------------------------------------------------------------------------
(* The script.                                                             *)

(* int(bin_file_size / 128) + 1 (fw_downloader.py:167).                    *)
DataPackets == Len(host.file) \div WordsPerPacket + 1

(* The words of packet n >= 1, padded with zeros (fw_downloader.py:169-195).*)
DataOf(n) == [i \in 1 .. WordsPerPacket |->
                LET j == (n - 1) * WordsPerPacket + i
                IN  IF j <= Len(host.file) THEN host.file[j] ELSE 0]

(* The words of packet 0: the name and the size (fw_downloader.py:134-147).*)
Header == [i \in 1 .. WordsPerPacket |->
             IF i = WordsPerPacket THEN Len(host.file) ELSE NamePad]

Packet(n) ==
  LET s == IF n = 0 THEN Header ELSE DataOf(n)
  IN  <<Word(n)>> \o [i \in 1 .. WordsPerPacket |-> Word(s[i])] \o <<Crc(s)>>

(* Nothing is on its way and the device waits for a byte.                  *)
Quiet == wire = <<>> /\ resp = <<>> /\ dev.state = "RECEIVE"

(* The user runs the script: the port is opened, which discards what was   *)
(* received before, and packet 0 is written (fw_downloader.py:124-154).    *)
RunScript ==
  /\ host.state \in {"stopped", "failed"} /\ host.runs < Attempts
  /\ Quiet
  /\ PulsesPin /\ host.runs > 0 => dev.rx = <<>> /\ dev.remain = 0
  /\ host' = [host EXCEPT !.state = "waits", !.pkt = 0, !.runs = @ + 1]
  /\ wire' = Packet(0)
  /\ UNCHANGED <<resp, dev, rom, faults>>

(* serial_read returns ACK: the next packet or the end of the script       *)
(* (fw_downloader.py:156-204).                                             *)
ReadAck ==
  /\ host.state = "waits"
  /\ resp # <<>> /\ Head(resp) = "ACK"
  /\ resp' = Tail(resp)
  /\ IF host.pkt < DataPackets
     THEN /\ host' = [host EXCEPT !.pkt = @ + 1]
          /\ wire' = wire \o Packet(host.pkt + 1)
     ELSE /\ host' = [host EXCEPT !.state = "succeeded"]
          /\ UNCHANGED wire
  /\ UNCHANGED <<dev, rom, faults>>

(* Any other answer ends the script (fw_downloader.py:157-159, 183-185,    *)
(* 198-200).                                                               *)
ReadNak ==
  /\ host.state = "waits"
  /\ resp # <<>> /\ Head(resp) # "ACK"
  /\ resp' = <<>>
  /\ host' = [host EXCEPT !.state = "failed"]
  /\ UNCHANGED <<wire, dev, rom, faults>>

(* serial_read times out after three seconds: so much later than anything  *)
(* else that happens that nothing else can happen any more.                *)
Timeout ==
  /\ host.state = "waits" /\ Quiet
  /\ host' = [host EXCEPT !.state = "failed"]
  /\ UNCHANGED <<wire, resp, dev, rom, faults>>

-----------------------------------------------------------------------------
(* uart_debug.                                                             *)

Silent == UNCHANGED <<host, wire, resp, rom, faults>>

(* S_IDLE, S_INIT_UART_BAUD and S_REC_FIRST_PACKET (uart_debug.v:109-127). *)
RecFirstPacket ==
  /\ dev.state \in {"IDLE", "REC_FIRST"}
  /\ dev' = [DevReset EXCEPT !.state = "RECEIVE"]
  /\ Silent

(* A bug: the index of the byte is not reset between packets.              *)
RecRemainPacket_IndexKept ==
  /\ dev.state = "REC_REMAIN"
  /\ dev' = [dev EXCEPT !.state = "RECEIVE"]
  /\ Silent

(* S_REC_REMAIN_PACKET (uart_debug.v:128-133, 244-246).                    *)
RecRemainPacket ==
  /\ dev.state = "REC_REMAIN"
  /\ dev' = [dev EXCEPT !.state = "RECEIVE", !.rx = <<>>]
  /\ Silent

(* S_CLEAR_UART_RX_OVER_FLAG to S_GET_BYTE (uart_debug.v:134-160).  A      *)
(* round takes four clocks and a byte more than four thousand.             *)
GetByte ==
  /\ dev.state = "RECEIVE" /\ wire # <<>>
  /\ wire' = Tail(wire)
  /\ dev' = [dev EXCEPT !.rx = Append(@, Head(wire)),
                        !.state = IF Len(dev.rx) = PacketUnits - 1
                                  THEN "CRC_END" ELSE @]
  /\ UNCHANGED <<host, resp, rom, faults>>

(* uart_debug.v:374-398 - the number of a packet is not covered.           *)
Received(i) == dev.rx[i + 1]

CrcGood == /\ \A i \in 1 .. WordsPerPacket : Received(i).kind = "word"
           /\ dev.rx[PacketUnits] =
                Crc([i \in 1 .. WordsPerPacket |-> Received(i).of[1]])

(* {7'h0, fw_file_size[31:7]} + 1 (uart_debug.v:172, 258).                 *)
PacketCount == Received(WordsPerPacket).of[1] \div WordsPerPacket + 1

(* A bug: the address is left one word too far.                            *)
StepBack_Never == dev.addr

(* uart_debug.v:273-276 - WRITE_MEM has gone one word too far.             *)
StepBack == IF dev.addr > 0 THEN dev.addr - 1 ELSE 0

(* S_CRC_START to S_CRC_END (uart_debug.v:161-181, 292-294).               *)
CrcEnd ==
  /\ dev.state = "CRC_END"
  /\ LET d == [dev EXCEPT !.addr = StepBack, !.k = 1,
                          !.data = IF Received(1).kind = "word" THEN Received(1).of[1] ELSE 0]
     IN  dev' = CASE CrcGood /\ dev.remain = 0 ->
                       [d EXCEPT !.remain = PacketCount, !.state = "SEND_ACK"]
                  [] CrcGood /\ dev.remain > 0 ->
                       [d EXCEPT !.remain = @ - 1, !.state = "WRITE_MEM"]
                  [] ~CrcGood -> [d EXCEPT !.state = "SEND_NAK"]
  /\ Silent

(* S_WRITE_MEM (uart_debug.v:182-190, 277-279, 295-297): the word that was *)
(* loaded in the clock before is written and the next one is loaded.       *)
WriteMem ==
  /\ dev.state = "WRITE_MEM"
  /\ IF dev.k = WordsPerPacket + 1
     THEN /\ dev' = [dev EXCEPT !.state = "SEND_ACK", !.addr = @ + 1]
          /\ UNCHANGED rom
     ELSE /\ dev' = [dev EXCEPT !.addr = @ + 1, !.k = @ + 1,
                                !.data = IF dev.k < WordsPerPacket
                                         THEN Received(dev.k + 1).of[1] ELSE 0]
          /\ rom' = IF dev.addr < RomWords
                    THEN [rom EXCEPT ![dev.addr] = dev.data] ELSE rom
  /\ UNCHANGED <<host, wire, resp, faults>>

(* S_SEND_ACK, S_SEND_NAK (uart_debug.v:191-210).                          *)
SendAnswer ==
  /\ dev.state \in {"SEND_ACK", "SEND_NAK"}
  /\ resp' = Append(resp, IF dev.state = "SEND_ACK" THEN "ACK" ELSE "NAK")
  /\ dev' = [dev EXCEPT !.state = IF dev.remain > 0 THEN "REC_REMAIN" ELSE "REC_FIRST"]
  /\ UNCHANGED <<host, wire, rom, faults>>

(* debug_en_i goes low and high again after a run that failed              *)
(* (uart_debug.v:101-106).                                                 *)
PulsePin ==
  /\ PulsesPin
  /\ host.state = "failed" /\ Quiet
  /\ dev.rx # <<>> \/ dev.remain > 0
  /\ dev' = DevReset
  /\ Silent

-----------------------------------------------------------------------------
(* The line.  A byte that arrives while uart_debug is busy with a CRC may  *)
(* be lost too: S_CLEAR_UART_RX_OVER_FLAG clears its flag unseen.          *)
Fault == faults < Faults /\ faults' = faults + 1 /\ UNCHANGED <<host, dev, rom>>

LoseUnit ==
  /\ wire # <<>> /\ wire' = Tail(wire)
  /\ Fault /\ UNCHANGED resp

DamageUnit ==
  /\ wire # <<>> /\ Head(wire) # Damaged
  /\ wire' = <<Damaged>> \o Tail(wire)
  /\ Fault /\ UNCHANGED resp

LoseAnswer ==
  /\ resp # <<>> /\ resp' = Tail(resp)
  /\ Fault /\ UNCHANGED wire

(* A damaged answer is not taken for an ACK.                               *)
DamageAnswer ==
  /\ resp # <<>> /\ Head(resp) # "damaged"
  /\ resp' = <<"damaged">> \o Tail(resp)
  /\ Fault /\ UNCHANGED wire

Line == LoseUnit \/ DamageUnit \/ LoseAnswer \/ DamageAnswer

Script == ReadAck \/ ReadNak \/ Timeout
User   == RunScript \/ PulsePin
Device == \/ RecFirstPacket \/ RecRemainPacket \/ GetByte
          \/ CrcEnd \/ WriteMem \/ SendAnswer

Next == Script \/ User \/ Device \/ Line

Spec == Init /\ [][Next]_vars

(* The script and the clock run, and the user does not give up.            *)
FairSpec == Spec /\ WF_vars(Script) /\ WF_vars(User) /\ WF_vars(Device)
-----------------------------------------------------------------------------
(* Types, and how far the packet counter and the address may get.          *)
TypeOK ==
  /\ host.state \in {"stopped", "waits", "succeeded", "failed"}
  /\ host.pkt \in 0 .. DataPackets /\ host.runs \in 0 .. Attempts
  /\ dev.state \in {"IDLE", "RECEIVE", "REC_FIRST", "REC_REMAIN", "CRC_END",
                    "WRITE_MEM", "SEND_ACK", "SEND_NAK"}
  /\ Len(dev.rx) <= PacketUnits
  /\ dev.remain \in 0 .. DataPackets
  /\ dev.addr \in 0 .. DataPackets * WordsPerPacket + 1
  /\ dev.k \in 0 .. WordsPerPacket + 1

(* "Send successfully..." (fw_downloader.py:204) is the truth: the whole   *)
(* image is in the memory, and nothing but zeros follows it.               *)
Image(a) == IF a < Len(host.file) THEN host.file[a + 1]
            ELSE IF a < DataPackets * WordsPerPacket THEN 0 ELSE Blank

SuccessMeansImage ==
  host.state = "succeeded" => \A a \in 0 .. RomWords - 1 : rom[a] = Image(a)

(* Every packet is written where its number says, although the device      *)
(* never looks at the number and finds the address by counting one word    *)
(* too far and stepping back (uart_debug.v:264-282).                       *)
PacketInPlace ==
  dev.state = "WRITE_MEM" /\ dev.k <= WordsPerPacket /\ dev.rx[1].kind = "word" =>
    dev.addr = (dev.rx[1].of[1] - 1) * WordsPerPacket + dev.k - 1

(* The two ends agree on how many packets are left whenever the host is    *)
(* about to send one or has finished.                                      *)
Agree ==
  host.state \in {"waits", "succeeded"} /\ resp = <<"ACK">> /\ wire = <<>>
    => dev.remain = DataPackets - host.pkt

(* A user who runs the script once more than the line has failures gets    *)
(* the image loaded.                                                       *)
Recovers == <>(host.state = "succeeded")

-----------------------------------------------------------------------------
(* Images to check with: one that ends within a packet of two words, one   *)
(* that fills its packets exactly (and is followed by a packet of zeros),  *)
(* and one that fits into one packet.                                      *)
SmallImages == {<<1>>, <<1, 2, 3>>, <<4, 3, 2, 1>>}
=============================================================================
