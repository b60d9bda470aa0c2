--------------------------- MODULE FwUpdateProofs ---------------------------
(***************************************************************************)
(* A run of the firmware loader that reports success has loaded the image, *)
(* for images, packets and memories of every size, every number of faults  *)
(* of the line and every number of runs, if the user pulses the pin        *)
(* between two of them.                                                    *)
(***************************************************************************)
EXTENDS FwUpdate, SequenceTheorems, TLAPS

(* The words of packet n, and what may be on the line and in rx.           *)
Data(n) == IF n = 0 THEN Header ELSE DataOf(n)
Units == {Word(w) : w \in Nat} \cup {Crc(s) : s \in [1 .. WordsPerPacket -> Nat]} \cup {Damaged}
Hosts == [state : {"stopped", "waits", "succeeded", "failed"}, file : Files, pkt : Nat,
          runs : 0 .. Attempts]

Answers == {"ACK", "NAK", "damaged"}

Devs == [state : {"IDLE", "RECEIVE", "REC_FIRST", "REC_REMAIN", "CRC_END",
                  "WRITE_MEM", "SEND_ACK", "SEND_NAK"},
         rx : Seq(Units), remain : Nat, addr : Nat, data : Nat, k : Nat]

Typed ==
  /\ host \in Hosts
  /\ wire \in Seq(Units) /\ resp \in Seq(Answers) /\ dev \in Devs
  /\ rom \in [0 .. RomWords - 1 -> Nat]
  /\ host.pkt \in 0 .. DataPackets /\ dev.remain \in 0 .. DataPackets
  /\ dev.addr \in 0 .. DataPackets * WordsPerPacket + 1
  /\ dev.k \in 0 .. WordsPerPacket + 1 /\ Len(dev.rx) <= PacketUnits

Listening == dev.state \in {"RECEIVE", "REC_REMAIN", "REC_FIRST"}
Idles == Listening \/ dev.state = "IDLE"

(* u is unit i of packet n as it comes over the line.                      *)
Passed(u, n, i) == u \in {Packet(n)[i], Damaged}

(* The first x words of the image are in the memory.                       *)
WrittenTo(x) == \A a \in 0 .. RomWords - 1 : a < x => rom[a] = Image(a)

(* The device waits for packet n.                                          *)
Ready(n) ==
  /\ dev.remain = IF n = 0 THEN 0 ELSE DataPackets - n + 1
  /\ n <= DataPackets => dev.addr = IF n <= 1 THEN 0 ELSE (n - 1) * WordsPerPacket + 1
  /\ WrittenTo((n - 1) * WordsPerPacket)

(* What the device keeps while it listens.                                 *)
Counting ==
  /\ dev.state = "REC_REMAIN" => dev.remain > 0
  /\ dev.state = "REC_FIRST" => dev.remain = 0
  /\ dev.state = "RECEIVE" => Len(dev.rx) < PacketUnits /\ (dev.remain = 0 => dev.addr = 0)
  /\ dev.state = "IDLE" => dev.remain = 0

(* How much of a packet the device has got already.                        *)
Got == IF dev.state = "RECEIVE" THEN Len(dev.rx) ELSE 0

(* A packet is on its way.  If no unit of it was lost, it is the one that  *)
(* the device waits for; if one was, it will never be complete.            *)
Coming ==
  host.state = "waits" /\ Listening /\ resp = <<>> =>
    /\ Got + Len(wire) <= PacketUnits
    /\ Got + Len(wire) = PacketUnits =>
         /\ Ready(host.pkt) /\ dev.state # "REC_FIRST"
         /\ \A i \in 1 .. Got : Passed(dev.rx[i], host.pkt, i)
         /\ \A i \in 1 .. Len(wire) : Passed(wire[i], host.pkt, Got + i)

(* The device works on the packet that it has received.                    *)
Working ==
  ~Idles =>
    /\ host.state = "waits" /\ wire = <<>> /\ resp = <<>>
    /\ dev.state = "CRC_END" =>
         /\ Len(dev.rx) = PacketUnits /\ Ready(host.pkt)
         /\ \A i \in 1 .. PacketUnits : Passed(dev.rx[i], host.pkt, i)
    /\ dev.state = "WRITE_MEM" =>
         /\ host.pkt > 0 /\ dev.remain = DataPackets - host.pkt
         /\ dev.k \in 1 .. WordsPerPacket + 1
         /\ dev.addr = (host.pkt - 1) * WordsPerPacket + dev.k - 1
         /\ Len(dev.rx) = PacketUnits /\ Passed(dev.rx[1], host.pkt, 1)
         /\ \A i \in 1 .. WordsPerPacket : Received(i) = Word(DataOf(host.pkt)[i])
         /\ dev.k <= WordsPerPacket => dev.data = DataOf(host.pkt)[dev.k]
         /\ WrittenTo(dev.addr)
    /\ dev.state = "SEND_ACK" => Ready(host.pkt + 1)

(* An answer is on its way, and the device is ready for the next packet.   *)
Answered ==
  resp # <<>> =>
    /\ host.state = "waits" /\ Listening /\ wire = <<>> /\ Len(resp) = 1
    /\ Got = 0
    /\ resp[1] = "ACK" => Ready(host.pkt + 1)

(* Between the runs nothing is on its way.                                 *)
Between ==
  /\ host.state # "waits" => wire = <<>> /\ resp = <<>> /\ Idles
  /\ host.state = "stopped" <=> host.runs = 0
  /\ host.state = "stopped" => dev.rx = <<>> /\ dev.remain = 0
  /\ dev.state = "IDLE" => host.state \in {"stopped", "failed"}
  /\ host.state = "succeeded" => WrittenTo(DataPackets * WordsPerPacket)

Untouched == \A a \in 0 .. RomWords - 1 : a >= DataPackets * WordsPerPacket => rom[a] = Blank

IInv == Typed /\ Counting /\ Coming /\ Working /\ Answered /\ Between /\ Untouched

-----------------------------------------------------------------------------
(* Arithmetic.                                                             *)
LEMMA TimesMonotonic ==
  ASSUME NEW a \in Nat, NEW b \in Nat, NEW c \in Nat, a <= b
  PROVE  a * c <= b * c
  OBVIOUS

LEMMA DivMod ==
  ASSUME NEW x \in Nat, NEW m \in Nat \ {0}
  PROVE  x \div m \in Nat /\ x < (x \div m + 1) * m
<1>1. x \div m \in Nat /\ x % m \in 0 .. m - 1
  OBVIOUS
<1>2. x = m * (x \div m) + (x % m)
  BY Z3
<1> QED
  BY <1>1, <1>2

(* The image ends within the last packet.                                  *)
LEMMA Sizes ==
  ASSUME FwUpdateAssumption, host.file \in Files
  PROVE  /\ WordsPerPacket \in Nat /\ WordsPerPacket >= 2
         /\ PacketUnits \in Nat /\ PacketUnits = WordsPerPacket + 2
         /\ host.file \in Seq(Nat) /\ Len(host.file) \in Nat
         /\ DataPackets \in Nat \ {0} /\ DataPackets = Len(host.file) \div WordsPerPacket + 1
         /\ DataPackets * WordsPerPacket \in Nat
         /\ Len(host.file) < DataPackets * WordsPerPacket
<1>1. WordsPerPacket \in Nat /\ WordsPerPacket >= 2 /\ host.file \in Seq(Nat)
  BY DEF FwUpdateAssumption
<1> DEFINE L == Len(host.file)
<1>2. L \in Nat /\ WordsPerPacket \in Nat \ {0}
  BY <1>1
<1> HIDE DEF L
<1>3. L \div WordsPerPacket \in Nat /\ L < (L \div WordsPerPacket + 1) * WordsPerPacket
  BY <1>2, DivMod
<1>4. DataPackets = L \div WordsPerPacket + 1
  BY DEF DataPackets, L
<1>5. L < DataPackets * WordsPerPacket /\ DataPackets \in Nat \ {0}
  BY <1>2, <1>3, <1>4
<1>9. DataPackets * WordsPerPacket \in Nat
  BY <1>1, <1>5
<1>6. PacketUnits \in Nat /\ PacketUnits = WordsPerPacket + 2
  BY <1>1 DEF PacketUnits
<1>7. DataPackets = Len(host.file) \div WordsPerPacket + 1 /\ Len(host.file) \in Nat
  BY <1>2, <1>4 DEF L
<1>8. Len(host.file) < DataPackets * WordsPerPacket
  BY <1>5 DEF L
<1> QED
  BY <1>1, <1>5, <1>6, <1>7, <1>8, <1>9

(* Words packets before the n-th one have n - 1 times as many words.       *)
LEMMA Places ==
  ASSUME FwUpdateAssumption, host.file \in Files, NEW n \in 1 .. DataPackets
  PROVE  /\ (n - 1) * WordsPerPacket \in Nat /\ n * WordsPerPacket \in Nat
         /\ (n - 1) * WordsPerPacket + WordsPerPacket = n * WordsPerPacket
         /\ n * WordsPerPacket <= DataPackets * WordsPerPacket
         /\ DataPackets * WordsPerPacket \in Nat
<1>1. WordsPerPacket \in Nat /\ DataPackets \in Nat
  BY Sizes
<1> QED
  BY <1>1, TimesMonotonic

(* What a packet consists of.                                              *)
LEMMA PacketFacts ==
  ASSUME FwUpdateAssumption, host.file \in Files, NEW n \in 0 .. DataPackets
  PROVE  /\ Data(n) \in [1 .. WordsPerPacket -> Nat]
         /\ Packet(n) \in Seq(Units) /\ Len(Packet(n)) = PacketUnits
         /\ Packet(n)[1] = Word(n)
         /\ \A i \in 1 .. WordsPerPacket : Packet(n)[i + 1] = Word(Data(n)[i])
         /\ Packet(n)[PacketUnits] = Crc(Data(n))
<1> DEFINE s == Data(n)
           body == [i \in 1 .. WordsPerPacket |-> Word(s[i])]
<1>1. WordsPerPacket \in Nat /\ WordsPerPacket >= 2 /\ host.file \in Seq(Nat)
  BY Sizes
<1>2. s \in [1 .. WordsPerPacket -> Nat]
  <2>1. CASE n = 0
    BY <1>1, <2>1 DEF Data, Header, NamePad
  <2>2. CASE n # 0
    <3>1. n \in 1 .. DataPackets
      BY <2>2, Sizes
    <3>2. (n - 1) * WordsPerPacket \in Nat
      BY <3>1, Places
    <3> QED
      BY <1>1, <2>2, <3>2 DEF Data, DataOf
  <2> QED
    BY <2>1, <2>2
<1>3. Packet(n) = <<Word(n)>> \o body \o <<Crc(s)>>
  BY DEF Packet, Data
<1> HIDE DEF s
<1>4. Word(n) \in Units /\ Crc(s) \in Units /\ \A i \in 1 .. WordsPerPacket : Word(s[i]) \in Units
  BY <1>2, Sizes DEF Units
<1>5. body \in Seq(Units) /\ Len(body) = WordsPerPacket
  BY <1>1, <1>4
<1>6. \A i \in 1 .. WordsPerPacket : body[i] = Word(s[i])
  OBVIOUS
<1> HIDE DEF body
<1>7. /\ <<Word(n)>> \in Seq(Units) /\ Len(<<Word(n)>>) = 1 /\ <<Word(n)>>[1] = Word(n)
      /\ <<Crc(s)>> \in Seq(Units) /\ Len(<<Crc(s)>>) = 1 /\ <<Crc(s)>>[1] = Crc(s)
  BY <1>4
<1> DEFINE t == <<Word(n)>> \o body
<1>8. /\ t \in Seq(Units) /\ Len(t) = WordsPerPacket + 1
      /\ \A i \in 1 .. WordsPerPacket + 1 : t[i] = IF i <= 1 THEN Word(n) ELSE body[i - 1]
  BY <1>1, <1>5, <1>7, ConcatProperties
<1> HIDE DEF t
<1>9. /\ t \o <<Crc(s)>> \in Seq(Units) /\ Len(t \o <<Crc(s)>>) = WordsPerPacket + 2
      /\ \A i \in 1 .. WordsPerPacket + 2 :
           (t \o <<Crc(s)>>)[i] = IF i <= WordsPerPacket + 1 THEN t[i] ELSE <<Crc(s)>>[i - (WordsPerPacket + 1)]
  BY <1>1, <1>7, <1>8, ConcatProperties
<1>10. Packet(n) = t \o <<Crc(s)>>
  BY <1>3 DEF t
<1> DEFINE p == Packet(n)
<1>11. /\ p \in Seq(Units) /\ Len(p) = WordsPerPacket + 2
       /\ \A i \in 1 .. WordsPerPacket + 2 :
            p[i] = IF i <= WordsPerPacket + 1 THEN t[i] ELSE <<Crc(s)>>[i - (WordsPerPacket + 1)]
  BY <1>9, <1>10
<1> HIDE DEF p
<1>12. p[1] = Word(n)
  BY <1>1, <1>8, <1>11
<1>13. ASSUME NEW i \in 1 .. WordsPerPacket PROVE p[i + 1] = Word(s[i])
  BY SMTT(20), <1>1, <1>6, <1>8, <1>11
<1>14. p[WordsPerPacket + 2] = Crc(s)
  BY <1>1, <1>7, <1>11
<1> QED
  BY <1>2, <1>11, <1>12, <1>13, <1>14 DEF p, s, PacketUnits

(* A word, a CRC and what was damaged are told apart.                      *)
LEMMA UnitFacts ==
  /\ \A w \in Nat : Word(w).kind = "word" /\ Word(w).of[1] = w /\ Word(w) # Damaged
  /\ \A t : Crc(t).kind = "crc" /\ Crc(t).of = t /\ Crc(t) # Damaged
  /\ Damaged.kind = "damaged" /\ Damaged \in Units
BY DEF Word, Crc, Damaged, Units

(* The device after a reset.                                               *)
LEMMA ResetFacts ==
  ASSUME NEW s \in {"IDLE", "RECEIVE"}
  PROVE  LET d == [DevReset EXCEPT !.state = s]
         IN  /\ d \in Devs /\ d.state = s /\ d.rx = <<>> /\ d.remain = 0
             /\ d.addr = 0 /\ d.k = 0 /\ DevReset.state = "IDLE"
<1>1. <<>> \in Seq(Units)
  OBVIOUS
<1> QED
  BY <1>1 DEF DevReset, Devs

(* Packets and image depend on the file alone.                             *)
LEMMA SameFile ==
  ASSUME host'.file = host.file
  PROVE  /\ DataPackets' = DataPackets
         /\ \A n : DataOf(n)' = DataOf(n) /\ Packet(n)' = Packet(n)
         /\ \A a : Image(a)' = Image(a)
<1>1. DataPackets' = DataPackets /\ Header' = Header
  BY DEF DataPackets, Header
<1>2. \A n : DataOf(n)' = DataOf(n)
  BY DEF DataOf
<1>3. \A n : Packet(n)' = Packet(n)
  BY <1>1, <1>2 DEF Packet
<1>4. \A a : Image(a)' = Image(a)
  BY <1>1 DEF Image
<1> QED
  BY <1>1, <1>2, <1>3, <1>4

-----------------------------------------------------------------------------
LEMMA InitInv ==
  ASSUME FwUpdateAssumption, Init
  PROVE  IInv
<1> USE DEF Init
<1>1. PICK f \in Files : host = [state |-> "stopped", file |-> f, pkt |-> 0, runs |-> 0]
  OBVIOUS
<1>2. /\ host.state = "stopped" /\ host.file \in Files /\ host.pkt = 0 /\ host.runs = 0
      /\ host \in Hosts
  BY <1>1 DEF FwUpdateAssumption, Hosts
<1>3. /\ dev.state = "IDLE" /\ dev.rx = <<>> /\ dev.remain = 0 /\ dev.addr = 0 /\ dev.k = 0
      /\ dev \in Devs
  BY DEF DevReset, Devs
<1>4. Typed
  <2>1. DataPackets * WordsPerPacket \in Nat /\ DataPackets \in Nat /\ WordsPerPacket \in Nat
    BY <1>2, Sizes
  <2>2. rom \in [0 .. RomWords - 1 -> Nat]
    BY DEF Blank
  <2> QED
    BY <1>2, <1>3, <2>1, <2>2, Sizes DEF Typed, Hosts
<1>5. Counting /\ Coming /\ Working /\ Answered /\ Between
  BY <1>2, <1>3 DEF Counting, Coming, Working, Answered, Between, Idles, Listening
<1>6. Untouched
  BY DEF Untouched
<1> QED
  BY <1>4, <1>5, <1>6 DEF IInv

-----------------------------------------------------------------------------
(* The script.                                                             *)

(* Packet 0 finds a device that has been reset.                            *)
LEMMA RunScriptInv ==
  ASSUME FwUpdateAssumption, PulsesPin, IInv, RunScript
  PROVE  IInv'
<1> USE DEF IInv, RunScript, Quiet
<1>1. /\ host'.state = "waits" /\ host'.pkt = 0 /\ host'.file = host.file
      /\ host'.runs = host.runs + 1 /\ host.runs \in 0 .. Attempts
      /\ host' \in Hosts
  <2>1. host.runs + 1 \in 0 .. Attempts
    BY DEF Typed, Hosts, FwUpdateAssumption
  <2>2. /\ host \in Hosts
        /\ host' = [host EXCEPT !.state = "waits", !.pkt = 0, !.runs = host.runs + 1]
    BY DEF Typed
  <2>3. host.runs \in 0 .. Attempts /\ 0 \in Nat
    BY <2>2 DEF Hosts
  <2> QED
    BY ONLY <2>1, <2>2, <2>3 DEF Hosts
<1>2. host.file \in Files /\ DataPackets \in Nat \ {0} /\ PacketUnits \in Nat
  BY Sizes DEF Typed, Hosts
<1>3. dev.rx = <<>> /\ dev.remain = 0 /\ dev.addr = 0 /\ dev.state = "RECEIVE"
  BY DEF Between, Counting, Typed, Hosts
<1>4. Packet(0) \in Seq(Units) /\ Len(Packet(0)) = PacketUnits
  BY <1>2, PacketFacts
<1>5. Typed'
  BY <1>1, <1>2, <1>4, SameFile DEF Typed, Hosts
<1>6. Counting'
  BY DEF Counting
<1>7. Coming'
  <2>1. Got' = 0
    BY <1>3 DEF Got
  <2>2. Ready(0)'
    <3>1. \A a \in 0 .. RomWords - 1 : ~(a < (0 - 1) * WordsPerPacket)
      BY <1>2, Sizes DEF FwUpdateAssumption
    <3>2. WrittenTo((0 - 1) * WordsPerPacket)'
      BY <3>1 DEF WrittenTo
    <3> QED
      BY <1>3, <3>2 DEF Ready
  <2>3. \A i \in 1 .. Len(wire') : Passed(wire[i], 0, i)'
    BY <1>1, SameFile DEF Passed
  <2> QED
    BY <1>1, <1>2, <1>3, <1>4, <2>1, <2>2, <2>3 DEF Coming, Listening
<1>8. Working' /\ Answered'
  BY <1>3 DEF Working, Answered, Idles, Listening
<1>9. Between'
  BY <1>1, <1>3 DEF Between, Typed
<1>10. Untouched'
  BY <1>1, SameFile DEF Untouched
<1> QED
  BY <1>5, <1>6, <1>7, <1>8, <1>9, <1>10

LEMMA ReadAckInv ==
  ASSUME FwUpdateAssumption, IInv, ReadAck
  PROVE  IInv'
<1> USE DEF IInv, ReadAck
<1> DEFINE n == host.pkt
<1>1. /\ host.state = "waits" /\ Listening /\ wire = <<>> /\ Len(resp) = 1 /\ Got = 0
      /\ resp[1] = "ACK" /\ Ready(n + 1) /\ resp' = <<>>
  BY DEF Answered, Typed
<1>2. /\ host.file \in Files /\ DataPackets \in Nat \ {0} /\ PacketUnits \in Nat
      /\ n \in 0 .. DataPackets /\ host'.file = host.file
  BY Sizes DEF Typed, Hosts
<1>3. DataPackets' = DataPackets
  BY <1>2, SameFile
<1>4. Counting' /\ Untouched'
  BY <1>2, SameFile DEF Counting, Untouched
<1>5. CASE n < DataPackets
  <2>1. host' = [host EXCEPT !.pkt = n + 1] /\ wire' = wire \o Packet(n + 1)
    BY <1>5
  <2>2. n + 1 \in 1 .. DataPackets
    BY <1>2, <1>5
  <2>3. Packet(n + 1) \in Seq(Units) /\ Len(Packet(n + 1)) = PacketUnits
    BY <1>2, <2>2, PacketFacts
  <2>4. wire' = Packet(n + 1)
    BY <1>1, <2>1, <2>3
  <2>5. /\ host'.state = "waits" /\ host'.pkt = n + 1 /\ host'.runs = host.runs
        /\ host' \in Hosts
    BY SMTT(20), <1>1, <1>2, <2>1, <2>2 DEF Typed, Hosts
  <2>6. Typed'
    BY <1>1, <1>3, <2>2, <2>3, <2>4, <2>5 DEF Typed, Hosts
  <2>7. dev.remain = DataPackets - n
    BY <1>1, <1>2 DEF Ready
  <2>8. dev.state # "REC_FIRST"
    BY <1>2, <1>5, <2>7 DEF Counting
  <2>9. Coming'
    <3>1. Got' = 0 /\ Len(wire') = PacketUnits
      BY <1>1, <2>3, <2>4 DEF Got
    <3>2. Ready(host.pkt)'
      BY <1>1, <1>2, <1>3, <2>5, SameFile DEF Ready, WrittenTo
    <3>3. \A i \in 1 .. Len(wire') : Passed(wire[i], host.pkt, i)'
      BY <1>2, <2>4, <2>5, SameFile DEF Passed
    <3> QED
      BY <1>2, <2>5, <2>8, <3>1, <3>2, <3>3 DEF Coming
  <2>10. Working' /\ Answered' /\ Between'
    BY <1>1, <2>5 DEF Working, Answered, Between, Idles, Listening
  <2> QED
    BY <1>4, <2>6, <2>9, <2>10
<1>6. CASE n >= DataPackets
  <2>1. n = DataPackets /\ host' = [host EXCEPT !.state = "succeeded"] /\ wire' = wire
    BY <1>2, <1>6
  <2>2. /\ host'.state = "succeeded" /\ host'.pkt = n /\ host'.runs = host.runs
        /\ host' \in Hosts
    BY <1>2, <2>1 DEF Typed, Hosts
  <2>3. Typed'
    BY <1>1, <1>2, <1>3, <2>1, <2>2 DEF Typed, Hosts
  <2>4. Coming' /\ Answered'
    BY <1>1, <2>2 DEF Coming, Answered
  <2>5. Working'
    BY <1>1 DEF Working, Idles, Listening
  <2>6. WrittenTo(DataPackets * WordsPerPacket)'
    <3>1. WrittenTo(DataPackets * WordsPerPacket)
      BY <1>1, <1>2, <2>1 DEF Ready
    <3> QED
      BY <1>2, <3>1, SameFile DEF WrittenTo
  <2>7. Between'
    BY <1>1, <2>1, <2>2, <2>6 DEF Between, Idles, Listening
  <2> QED
    BY <1>4, <2>3, <2>4, <2>5, <2>7
<1> QED
  BY <1>2, <1>5, <1>6

(* A run fails when nothing but an answer is on its way.                   *)
LEMMA FailInv ==
  ASSUME FwUpdateAssumption, IInv, host.state = "waits",
         host' = [host EXCEPT !.state = "failed"],
         wire = <<>>, resp' = <<>>, Listening, UNCHANGED <<wire, dev, rom, faults>>
  PROVE  IInv'
<1> USE DEF IInv
<1>1. host' \in Hosts /\ host'.state = "failed" /\ host'.file = host.file
      /\ host'.pkt = host.pkt /\ host'.runs = host.runs
  BY DEF Typed, Hosts
<1>2. DataPackets' = DataPackets
  BY <1>1, SameFile
<1>3. Typed'
  BY <1>1, <1>2 DEF Typed
<1>4. Counting' /\ Coming' /\ Working' /\ Answered'
  BY <1>1 DEF Counting, Coming, Working, Answered, Idles, Listening
<1>5. Between' /\ Untouched'
  BY <1>1, <1>2 DEF Between, Untouched, Idles, Listening
<1> QED
  BY <1>3, <1>4, <1>5

LEMMA ReadNakInv ==
  ASSUME FwUpdateAssumption, IInv, ReadNak
  PROVE  IInv'
<1>1. wire = <<>> /\ Listening
  BY DEF IInv, ReadNak, Answered
<1> QED
  BY <1>1, FailInv DEF ReadNak

LEMMA TimeoutInv ==
  ASSUME FwUpdateAssumption, IInv, Timeout
  PROVE  IInv'
BY FailInv DEF Timeout, Quiet, Listening

-----------------------------------------------------------------------------
(* uart_debug.                                                             *)
LEMMA RecFirstPacketInv ==
  ASSUME FwUpdateAssumption, IInv, RecFirstPacket
  PROVE  IInv'
<1> USE DEF IInv, RecFirstPacket, Silent
<1>1. /\ dev' \in Devs /\ dev'.state = "RECEIVE" /\ dev'.rx = <<>> /\ dev'.remain = 0
      /\ dev'.addr = 0 /\ dev'.k = 0
  BY ResetFacts
<1>2. /\ host.file \in Files /\ DataPackets \in Nat \ {0} /\ PacketUnits \in Nat \ {0}
      /\ WordsPerPacket \in Nat /\ DataPackets * WordsPerPacket \in Nat
      /\ DataPackets' = DataPackets
  BY Sizes, SameFile DEF Typed, Hosts
<1>3. Typed'
  <2>1. 0 \in 0 .. DataPackets * WordsPerPacket + 1 /\ 0 \in 0 .. WordsPerPacket + 1
    BY <1>2
  <2>2. Len(dev'.rx) <= PacketUnits
    BY <1>1, <1>2
  <2> QED
    BY SMTT(20), <1>1, <1>2, <2>1, <2>2 DEF Typed
<1>4. Counting' /\ Working'
  BY <1>1, <1>2 DEF Counting, Working, Idles, Listening
<1>5. dev.remain = 0
  BY DEF Counting
<1>6. Coming'
  <2>1. host.state = "waits" /\ resp = <<>> => Len(wire) < PacketUnits
    BY <1>2 DEF Coming, Between, Listening, Got, Typed
  <2>2. Got' = 0
    BY <1>1 DEF Got
  <2> QED
    BY <1>2, <2>1, <2>2 DEF Coming, Typed
<1>7. Answered'
  <2>1. resp # <<>> /\ resp[1] = "ACK" => Ready(host.pkt + 1)'
    <3> SUFFICES ASSUME resp # <<>>, resp[1] = "ACK" PROVE Ready(host.pkt + 1)'
      OBVIOUS
    <3>1. Ready(host.pkt + 1) /\ host.pkt \in 0 .. DataPackets
      BY DEF Answered, Typed
    <3>2. ~(host.pkt + 1 <= DataPackets)
      BY <1>2, <1>5, <3>1 DEF Ready
    <3> QED
      BY <1>1, <1>2, <1>5, <3>1, <3>2, SameFile DEF Ready, WrittenTo
  <2>2. Got' = 0
    BY <1>1 DEF Got
  <2> QED
    BY <1>1, <2>1, <2>2 DEF Answered, Listening, Between
<1>8. Between' /\ Untouched'
  BY <1>1, <1>2, SameFile DEF Between, Untouched, WrittenTo, Idles, Listening
<1> QED
  BY <1>3, <1>4, <1>6, <1>7, <1>8

LEMMA RecRemainPacketInv ==
  ASSUME FwUpdateAssumption, IInv, RecRemainPacket
  PROVE  IInv'
<1> USE DEF IInv, RecRemainPacket, Silent
<1>1. /\ dev' \in Devs /\ dev'.state = "RECEIVE" /\ dev'.rx = <<>> /\ dev'.remain = dev.remain
      /\ dev'.addr = dev.addr /\ dev'.k = dev.k /\ dev.remain > 0
  <2>1. dev \in Devs /\ dev.remain > 0
    BY DEF Typed, Counting
  <2>2. <<>> \in Seq(Units)
    OBVIOUS
  <2> QED
    BY <2>1, <2>2 DEF Devs
<1>2. /\ host.file \in Files /\ PacketUnits \in Nat \ {0} /\ DataPackets' = DataPackets
  BY Sizes, SameFile DEF Typed, Hosts
<1>3. Typed'
  BY <1>1, <1>2 DEF Typed
<1>4. Counting' /\ Working'
  BY <1>1, <1>2 DEF Counting, Working, Idles, Listening
<1>5. Got = 0 /\ Got' = 0
  BY <1>1 DEF Got
<1>6. \A n : Ready(n) => Ready(n)'
  BY <1>1, <1>2, SameFile DEF Ready, WrittenTo
<1>7. Coming'
  BY <1>1, <1>2, <1>5, <1>6, SameFile DEF Coming, Listening, Passed
<1>8. Answered'
  BY <1>1, <1>5, <1>6 DEF Answered, Listening
<1>9. Between' /\ Untouched'
  BY <1>1, <1>2, SameFile DEF Between, Untouched, WrittenTo, Idles, Listening
<1> QED
  BY <1>3, <1>4, <1>7, <1>8, <1>9

LEMMA PulsePinInv ==
  ASSUME FwUpdateAssumption, IInv, PulsePin
  PROVE  IInv'
<1> USE DEF IInv, PulsePin, Quiet, Silent
<1>1. /\ dev' \in Devs /\ dev'.state = "IDLE" /\ dev'.rx = <<>> /\ dev'.remain = 0
      /\ dev'.addr = 0 /\ dev'.k = 0
  <2>1. dev' = [DevReset EXCEPT !.state = "IDLE"]
    BY DEF DevReset
  <2> QED
    BY <2>1, ResetFacts
<1>2. /\ host.file \in Files /\ DataPackets \in Nat \ {0} /\ PacketUnits \in Nat \ {0}
      /\ WordsPerPacket \in Nat /\ DataPackets * WordsPerPacket \in Nat
      /\ DataPackets' = DataPackets
  BY Sizes, SameFile DEF Typed, Hosts
<1>3. Typed'
  BY <1>1, <1>2 DEF Typed
<1>4. Counting' /\ Coming' /\ Working' /\ Answered'
  BY <1>1 DEF Counting, Coming, Working, Answered, Idles, Listening
<1>5. Between' /\ Untouched'
  BY <1>1, <1>2 DEF Between, Untouched, Idles, Listening
<1> QED
  BY <1>3, <1>4, <1>5

(* A byte moves from the line into rx, behind those before it.             *)
LEMMA GetByteInv ==
  ASSUME FwUpdateAssumption, IInv, GetByte
  PROVE  IInv'
<1> USE DEF IInv, GetByte
<1> DEFINE L == Len(dev.rx)
           n == host.pkt
<1>1. /\ host.state = "waits" /\ resp = <<>> /\ Listening /\ Got = L
      /\ L \in Nat /\ L < PacketUnits /\ Len(wire) \in Nat /\ Len(wire) > 0
      /\ dev \in Devs /\ wire \in Seq(Units)
  <2>1. host.state = "waits" /\ resp = <<>> /\ Listening /\ Got = L
    BY DEF Between, Answered, Listening, Got
  <2>2. L < PacketUnits /\ dev \in Devs /\ wire \in Seq(Units)
    BY DEF Counting, Typed
  <2>3. L \in Nat /\ Len(wire) \in Nat /\ Len(wire) > 0
    BY <2>2, EmptySeq DEF Devs
  <2> QED
    BY <2>1, <2>2, <2>3
<1>2. /\ host.file \in Files /\ PacketUnits \in Nat \ {0} /\ DataPackets' = DataPackets
      /\ host' = host /\ rom' = rom /\ resp' = resp /\ n' = n
  BY Sizes, SameFile DEF Typed, Hosts
<1>3. /\ Head(wire) = wire[1] /\ wire[1] \in Units /\ wire' \in Seq(Units)
      /\ Len(wire') = Len(wire) - 1
      /\ \A i \in 1 .. Len(wire') : wire'[i] = wire[i + 1]
  BY <1>1, HeadTailProperties
<1>4. /\ Append(dev.rx, wire[1]) \in Seq(Units) /\ Len(Append(dev.rx, wire[1])) = L + 1
      /\ \A i \in 1 .. L : Append(dev.rx, wire[1])[i] = dev.rx[i]
      /\ Append(dev.rx, wire[1])[L + 1] = wire[1]
  BY <1>1, <1>3 DEF Devs
<1>5. /\ dev' \in Devs /\ dev'.rx = Append(dev.rx, wire[1]) /\ dev'.remain = dev.remain
      /\ dev'.addr = dev.addr /\ dev'.k = dev.k
      /\ dev'.state = IF L = PacketUnits - 1 THEN "CRC_END" ELSE "RECEIVE"
  BY <1>1, <1>3, <1>4 DEF Devs
<1>6. Typed'
  BY <1>1, <1>2, <1>3, <1>4, <1>5 DEF Typed
<1>7. /\ L + Len(wire) <= PacketUnits
      /\ L + Len(wire) = PacketUnits =>
           /\ Ready(n)
           /\ \A i \in 1 .. L : Passed(dev.rx[i], n, i)
           /\ \A i \in 1 .. Len(wire) : Passed(wire[i], n, L + i)
  BY <1>1 DEF Coming
<1>8. Ready(n) => Ready(n)'
  BY <1>2, <1>5, SameFile DEF Ready, WrittenTo
<1>10. Packet(n)' = Packet(n)
  BY <1>2, SameFile
<1>11. Between' /\ Untouched' /\ Answered'
  BY <1>1, <1>2, <1>3, <1>5, <1>7, SameFile
     DEF Between, Untouched, Answered, WrittenTo, Idles, Listening
<1>12. CASE L = PacketUnits - 1
  <2>1. dev'.state = "CRC_END" /\ Len(wire) = 1 /\ wire' = <<>> /\ Len(dev'.rx) = PacketUnits
    BY <1>1, <1>2, <1>3, <1>4, <1>5, <1>7, <1>12, EmptySeq
  <2>2. ASSUME NEW i \in 1 .. PacketUnits PROVE dev'.rx[i] \in {Packet(n)[i], Damaged}
    <3>1. CASE i \in 1 .. L
      BY <1>4, <1>5, <1>7, <1>12, <2>1, <3>1, <1>2 DEF Passed
    <3>2. CASE i = L + 1
      BY <1>1, <1>4, <1>5, <1>7, <2>1, <3>2, <1>12, <1>2 DEF Passed
    <3> QED
      BY <1>1, <1>2, <1>12, <3>1, <3>2
  <2>3. Working'
    BY <1>1, <1>2, <1>7, <1>8, <1>10, <1>12, <2>1, <2>2 DEF Working, Passed, Idles, Listening
  <2>4. Counting' /\ Coming'
    BY <2>1 DEF Counting, Coming, Idles, Listening
  <2> QED
    BY <1>6, <1>11, <2>3, <2>4
<1>13. CASE L # PacketUnits - 1
  <2>1. dev'.state = "RECEIVE" /\ Got' = L + 1 /\ L + 1 < PacketUnits /\ Len(dev'.rx) = L + 1
    BY <1>1, <1>2, <1>4, <1>5, <1>13 DEF Got
  <2>2. Counting' /\ Working'
    BY <1>5, <2>1 DEF Counting, Working, Idles, Listening
  <2>3. Coming'
    <3>1. Got' + Len(wire') = L + Len(wire)
      BY <1>1, <1>3, <2>1
    <3>2. ASSUME L + Len(wire) = PacketUnits
          PROVE  \A i \in 1 .. L + 1 : dev'.rx[i] \in {Packet(n)[i], Damaged}
      <4> SUFFICES ASSUME NEW i \in 1 .. L + 1 PROVE dev'.rx[i] \in {Packet(n)[i], Damaged}
        OBVIOUS
      <4>1. CASE i \in 1 .. L
        BY <1>4, <1>5, <1>7, <3>2, <4>1 DEF Passed
      <4>2. CASE i = L + 1
        BY <1>1, <1>4, <1>5, <1>7, <3>2, <4>2 DEF Passed
      <4> QED
        BY <1>1, <4>1, <4>2
    <3>3. ASSUME L + Len(wire) = PacketUnits, NEW i \in 1 .. Len(wire')
          PROVE  wire'[i] \in {Packet(n)[L + 1 + i], Damaged}
      <4>1. i + 1 \in 1 .. Len(wire) /\ L + (i + 1) = L + 1 + i
        <5>1. Len(wire) \in Nat /\ L \in Nat /\ i \in 1 .. Len(wire) - 1
          BY <1>1, <1>3
        <5> HIDE DEF L
        <5> QED
          BY ONLY <5>1
      <4>2. Passed(wire[i + 1], n, L + (i + 1))
        BY <1>7, <3>3, <4>1
      <4> QED
        BY <1>3, <4>1, <4>2 DEF Passed
    <3> QED
      BY <1>1, <1>2, <1>7, <1>8, <1>10, <2>1, <3>1, <3>2, <3>3 DEF Coming, Passed, Listening
  <2> QED
    BY <1>6, <1>11, <2>2, <2>3
<1> QED
  BY <1>12, <1>13

(* A packet whose CRC is good holds the words that were sent.              *)
LEMMA GoodWords ==
  ASSUME FwUpdateAssumption, Typed, CrcGood, NEW n \in 0 .. DataPackets,
         \A i \in 1 .. PacketUnits : Passed(dev.rx[i], n, i)
  PROVE  \A i \in 1 .. WordsPerPacket : Received(i) = Word(Data(n)[i]) /\ Received(i).of[1] = Data(n)[i]
<1> SUFFICES ASSUME NEW i \in 1 .. WordsPerPacket
             PROVE  Received(i) = Word(Data(n)[i]) /\ Received(i).of[1] = Data(n)[i]
  OBVIOUS
<1>1. host.file \in Files /\ WordsPerPacket \in Nat /\ PacketUnits = WordsPerPacket + 2
  BY Sizes DEF Typed, Hosts
<1>2. i + 1 \in 1 .. PacketUnits
  BY <1>1
<1>3. Received(i) \in {Packet(n)[i + 1], Damaged} /\ Received(i).kind = "word"
  BY <1>2 DEF Received, Passed, CrcGood
<1>4. Packet(n)[i + 1] = Word(Data(n)[i]) /\ Data(n)[i] \in Nat
  BY <1>1, PacketFacts
<1> QED
  BY <1>3, <1>4, UnitFacts

(* What StepBack makes of the address.                                     *)
LEMMA SteppedBack ==
  ASSUME FwUpdateAssumption, Typed
  PROVE  /\ StepBack \in 0 .. DataPackets * WordsPerPacket
         /\ \A n \in 1 .. DataPackets : Ready(n) => StepBack = (n - 1) * WordsPerPacket
<1>1. /\ host.file \in Files /\ WordsPerPacket \in Nat /\ DataPackets \in Nat
      /\ DataPackets * WordsPerPacket \in Nat
      /\ dev.addr \in 0 .. DataPackets * WordsPerPacket + 1
  BY Sizes DEF Typed, Hosts
<1>2. StepBack \in 0 .. DataPackets * WordsPerPacket
  BY <1>1 DEF StepBack
<1>3. ASSUME NEW n \in 1 .. DataPackets, Ready(n) PROVE StepBack = (n - 1) * WordsPerPacket
  <2>1. (n - 1) * WordsPerPacket \in Nat /\ n \in Nat
    BY <1>1, Places
  <2>2. CASE n = 1
    BY <1>1, <1>3, <2>2 DEF Ready, StepBack
  <2>3. CASE n > 1
    BY <1>1, <1>3, <2>1, <2>3 DEF Ready, StepBack
  <2> QED
    BY <1>1, <2>2, <2>3
<1> QED
  BY <1>2, <1>3

LEMMA CrcEndInv ==
  ASSUME FwUpdateAssumption, IInv, CrcEnd
  PROVE  IInv'
<1> USE DEF IInv, CrcEnd, Silent
<1> DEFINE n == host.pkt
           word == IF Received(1).kind = "word" THEN Received(1).of[1] ELSE 0
           d == [dev EXCEPT !.addr = StepBack, !.k = 1, !.data = word]
<1>1. /\ host.state = "waits" /\ wire = <<>> /\ resp = <<>>
      /\ Len(dev.rx) = PacketUnits /\ Ready(n)
      /\ \A i \in 1 .. PacketUnits : Passed(dev.rx[i], n, i)
  BY DEF Working, Idles, Listening
<1>2. /\ host.file \in Files /\ WordsPerPacket \in Nat /\ WordsPerPacket >= 2
      /\ PacketUnits = WordsPerPacket + 2 /\ DataPackets \in Nat \ {0} /\ n \in 0 .. DataPackets
      /\ DataPackets' = DataPackets /\ dev \in Devs /\ host' = host /\ rom' = rom
      /\ dev.remain \in 0 .. DataPackets
  BY Sizes, SameFile DEF Typed, Hosts
<1>3. StepBack \in Nat /\ StepBack \in 0 .. DataPackets * WordsPerPacket + 1
  <2>1. DataPackets * WordsPerPacket \in Nat /\ StepBack \in 0 .. DataPackets * WordsPerPacket
    BY <1>2, Sizes, SteppedBack
  <2> QED
    BY <2>1
<1>4. word \in Nat
  <2>1. dev.rx \in Seq(Units) /\ 2 \in 1 .. Len(dev.rx)
    BY <1>1, <1>2 DEF Devs
  <2>2. Received(1) \in Units
    BY <2>1, ElementOfSeq DEF Received
  <2>3. \A u \in Units : u.kind = "word" => u.of[1] \in Nat
    BY UnitFacts DEF Units
  <2> QED
    BY <2>2, <2>3
<1>5. /\ d \in Devs /\ d.addr = StepBack /\ d.k = 1 /\ d.rx = dev.rx /\ d.remain = dev.remain
      /\ d.data = word
  BY <1>2, <1>3, <1>4 DEF Devs
<1>6. dev' = CASE CrcGood /\ dev.remain = 0 ->
                    [d EXCEPT !.remain = PacketCount, !.state = "SEND_ACK"]
               [] CrcGood /\ dev.remain > 0 ->
                    [d EXCEPT !.remain = d.remain - 1, !.state = "WRITE_MEM"]
               [] ~CrcGood -> [d EXCEPT !.state = "SEND_NAK"]
  OBVIOUS
<1> HIDE DEF d, word
<1>7. ASSUME dev' \in Devs, dev'.state \in {"SEND_ACK", "SEND_NAK", "WRITE_MEM"},
             dev'.addr = StepBack, dev'.k = 1, dev'.rx = dev.rx, dev'.remain \in 0 .. DataPackets
      PROVE  Typed' /\ Counting' /\ Coming' /\ Answered' /\ Between' /\ Untouched'
  <2>1. Typed'
    BY SMTT(20), <1>1, <1>2, <1>3, <1>7 DEF Typed
  <2>2. Counting' /\ Coming' /\ Answered'
    BY <1>1, <1>7 DEF Counting, Coming, Answered, Idles, Listening
  <2>3. Between' /\ Untouched'
    BY <1>1, <1>2, <1>7 DEF Between, Untouched, Idles, Listening
  <2> QED
    BY <2>1, <2>2, <2>3
<1>8. CASE CrcGood /\ dev.remain = 0
  <2>1. dev' = [d EXCEPT !.remain = PacketCount, !.state = "SEND_ACK"]
    BY <1>6, <1>8
  <2>2. n = 0
    BY <1>1, <1>2, <1>8 DEF Ready
  <2>3. PacketCount = DataPackets
    <3>1. Received(WordsPerPacket).of[1] = Header[WordsPerPacket]
      BY <1>1, <1>2, <1>8, <2>2, GoodWords DEF Data
    <3>2. Header[WordsPerPacket] = Len(host.file)
      BY <1>2 DEF Header
    <3> QED
      BY <3>1, <3>2 DEF PacketCount, DataPackets
  <2>4. /\ dev' \in Devs /\ dev'.state = "SEND_ACK" /\ dev'.addr = StepBack /\ dev'.k = 1
        /\ dev'.rx = dev.rx /\ dev'.remain = DataPackets
    BY <1>2, <1>5, <2>1, <2>3 DEF Devs
  <2>5. StepBack = 0
    BY <1>1, <1>2, <2>2 DEF Ready, StepBack
  <2>6. WrittenTo(0)'
    <3>1. \A a \in 0 .. RomWords - 1 : ~(a < 0)
      BY DEF FwUpdateAssumption
    <3> QED
      BY <3>1 DEF WrittenTo
  <2>7. Ready(host.pkt + 1)'
    <3>1. (0 + 1 - 1) * WordsPerPacket = 0 /\ host'.pkt = 0
      BY <1>2, <2>2
    <3> QED
      BY <1>2, <2>4, <2>5, <2>6, <3>1 DEF Ready
  <2>8. Working'
    BY <1>1, <1>2, <2>4, <2>7 DEF Working
  <2> QED
    BY <1>2, <1>7, <2>4, <2>8
<1>9. CASE CrcGood /\ dev.remain > 0
  <2>1. dev' = [d EXCEPT !.remain = d.remain - 1, !.state = "WRITE_MEM"]
    BY <1>6, <1>9
  <2>2. n \in 1 .. DataPackets /\ dev.remain = DataPackets - n + 1
    BY <1>1, <1>2, <1>9 DEF Ready
  <2>3. /\ dev' \in Devs /\ dev'.state = "WRITE_MEM" /\ dev'.addr = StepBack /\ dev'.k = 1
        /\ dev'.rx = dev.rx /\ dev'.remain = DataPackets - n /\ dev'.data = word
    <3>1. d.remain - 1 = DataPackets - n /\ d.remain - 1 \in Nat
      BY <1>2, <1>5, <2>2
    <3> QED
      BY <1>5, <2>1, <3>1 DEF Devs
  <2>4. \A i \in 1 .. WordsPerPacket : Received(i) = Word(DataOf(n)[i]) /\ Received(i).of[1] = DataOf(n)[i]
    <3>1. \A i \in 1 .. WordsPerPacket : Received(i) = Word(Data(n)[i]) /\ Received(i).of[1] = Data(n)[i]
      BY <1>1, <1>2, <1>9, GoodWords
    <3>2. Data(n) = DataOf(n)
      BY <2>2 DEF Data
    <3> QED
      BY <3>1, <3>2
  <2>5. word = DataOf(n)[1]
    BY <1>2, <1>9, <2>4 DEF word, CrcGood
  <2>6. StepBack = (n - 1) * WordsPerPacket /\ WrittenTo(StepBack)
    BY <1>1, <1>2, <2>2, SteppedBack DEF Ready
  <2>7. DataOf(n)' = DataOf(n) /\ Packet(n)' = Packet(n)
    BY <1>2, SameFile
  <2>8. WrittenTo(dev.addr)'
    BY <1>2, <2>3, <2>6, SameFile DEF WrittenTo
  <2>9. Passed(dev.rx[1], host.pkt, 1)' /\ \A i \in 1 .. WordsPerPacket : (Received(i) = Word(DataOf(host.pkt)[i]))'
    <3>1. 1 \in 1 .. PacketUnits /\ dev'.rx = dev.rx /\ host' = host
      BY <1>2, <2>3
    <3>2. dev.rx[1] \in {Packet(n)[1], Damaged}
      BY <1>1, <3>1 DEF Passed
    <3>3. \A i : Received(i)' = Received(i)
      BY <3>1 DEF Received
    <3>4. \A i \in 1 .. WordsPerPacket : (Received(i) = Word(DataOf(host.pkt)[i]))'
      BY <1>2, <2>4, <2>7, <3>1, <3>3 DEF Word
    <3> QED
      BY <2>7, <3>1, <3>2, <3>4 DEF Passed
  <2>10. (dev.addr = (host.pkt - 1) * WordsPerPacket + dev.k - 1)'
    <3>1. (n - 1) * WordsPerPacket \in Nat
      BY <1>2, <2>2, Places
    <3> QED
      BY <1>2, <2>3, <2>6, <3>1
  <2>11. (dev.k <= WordsPerPacket => dev.data = DataOf(host.pkt)[dev.k])'
    BY <1>2, <2>3, <2>5, <2>7
  <2>12. Working'
    <3>1. (host.state = "waits" /\ wire = <<>> /\ resp = <<>> /\ host.pkt > 0)'
      BY <1>1, <1>2, <2>2
    <3>2. (dev.remain = DataPackets - host.pkt /\ dev.k \in 1 .. WordsPerPacket + 1)'
      BY <1>2, <2>3
    <3>3. (Len(dev.rx) = PacketUnits)'
      BY <1>1, <2>3 DEF PacketUnits
    <3> QED
      BY <2>3, <2>8, <2>9, <2>10, <2>11, <3>1, <3>2, <3>3 DEF Working
  <2>13. dev'.remain \in 0 .. DataPackets
    BY <1>2, <2>2, <2>3
  <2> QED
    BY <1>7, <2>3, <2>12, <2>13
<1>10. CASE ~CrcGood
  <2>1. dev' = [d EXCEPT !.state = "SEND_NAK"]
    BY <1>6, <1>10
  <2>2. /\ dev' \in Devs /\ dev'.state = "SEND_NAK" /\ dev'.addr = StepBack /\ dev'.k = 1
        /\ dev'.rx = dev.rx /\ dev'.remain = dev.remain
    BY <1>5, <2>1 DEF Devs
  <2>3. Working'
    BY <1>1, <1>2, <2>2 DEF Working
  <2> QED
    BY <1>2, <1>7, <2>2, <2>3
<1> QED
  BY <1>2, <1>8, <1>9, <1>10

(* The word at place a of the memory is the one that was loaded for it.    *)
LEMMA WordInPlace ==
  ASSUME FwUpdateAssumption, host.file \in Files, NEW n \in 1 .. DataPackets,
         NEW k \in 1 .. WordsPerPacket, NEW a, a = (n - 1) * WordsPerPacket + k - 1
  PROVE  /\ a \in Nat /\ a < DataPackets * WordsPerPacket
         /\ DataOf(n)[k] = Image(a) /\ DataOf(n)[k] \in Nat
<1> DEFINE p == (n - 1) * WordsPerPacket
           e == DataPackets * WordsPerPacket
<1>1. /\ WordsPerPacket \in Nat /\ host.file \in Seq(Nat) /\ Len(host.file) \in Nat
      /\ p \in Nat /\ p + WordsPerPacket <= e /\ e \in Nat
  BY Sizes, Places
<1>2. DataOf(n)[k] = IF p + k <= Len(host.file) THEN host.file[p + k] ELSE 0
  BY DEF DataOf
<1>3. Image(a) = IF a < Len(host.file) THEN host.file[a + 1] ELSE IF a < e THEN 0 ELSE Blank
  BY DEF Image
<1>4. a = p + k - 1
  OBVIOUS
<1> HIDE DEF p, e
<1>5. a \in Nat /\ a < e /\ a + 1 = p + k
  BY <1>1, <1>4
<1>6. p + k <= Len(host.file) <=> a < Len(host.file)
  BY <1>1, <1>5
<1>7. DataOf(n)[k] = Image(a)
  BY <1>2, <1>3, <1>5, <1>6
<1>8. DataOf(n)[k] \in Nat
  BY <1>1, <1>2, <1>5, <1>6
<1> QED
  BY <1>5, <1>7, <1>8 DEF e

(* The device waits for packet m.                                          *)
LEMMA NowReady ==
  ASSUME NEW m \in Nat \ {0, 1},
         (dev.remain = DataPackets - m + 1)',
         (dev.addr = (m - 1) * WordsPerPacket + 1)',
         WrittenTo((m - 1) * WordsPerPacket)'
  PROVE  Ready(m)'
BY DEF Ready

LEMMA WriteMemInv ==
  ASSUME FwUpdateAssumption, IInv, WriteMem
  PROVE  IInv'
<1> USE DEF IInv, WriteMem
<1> DEFINE n == host.pkt
           e == DataPackets * WordsPerPacket
           p == (n - 1) * WordsPerPacket
           q == n * WordsPerPacket
<1>1. /\ host.state = "waits" /\ wire = <<>> /\ resp = <<>> /\ dev.state = "WRITE_MEM"
      /\ n > 0 /\ dev.remain = DataPackets - n /\ dev.k \in 1 .. WordsPerPacket + 1
      /\ dev.addr = (n - 1) * WordsPerPacket + dev.k - 1
      /\ Len(dev.rx) = PacketUnits /\ Passed(dev.rx[1], n, 1)
      /\ \A i \in 1 .. WordsPerPacket : Received(i) = Word(DataOf(n)[i])
      /\ dev.k <= WordsPerPacket => dev.data = DataOf(n)[dev.k]
      /\ WrittenTo(dev.addr)
  BY DEF Working, Idles, Listening
<1>2. /\ host.file \in Files /\ WordsPerPacket \in Nat /\ WordsPerPacket >= 2
      /\ DataPackets \in Nat \ {0} /\ n \in 1 .. DataPackets
      /\ dev \in Devs /\ host' = host /\ wire' = wire /\ resp' = resp /\ e \in Nat
      /\ DataPackets' = DataPackets /\ dev.addr \in Nat /\ rom \in [0 .. RomWords - 1 -> Nat]
  <2>1. host.file \in Files /\ dev \in Devs /\ rom \in [0 .. RomWords - 1 -> Nat]
    BY DEF Typed, Hosts
  <2>2. /\ WordsPerPacket \in Nat /\ WordsPerPacket >= 2 /\ DataPackets \in Nat \ {0} /\ e \in Nat
    BY <2>1, Sizes
  <2>3. n \in 1 .. DataPackets
    BY <1>1, <2>2 DEF Typed
  <2>4. dev.addr \in Nat /\ host' = host /\ wire' = wire /\ resp' = resp
    BY <2>1 DEF Devs
  <2>5. DataPackets' = DataPackets
    BY <2>4, SameFile
  <2> QED
    BY <2>1, <2>2, <2>3, <2>4, <2>5
<1>3. p \in Nat /\ q \in Nat /\ p + WordsPerPacket = q /\ q <= e
  BY <1>2, Places
<1>a. dev.addr = p + dev.k - 1
  BY <1>1
<1> HIDE DEF e, p, q
<1>4. dev.addr + 1 \in 0 .. e + 1
  <2>1. dev.k \in 1 .. WordsPerPacket + 1 /\ WordsPerPacket \in Nat /\ e \in Nat
    BY <1>1, <1>2
  <2>2. p + WordsPerPacket <= e /\ p \in Nat
    BY <1>3
  <2> DEFINE k == dev.k
             a == dev.addr
  <2> HIDE DEF k, a, Next
  <2>3. k \in 1 .. WordsPerPacket + 1 /\ a = p + k - 1
    BY <1>a, <2>1 DEF k, a
  <2>4. a + 1 \in 0 .. e + 1
    BY ONLY <2>1, <2>2, <2>3
  <2> QED
    BY ONLY <2>4 DEF a
<1>5. ASSUME dev' \in Devs, dev'.state \in {"SEND_ACK", "WRITE_MEM"},
             dev'.addr = dev.addr + 1, dev'.k \in 0 .. WordsPerPacket + 1, dev'.rx = dev.rx,
             dev'.remain = dev.remain, rom' \in [0 .. RomWords - 1 -> Nat],
             \A a \in 0 .. RomWords - 1 : a >= e => rom'[a] = rom[a]
      PROVE  Typed' /\ Counting' /\ Coming' /\ Answered' /\ Between' /\ Untouched'
  <2>1. Typed'
    BY <1>2, <1>4, <1>5 DEF Typed, e
  <2>2. Counting' /\ Coming' /\ Answered'
    BY <1>1, <1>2, <1>5 DEF Counting, Coming, Answered, Idles, Listening
  <2>3. Between' /\ Untouched'
    BY <1>1, <1>2, <1>5 DEF Between, Untouched, Idles, Listening, e
  <2> QED
    BY <2>1, <2>2, <2>3
<1>6. CASE dev.k = WordsPerPacket + 1
  <2>1. dev' = [dev EXCEPT !.state = "SEND_ACK", !.addr = dev.addr + 1] /\ rom' = rom
    BY <1>6
  <2>2. /\ dev' \in Devs /\ dev'.state = "SEND_ACK" /\ dev'.addr = dev.addr + 1
        /\ dev'.k = dev.k /\ dev'.rx = dev.rx /\ dev'.remain = dev.remain
    <3>1. dev.addr + 1 \in Nat
      BY <1>2
    <3> QED
      BY <1>2, <2>1, <3>1 DEF Devs
  <2>3. dev.addr = q
    BY <1>2, <1>3, <1>6, <1>a
  <2>4. WrittenTo(dev.addr) /\ \A x : WrittenTo(x) => WrittenTo(x)'
    BY <1>1, <1>2, <2>1, SameFile DEF WrittenTo
  <2>5. Ready(host.pkt + 1)'
    <3>1. n + 1 # 0 /\ n + 1 - 1 = n /\ ~(n + 1 <= 1) /\ DataPackets - (n + 1) + 1 = DataPackets - n
      BY <1>2
    <3>2. host'.pkt = n /\ dev'.remain = DataPackets - n /\ dev'.addr = q + 1
      BY <1>1, <1>2, <2>2, <2>3
    <3>3. \A a \in 0 .. RomWords - 1 : a < q => rom'[a] = Image(a)'
      BY <1>2, <2>1, <2>3, <2>4, SameFile DEF WrittenTo
    <3>5. PICK m \in Nat \ {0, 1} : m = n + 1 /\ m = host'.pkt + 1
      BY <1>2
    <3>6. (dev.remain = DataPackets - m + 1)' /\ (dev.addr = (m - 1) * WordsPerPacket + 1)'
      BY <1>2, <3>1, <3>2, <3>5 DEF q
    <3>7. WrittenTo((m - 1) * WordsPerPacket)'
      BY <1>2, <3>1, <3>3, <3>5 DEF WrittenTo, q
    <3>8. Ready(m)'
      BY <3>6, <3>7, NowReady
    <3> QED
      BY ONLY <3>5, <3>8
  <2>6. Working'
    BY <1>1, <1>2, <2>2, <2>5 DEF Working
  <2>7. dev'.k \in 0 .. WordsPerPacket + 1
    BY <1>1, <1>2, <2>2
  <2> QED
    BY <1>2, <1>5, <2>1, <2>2, <2>6, <2>7
<1>7. CASE dev.k # WordsPerPacket + 1
  <2> DEFINE w == IF dev.k < WordsPerPacket THEN Received(dev.k + 1).of[1] ELSE 0
  <2>1. /\ dev' = [dev EXCEPT !.addr = dev.addr + 1, !.k = dev.k + 1, !.data = w]
        /\ rom' = IF dev.addr < RomWords THEN [rom EXCEPT ![dev.addr] = dev.data] ELSE rom
    BY <1>7
  <2>2. dev.k \in 1 .. WordsPerPacket /\ dev.data = DataOf(n)[dev.k]
    <3>1. dev.k \in 1 .. WordsPerPacket
      BY <1>1, <1>2, <1>7
    <3> QED
      BY <1>1, <1>2, <3>1
  <2>3. /\ dev.addr < e /\ dev.data = Image(dev.addr) /\ dev.data \in Nat
    BY <1>1, <1>2, <2>2, WordInPlace DEF e
  <2>4. /\ w \in Nat
        /\ dev.k + 1 <= WordsPerPacket => w = DataOf(n)[dev.k + 1]
    <3>1. CASE dev.k < WordsPerPacket
      <4>1. dev.k + 1 \in 1 .. WordsPerPacket
        BY <1>2, <2>2, <3>1
      <4>2. DataOf(n)[dev.k + 1] \in Nat
        BY <1>2, <4>1, WordInPlace
      <4>3. w = Word(DataOf(n)[dev.k + 1]).of[1]
        BY <1>1, <3>1, <4>1
      <4> QED
        BY <4>2, <4>3, UnitFacts
    <3>2. CASE ~(dev.k < WordsPerPacket)
      BY <1>2, <2>2, <3>2
    <3> QED
      BY <3>1, <3>2
  <2> HIDE DEF w
  <2>5. /\ dev' \in Devs /\ dev'.state = "WRITE_MEM" /\ dev'.addr = dev.addr + 1
        /\ dev'.k = dev.k + 1 /\ dev'.rx = dev.rx /\ dev'.remain = dev.remain /\ dev'.data = w
    <3>1. dev.addr + 1 \in Nat /\ dev.k + 1 \in Nat
      BY <1>2, <2>2
    <3> QED
      BY <1>1, <1>2, <2>1, <2>4, <3>1 DEF Devs
  <2>6. rom' \in [0 .. RomWords - 1 -> Nat]
    BY <1>2, <2>1, <2>3
  <2>7. \A a \in 0 .. RomWords - 1 : rom'[a] = IF a = dev.addr THEN Image(dev.addr) ELSE rom[a]
    BY SMTT(20), <1>2, <2>1, <2>3 DEF FwUpdateAssumption
  <2>8. \A a \in 0 .. RomWords - 1 : a >= e => rom'[a] = rom[a]
    BY <1>2, <2>3, <2>7 DEF FwUpdateAssumption
  <2>9. WrittenTo(dev.addr)'
    <3>1. \A a \in 0 .. RomWords - 1 : a < dev.addr + 1 => a = dev.addr \/ a < dev.addr
      BY <1>2 DEF FwUpdateAssumption
    <3>2. \A a \in 0 .. RomWords - 1 : a < dev.addr + 1 => rom'[a] = Image(a)
      BY <1>1, <2>7, <3>1 DEF WrittenTo
    <3> QED
      BY <1>2, <2>5, <3>2, SameFile DEF WrittenTo
  <2>10. Working'
    <3>1. (host.state = "waits" /\ wire = <<>> /\ resp = <<>> /\ host.pkt > 0)'
      BY <1>1, <1>2
    <3>a. dev.k + 1 \in 1 .. WordsPerPacket + 1
      BY <1>2, <2>2
    <3>2. (dev.remain = DataPackets - host.pkt /\ dev.k \in 1 .. WordsPerPacket + 1)'
      BY <1>1, <1>2, <2>5, <3>a
    <3>3. (Len(dev.rx) = PacketUnits /\ Passed(dev.rx[1], host.pkt, 1))'
      BY <1>1, <1>2, <2>5, SameFile DEF PacketUnits, Passed
    <3>4. (\A i \in 1 .. WordsPerPacket : Received(i) = Word(DataOf(host.pkt)[i]))'
      <4>1. \A i : Received(i)' = Received(i)
        BY <2>5 DEF Received
      <4>2. DataOf(n)' = DataOf(n) /\ host'.pkt = n
        BY <1>2, SameFile
      <4> QED
        BY <1>1, <1>2, <4>1, <4>2 DEF Word
    <3>5. (dev.k <= WordsPerPacket => dev.data = DataOf(host.pkt)[dev.k])'
      BY <1>2, <2>4, <2>5, SameFile
    <3>6. (dev.addr = (host.pkt - 1) * WordsPerPacket + dev.k - 1)'
      <4>1. dev.addr + 1 = p + (dev.k + 1) - 1
        BY <1>2, <1>3, <1>a, <2>2
      <4> QED
        BY <1>2, <2>5, <4>1 DEF p
    <3> QED
      BY <2>5, <2>9, <3>1, <3>2, <3>3, <3>4, <3>5, <3>6 DEF Working
  <2>11. dev'.k \in 0 .. WordsPerPacket + 1
    BY <1>2, <2>2, <2>5
  <2> QED
    BY <1>5, <2>5, <2>6, <2>8, <2>10, <2>11
<1> QED
  BY <1>6, <1>7

LEMMA SendAnswerInv ==
  ASSUME FwUpdateAssumption, IInv, SendAnswer
  PROVE  IInv'
<1> USE DEF IInv, SendAnswer
<1> DEFINE a == IF dev.state = "SEND_ACK" THEN "ACK" ELSE "NAK"
           s == IF dev.remain > 0 THEN "REC_REMAIN" ELSE "REC_FIRST"
<1>1. /\ host.state = "waits" /\ wire = <<>> /\ resp = <<>>
      /\ dev.state = "SEND_ACK" => Ready(host.pkt + 1)
  BY DEF Working, Idles, Listening
<1>2. /\ host.file \in Files /\ DataPackets' = DataPackets /\ dev \in Devs
      /\ host' = host /\ wire' = wire /\ rom' = rom
      /\ dev.remain \in 0 .. DataPackets /\ DataPackets \in Nat
  BY Sizes, SameFile DEF Typed, Hosts
<1>3. resp' = <<a>> /\ a \in Answers /\ (a = "ACK" <=> dev.state = "SEND_ACK")
  BY <1>1 DEF Answers
<1>4. dev' = [dev EXCEPT !.state = s]
  OBVIOUS
<1>5. /\ dev' \in Devs /\ dev'.state = s /\ dev'.rx = dev.rx /\ dev'.remain = dev.remain
      /\ dev'.addr = dev.addr /\ dev'.k = dev.k
  BY <1>2, <1>4 DEF Devs
<1> HIDE DEF a
<1>6. /\ resp' \in Seq(Answers) /\ Len(resp') = 1 /\ resp'[1] = a /\ resp' # <<>>
  <2>1. /\ <<a>> \in Seq(Answers) /\ Len(<<a>>) = 1 /\ <<a>>[1] = a /\ <<a>> # <<>>
    BY <1>3
  <2> QED
    BY <1>3, <2>1
<1>7. Typed'
  BY <1>2, <1>5, <1>6 DEF Typed
<1>8. Counting'
  BY <1>2, <1>5 DEF Counting
<1>9. Coming' /\ Working'
  BY <1>5, <1>6 DEF Coming, Working, Idles, Listening
<1>10. Answered'
  <2>1. Ready(host.pkt + 1) => Ready(host.pkt + 1)'
    BY <1>2, <1>5, SameFile DEF Ready, WrittenTo
  <2> QED
    BY <1>1, <1>2, <1>3, <1>5, <1>6, <2>1 DEF Answered, Listening, Got
<1>11. Between' /\ Untouched'
  BY <1>1, <1>2, <1>5 DEF Between, Untouched, Idles, Listening
<1> QED
  BY <1>7, <1>8, <1>9, <1>10, <1>11

-----------------------------------------------------------------------------
(* The line.  A unit is lost or damaged only where a packet is on its way, *)
(* an answer only where the device is ready for the next packet.           *)
LEMMA FaultFrame ==
  ASSUME FwUpdateAssumption, IInv, Fault, host.state = "waits", Listening,
         wire' \in Seq(Units), resp' \in Seq(Answers)
  PROVE  /\ Typed' /\ Counting' /\ Working' /\ Between' /\ Untouched'
         /\ Got' = Got /\ Got \in Nat /\ host' = host /\ dev' = dev
         /\ PacketUnits \in Nat \ {0}
         /\ \A n : Ready(n) => Ready(n)'
         /\ \A n : Packet(n)' = Packet(n)
<1>1. /\ host' = host /\ dev' = dev /\ rom' = rom /\ host.file \in Files /\ dev \in Devs
  BY DEF IInv, Typed, Hosts, Fault
<1>2. PacketUnits \in Nat \ {0} /\ DataPackets' = DataPackets
  BY <1>1, Sizes, SameFile
<1>3. Got' = Got /\ Got \in Nat
  BY <1>1 DEF Got, Devs
<1>4. \A n : Ready(n) => Ready(n)'
  BY <1>1, SameFile DEF Ready, WrittenTo
<1>5. \A n : Packet(n)' = Packet(n)
  BY <1>1, SameFile
<1>6. Typed' /\ Counting'
  BY <1>1, <1>2 DEF IInv, Typed, Counting
<1>7. Working'
  BY <1>1 DEF Working, Idles, Listening
<1>8. Between' /\ Untouched'
  BY <1>1, <1>2 DEF IInv, Between, Untouched, Idles, Listening
<1> QED
  BY <1>1, <1>2, <1>3, <1>4, <1>5, <1>6, <1>7, <1>8

(* While units are on the line, the script waits and the device listens.   *)
LEMMA OnTheLine ==
  ASSUME FwUpdateAssumption, IInv, wire # <<>>
  PROVE  /\ host.state = "waits" /\ Listening /\ resp = <<>>
         /\ wire \in Seq(Units) /\ Len(wire) \in Nat \ {0}
         /\ Head(wire) = wire[1] /\ Tail(wire) \in Seq(Units)
         /\ Len(Tail(wire)) = Len(wire) - 1
         /\ \A i \in 1 .. Len(wire) - 1 : Tail(wire)[i] = wire[i + 1]
<1>1. host.state = "waits" /\ Listening /\ resp = <<>>
  BY DEF IInv, Between, Working, Answered, Idles
<1>2. wire \in Seq(Units)
  BY DEF IInv, Typed
<1> QED
  BY <1>1, <1>2, HeadTailProperties, EmptySeq

LEMMA LoseUnitInv ==
  ASSUME FwUpdateAssumption, IInv, LoseUnit
  PROVE  IInv'
<1>1. /\ wire # <<>> /\ wire' = Tail(wire) /\ resp' = resp /\ Fault
  BY DEF LoseUnit
<1>2. /\ host.state = "waits" /\ Listening /\ resp = <<>> /\ wire' \in Seq(Units)
      /\ Len(wire') = Len(wire) - 1 /\ Len(wire) \in Nat /\ resp' \in Seq(Answers)
  BY <1>1, OnTheLine
<1>3. /\ Typed' /\ Counting' /\ Working' /\ Between' /\ Untouched'
      /\ Got' = Got /\ Got \in Nat /\ PacketUnits \in Nat
  BY <1>1, <1>2, FaultFrame
<1>4. Got' + Len(wire') < PacketUnits
  <2>1. Got + Len(wire) <= PacketUnits
    BY <1>2 DEF IInv, Coming
  <2> QED
    BY <1>2, <1>3, <2>1
<1>5. Got' + Len(wire') <= PacketUnits /\ Got' + Len(wire') # PacketUnits
  <2>1. Got' \in Nat /\ Len(wire') \in Nat
    BY <1>2, <1>3
  <2> QED
    BY <1>3, <1>4, <2>1
<1>6. PacketUnits' = PacketUnits
  BY DEF PacketUnits
<1>7. Coming' /\ Answered'
  BY <1>1, <1>2, <1>5, <1>6 DEF Coming, Answered
<1> QED
  BY <1>3, <1>7 DEF IInv

LEMMA DamageUnitInv ==
  ASSUME FwUpdateAssumption, IInv, DamageUnit
  PROVE  IInv'
<1>1. /\ wire # <<>> /\ wire' = <<Damaged>> \o Tail(wire) /\ resp' = resp /\ Fault
  BY DEF DamageUnit
<1>2. /\ host.state = "waits" /\ Listening /\ resp = <<>> /\ wire \in Seq(Units)
      /\ Len(wire) \in Nat \ {0} /\ Tail(wire) \in Seq(Units)
      /\ Len(Tail(wire)) = Len(wire) - 1
      /\ \A i \in 1 .. Len(wire) - 1 : Tail(wire)[i] = wire[i + 1]
  BY <1>1, OnTheLine
<1>3. /\ <<Damaged>> \in Seq(Units) /\ Len(<<Damaged>>) = 1 /\ <<Damaged>>[1] = Damaged
  BY UnitFacts
<1>4. wire' \in Seq(Units) /\ Len(wire') = Len(wire) /\ resp' \in Seq(Answers)
  BY <1>1, <1>2, <1>3, ConcatProperties
<1>5. \A i \in 1 .. Len(wire) : wire'[i] \in {wire[i], Damaged}
  <2> SUFFICES ASSUME NEW i \in 1 .. Len(wire) PROVE wire'[i] \in {wire[i], Damaged}
    OBVIOUS
  <2>1. CASE i = 1
    BY <1>1, <1>2, <1>3, <2>1, ConcatProperties
  <2>2. CASE i # 1
    <3>1. i - 1 \in 1 .. Len(wire) - 1 /\ i = (i - 1) + 1 /\ i > 1
      BY <1>2, <2>2
    <3>2. wire'[i] = Tail(wire)[i - 1]
      BY <1>1, <1>2, <1>3, <3>1, ConcatProperties
    <3>3. wire'[i] = wire[(i - 1) + 1]
      BY <1>2, <3>1, <3>2
    <3> QED
      BY <3>1, <3>3
  <2> QED
    BY <2>1, <2>2
<1>6. /\ Typed' /\ Counting' /\ Working' /\ Between' /\ Untouched'
      /\ Got' = Got /\ host' = host /\ dev' = dev
      /\ \A n : Ready(n) => Ready(n)'
      /\ \A n : Packet(n)' = Packet(n)
  BY <1>1, <1>2, <1>4, FaultFrame
<1>7. PacketUnits' = PacketUnits
  BY DEF PacketUnits
<1>8. Coming' /\ Answered'
  <2>1. Got + Len(wire) <= PacketUnits
    BY <1>2 DEF IInv, Coming
  <2>2. ASSUME Got + Len(wire) = PacketUnits
        PROVE  /\ Ready(host.pkt)' /\ dev.state # "REC_FIRST"
               /\ \A i \in 1 .. Got : dev.rx[i] \in {Packet(host.pkt)[i], Damaged}
               /\ \A i \in 1 .. Len(wire) : wire'[i] \in {Packet(host.pkt)[Got + i], Damaged}
    <3>1. /\ Ready(host.pkt) /\ dev.state # "REC_FIRST"
          /\ \A i \in 1 .. Got : dev.rx[i] \in {Packet(host.pkt)[i], Damaged}
          /\ \A i \in 1 .. Len(wire) : wire[i] \in {Packet(host.pkt)[Got + i], Damaged}
      BY <1>2, <2>2 DEF IInv, Coming, Passed
    <3> QED
      BY <1>5, <1>6, <3>1
  <2>3. Coming'
    BY <1>2, <1>4, <1>6, <1>7, <2>1, <2>2 DEF Coming, Passed
  <2>4. Answered'
    BY <1>1, <1>2 DEF Answered
  <2> QED
    BY <2>3, <2>4
<1> QED
  BY <1>6, <1>8 DEF IInv

(* While an answer is on the line, no packet is.                           *)
LEMMA AnswerOnTheLine ==
  ASSUME FwUpdateAssumption, IInv, resp # <<>>
  PROVE  /\ host.state = "waits" /\ Listening /\ wire = <<>> /\ Got = 0
         /\ resp \in Seq(Answers) /\ Len(resp) = 1 /\ Tail(resp) = <<>>
<1>1. resp \in Seq(Answers)
  BY DEF IInv, Typed
<1>2. host.state = "waits" /\ Listening /\ wire = <<>> /\ Got = 0 /\ Len(resp) = 1
  BY DEF IInv, Answered
<1>3. Tail(resp) = <<>>
  <2>1. Tail(resp) \in Seq(Answers) /\ Len(Tail(resp)) = 0
    BY <1>1, <1>2, HeadTailProperties
  <2> QED
    BY <2>1, EmptySeq
<1> QED
  BY <1>1, <1>2, <1>3

LEMMA LoseAnswerInv ==
  ASSUME FwUpdateAssumption, IInv, LoseAnswer
  PROVE  IInv'
<1>1. /\ host.state = "waits" /\ Listening /\ wire = <<>> /\ Got = 0
      /\ wire' = <<>> /\ resp' = <<>> /\ Fault
  BY AnswerOnTheLine DEF LoseAnswer
<1>2. wire' \in Seq(Units) /\ resp' \in Seq(Answers)
  BY <1>1
<1>3. /\ Typed' /\ Counting' /\ Working' /\ Between' /\ Untouched'
      /\ Got' = 0 /\ PacketUnits \in Nat \ {0}
  BY <1>1, <1>2, FaultFrame
<1>4. Got' + Len(wire') = 0 /\ PacketUnits' = PacketUnits
  BY <1>1, <1>3 DEF PacketUnits
<1>5. Coming' /\ Answered'
  BY <1>1, <1>3, <1>4 DEF Coming, Answered
<1> QED
  BY <1>3, <1>5 DEF IInv

LEMMA DamageAnswerInv ==
  ASSUME FwUpdateAssumption, IInv, DamageAnswer
  PROVE  IInv'
<1>1. /\ host.state = "waits" /\ Listening /\ wire = <<>> /\ Got = 0
      /\ wire' = <<>> /\ resp' = <<"damaged">> \o <<>> /\ Fault
  BY AnswerOnTheLine DEF DamageAnswer
<1>2. /\ wire' \in Seq(Units) /\ resp' \in Seq(Answers) /\ Len(resp') = 1
      /\ resp'[1] = "damaged" /\ resp' # <<>>
  <2>1. /\ <<"damaged">> \in Seq(Answers) /\ <<>> \in Seq(Answers)
        /\ Len(<<"damaged">>) = 1 /\ Len(<<>>) = 0 /\ <<"damaged">>[1] = "damaged"
    BY DEF Answers
  <2>2. resp' \in Seq(Answers) /\ Len(resp') = 1 /\ resp'[1] = "damaged"
    BY <1>1, <2>1, ConcatProperties
  <2> QED
    BY <1>1, <2>2, EmptySeq
<1>3. /\ Typed' /\ Counting' /\ Working' /\ Between' /\ Untouched'
      /\ Got' = 0 /\ host' = host /\ dev' = dev
  BY <1>1, <1>2, FaultFrame
<1>4. Coming' /\ Answered'
  BY <1>1, <1>2, <1>3 DEF Coming, Answered, Listening
<1> QED
  BY <1>3, <1>4 DEF IInv

-----------------------------------------------------------------------------
(* The invariant.                                                          *)
LEMMA StepInv ==
  ASSUME FwUpdateAssumption, PulsesPin, IInv, [Next]_vars
  PROVE  IInv'
<1>1. CASE UNCHANGED vars
  <2>1. /\ host' = host /\ wire' = wire /\ resp' = resp /\ dev' = dev /\ rom' = rom
    BY <1>1 DEF vars
  <2>2. /\ DataPackets' = DataPackets /\ PacketUnits' = PacketUnits /\ Got' = Got
        /\ \A n : DataOf(n)' = DataOf(n) /\ Packet(n)' = Packet(n)
        /\ \A a : Image(a)' = Image(a)
    BY <2>1, SameFile DEF Got, PacketUnits
  <2>3. /\ \A x : WrittenTo(x) => WrittenTo(x)'
        /\ \A n : Ready(n) => Ready(n)'
    BY <2>1, <2>2 DEF Ready, WrittenTo
  <2>4. Typed' /\ Counting'
    BY <2>1, <2>2 DEF IInv, Typed, Counting
  <2>5. Coming' /\ Answered'
    BY <2>1, <2>2, <2>3 DEF IInv, Coming, Answered, Listening, Passed
  <2>6. Working'
    BY <2>1, <2>2, <2>3 DEF IInv, Working, Idles, Listening, Passed, Received
  <2>7. Between' /\ Untouched'
    BY <2>1, <2>2, <2>3 DEF IInv, Between, Untouched, Idles, Listening
  <2> QED
    BY <2>4, <2>5, <2>6, <2>7 DEF IInv
<1>2. CASE Script
  BY <1>2, ReadAckInv, ReadNakInv, TimeoutInv DEF Script
<1>3. CASE User
  BY <1>3, RunScriptInv, PulsePinInv DEF User
<1>4. CASE Device
  BY <1>4, RecFirstPacketInv, RecRemainPacketInv, GetByteInv, CrcEndInv, WriteMemInv,
     SendAnswerInv DEF Device
<1>5. CASE Line
  BY <1>5, LoseUnitInv, DamageUnitInv, LoseAnswerInv, DamageAnswerInv DEF Line
<1> QED
  BY <1>1, <1>2, <1>3, <1>4, <1>5 DEF Next

(* In every reachable state the device waits for the packet that the       *)
(* script has sent last, or for none that could be complete.               *)
THEOREM FwInvariant ==
  ASSUME FwUpdateAssumption, PulsesPin
  PROVE  Spec => []IInv
<1>1. Init => IInv
  BY InitInv
<1>2. IInv /\ [Next]_vars => IInv'
  BY StepInv
<1> QED
  BY <1>1, <1>2, PTL DEF Spec

(* The packet counter and the address of uart_debug stay within the image. *)
THEOREM FwTypes ==
  ASSUME FwUpdateAssumption, PulsesPin
  PROVE  Spec => []TypeOK
<1>1. IInv => TypeOK
  BY DEF IInv, Typed, TypeOK, Hosts, Devs
<1> QED
  BY <1>1, FwInvariant, PTL

(* A run of tools/tinyriscv_fw_downloader.py that says "Send               *)
(* successfully..." has left the image in the memory, and nothing but      *)
(* zeros behind it in the last packet: uart_debug.v has lost no packet     *)
(* and written none twice, whatever the line has lost or damaged.          *)
THEOREM SuccessIsTrue ==
  ASSUME FwUpdateAssumption, PulsesPin
  PROVE  Spec => []SuccessMeansImage
<1>1. IInv => SuccessMeansImage
  <2> SUFFICES ASSUME IInv, host.state = "succeeded", NEW a \in 0 .. RomWords - 1
               PROVE  rom[a] = Image(a)
    BY DEF SuccessMeansImage
  <2>1. /\ DataPackets * WordsPerPacket \in Nat
        /\ Len(host.file) \in Nat /\ Len(host.file) < DataPackets * WordsPerPacket
    BY Sizes DEF IInv, Typed, Hosts
  <2>2. CASE a < DataPackets * WordsPerPacket
    BY <2>2 DEF IInv, Between, WrittenTo
  <2>3. CASE ~(a < DataPackets * WordsPerPacket)
    <3>1. a >= DataPackets * WordsPerPacket /\ ~(a < Len(host.file))
      BY <2>1, <2>3 DEF FwUpdateAssumption
    <3> QED
      BY <2>3, <3>1 DEF IInv, Untouched, Image
  <2> QED
    BY <2>2, <2>3
<1> QED
  BY <1>1, FwInvariant, PTL

(* uart_debug.v writes every packet where its number says, although it     *)
(* counts one word too far in every packet and steps back in the next.     *)
THEOREM PacketsInPlace ==
  ASSUME FwUpdateAssumption, PulsesPin
  PROVE  Spec => []PacketInPlace
<1>1. IInv => PacketInPlace
  <2> SUFFICES ASSUME IInv, dev.state = "WRITE_MEM", dev.k <= WordsPerPacket,
                      dev.rx[1].kind = "word"
               PROVE  dev.addr = (dev.rx[1].of[1] - 1) * WordsPerPacket + dev.k - 1
    BY DEF PacketInPlace
  <2>1. /\ dev.addr = (host.pkt - 1) * WordsPerPacket + dev.k - 1
        /\ Passed(dev.rx[1], host.pkt, 1) /\ host.file \in Files
        /\ host.pkt \in 0 .. DataPackets /\ host.pkt \in Nat
    BY DEF IInv, Working, Idles, Listening, Typed, Hosts
  <2>2. dev.rx[1] = Word(host.pkt)
    BY <2>1, PacketFacts, UnitFacts DEF Passed
  <2>3. dev.rx[1].of[1] = host.pkt
    BY <2>1, <2>2, UnitFacts
  <2> QED
    BY <2>1, <2>3
<1> QED
  BY <1>1, FwInvariant, PTL

(* Whenever the script is about to send a packet or to finish, the device  *)
(* counts as many packets to come as the script has left.                  *)
THEOREM EndsAgree ==
  ASSUME FwUpdateAssumption, PulsesPin
  PROVE  Spec => []Agree
<1>1. IInv => Agree
  <2> SUFFICES ASSUME IInv, resp = <<"ACK">>
               PROVE  dev.remain = DataPackets - host.pkt
    BY DEF Agree
  <2>1. Ready(host.pkt + 1)
    BY DEF IInv, Answered
  <2>2. host.pkt \in Nat /\ DataPackets \in Nat
    BY Sizes DEF IInv, Typed, Hosts
  <2> QED
    BY <2>1, <2>2 DEF Ready
<1> QED
  BY <1>1, FwInvariant, PTL
=============================================================================
