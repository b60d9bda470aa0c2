----------------------------- MODULE MCEthernet -----------------------------
(***************************************************************************)
(* The parts of the Ethernet boot loader of amber_cpu around its TCP: the  *)
(* link with its ring of frames, the line buffers between the interrupt    *)
(* and the main loop, the timers of both, and the upload of files.  A      *)
(* behaviour is one of a single part, chosen at first; the others rest in  *)
(* their initial states.                                                   *)
(***************************************************************************)
EXTENDS Integers, Sequences

CONSTANTS
  NRx, Frames, MaxFrames, MaxSends, MaxTries,                \* EthLink
  LenBytes, MaxLine, MaxTx, Packets, Texts, MaxPut, Junk,    \* LineBuffer
  SecTicks, Durations, Longest, TicksPerRead,                \* EthTimer
  Plans, BlockMod                                            \* EthTftp

VARIABLES
  part,                                                                \* the part that moves
  ring, stored, mac, tx, isr, link_main, parsed, wrong, late, pending, \* EthLink
  lb, put, got, reader, side, spoilt,                                  \* LineBuffer
  ms, led_timer, led_main, led, age,                                   \* EthTimer
  file, main, timer, memory, client, plan, net, back, starts, faults   \* EthTftp

linkVars  == <<ring, stored, mac, tx, isr, link_main, parsed, wrong, late, pending>>
lineVars  == <<lb, put, got, reader, side, spoilt>>
timerVars == <<ms, led_timer, led_main, led, age>>
tftpVars  == <<file, main, timer, memory, client, plan, net, back, starts, faults>>
ethVars   == <<part, linkVars, lineVars, timerVars, tftpVars>>

(* What a frame is decides only how many frames answer it: none or one.    *)
Frame(eth_type, version, mine, what) ==
  [eth_type |-> eth_type, version |-> version, mine |-> mine, what |-> what]
UdpFrame == {Frame("ip", 4, TRUE, "udp")}

(* What a client of telnet types into one packet.                          *)
Typed == {<<"char">>, <<"cr">>, <<"char", "cr">>, <<"cr", "char">>, <<"char", "char">>}

(* Two uploads in a row, one of which comes late, twice or while the other *)
(* is copied, a text file after an ELF file, a refused mode, a file with   *)
(* as many blocks as there are numbers, and three blocks that get lost or  *)
(* come twice.                                                             *)
Upload(op, blocks, linux, octet, elf) ==
  [op |-> op, blocks |-> blocks, linux |-> linux, octet |-> octet, elf |-> elf]
File(blocks, linux, elf) == Upload("wrq", blocks, linux, TRUE, elf)
Plan(ups, lost, dup) == [ups |-> ups, lost |-> lost, dup |-> dup]
UploadPlans ==
  { Plan(<<File(2, TRUE, TRUE), File(1, FALSE, TRUE)>>, 1, 0),
    Plan(<<File(2, TRUE, TRUE), File(1, FALSE, TRUE)>>, 0, 1),
    Plan(<<File(1, TRUE, TRUE), File(2, FALSE, TRUE)>>, 1, 0),
    Plan(<<File(1, TRUE, TRUE), File(2, FALSE, FALSE)>>, 1, 0),
    Plan(<<Upload("rrq", 1, FALSE, TRUE, TRUE), Upload("wrq", 1, FALSE, FALSE, TRUE)>>, 0, 0),
    Plan(<<File(4, TRUE, TRUE)>>, 1, 0),
    Plan(<<File(3, FALSE, TRUE)>>, 2, 1) }

Link  == INSTANCE EthLink WITH main <- link_main
Line  == INSTANCE LineBuffer
Timer == INSTANCE EthTimer WITH timer <- led_timer, main <- led_main
Tftp  == INSTANCE EthTftp

ASSUME EthernetAssumption ==
  /\ Link!EthLinkAssumption /\ Line!LineBufferAssumption
  /\ Timer!EthTimerAssumption /\ Tftp!EthTftpAssumption

MCInit ==
  /\ part \in {"link", "line", "timer", "tftp"}
  /\ Link!Init
  /\ Line!Init /\ (part # "line" => side = "rx")
  /\ Timer!Init /\ (part # "timer" => led_main.dur = Longest)
  /\ Tftp!Init /\ (part # "tftp" => plan = CHOOSE p \in Plans : TRUE)

MCNext ==
  /\ UNCHANGED part
  /\ \/ part = "link" /\ Link!Next /\ UNCHANGED <<lineVars, timerVars, tftpVars>>
     \/ part = "line" /\ Line!Next /\ UNCHANGED <<linkVars, timerVars, tftpVars>>
     \/ part = "timer" /\ Timer!Next /\ UNCHANGED <<linkVars, lineVars, tftpVars>>
     \/ part = "tftp" /\ Tftp!Next /\ UNCHANGED <<linkVars, lineVars, timerVars>>

(* The part that moves is scheduled as its own module says.                *)
MCSpec ==
  /\ MCInit /\ [][MCNext]_ethVars
  /\ WF_linkVars(part = "link" /\ Link!Interrupt)
  /\ WF_linkVars(part = "link" /\ Link!Transmitted)
  /\ WF_linkVars(part = "link" /\ Link!OpenLink)
  /\ WF_linkVars(part = "link" /\ (Link!SendCopy \/ Link!SendStart))
  /\ WF_lineVars(part = "line" /\ Line!GetLineBegin)
  /\ WF_lineVars(part = "line" /\ Line!GetLineScan)
  /\ WF_lineVars(part = "line" /\ Line!GetLineCheck)
  /\ WF_lineVars(part = "line" /\ Line!TelnetTx)
  /\ WF_timerVars(part = "timer" /\ Timer!timer_interrupt)
  /\ WF_timerVars(part = "timer" /\ Timer!MainLoop)
  /\ WF_tftpVars(part = "tftp" /\ Tftp!process_tftp)
  /\ WF_tftpVars(part = "tftp" /\ Tftp!TimerRuns)
  /\ WF_tftpVars(part = "tftp" /\ \E m \in net : Tftp!Interrupt(m))
  /\ WF_tftpVars(part = "tftp" /\ \E b \in back : Tftp!ClientReceive(b))
  /\ WF_tftpVars(part = "tftp" /\ Tftp!Begin)
  /\ WF_tftpVars(part = "tftp" /\ Tftp!Transmit)

-----------------------------------------------------------------------------
(* The states of the loops, rings and buffers keep their types.            *)
TypesOK == Link!TypeOK /\ Line!TypeOK /\ Timer!TypeOK /\ Tftp!TypeOK

(* Frames are handled at most once and nearly in the order they came, none *)
(* is forgotten but the last one, each frame that is started is            *)
(* transmitted, and one that goes out in place of another was asked for    *)
(* without the mask of tcp_tx (ethmac.c:159-340, tcp.c:380-389).           *)
FramesHandled == /\ Link!NearlyInOrder /\ Link!NoneForgotten
                 /\ Link!AllTransmitted /\ Link!OnlyUnmaskedReplaced

(* What the main loop reads from a line buffer is what was written, in     *)
(* order, wherever the interrupt comes (line-buffer.c:64-145).             *)
FifoSpec == Line!FifoSpec

(* A timer fires neither early by a second nor late by a second and a      *)
(* half, and one of half a second never early, wherever the ticks come     *)
(* between the accesses to its two words (timer.c:85-138).                 *)
TimerAccurate == Timer!NotEarly /\ Timer!EarlyByLessThanASecond /\ []Timer!NotLate

(* However packets are lost, repeated and reordered, as long as none comes *)
(* too late: the file is what the client sent, acknowledged blocks are in  *)
(* it, and the upload that is started is the last one, complete, in memory *)
(* that was large enough (tftp.c:78-230).                                  *)
UploadRight == /\ Tftp!FileInOrder /\ Tftp!AckedIsSaved
               /\ Tftp!BootsWhatItLoaded /\ Tftp!CopyFits

(* A frame that was stored is handled, if only the last one did not come   *)
(* while an interrupt was at work (ethmac.c:308-340).                      *)
Handled == Link!Handled

(* Lines are read in the end, and the heartbeat goes on                    *)
(* (line-buffer.c:113-145, timer.c:126-138).                               *)
MainLoopLives == /\ part = "line" => Line!LineArrives
                 /\ part = "timer" => Timer!KeepsFlashing

(* An ELF file that was uploaded is started in the end, if nothing else is *)
(* uploaded meanwhile (tftp.c:151-201).                                    *)
Rebooted == Tftp!Rebooted
=============================================================================
