------------------------------- MODULE EthTftp -------------------------------
(***************************************************************************)
(* File upload and reboot of the Ethernet boot loader (tftp.c, udp.c), a   *)
(* TFTP client and the network between them.  The interrupt handles each   *)
(* packet in one go and builds the file; the main loop polls it, copies it *)
(* together, splits the ELF file and reboots into it a while later.  The   *)
(* interrupt may come between any two steps of the main loop.              *)
(*                                                                         *)
(* Block k of upload u is <<u, k>>; the last block of an upload is the     *)
(* short one.  The client repeats a packet when neither the packet nor its *)
(* answer is on its way any more.                                          *)
(***************************************************************************)
EXTENDS Integers, Sequences, SequencesExt

CONSTANTS
  Plans,       \* what may happen in a behaviour: the uploads the client makes,
               \* bounds on the packets lost and on those that come twice
  BlockMod     \* block numbers count modulo this (2^16)

Upload == [op : {"wrq", "rrq"}, blocks : Nat \ {0}, linux : BOOLEAN, octet : BOOLEAN, elf : BOOLEAN]

EthTftpAssumption ==
  /\ BlockMod \in Nat \ {0, 1}
  /\ \A p \in Plans : p.ups \in Seq(Upload) /\ {p.lost, p.dup} \subseteq Nat

VARIABLES
  file,     \* udp_file_g with its blocks; up = 0 for NULL
  main,     \* process_tftp: where it is, the size and the copy of the file
  timer,    \* reboot_timer_g and reboot_stage_g
  memory,   \* what elfsplitter has put into memory, and into elf_mem0_g
  client,   \* the client: the upload it is at, the block it waits for
  plan,     \* the plan of this behaviour
  net,      \* packets on the way to the server
  back,     \* answers on the way to the client
  starts,   \* history: the uploads whose write request was taken
  faults    \* history: packets lost and doubled, whether one came too late, or
            \* a request while the main loop was copying a file

vars == <<file, main, timer, memory, client, plan, net, back, starts, faults>>

NoFile == [up |-> 0, blocks |-> <<>>, full |-> TRUE, last_block |-> 0, ready |-> FALSE, linux_boot |-> FALSE]

Up(u) == plan.ups[u]
Content(u) == [k \in 1 .. Up(u).blocks |-> <<u, k>>]

-----------------------------------------------------------------------------
(* udp_reply.                                                              *)
Reply(type, m) == back' = back \cup {[type |-> type, up |-> m.up, block |-> m.block]}

(* UDP_WRITE: a new file takes the place of the old one, even if the mode  *)
(* is refused.                                                             *)
init_buffer_512(u) == [NoFile EXCEPT !.up = u, !.linux_boot = Up(u).linux]

(* A bug: the buffer of the last block is not used again.                  *)
Save_NextBlock(f, m) ==
  [f EXCEPT !.last_block = m.block + 1, !.blocks = Append(@, <<m.up, m.k>>),
            !.ready = m.k = Up(m.up).blocks]

(* UDP_DATA: save a block.  After a full one the next buffer is prepared;  *)
(* a short one completes the file, and its buffer is used again.           *)
Save(f, m) ==
  LET kept == IF f.full THEN f.blocks ELSE Front(f.blocks)
      full == m.k < Up(m.up).blocks
  IN [f EXCEPT !.last_block = m.block, !.blocks = Append(kept, <<m.up, m.k>>),
               !.full = full, !.ready = @ \/ ~full]

(* A bug: a repeated block is saved again.                                 *)
IsNew_OrSame(f, m) == m.block >= f.last_block

IsNew(f, m) == m.block > f.last_block

parse_tftp_packet(m) ==
  \/ /\ m.op = "rrq"
     /\ Reply("error", m) /\ UNCHANGED <<file, starts>>
  \/ /\ m.op = "wrq"
     /\ file' = init_buffer_512(m.up) /\ starts' = Append(starts, m.up)
     /\ Reply(IF Up(m.up).octet THEN "ack" ELSE "error", m)
  \/ /\ m.op = "data"
     /\ Reply("ack", m) /\ UNCHANGED starts
     /\ file' = IF file.up # 0 /\ IsNew(file, m) THEN Save(file, m) ELSE file

(* A packet that comes too late: the request of an upload that has got     *)
(* further, or a block of another upload than the one in progress.         *)
Stray(m) ==
  \/ m.op = "wrq" /\ m.up \in Range(starts) /\ (file.up # m.up \/ file.blocks # <<>>)
  \/ m.op = "data" /\ file.up # m.up

(* A request that takes the file from the main loop, which has seen it     *)
(* ready and not copied it yet.                                            *)
Races(m) == m.op = "wrq" /\ main.at \in {"clear", "alloc", "copy"}

(* ethmac_interrupt and parse_udp_packet, for a packet with a good         *)
(* checksum.                                                               *)
Interrupt(m) ==
  /\ m \in net /\ main.at # "rebooted"
  /\ parse_tftp_packet(m)
  /\ \E again \in {0, 1} :
       /\ faults.dup + again <= plan.dup
       /\ faults' = [faults EXCEPT !.dup = @ + again, !.stray = @ \/ Stray(m),
                                   !.raced = @ \/ Races(m)]
       /\ net' = IF again = 1 THEN net ELSE net \ {m}
  /\ UNCHANGED <<main, timer, memory, client, plan>>

-----------------------------------------------------------------------------
(* process_tftp and process_file; udp_file_g is read again in every step.  *)
CheckReady ==
  /\ main.at = "loop"
  /\ main' = [main EXCEPT !.at = IF file.up # 0 /\ file.ready THEN "clear" ELSE "timer"]
  /\ UNCHANGED <<file, timer, memory, client, plan, net, back, starts, faults>>

(* A bug: the ready flag is not cleared.                                   *)
Cleared_Never == file

Cleared == [file EXCEPT !.ready = FALSE]

ClearReady ==
  /\ main.at = "clear"
  /\ file' = Cleared
  /\ main' = [main EXCEPT !.at = "alloc"]
  /\ UNCHANGED <<timer, memory, client, plan, net, back, starts, faults>>

Allocate ==
  /\ main.at = "alloc"
  /\ main' = [main EXCEPT !.at = "copy", !.size = Len(file.blocks)]
  /\ UNCHANGED <<file, timer, memory, client, plan, net, back, starts, faults>>

Joined == file.blocks

CopyFile ==
  /\ main.at = "copy"
  /\ main' = [main EXCEPT !.at = "split", !.copy = Joined]
  /\ UNCHANGED <<file, timer, memory, client, plan, net, back, starts, faults>>

(* elfsplitter: the vectors are forgotten before the magic is looked at,   *)
(* and kept apart for the reboot; the rest goes to its place at once.      *)
IsElf(copy) == copy # <<>> /\ copy[1][2] = 1 /\ Up(copy[1][1]).elf

elfsplitter(copy) ==
  IF IsElf(copy) THEN [image |-> copy, vectors |-> copy] ELSE [memory EXCEPT !.vectors = <<>>]

Split ==
  /\ main.at = "split"
  /\ memory' = elfsplitter(main.copy)
  /\ timer' = IF IsElf(main.copy) THEN [timer EXCEPT !.is = "set"] ELSE timer
  /\ main' = [main EXCEPT !.at = "timer", !.copy = <<>>]
  /\ UNCHANGED <<file, client, plan, net, back, starts, faults>>

(* The reboot timer: first the telnet clients are disconnected, then, a    *)
(* second later, the link is closed and the program started.               *)
NotExpired ==
  /\ main.at = "timer" /\ timer.is # "expired"
  /\ main' = [main EXCEPT !.at = "loop"]
  /\ UNCHANGED <<file, timer, memory, client, plan, net, back, starts, faults>>

DisconnectAll ==
  /\ main.at = "timer" /\ timer.is = "expired" /\ timer.stage = 0
  /\ timer' = [is |-> "set", stage |-> 1]
  /\ main' = [main EXCEPT !.at = "loop"]
  /\ UNCHANGED <<file, memory, client, plan, net, back, starts, faults>>

(* reboot asks udp_file_g for the way to start.                            *)
Reboot ==
  /\ main.at = "timer" /\ timer.is = "expired" /\ timer.stage = 1
  /\ main' = [main EXCEPT !.at = "rebooted", !.linux = file.linux_boot]
  /\ UNCHANGED <<file, timer, memory, client, plan, net, back, starts, faults>>

(* timer.c counts the time, whatever the main loop does.                   *)
TimerRuns ==
  /\ timer.is = "set" /\ main.at # "rebooted"
  /\ timer' = [timer EXCEPT !.is = "expired"]
  /\ UNCHANGED <<file, main, memory, client, plan, net, back, starts, faults>>

-----------------------------------------------------------------------------
(* The client: TFTP, one packet at a time.  Block 0 is its request.        *)
Packet ==
  [op |-> IF client.k = 0 THEN Up(client.up).op ELSE "data",
   up |-> client.up, k |-> client.k, block |-> client.k % BlockMod]

Begin ==
  /\ client.at = "ready" /\ client.up < Len(plan.ups)
  /\ client' = [at |-> "start", up |-> client.up + 1, k |-> 0]
  /\ UNCHANGED <<file, main, timer, memory, plan, net, back, starts, faults>>

InFlight == \/ \E m \in net : m.up = client.up /\ m.k = client.k
            \/ \E b \in back : b.up = client.up /\ b.block = client.k % BlockMod

Transmit ==
  /\ \/ client.at = "start"
     \/ client.at = "wait" /\ ~InFlight
  /\ net' = net \cup {Packet}
  /\ client' = [client EXCEPT !.at = "wait"]
  /\ UNCHANGED <<file, main, timer, memory, plan, back, starts, faults>>

ClientReceive(b) ==
  /\ b \in back
  /\ back' = back \ {b}
  /\ client' = IF client.at # "wait" \/ b.up # client.up \/ b.block # client.k % BlockMod THEN client
               ELSE IF b.type = "error" THEN [client EXCEPT !.at = "ready"]
               ELSE IF client.k = Up(client.up).blocks THEN [client EXCEPT !.at = "ready", !.k = @ + 1]
               ELSE [client EXCEPT !.at = "start", !.k = @ + 1]
  /\ UNCHANGED <<file, main, timer, memory, plan, net, starts, faults>>

Lose ==
  /\ faults.lost < plan.lost
  /\ faults' = [faults EXCEPT !.lost = @ + 1]
  /\ \/ \E m \in net : net' = net \ {m} /\ UNCHANGED back
     \/ \E b \in back : back' = back \ {b} /\ UNCHANGED net
  /\ UNCHANGED <<file, main, timer, memory, client, plan, starts>>

-----------------------------------------------------------------------------
Init ==
  /\ file = NoFile
  /\ main = [at |-> "loop", size |-> 0, copy |-> <<>>, linux |-> FALSE]
  /\ timer = [is |-> "off", stage |-> 0]
  /\ memory = [image |-> <<>>, vectors |-> <<>>]
  /\ client = [at |-> "ready", up |-> 0, k |-> 0]
  /\ plan \in Plans
  /\ net = {} /\ back = {} /\ starts = <<>> /\ faults = [lost |-> 0, dup |-> 0, stray |-> FALSE, raced |-> FALSE]

process_tftp == CheckReady \/ ClearReady \/ Allocate \/ CopyFile \/ Split
                \/ NotExpired \/ DisconnectAll \/ Reboot

Next == \/ process_tftp \/ TimerRuns
        \/ \E m \in net : Interrupt(m)
        \/ Begin \/ Transmit \/ \E b \in back : ClientReceive(b)
        \/ Lose

Spec == Init /\ [][Next]_vars

(* The main loop goes round, the time passes, the network delivers.        *)
FairSpec ==
  /\ Spec
  /\ WF_vars(process_tftp) /\ WF_vars(TimerRuns)
  /\ WF_vars(\E m \in net : Interrupt(m)) /\ WF_vars(\E b \in back : ClientReceive(b))
  /\ WF_vars(Begin) /\ WF_vars(Transmit)

-----------------------------------------------------------------------------
TypeOK ==
  /\ file.up \in 0 .. Len(plan.ups) /\ file.last_block \in 0 .. BlockMod - 1
  /\ {file.full, file.ready, file.linux_boot} \subseteq BOOLEAN
  /\ main.at \in {"loop", "clear", "alloc", "copy", "split", "timer", "rebooted"}
  /\ timer.is \in {"off", "set", "expired"} /\ timer.stage \in {0, 1}
  /\ client.at \in {"ready", "start", "wait"} /\ client.up \in 0 .. Len(plan.ups)

(* However often packets are lost, repeated and reordered: as long as none *)
(* comes too late, the file in memory is what the client has sent of it.   *)
FileInOrder ==
  ~faults.stray /\ file.up # 0 => IsPrefix(file.blocks, Content(file.up))

(* A block that the client has seen acknowledged is in the file.  That     *)
(* goes for files whose blocks can be told apart by their numbers: later   *)
(* blocks are acknowledged and dropped.                                    *)
AckedIsSaved ==
  ~faults.stray /\ client.up # 0 /\ client.up = file.up /\ Up(client.up).blocks < BlockMod =>
    client.k - 1 <= Len(file.blocks)

(* The main loop copies a file in several steps and reboots seconds later, *)
(* with the interrupt taking packets all the while.  If the upload it has  *)
(* loaded is the last one that was begun, it starts that upload, complete, *)
(* with its vectors and in the way its name asks for.  If a request came   *)
(* between the check and the copy, it may have loaded a part of the new    *)
(* file instead.                                                           *)
BootsWhatItLoaded ==
  main.at = "rebooted" /\ ~faults.stray /\ ~faults.raced =>
    LET u == memory.image[1][1]
    IN Last(starts) = u =>
         memory.image = Content(u) /\ memory.vectors = Content(u) /\ main.linux = Up(u).linux

(* The memory that process_file allocates holds the file it then copies:   *)
(* the block list does not grow in between, unless a request takes the     *)
(* place of the file.                                                      *)
CopyFits ==
  main.at = "split" /\ ~faults.stray /\ ~faults.raced => Len(main.copy) <= main.size

(* An ELF file that was uploaded is started in the end, if nothing else is *)
(* uploaded meanwhile.                                                     *)
Rebooted ==
  \A u \in 1 .. 2 :
    (/\ client.up = u /\ client.k > Up(u).blocks
     /\ Up(u).elf /\ Up(u).octet /\ Up(u).blocks < BlockMod)
    ~> main.at = "rebooted" \/ faults.stray \/ u \notin Range(starts) \/ Last(starts) # u
=============================================================================
