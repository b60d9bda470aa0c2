# CPU designs: a verification development in TLA+

These modules model the parts of this repository that are its own logic: the
RISC-V SoC `src/tiny-risc-v` (core, debug path, peripherals with their drivers,
firmware loader), the two boot loaders and the tools of `src/amber_cpu/sw`, the
firmware of `src/dark-risc-v`, and the environments in which the tests of
`src/n101-risc-v` run. TLC checks them on small instances. For every value of the
constants TLAPS proves that the core implements an instruction-set machine, that the
divider divides, that the handshake and the debug transport are a channel and a remote
procedure call, that the accesses through the peripherals take effect, that the
firmware loader and Xmodem deliver what they report, and that the Ethernet loader handles
its frames, keeps its uploads and fires its timers.

Contents: [1 Inventory](#1-inventory) · [2 Modules](#2-modules-and-the-code) ·
[3 Runs](#3-runs) · [4 Bounds](#4-bounds) · [5 Fairness](#5-fairness) ·
[6 Proofs](#6-proofs) · [7 Disagreements](#7-where-code-and-comments-disagree) ·
[8 Limits](#8-what-the-runs-leave-out-on-purpose) ·
[9 Not modelled](#9-what-is-not-modelled) · [10 Plan](#10-plan)

## 1 Inventory

The repository is a collection of CPU designs, each in a directory of its own,
with nothing in common.

| system | part | state | operations |
|---|---|---|---|
| tiny-risc-v | pipeline `pc_reg if_id id id_ex ex ctrl` | pc, instruction in ID, in EX | fetch, decode, execute, hold, flush, jump |
| | traps and CSRs `clint csr_reg` | sequencer, cause, mstatus, mepc | accept interrupt, ecall, ebreak, mret; write three CSRs in turn |
| | divider `div` | state, count, partial remainder | start, step, finish, abort |
| | clock crossing `full_handshake_tx/rx` | state, synchronisers, word | send, acknowledge, take down |
| | JTAG transport `jtag_driver` | TAP, IR, scan register, busy flags | scan, accept, report busy |
| | debug module `jtag_dm`, bus `rib`, registers `regs` | halt, sbcs, address, data0; arrays | decode a request, access memory and registers, arbitrate |
| | UART and `uart.c` | registers, transmitter, receiver | putc, getc, send, receive |
| | timer and `timer_int/main.c` | control, count, value; a counter | expire, write, interrupt handler |
| | SPI and `spi.c` | registers, edge counter, shift register | write and read a byte |
| | firmware loader `uart_debug`, `tinyriscv_fw_downloader.py` | bytes and packets to come, address | send, check, program, ACK, NAK, give up |
| amber_cpu: Ethernet boot loader | link `ethmac packet main` | ring, transmit buffer, ARP | receive interrupt, transmit, open and close link |
| | timer and LED | seconds, milliseconds | tick interrupt, set, expired |
| | TFTP, UDP, reboot | block list, ELF image, reboot timer | upload, copy, split, boot |
| | TCP, telnet | sockets, rings of sent segments, lines | segment interrupt, poll, retransmit, commands |
| | line buffer | two pointers, bytes and a marker | put byte, put line, get line |
| amber_cpu: serial boot loader | Xmodem | packet number, retries | receive, answer, time out |
| | console, commands | line, last line, memory | edit, recall, load, run, read, write, dump |
| | ELF splitters (3, with the host tool) | section, offset | copy words or bytes, zero, run |
| amber_cpu: mini-libc, tools | printf, memcpy, trace tool | | format, copy, search |
| dark-risc-v | shell, timer interrupt, `usleep`, arithmetic, numbers | line, argv, `utimers` | edit, split, count, wait, multiply, show |
| n101-risc-v | test environments p and v | CSRs, save area, frame list, TLB | trap, evict, map, report |

How the parts meet: in hardware through wires sampled at the same edge (core,
debug module, bus), through unrelated clocks (handshake) and through a serial
line (loader and script); in the firmware through memory that an interrupt
handler and a main loop share (ring, transmit buffer, line buffers, timers, TCP
slots, block list); between machines over lines and networks that lose, repeat
and reorder.

What is hard in this code:

* **Everything happens at once.** In each clock eight always-blocks read each
  other's old values, and fixed priorities decide which event is forgotten
  (`ctrl.v:48-66`, `rib.v:119-133`, `csr_reg.v:84-136`, `uart.v:101`,
  `timer.v:78`, `spi.v:200`).
* **Interrupt handlers do the work.** The Ethernet loader answers, acknowledges
  and saves files in its interrupt; the main loop uses the same buffers, masking
  the interrupt in one routine only (`tcp.c:380-389`).
* **Parties that only infer each other's state.** TCK and clk are unrelated; the
  two ends of a serial line, of an upload and of a connection count for themselves,
  with numbers that wrap.
* **Events last one clock, or one read.** Whoever looks elsewhere misses them.
* **Boundaries.** Lines, numbers, sections, packets and rings at their limits.

`PROJECT.json` lists every hazard at its line with the properties about it.

## 2 Modules and the code

```
tiny-risc-v
  TinyCore ==> TinyIsa                           core; DividerCtl is its divider
       <- MCTinyCore, TinyCoreProofs
  DividerCtl <- Divider <- DividerProofs         div.v
  HandshakeRegs <- Handshake ==> Channel         full_handshake_*   <- HandshakeProofs
       ^--- JtagDmi ==> DmiRpc                   jtag_driver + jtag_dm  <- JtagDmiProofs
  DebugBus                                       jtag_dm registers, rib, regs
  Uart ==> Channel                               uart.v + lib/uart.c
  TinyTimer, TinySpi                             timer.v, spi.v with their programs
  FwUpdate <- FwUpdateProofs                     uart_debug.v + the script
  MCBlocks: one of Handshake, JtagDmi, DebugBus, Uart, TinyTimer, TinySpi, FwUpdate
       <- BlocksProofs
amber_cpu
  EthLink, EthTimer, EthTftp, LineBuffer ==> LineFifo     MCEthernet: one of them
       <- EthProofs                              (EthLink, EthTimer, EthTftp)
  EthTcp
  XmodemRx
  SerialConsole, MemCommands, ElfLoad, AmberPrint, MiniMemcpy, EthChecksum, FuncJumps
dark-risc-v   DarkShell, DarkTimer, DarkArith, DarkNumbers
n101-risc-v   RiscvTestEnv, RiscvVm
  MCPrograms: XmodemRx or one of the modules of the last three groups
       <- ProgramsProofs                         (XmodemRx, DarkShell, DarkTimer, DarkArith,
                                                 DarkNumbers, RiscvTestEnv)
```
`<-` EXTENDS, `==>` implements (INSTANCE ... WITH; checked by TLC, and proved for
TinyCore, Handshake, JtagDmi and Uart; Divider implements DividerCtl). The three hosts `MCBlocks`, `MCEthernet` and `MCPrograms` put closed
systems side by side: a behaviour is one of a single system, chosen in the
initial state, and the others rest. A property of a host is a conjunction of
the named properties of its systems, each of which can be read and checked in
its own module.

### tiny-risc-v

**TinyCore.** One action, `Clock(int_i)`, is one rising edge of clk; wires are
operators (`HoldFlag`, `JumpFlag`, `IntState`), each always-block is the
definition of one next value (`PcReg`, `IfId`, `IdEx`, `Clint`, `CsrReg`). An
instruction is one of eleven operations, chosen by what they do to control.
`dm` is what the core sees of the debug module. `arch` is a history variable: an
instruction-set machine that moves only when EX lets an instruction take effect.
`InOrder`, `PreciseTraps`, `CsrsFollow`, `CsrsCoherent` compare the pipeline with
it; `DivNotAborted`, `HaltedStaysDrained`, `HaltStops`, `Progress`. `CoreSpec` is the
core with the programs and the environment of section 4, and `ImplementsIsa` says that
it implements **TinyIsa**, in which an instruction, a trap, a return or an interrupt
is one step, and an interrupt is taken only if the program has them enabled.

**DividerCtl, Divider.** Control as the pipeline sees it, and the restoring
algorithm W bits wide. `ControlRight`: the second implements the first and ends.
`ResultsRight`: results are those of RV32M, nothing is cut off in the 31-bit
`minuend_tmp`.

**Handshake, Channel.** An edge of either clock, or of both, may come at any time;
when they coincide a sampled level may read either way. `ChannelSpec`: one word at
a time, once, unchanged. `DataStable`: the word does not move when it is latched.

**JtagDmi, DmiRpc.** TAP and DTM on TCK, debug module on clk. `RpcFairSpec`: an
accepted request is executed and answered once before the next. `BusyIsTheTruth`:
a scan that did not report busy can be believed.

**DebugBus.** What the requests do: the registers of `jtag_dm`, the priority of EX
in `rib` and `regs`, and a debugger that follows the protocol of OpenOCD
(external). `NoAccessLost`, `AnswersTrue`: memory and registers are what stores of
the core and requests of the debugger have made of them, and an answer is the
word that the transfer has come to.

**Uart.** Transmitter, receiver with its edge detector, driver; the pin is looped
back. `LineSpec`: the line is a `Channel`. `BusyMeansWork` is `uart.v:76`.

**TinyTimer.** The timer with both variants of `timer_int/main.c`.
`EveryPeriodCounts`: each expiry is counted once, wherever register writes fall.
`NeverPasses`: the test for equality never misses its number. `Toggles`.

**TinySpi.** Clock phase, divider, edge counter, shift register, driver and a device
(external). `BytesExchanged`: a call that has returned has exchanged its bytes.

**FwUpdate.** Script and device with a line that loses and damages. `PacketInPlace`,
`Agree`, `SuccessMeansImage`, `Recovers`.

### amber_cpu, Ethernet boot loader

**EthLink.** The core stores frames into a ring and has one transmit buffer; the
interrupt (`Interrupt`, which clears the cause, then scans the ring) answers at
once; the main loop opens the link and transmits, masked (`tcp_tx`) or not. The history
`late` is the frames that were stored behind the scan of an interrupt: all, and those of
the last one. `NearlyInOrder`: a frame is overtaken within one turn of the ring only, and
only by one in a lower buffer or if it came behind the scan. `NoneForgotten`: a frame that waits
without an interrupt came behind the last scan, whose end clears the cause. `AllTransmitted`,
`OnlyUnmaskedReplaced`, `Handled`.

**LineBuffer, LineFifo.** `get_line` is three steps, since the interrupt may come
between its accesses. `FifoSpec`: what is read is what was written, in order.
`LineArrives`.

**EthTimer.** The two words of the time are read one after the other. `NotEarly`,
`EarlyByLessThanASecond`, `NotLate`: how far off a timer may be; `KeepsFlashing`. All timers
of the loader are set to whole or half seconds (`led.c:60`, `tcp.c:416`, `tftp.c:171`,
`ethmac.c:235`), and the properties are about those.

**EthTftp.** Interrupt (`Interrupt(m)`, one packet), main loop (`process_tftp`: copy,
split, set the timer, boot), client, network. `faults` says whether a packet came too
late (`Stray`) or a request between the check of `ready` and the copy (`Races`).
`FileInOrder`, `AckedIsSaved`, `BootsWhatItLoaded`, `CopyFits`, `Rebooted`.

**EthTcp.** Sockets, `tcp_reply` step by step in the main loop, whole segments in the
interrupt, retransmission, telnet session, clients, network. `SessionsRight`: the
client sees a prefix of what was written for it, in order, and commands run once
and in turn. `Served`. `AckedWasReceived` is what `tcp.c:486` says.

**EthChecksum.** `SentIsValid`, `DroppedIfDamaged` for all headers.

### amber_cpu, serial boot loader, libraries and tools

**XmodemRx.** Receiver, sender and line with faults; numbers wrap modulo `Mod`.
`ReceivedIsPrefix`, `SuccessMeansAll`, `Returns`, `Transferred`.

**SerialConsole, MemCommands.** `ShownIsRun`: the line that runs is the line on the
screen, with backspaces and the history key. `WritesWhatIsTyped`,
`DumpsTheRange`, `ReadsOneWord`.

**ElfLoad.** Three programs with one table-driven loop each, by words or by bytes.
`ImageIsLoaded`, `NothingElse`, `RunningLoaderIsSafe`.

**AmberPrint, MiniMemcpy, FuncJumps.** Loops and buffers of `print`, `printf`, `memcpy`
and the trace tool against reference definitions (`ReadsBack`, `CountIsOutput`,
`FieldIsAsWideAsAsked`, `FitsPrintBuf`; `Copied`, `ReadsOnlyItsWords`;
`SearchIsRight`, `PrintedIsRight`).

### dark-risc-v and n101-risc-v

**DarkShell.** `gets`, `strtok`, argv: `LineIsWhatWasTyped`, `ArgvIsTheFields`,
`NothingOfEarlierLines`. **DarkTimer.** The timer of `darksocv.v`, the interrupt that
counts, `usleep` by counter or by polling the flag: `LedPeriod`, `SleepIsAccurate`,
`RebootEnds`. **DarkArith, DarkNumbers.** Shift loops of `*`, `/`, `%`, and `putnum`,
`atoi`, `xtoi`: `ResultIsExpected`, `DivisionKeepsDividend`, `LoopsEnd`,
`ShownReadsBack`, `ShownIsShort`.

**RiscvTestEnv.** Reset, PLL set-up, trap vector, handlers and report of the p
environments under interrupts at any instruction. `TrapsAreTransparent`: a test
cannot tell that it was interrupted. `NothingIsLost`, `ReportIsRight`,
`PllIsSafe`, `Reported`.

**RiscvVm.** Page-fault handler, frame list, TLB of the v environment.
`AssertionsHold`, `PagesHold`, `FramesAccountedFor`.

`PROJECT.json` maps each definition to its lines.

## 3 Runs

| run | asks | distinct states | time (2 workers) |
|---|---|---|---|
| `core` | every program of three words and a handler, with an arbitrary interrupt line and debug halt, resume, reset and access at any clock (and divisions where there are no interrupts): in order, precise, CSRs coherent, divisions whole, a halted hart quiet; an implementation of TinyIsa | 862,679 | 80 s |
| `core_live` | progress, and coming to rest when halted, with everything at once | 391,088 | 111 s |
| `divider` | all sequences of 3-bit divisions, aborted at any clock | 219,639 | 125 s |
| `blocks` | handshake, JTAG transport, debug module and bus, UART, timer, SPI, firmware loader | 156,444 | 146 s |
| `ethernet` | link, line buffers, timers, uploads | 196,947 | 158 s |
| `tcp` | telnet sessions of one or two clients | 85,149 | 62 s |
| `programs` | Xmodem, consoles, loaders, libraries, tools, DarkRISCV, test environments | 888,213 | 107-137 s |
| `core_div_int` | *violation*, 7.1 | | |
| `core_shadow` | *violation*, 7.2 | | |
| `uart_busy` | *violation*, 7.3 | | |
| `fw_rerun` (FwUpdate, smaller images) | *violation*, 7.4 | | |
| `tcp_ack` | *violation*, 7.5 | | |

Each property of a passing run has a mutant, a plausible bug in one mapped
definition under which TLC finds that property violated; it stands before the
definition that it changes.

Deadlock is checked in the runs of the core and the divider. The hosts and
`tcp` contain systems that finish (a transfer that succeeded, a loader that has
started its program, users that have quit), so there it is not.

## 4 Bounds

* **Programs** (`MCTinyCore`): three free words, a jump back to them, a handler of
  one free word and an `mret`. The pipeline holds two instructions and one
  behind them, so each operation comes next to each other one, in both orders,
  with one in between. `core` takes interrupts with loads, branches, `csrs` and
  ecall (`Body`), and divides with loads, branches, `csrs` and ebreak (`DivBody`); jumps are the
  branches that are taken. `CoreSpec` names what is left out: an ecall, ebreak or mret right
  behind a jump (7.2) and an mret right behind a division (8.2), interrupts of a program that
  divides (7.1), and a debugger that moves pc while the hart is not at rest or an
  interrupt comes in (8.2). `csrc` (8.1) is not in `Body`. `core_live`, which states no safety
  property, has divisions and interrupts together.
* `NWords = 6`: addresses wrap. `CalcCycles` 2 or 3 for 32: the clocks in CALC are
  alike. `ResetAtRest`: a debugger writes dpc after it has seen the hart halted
  (8.2). `W = 3` (`Divider`): all pairs of operands, with zero, the most negative
  and minus one.
* `Ratio = 3`, `ScanClocks = 8` (`JtagDmi`): nothing in `jtag_driver` or `jtag_dm`
  waits for the handshake of the last answer to be taken down
  (`jtag_dm.v:317-328`); the length of a scan makes it safe. With the same module
  the properties fail for (Ratio, ScanClocks) = (2,4), (3,7), (4,10), (5,13), and are proved for
  every scan of 3 Ratio - 1 clocks or more (`LongScans`, section 6): the bound is exact.
  Scans of DMI shift 40 bits, so TCK may be up to 13 times as fast as clk.
* The constants of the small blocks are those of `MCBlocks`, so that the theorems are
  about all of their values.
* `Words = 3`, `ScanGap = 2`, `Drain = 1` (`DebugBus`): a block of two words that
  does not wrap and one that does; the hart is at rest before the next request
  (`Drain < ScanGap`), as a scan takes at least 40 clocks and a division 35. A hart runs for a
  clock at least after the request (`Drain >= 1`): the halt request is registered. `HaltFirst`: `fpga/README.md:183`
  tells the user to halt before loading; without it `NoAccessLost` fails (a
  write of the debugger that meets a load or store of EX is dropped). A debugger uses
  memory or registers, which share no state but halt.
* `UartBits = 4`, `Baud = 7` (`Uart`): both ends count the same clocks to a bit, so that the
  sample points do not drift; that they are right for 8 bits and 440 clocks too, and for each
  baud from 5 on, is proved (`SlowLine`). `MaxBurst = 2`: two
  consecutive clocks with a register write; the core can do no more without a
  fetch. `Baud >= 2`: the receiver waits for half of it, and its counter never meets a
  limit of 0 (`uart.v:162-327`).
* `Period = 9`, `Ticks = 3`, `MaxGap = 2` (`TinyTimer`): a period is longer than the
  handler and a pass of the loop. `NeverPasses` holds from `Period = 3 (MaxGap + 1) - 1` on, as
  is proved (`UnhurriedTimer`), and fails one below, as TLC shows; the programs set 500 and
  50000 clocks.
* `SpiBits = 3`, `SpiDivs = {0, 2}`, `PollLag = 2` (`TinySpi`): the fastest clock and one
  with idle clocks between edges. `PollLag`: the status is two clocks late
  (`spi.v:78, 209`); a program that polled in the next clock would see an idle
  master. The loop of `spi.c` compiled as its makefile says (no optimisation)
  has three instructions in between; at `PollLag = 1` `BytesExchanged` fails.
* `WordsPerPacket = 2` for 32, images of 1, 3 and 4 words, `Attempts = 3`,
  `Faults = 2` (`FwUpdate`): one attempt more than failures.
* `EthLink`: three buffers for eight and five frames, so that the ring wraps and fills,
  and an interrupt has buffers before and behind its scan. One kind of frame, which is
  answered or not: the kinds differ in the number of answers only.
  `LineBuffer`: 8 bytes for 4096, lines of up to 3. `EthTimer`: a second of six ticks,
  timers of half a second, one and two (`Longest`), reads of the clock at most one tick apart
  (`TicksPerRead`, assumed to be a quarter of a second or less). `EthTftp`: numbers modulo 4,
  files of one to four blocks, two uploads in a row, up to two losses and one duplicate; one
  plan for each question (`UploadPlans`).
* `EthTcp` (plans at its end): each behaviour follows one plan (a loss in each direction, a
  duplicate, options before the first command, two clients, a reset), so that
  the sum of the cases is checked and not their product; three sockets, eight
  transmit slots.
* `XmodemRx`: numbers modulo 4, five packets, three errors, so that a number comes
  back while its packet may still be repeated.
* The programs: lines of 5 to 7 characters, numbers of two or three digits, words
  of 4 bits (8 for `DarkNumbers`), memories of a few words, ELF files with two
  sections of each type at each place around vectors and loader; lengths just
  below, at and above each limit of the loops.
* `RiscvTestEnv`: at most three traps; the save area is used by one at a time, so that
  two show what a third would. `RiscvVm`: three pages and four frames.

## 5 Fairness

* TinyCore, Uart, Divider, TinyTimer: weak fairness of the clock (in Uart of clocks
  without a register write: a program cannot write in each clock; in TinyTimer
  also of taking an interrupt that stays pending). TinySpi: of the driver.
* Handshake, JtagDmi: weak fairness of the edges of both clocks.
* FwUpdate: of script, device and user; the script's three-second timeout fires
  only when nothing else can happen, since everything else takes milliseconds.
* EthLink, LineBuffer, EthTimer, EthTftp, EthTcp: of the interrupt while its cause is
  pending, of each step of the main loop, of the arrival of what is on its way,
  and of a client's timeout. Losses are bounded, so that retries win.
* XmodemRx: of both ends and of a second passing. DarkTimer, DarkArith, FuncJumps,
  RiscvTestEnv: of their steps; nothing else runs.

`Progress` is conditional on the debugger not halting for ever, `HaltStops` on the
opposite. Fairness of interrupts from outside is never assumed.

## 6 Proofs

All theorems are proved with tlapm from the named assumptions on the constants and
the named hypotheses of the theorem, and nothing else. Each proof has the same
shape: an inductive invariant, a lemma that the initial states satisfy it, one lemma
per action (or per state of a machine) that the action preserves it, and one
theorem per property that follows from it.

**TinyCoreProofs.** Two invariants, one on top of the other.

* `IInv` holds of `Spec`, for every set of programs, ecalls behind jumps and
  interrupted divisions included. It is `TypeOK /\ Typed /\ Sequencer` with the freshness
  of the operands: `Sequencer` says what EX may hold in each state of clint's
  sequencer. When clint leaves IDLE it holds the pipeline from that clock on, so EX is
  empty before the first of its writes reaches csr_reg; nothing shorter is
  inductive. From it `TypeCorrect`; `CsrsStayCoherent` (with `WritesNeverMeet` and
  `ForwardingIsFresh`): a CSR instruction works on the current value, and EX and clint
  never write in the same clock; `HaltedHartStaysDrained`.
* `OInv` holds of `CoreSpec`. While clint rests, EX holds the next instruction of the
  machine or nothing and ID the one behind it (`Running`); what an instruction does when EX
  holds it is delayed by a bubble only. While clint works, the stages are empty and the CSRs have
  come as far as the state of the sequencer says (`AtMepc` ... `AtReturn`), for the
  cause that the machine has taken. From it `ProgramOrder` (`InOrder`),
  `TrapsArePrecise`, `CsrsAreArchitectural`, `DivisionsFinish`.
* `InterruptsAreEnabled` and `CoreImplementsIsa`: the core implements TinyIsa, step by
  step. Their hypothesis `ClearFree(rom)`, no `csrc`, is needed: clint accepts an interrupt
  by the registered mstatus in the clock in which EX clears MIE (`clint.v:99-101`).

**DividerProofs.** `DInv`: in CALC the quotient so far times the divisor plus the
remainder so far are the digits of the dividend so far, and the remainder is below the
divisor, so that the 31 bits of `minuend_tmp` suffice; the signs are those that
START has seen, and the low bits of the shift register are the digits to come. `ResultsAreRight`
follows with the uniqueness of quotient and remainder. Assumption `PowersOfTwo` states
`2^(i+1) = 2 * 2^i` for the weights of the bits: `^` is defined by recursion, of
which tlapm knows nothing. TLC evaluates it. `ControlIsThePipelines` is the safety part of
`ControlRight`, `DividerCtlSpec`: the clocks that TinyCore counts for a division are those that
the algorithm takes. The one-hot count says how many are left (`OneHot`), because no two bits
have the same weight (`WeightsRise`).

**HandshakeProofs.** `IInv` describes the four phases: a level travels round the loop
`tx.req -> rx.req_d -> rx.req -> rx.ack -> tx.ack_d -> tx.ack`; in ASSERT a rising level
has got to some point of it (`Rising`), in DEASSERT a falling one (`Falling`), in
IDLE it is low (`IdleIsQuiet`). Theorems: `TypeCorrect`, `QuietWhenIdle`,
`LatchedWordIsHeld`, and `ImplementsChannel`: `Spec => ChannelSpec`, initial states
to initial states and each edge to an action of the channel or a stutter.

**JtagDmiProofs.** The transport contains two handshakes, and its invariant two
instances of the handshake's. A call is in at most one of six places (`OneCall`: asked,
requested, arrived, answering, returning, returned), and its word is the same in
all of them (`Carried`). What the code does not check, that jtag_dm may answer at once and that
the driver may accept a request at the end of a scan that was not busy, holds because a scan is
long: `AnswerInTime` and `FreeInTime` count the edges of TCK that a level still needs
(`ReqLeft`, `RespLeft`) and those left in the scan (`ToUpdate`). Theorems, under `LongScans`
(`ScanClocks >= 3 * Ratio - 1`; one less and TLC finds a lost answer):
`CallsAndAnswers` (`Spec => RpcSpec`), `NotBusyIsAnswered`, `NothingDropped`, `TransportTypes`.

**FwUpdateProofs.** For every image, packet size, memory, number of faults and of runs:
`FwInvariant` says that the device waits for the packet that the script has sent, or has lost
units of it and waits for ever (`Coming`), that while it works it holds exactly that packet (`Working`),
and what both count after an answer that did or did not arrive (`Answered`). From it
`SuccessIsTrue` (`SuccessMeansImage`), if the pin is pulsed between runs (`PulsesPin`; see 7.4),
`PacketsInPlace`, `EndsAgree`, `FwTypes`.

**BlocksProofs.** Properties of `blocks`, for the composition. `HandshakeInStep`, `LoaderInStep`
and `TransportTellsTheTruth` follow from the theorems above: the blocks do not touch
each other's variables, and an instance here and the same instance of the proof module
have the same definitions. `AccessesWork` (`AccessesTakeEffect`), `BlocksTypes` (`TypesOK`)
and `LineInStep` (`LineSpec`) rest on five invariants of its own, for all constants of the
small blocks:

* `BusInv`: a write of the debug module in its registers is what memory or registers still lack
  of the debugger's view, and by the time it is made the hart is at rest.
* `TmrInv`: how many clocks of the period each step of the handler may have used up,
  and what the counter is at each step of the program. Hypothesis `UnhurriedTimer`:
  `Period >= 3 * (MaxGap + 1) - 1` and two ticks at least; one clock less and TLC finds an interrupt
  between a handler and the test behind it.
* `SpiInv`: after e clock edges the last `Taken(e)` bits are with both sides, and the next one
  is on both wires. Hypothesis `PatientDriver`: two to sixteen bits (the bit index of
  `spi.v` has four) and a poll that comes two clocks after the start or later.
* `SerInv`: the baud counter of the receiver has just started whenever the limit changes, so
  it never runs past it.
* `LineInv`: where the receiver is for each bit and clock of the transmitter. The edge of the
  start bit needs two clocks through the synchroniser (`RxWaits`); then the sample counter
  runs two clocks behind the transmitter's (`RxHalfBit`), and since both count `Baud + 1`
  clocks to a bit it stays half a bit and three clocks behind every edge
  (`RxSamples`): the sample of a bit is taken while that bit is on the wire, the last one before
  the stop bit, and no level behind it is taken for a start bit (`BitsArePast`). The
  byte is in `sent` until it is handed over. `uart_putc` waits while
  `busy` is set, and a request lasts one clock, or two if `uart_getc`
  writes its register in the next. Hypothesis `SlowLine`: `Baud >= 5`; one less and TLC finds a byte
  received wrongly, because the sample is late by these clocks. The hardware has `32'h1B8`.

**EthProofs.** Three properties of `ethernet`, for all constants. The parts do not touch each
other's variables, so that each has an invariant of its own.

* `FramesAreHandled`, by `LinkInv`. A waiting frame is in the buffer of its number, less than
  a turn of the ring behind the last (`RingRight`), and has been seen at most once
  (`HandledOnce`); what waits behind the scan came there after it (`LateRight`); and a frame
  that waits has been overtaken only as `NearlyInOrder` allows, which is not inductive
  without it (`OrderRight`). `TxRight` says whose frame is in the transmit buffer and which
  one is on the wire, for each state of interrupt and main loop.
* `UploadsAreRight`, by `UpInv`. The file is the first `last_block` blocks of its upload
  (`FileRight`), and the client is at most one block ahead of it, or the numbers have come to their end
  (`ReachedRight`). `CopyRight` and `ImageRight` follow a file through the main loop: what is
  copied and loaded is a whole file, and the image is that of the last upload
  only if its vectors are. The former hold until a packet comes too late, the latter until
  a request takes the place of a file that is being copied; neither would be true without that.
* `TimersAreAccurate`, by `TimerInv`: for each access of `set_timer` and `timer_expired` between which
  the second may turn, the state of the second there (`SetsRight`), and the time left with the
  margin by which the timer is set too late or too early (`PollsRight`).

**ProgramsProofs.** Of the programs, each for every value of its constants.

* Xmodem, for every file, numbering modulo `Mod > 1`, buffer and number
  of faults: `XmodemTypeOK`; `XmodemSenderNotAhead`: the sender is at most one packet
  ahead, so that the wrapping number tells a new packet from a repeated one; from it
  `XmodemPrefix` (`ReceivedIsPrefix`) and `XmodemSuccess` (`SuccessMeansAll`).
* `FirmwareIsRight` (`FirmwareRight`), by the four invariants that follow and the fact that a
  program does not touch another's variables.
* `TimerInv` of DarkTimer, with and without an interrupt. `Ticks` counts the ticks of this
  `usleep`, the one that it is about to see and the one that `irq_handler` has not
  counted yet included. Two ticks are a period apart, hence `NotTooShort`; at most the
  first one is lost, hence `NotTooLong`, which also has to say where in the period the
  handler and the loop are (`HandlerInPeriod`, `PollInPeriod`): only if a period is as long as
  the handler (`Slow >= 8`) is a tick never overtaken by the next one.
* `ArithInv` of DarkArith, for every width. In a multiplication `acc + x * y` modulo the
  words is the product (`Multiplies`); in a division `aux` is a power of two and `y` that
  multiple of the divisor (`MovedUp`), and what has been subtracted and what is left are
  the dividend, less than two of the next multiple being left (`MovedDown`). The signs are
  those that C prescribes, the most negative dividend included. `DivisionKeepsDividend` follows.
* `NumbersInv` of DarkNumbers, for any two bases. `Above(k)` is the number without its last
  k digits; the digits on the stack and those shown are its digits (`InPlace`), `i` is what is
  above them (`Divided`), none of them is superfluous (`AllDigits`), and what has been read
  is what is above the digits to come (`HasRead`).
* `EnvInv` of RiscvTestEnv, for every number of tests and interrupts: in each instruction where
  interrupts are off nothing is enabled behind its back (`Enables`), where the registers of a trapped
  test are (`Trapped`), what the test has come to wherever it was interrupted (`Verdicts`).

* `ShellIsRight` (`ShellRight`), by `ShellInv` of DarkShell, for every buffer, argv and line.
  `Cut` is how far `strtok` has got: a character of the line is in its place unless
  it is a blank before the cut, where, as behind the line, there is a NUL
  (`LineInBuffer`); and argv holds the fields that begin before the cut, in order
  and as many as there are (`FieldsSplit`). That `gets` leaves the last place of the buffer alone,
  although a backspace is counted, is `p + s <= BufSize` in `ShellTypes`. `EndOf`, the
  first NUL behind a place, exists because a set of natural numbers has a least
  one (`LeastNumber`).

Assumptions about the constants: `W`-bit words have two halves, and a power of a base
is the base times the power below it (`DarkArithAssumption`, `DarkNumbersAssumption`), as
`PowersOfTwo` above; and `Stack`, the 32 characters of `putnum`, has room for the digits of every word.

Only model-checked: that a division ends (`Finishes` in `ControlRight`); that the line buffer refines LineFifo (it is written
with folds and flattened sequences, of which only an induction could say anything); the types of the
Ethernet loader; the TCP sessions; and of the programs `TypesOK`, `ConsoleRight`,
`ImageRight` and `OutputRight`. What a loop that folds over its input computes (the checksums,
the image of an ELF file) is an induction over data, which these provers cannot do, and all
liveness is out of their reach (fairness and ENABLED).

## 7 Where code and comments disagree

Each is a run with `expect: violation`; TLC's trace shows it step by step.

1. `core_div_int`. An interrupt accepted in the first clock of a division returns
   *behind* the division, whose result is never written: `ex.v:211` raises the
   jump flag in that clock, so `clint.v:144-145` is taken instead of the branch
   below it, whose comment says that the division is executed again.
2. `core_shadow`. clint decodes ID without asking whether EX is jumping over it: an
   ecall behind a taken jump traps, with an mepc that is one word before the
   target of the jump.
3. `uart_busy`. The transmitter's report lasts one clock and is ignored in a clock
   with a register write (`uart.v:101`): the status write of `uart_getc` may leave
   the busy bit set for ever.
4. `fw_rerun`. After a run that failed the device's packet counter keeps its value.
   If the pin is not pulsed, the next run has its header written to memory as
   data and reports success.
5. `tcp_ack`. `tcp_ack` takes an old or repeated acknowledgement for one behind the
   wrap of the sequence numbers (`tcp.c:496-506`) and marks everything as acked
   that was sent since.

Met while modelling, without a run of their own:

* `printf.c:104`: `%u` goes through the signed `printi`, so that 4294967293 is
  shown by a division of a negative number, and `%d` of the most negative number
  cannot be negated; `OutputRight` leaves these values out (`Printable`).
* `line-buffer.c:112` "return 0 if buffer doesn't have a complete line": a byte left
  behind the last complete line by an earlier pass decides it; the line that is
  returned then is still a prefix of what was written, which `FifoSpec` shows.
* `ethmac.c:168-169` "This holds everything up while the packet is being
  transmitted": the frame is copied into the buffer *before* that wait, over the
  one on its way. `OnlyUnmaskedReplaced` says which frames can be lost by it.
* `riscv_test.h_simple.h:241-252`: the ebreak handler changes a1 although its comment
  says that it saves and restores the registers; and the reset code enables
  interrupts before it writes mtvec (263-270). The test bench waits for the
  latter (`tb_defines.v:101-130`), and the model with it.

## 8 What the runs leave out on purpose

Behaviour that the same modules show when a bound is lifted, or that was found
while a guard was written. It is left out by the constant named, or by the
environment model, so that the rest can be checked.

1. `csrc` in `Body` with interrupts: clint accepts an interrupt by the registered
   mstatus in the clock in which EX clears MIE (`clint.v:100`).
2. `ResetAtRest = FALSE`: a dpc write that meets an interrupt of a halted hart returns to the old
   program. `div` in `Handler`: an mret right behind a division does not wait for it.
3. `HaltFirst = FALSE`, `PollLag = 1`, `Period` shorter than the handler: see 4. On the
   board variant of `timer_int` a tick between the test and the reset of `count`
   (`main.c:36-37`) is lost, which makes one LED period longer by one tick. With
   `sbreadondata` and without `sbautoincrement` the debug module reads the word behind the
   one that it should read again (`jtag_dm.v:192-194`); the debugger of the model sets
   both or reads one word (`Block`).
4. UART: `uart_getc` (`uart.c:17`) clears the flag of a byte that arrived before the
   call; `LineSpec` and `ByteArrives` end at `rx_data`. The address in a response of the
   debug module is always 0 (`jtag_dm.v:314`, the request has been cleared by
   then) and reaches the debugger so, with the data; `JtagDmi` models the data.
5. TFTP: a data packet before any request dereferences a NULL pointer
   (`tftp.c:115`), which the network model does not deliver. A request or a block
   that comes late, after another upload has begun or ended, may empty or mix the
   file in memory: it is modelled (`Stray`), and the properties of uploads speak of
   behaviours in which none was delivered. A new request between the check of `ready` and the
   end of the copy (`tftp.c:159-230`) has the main loop allocate for one file and copy the
   beginning of another: it is modelled (`Races`), and `CopyFits` and `BootsWhatItLoaded` speak of
   behaviours without it.
6. TCP: a segment that comes twice, or again because its acknowledgement was lost, is
   executed again (`tcp.c:339` looks at no sequence number). It is modelled;
   `OutputInOrder` and `Available` hold of it too, `RunsOnce` and `Served` are stated
   for behaviours without it. Left out: a
   reset to a listening socket; PENDING has no timeout, and its payload is dropped
   but acknowledged later; a FIN is not retransmitted; zero-length options loop
   (`tcp.c:259-291`).
7. `malloc` (`start.S:447`) reads its pointer and writes it back three instructions
   later, in the main loop and in the interrupt. `open_link` allocates a timer per
   attempt and nothing is ever freed.
8. Xmodem: when the ACK of packet 255 is lost, the repeated packet is refused for
   ever (`errs.wrap`); a packet without its first byte may end the transfer as
   noise that is taken for its end (`errs.noise`). Both are modelled, and the properties
   that they break say so.
9. ELF: sections at or above the loader are skipped while the loader reports
   success; the serial loader writes whole words past the end of a section; the
   host tool prints up to one word that it never wrote (`amber-elfsplitter.c:348`).
10. `memcpy` reads one word ahead of an unaligned source (260-296); a frame list of
   one frame is taken for empty (`vm.c:140`); the trace tool does not end on an
   empty table; `timer 0` of the DarkRISCV shell makes `reboot` and `usleep`
   wait for ever; a `%` at the end of a format steps over its terminator.

## 9 What is not modelled

* What arithmetic instructions compute, decoding, and the contents of registers in
  the pipeline: the ISA tests cover them, and no interleaving bears on them. CSRs that
  nothing in the core depends on: mie, mscratch, cycle.
* tiny-risc-v: the routing of `rib` to its slaves, GPIO, memories, SoC top: wiring
  and arrays. The firmware loader as a bus master: it owns the bus while its pin is
  high, and a core that runs meanwhile has its memory replaced anyway. FreeRTOS,
  CoreMark and the compliance tests are third-party programs.
* Changes of the baud rate, and disabling an engine in the middle of a byte: the
  drivers do neither.
* amber_cpu: the hardware (a vendored OpenCores SoC with a third-party Ethernet
  core; the ring and the timer are modelled as the loaders see them), dhrystone,
  hello-world and the Linux files. Of the loaders: layouts of headers, TCP
  options, texts and status commands, assembly (vectors, stacks, allocation).
  The other host tools turn a file into lines in one pass.
* dark-risc-v: core, cache and UART of the SoC; dumps and register commands of the
  shell, which are one store or one load each.
* n101-risc-v: the core is obfuscated, its peripherals are generated. `encoding.h`
  is a list of constants.

## 10 Plan

Done: the core and its debug path, the peripherals, the boot loaders with their
protocols, libraries and tools, the DarkRISCV firmware and the test environments; proofs of
the tiny-risc-v modules, of Xmodem, of the DarkRISCV firmware,
of the test environment, and of the link, the timers and the uploads of the Ethernet loader.
What is worth doing next:

1. **Proofs.** The other programs; `SessionsRight` of EthTcp; `TypesOK` of `ethernet`.
2. **malloc.** Two allocations interleaved, with the buffers as state.
3. **Composition.** EthTcp on EthLink: a segment that is lost in the transmit buffer is
   one that the network loses, which is assumed now and could be shown.
