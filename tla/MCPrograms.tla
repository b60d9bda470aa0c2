----------------------------- MODULE MCPrograms -----------------------------
(***************************************************************************)
(* The programs without a network: the Xmodem receiver of the serial boot  *)
(* loader, its console and its memory commands, the ELF loaders, printf,   *)
(* memcpy, the checksums and the trace tool of amber_cpu, the shell, the   *)
(* timer, the arithmetic and the numbers of the DarkRISCV firmware, and    *)
(* the environment and the virtual memory of the RISC-V tests.  A          *)
(* behaviour is one of a single program, chosen at first; the others rest. *)
(***************************************************************************)
EXTENDS XmodemRx

CONSTANTS
  Cores, Periods, Slow, Reload, Delay, Rounds,   \* DarkTimer
  ArithWidth,                                    \* DarkArith
  BufSize, Slots, ShellKeys, Arity,              \* DarkShell
  NumbersWidth, Dec, Hex, Stack,                 \* DarkNumbers
  LastCase, TestRegs, MaxTraps                   \* RiscvTestEnv

VARIABLES
  program,                               \* the program that moves
  hw, utimers, irq, main, since, span,   \* DarkTimer
  call, pc, x, y, sum, aux, result,      \* DarkArith
  v1, v2, v3, v4, v5, v6, v7, v8, v9, v10, v11, v12
    \* the other programs take turns on these: each calls them by its own names

timerVars == <<hw, utimers, irq, main, since, span>>
arithVars == <<call, pc, x, y, sum, aux, result>>
turnVars  == <<v1, v2, v3, v4, v5, v6, v7, v8, v9, v10, v11, v12>>
programVars == <<program, vars, timerVars, arithVars, turnVars>>

MCOff == <<0, 2, 3, 5, 6, 7>>        \* a file of five packets
MCArity == [m |-> 3]                 \* a command that reads three arguments
MCTestRegs == {[a0 |-> "x", a1 |-> "x", t5 |-> "x", t6 |-> "y"],
               [a0 |-> "y", a1 |-> "y", t5 |-> "y", t6 |-> "x"]}

(* One or two sections of every type, place and size around the vectors    *)
(* and the loader, or none.                                                *)
Section == [type : {"PROGBITS", "NOBITS", "other"}, addr : {0, 4}, off : {0, 3}, size : {0, 3, 6}]
Layouts == {<<s, t>> : s, t \in Section} \cup {<<>>}

(* The lines that can be typed with two digits and blanks (2), and two     *)
(* contents of the four words.                                             *)
Lines == UNION {[1 .. n -> {2, 0, 1}] : n \in 0 .. 5}
Memories == {[a \in 0 .. 3 |-> 0], [a \in 0 .. 3 |-> (3 * a + 1) % 4]}

Timer == INSTANCE DarkTimer
Arith == INSTANCE DarkArith WITH acc <- sum, W <- ArithWidth
Shell == INSTANCE DarkShell WITH
  pc <- v1, buffer <- v2, p <- v3, s <- v4, argv <- v5, argc <- v6, nxt <- v7, typed <- v8,
  Keys <- ShellKeys
Console == INSTANCE SerialConsole WITH
  buf <- v1, lbuf <- v2, esc <- v3, mode <- v4, screen <- v5, ran <- v6,
  BufLen <- 5, Keys <- {"CR", "BS", "ESC", "[", "A", "l"}
Memory == INSTANCE MemCommands WITH
  loader <- v1, cmd <- v2, text <- v3, rest <- v4, mode <- v5, mem <- v6, mem0 <- v7,
  address <- v8, i <- v9, last <- v10, length <- v11, shown <- v12,
  Base <- 2, Digits <- 2, Stride <- 2, MaxPrint <- 3, Texts <- Lines, Rests <- {<<>>, <<1>>}
Elf == INSTANCE ElfLoad WITH
  elf <- v1, loader <- v2, at <- v3, mem <- v4, vec <- v5,
  Loaders <- {"serial", "ethmac", "tool"}, FileSize <- 8, Vectors <- 4, ExecBase <- 8, Top <- 14
Printf == INSTANCE AmberPrint WITH
  lib <- v1, mode <- v2, width <- v3, pad <- v4, u <- v5, neg <- v6, s <- v7, out <- v8,
  pc <- v9, field <- v10, W <- 4, Dec <- 3, HexBits <- 2, MaxWidth <- 4, MaxOut <- 2,
  BufLen <- 5, Strings <- {<<>>, <<200>>, <<200, 200>>}
Checksum == INSTANCE EthChecksum WITH
  kind <- v1, dir <- v2, addr <- v3, buf <- v4, damaged <- v5, pc <- v6, sum <- v7,
  at <- v8, result <- v9, B <- 3, Lengths <- {4, 5}, AddrSums <- {0, 30}
Memcpy == INSTANCE MiniMemcpy WITH
  args <- v1, at <- v2, dst8 <- v3, src8 <- v4, count <- v5, length <- v6, shift <- v7,
  srcWord <- v8, read <- v9, mem <- v10,
  Width <- 4, Unroll <- 8, Size <- 112, Counts <- {0, 1, 7, 8, 9, 12, 35, 36, 40, 43}
Jumps == INSTANCE FuncJumps WITH
  func_names <- v1, jump <- v2, start <- v3, end <- v4, at <- v5, to_func_num <- v6,
  current <- v7, printed <- v8, lines <- v9,
  Tables <- {<<1>>, <<2, 2>>, <<1, 4>>, <<2, 2, 3, 3>>, <<1, 3, 4, 6>>, <<1, 2, 4, 5, 6>>},
  Jumped <- 0 .. 6, MaxJumps <- 2
Vm == INSTANCE RiscvVm WITH
  hardware <- v1, pte <- v2, tlb <- v3, node <- v4, head <- v5, tail <- v6, mem <- v7,
  content <- v8, want <- v9, at <- v10, i <- v11, Pages <- 3

Numbers == INSTANCE DarkNumbers WITH
  number <- v1, base <- v2, pc <- v3, i <- v4, stack <- v5, shown <- v6, ret <- v7, sig <- v8,
  W <- NumbersWidth
TestEnv == INSTANCE RiscvTestEnv WITH
  env <- v1, pc <- v2, csr <- v3, regs <- v4, saved <- v5, gp <- v6, tohost <- v7, pll <- v8,
  snap <- v9, verdict <- v10, traps <- v11

jumpsVars == <<v1, v2, v3, v4, v5, v6, v7, v8, v9>>
envVars == <<v1, v2, v3, v4, v5, v6, v7, v8, v9, v10, v11>>

ASSUME ProgramsAssumption ==
  /\ Timer!DarkTimerAssumption /\ Arith!DarkArithAssumption /\ Shell!DarkShellAssumption
  /\ Console!SerialConsoleAssumption /\ Memory!MemCommandsAssumption
  /\ Elf!ElfLoadAssumption /\ Printf!AmberPrintAssumption /\ Checksum!EthChecksumAssumption
  /\ Memcpy!MiniMemcpyAssumption /\ Jumps!FuncJumpsAssumption /\ Vm!RiscvVmAssumption
  /\ Numbers!DarkNumbersAssumption /\ TestEnv!RiscvTestEnvAssumption

Rest1To6  == v1 = 0 /\ v2 = 0 /\ v3 = 0 /\ v4 = 0 /\ v5 = 0 /\ v6 = 0
Rest7To12 == v7 = 0 /\ v8 = 0 /\ v9 = 0 /\ v10 = 0 /\ v11 = 0 /\ v12 = 0

MCInit ==
  /\ program \in {"xmodem", "timer", "arith", "shell", "console", "memory", "elf", "printf",
                 "checksum", "memcpy", "jumps", "vm", "numbers", "env"}
  /\ Init /\ Arith!Init
  /\ Timer!Init /\ (program # "timer" => hw.timerff = 0 /\ main.mtvec)
  /\ \/ program \in {"xmodem", "timer", "arith"} /\ Rest1To6 /\ Rest7To12
     \/ program = "shell" /\ Shell!Init /\ v9 = 0 /\ v10 = 0 /\ v11 = 0 /\ v12 = 0
     \/ program = "console" /\ Console!Init /\ Rest7To12
     \/ program = "memory" /\ Memory!Init
     \/ program = "elf" /\ Elf!Init /\ v6 = 0 /\ Rest7To12
     \/ program = "printf" /\ Printf!Init /\ v11 = 0 /\ v12 = 0
     \/ program = "checksum" /\ Checksum!Init /\ v10 = 0 /\ v11 = 0 /\ v12 = 0
     \/ program = "memcpy" /\ Memcpy!Init /\ v11 = 0 /\ v12 = 0
     \/ program = "jumps" /\ Jumps!Init /\ v10 = 0 /\ v11 = 0 /\ v12 = 0
     \/ program = "vm" /\ Vm!Init /\ v12 = 0
     \/ program = "numbers" /\ Numbers!Init /\ v9 = 0 /\ v10 = 0 /\ v11 = 0 /\ v12 = 0
     \/ program = "env" /\ TestEnv!Init /\ v12 = 0

Turn ==
  \/ program = "shell" /\ Shell!Next /\ UNCHANGED <<v9, v10, v11, v12>>
  \/ program = "console" /\ Console!Next /\ UNCHANGED <<v7, v8, v9, v10, v11, v12>>
  \/ program = "memory" /\ Memory!Next
  \/ program = "elf" /\ Elf!Next /\ UNCHANGED <<v6, v7, v8, v9, v10, v11, v12>>
  \/ program = "printf" /\ Printf!Next /\ UNCHANGED <<v11, v12>>
  \/ program = "checksum" /\ Checksum!Next /\ UNCHANGED <<v10, v11, v12>>
  \/ program = "memcpy" /\ Memcpy!Next /\ UNCHANGED <<v11, v12>>
  \/ program = "jumps" /\ Jumps!Next /\ UNCHANGED <<v10, v11, v12>>
  \/ program = "vm" /\ Vm!Next /\ UNCHANGED v12
  \/ program = "numbers" /\ Numbers!Next /\ UNCHANGED <<v9, v10, v11, v12>>
  \/ program = "env" /\ TestEnv!Next /\ UNCHANGED v12

MCNext ==
  /\ UNCHANGED program
  /\ \/ program = "xmodem" /\ Next /\ UNCHANGED <<timerVars, arithVars, turnVars>>
     \/ program = "timer" /\ Timer!Next /\ UNCHANGED <<vars, arithVars, turnVars>>
     \/ program = "arith" /\ Arith!Next /\ UNCHANGED <<vars, timerVars, turnVars>>
     \/ Turn /\ UNCHANGED <<vars, timerVars, arithVars>>

(* The program that moves is scheduled as its own module says.             *)
MCSpec ==
  /\ MCInit /\ [][MCNext]_programVars
  /\ WF_vars(program = "xmodem" /\ (Receive \/ ReceiveEnd))
  /\ WF_vars(program = "xmodem" /\ Silence)
  /\ WF_vars(program = "xmodem" /\ (Answered \/ Unanswered))
  /\ WF_vars(program = "xmodem" /\ Ignored)
  /\ WF_timerVars(program = "timer" /\ Timer!Next)
  /\ WF_arithVars(program = "arith" /\ Arith!Loop)
  /\ WF_jumpsVars(program = "jumps" /\ Jumps!Search)
  /\ WF_envVars(program = "env" /\ TestEnv!Next)

-----------------------------------------------------------------------------
(* Every program keeps the types of its variables.                         *)
TypesOK ==
  /\ TypeOK /\ Timer!TypeOK /\ Arith!TypeOK
  /\ program = "shell" => Shell!TypeOK
  /\ program = "console" => Console!TypeOK
  /\ program = "memory" => Memory!TypeOK
  /\ program = "elf" => Elf!TypeOK
  /\ program = "printf" => Printf!TypeOK
  /\ program = "checksum" => Checksum!TypeOK
  /\ program = "memcpy" => Memcpy!TypeOK
  /\ program = "jumps" => Jumps!TypeOK
  /\ program = "vm" => Vm!TypeOK
  /\ program = "numbers" => Numbers!TypeOK
  /\ program = "env" => TestEnv!TypeOK

(* The line that runs is the line the terminal shows, and it fits; memory  *)
(* is written and shown as the line says (boot-loader-serial.c:50-239,     *)
(* 379-429, telnet.c:330-346).                                             *)
ConsoleRight ==
  /\ program = "console" => Console!LineFits /\ Console!ShownIsRun
  /\ program = "memory" => /\ Memory!WritesWhatIsTyped /\ Memory!DumpsTheRange
                           /\ Memory!ReadsOneWord

(* The shell splits the line that was typed into its fields and never      *)
(* shows a command anything of an earlier line (main.c:98-131, stdio.c).   *)
ShellRight ==
  program = "shell" => /\ Shell!LineIsWhatWasTyped /\ Shell!ArgvIsTheFields
                       /\ Shell!NothingOfEarlierLines

(* The firmware counts and waits as long as it says, although the tick and *)
(* its interrupt go on meanwhile (main.c:36-49, stdio.c:348-364), and      *)
(* multiplies, divides, shows and reads numbers as C does (stdio.c:105-344).*)
(* The environment of a test hides the interrupts from it and reports what *)
(* it comes to (riscv_test.h_simple.h:116-326).                            *)
FirmwareRight ==
  /\ Timer!LedPeriod /\ Timer!SleepIsAccurate
  /\ Arith!ResultIsExpected /\ Arith!DivisionKeepsDividend
  /\ program = "numbers" => Numbers!ShownReadsBack /\ Numbers!ShownIsShort
  /\ program = "env" => /\ TestEnv!TrapsAreTransparent /\ TestEnv!NothingIsLost
                        /\ TestEnv!ReportIsRight /\ TestEnv!PllIsSafe

(* What an ELF file says is in memory once it is loaded, nothing else is   *)
(* written, and a loader never writes over itself (the three elfsplitters, *)
(* tftp.c:237-258); memcpy copies every byte and reads no word without one *)
(* (memcpy.c:314-338); and a test finds in its pages what it stored there, *)
(* without a failed assertion of the handler (vm.c:94-192).                *)
ImageRight ==
  /\ program = "elf" => Elf!ImageIsLoaded /\ Elf!NothingElse /\ Elf!RunningLoaderIsSafe
  /\ program = "memcpy" => Memcpy!Copied /\ Memcpy!ReadsOnlyItsWords
  /\ program = "vm" => Vm!AssertionsHold /\ Vm!PagesHold /\ Vm!FramesAccountedFor

(* What print shows reads back as its argument, is as wide as asked, fits  *)
(* its buffer and is counted (print.c:55-214); what is sent carries a good *)
(* checksum, and what was damaged is dropped (packet.c:376-396); the calls *)
(* and returns of a trace are between the functions that contain the jump  *)
(* (amber-func-jumps.c:178-279).                                           *)
OutputRight ==
  /\ program = "printf" => /\ Printf!CountIsOutput /\ Printf!ReadsBack
                           /\ Printf!FieldIsAsWideAsAsked /\ Printf!FitsPrintBuf
  /\ program = "checksum" => Checksum!SentIsValid /\ Checksum!DroppedIfDamaged
  /\ program = "jumps" => Jumps!SearchIsRight /\ Jumps!PrintedIsRight

(* xmodemReceive returns, and a transfer with few faults succeeds; a       *)
(* reboot ends; every loop of a multiplication or division does, and every  *)
(* search of the trace tool; and a test reports, whatever it comes to.     *)
EverythingEnds ==
  /\ program = "xmodem" => Returns /\ Transferred
  /\ Timer!RebootEnds
  /\ Arith!LoopsEnd
  /\ []<>(program = "jumps" => Jumps!SearchOver)
  /\ []<>(program = "env" => TestEnv!Reported)
=============================================================================
