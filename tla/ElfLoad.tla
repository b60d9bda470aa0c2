------------------------------ MODULE ElfLoad ------------------------------
(***************************************************************************)
(* The three programs of amber_cpu that take an ELF file apart: the        *)
(* elfsplitter of the serial boot loader ("serial"), which works by words, *)
(* the one of the Ethernet boot loader ("ethmac"), which keeps the bytes   *)
(* for the interrupt vectors back until reboot copies them, and the host   *)
(* tool ("tool"), which fills a buffer and prints it.                      *)
(*                                                                         *)
(* Byte k of the file is the value k + 1.  Memory is indexed by address;   *)
(* outbuf, which the Ethernet boot loader never initialises, is taken to   *)
(* be 0, the only value with which it loads anything.                      *)
(***************************************************************************)
EXTENDS Integers, Sequences, FiniteSets

CONSTANTS
  Loaders,    \* of "serial", "ethmac" and "tool"
  Layouts,    \* the section tables: sequences of [type, addr, off, size]
  FileSize,   \* bytes in the file
  Vectors,    \* MEM_BUF_ENTRIES (32)
  ExecBase,   \* ADR_EXEC_BASE, where the Ethernet boot loader itself begins
  Top         \* addresses of the memory

Addrs == 0 .. Top - 1

ElfLoadAssumption ==
  /\ Loaders \subseteq {"serial", "ethmac", "tool"}
  /\ {FileSize, Vectors, ExecBase, Top} \subseteq Nat
  /\ \A l \in Layouts : \A n \in DOMAIN l : l[n].addr + l[n].size + 3 < Top

VARIABLES
  elf,      \* the file: its header and section table
  loader,
  at,       \* section and byte within it that comes next, what is returned,
            \* and the addresses that the tool has printed
  mem,      \* memory; the tool's outbuf
  vec       \* elf_mem0_g: the entries that are valid, and their data

vars == <<elf, loader, at, mem, vec>>

Old == -1     \* what was in memory before
FileByte(k) == IF k < FileSize THEN k + 1 ELSE Old

Section == elf.sections[at.section]

-----------------------------------------------------------------------------
(* The magic number and the machine are looked at first; elf_mem0_g has    *)
(* been emptied before.                                                    *)
Header ==
  /\ at.result = "header"
  /\ at' = [at EXCEPT !.result = IF elf.magic /\ elf.machine THEN "running" ELSE "error"]
  /\ vec' = [k \in {} |-> 0]
  /\ UNCHANGED <<elf, loader, mem>>

(* Sections of the two types are copied, whatever their flags say.         *)
Loaded(s) == s.type \in {"PROGBITS", "NOBITS"} /\ s.size # 0

Skip ==
  /\ at.result = "running" /\ at.section <= Len(elf.sections)
  /\ ~Loaded(Section)
  /\ at' = [at EXCEPT !.section = @ + 1]
  /\ UNCHANGED <<elf, loader, mem, vec>>

(* A bug: the tail of a section is not told from its start.                *)
FromStart_Ignored(k) == k

FromStart(k) == Section.off + k

Value(k) == IF Section.type = "PROGBITS" THEN FileByte(FromStart(k)) ELSE 0

Unit == IF loader = "serial" THEN 4 ELSE 1
Advance ==
  at' = IF at.j + Unit < Section.size THEN [at EXCEPT !.j = @ + Unit]
        ELSE [at EXCEPT !.j = 0, !.section = @ + 1]

(* The whole word is written, whatever is left of the section.             *)
CopyWord ==
  /\ at.result = "running" /\ at.section <= Len(elf.sections) /\ Loaded(Section)
  /\ loader = "serial"
  /\ mem' = [a \in Addrs |-> IF a \in Section.addr + at.j .. Section.addr + at.j + 3
                             THEN Value(a - Section.addr) ELSE mem[a]]
  /\ Advance /\ UNCHANGED <<elf, loader, vec>>

ToBuffer(a) == loader = "ethmac" /\ a <= Vectors
Refused(a) == loader = "ethmac" /\ a >= ExecBase

CopyByte ==
  /\ at.result = "running" /\ at.section <= Len(elf.sections) /\ Loaded(Section)
  /\ loader \in {"ethmac", "tool"}
  /\ LET a == Section.addr + at.j
     IN /\ mem' = IF ToBuffer(a) \/ Refused(a) THEN mem ELSE [mem EXCEPT ![a] = Value(at.j)]
        /\ vec' = IF ToBuffer(a)
                  THEN [b \in DOMAIN vec \cup {a} |-> IF b = a THEN Value(at.j) ELSE vec[b]]
                  ELSE vec
  /\ Advance /\ UNCHANGED <<elf, loader>>

Finish ==
  /\ at.result = "running" /\ at.section > Len(elf.sections)
  /\ at' = [at EXCEPT !.result = "loaded"]
  /\ UNCHANGED <<elf, loader, mem, vec>>

(* reboot, of the Ethernet boot loader.                                    *)
Rebooted(a) == a < Vectors /\ a \in DOMAIN vec

Reboot ==
  /\ at.result = "loaded" /\ loader = "ethmac"
  /\ mem' = [a \in Addrs |-> IF Rebooted(a) THEN vec[a] ELSE mem[a]]
  /\ at' = [at EXCEPT !.result = "done"]
  /\ UNCHANGED <<elf, loader, vec>>

(* The tool prints words until it is behind the last byte it has written,  *)
(* or one word further; the other programs just return.                    *)
Written == {a \in Addrs : mem[a] # Old}
max_out == CHOOSE m \in Written \cup {0} : \A a \in Written : a <= m
Printed == UNION {j .. j + 3 : j \in {k \in Addrs : k % 4 = 0 /\ k < max_out + 3}}

PutWords ==
  /\ at.result = "loaded" /\ loader # "ethmac"
  /\ at' = [at EXCEPT !.result = "done", !.printed = IF loader = "tool" THEN Printed ELSE {}]
  /\ UNCHANGED <<elf, loader, mem, vec>>

-----------------------------------------------------------------------------
Init ==
  /\ loader \in Loaders
  /\ elf \in [magic : BOOLEAN, machine : BOOLEAN, sections : Layouts]
  /\ at = [result |-> "header", section |-> 1, j |-> 0, printed |-> {}]
  /\ mem = [a \in Addrs |-> Old]
  /\ vec = [k \in {} |-> 0]

Next == Header \/ Skip \/ CopyWord \/ CopyByte \/ Finish \/ Reboot \/ PutWords

Spec == Init /\ [][Next]_vars

-----------------------------------------------------------------------------
TypeOK ==
  /\ mem \in [Addrs -> {Old, 0} \cup 1 .. FileSize]
  /\ at.result \in {"header", "running", "loaded", "done", "error"}
  /\ at.section \in 1 .. Len(elf.sections) + 1 /\ at.j \in 0 .. Top
  /\ DOMAIN vec \subseteq 0 .. Vectors /\ \A a \in DOMAIN vec : vec[a] \in {Old, 0} \cup 1 .. FileSize

(* What the ELF file says is at an address: the last section of the table  *)
(* that contains it decides.                                               *)
Covering(a) == {n \in DOMAIN elf.sections :
                  LET s == elf.sections[n]
                  IN Loaded(s) /\ a \in s.addr .. s.addr + s.size - 1}
LastOf(S) == CHOOSE n \in S : \A m \in S : m <= n
Image(a) ==
  LET s == elf.sections[LastOf(Covering(a))]
  IN IF s.type = "PROGBITS" THEN FileByte(s.off + a - s.addr) ELSE 0

(* The addresses that come out right: of the Ethernet boot loader those    *)
(* below itself, save the one just behind its vectors, which goes to an    *)
(* entry the buffer does not have; of the serial one those that no later   *)
(* section overruns in its last word.                                      *)
Overrun(s, a) == Loaded(s) /\ a \in s.addr + s.size .. s.addr + s.size + 2
Promised(a) ==
  CASE loader = "ethmac" -> a < ExecBase /\ a # Vectors
    [] loader = "serial" -> \A n \in DOMAIN elf.sections :
                              n > LastOf(Covering(a)) => ~Overrun(elf.sections[n], a)
    [] OTHER -> TRUE

ImageIsLoaded ==
  at.result = "done" => \A a \in Addrs :
    /\ Covering(a) # {} /\ Promised(a) => mem[a] = Image(a)
    /\ loader = "tool" /\ a \in Written => a \in at.printed

(* Nothing is written that the file does not mention, except that a word   *)
(* is completed by the serial boot loader; and nothing at all of a file    *)
(* for another machine.                                                    *)
NothingElse ==
  /\ \A a \in Addrs : mem[a] # Old => \/ Covering(a) # {}
                                      \/ loader = "serial" /\ \E n \in DOMAIN elf.sections :
                                                                Overrun(elf.sections[n], a)
  /\ ~(elf.magic /\ elf.machine) => \A a \in Addrs : mem[a] = Old

(* The vectors stay what they are until reboot, and the loader in use is   *)
(* never written.                                                          *)
RunningLoaderIsSafe ==
  loader = "ethmac" => \A a \in Addrs :
    (a <= Vectors /\ at.result # "done") \/ a >= ExecBase => mem[a] = Old
=============================================================================
