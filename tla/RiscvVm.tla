------------------------------- MODULE RiscvVm ------------------------------
(***************************************************************************)
(* The virtual memory environment of the RISC-V tests (vm.c): a test runs  *)
(* in user mode on pages that are mapped at its first access, each to a    *)
(* frame from a list, with the accessed and dirty bits kept by the trap    *)
(* handler or by the hardware; at its ecall every page is evicted.         *)
(*                                                                         *)
(* A page holds one datum: n for page n of the program as it was loaded,   *)
(* 0 once the test has stored to it.  The frames of the list are distinct, *)
(* as the values of LFSR_NEXT are.                                         *)
(***************************************************************************)
EXTENDS Integers, FiniteSets

CONSTANT Pages      \* user pages 1 .. Pages; MAX_TEST_PAGES is Pages + 1

RiscvVmAssumption == Pages \in Nat \ {0}

User   == 1 .. Pages
Frames == 1 .. Pages + 1
Nodes  == 1 .. 2 * Pages + 1      \* freelist_nodes, then user_mapping
NodeOf(p) == Pages + 1 + p        \* &user_mapping[p]

VARIABLES
  hardware,   \* the hardware sets the accessed and dirty bits
  pte,        \* user_l3pt: frame (0: not valid), a, d
  tlb,        \* the translations that the hardware holds
  node,       \* freelist_t: addr (0: none) and next (0: NULL)
  head, tail, \* freelist_head, freelist_tail
  mem,        \* the frames
  content,    \* what the test has left in its pages
  want,       \* the access at hand: page (0: none) and kind
  at,         \* where the handler is
  i           \* the page that is evicted next

vars == <<hardware, pte, tlb, node, head, tail, mem, content, want, at, i>>

NotValid == [frame |-> 0, a |-> FALSE, d |-> FALSE]
NoWant   == [page |-> 0, kind |-> "load"]
Loaded(p) == p                    \* the page of the program, at uva2kva

(* What the hardware translates with: its own copy, if it has one.         *)
Entry(p) == IF tlb[p].frame # 0 THEN tlb[p] ELSE pte[p]
Flushed(p) == [tlb EXCEPT ![p] = NotValid]

-----------------------------------------------------------------------------
(* The test, and the hardware.                                             *)
Access(p, kind) ==
  /\ at = "user" /\ want = NoWant
  /\ want' = [page |-> p, kind |-> kind]
  /\ UNCHANGED <<hardware, pte, tlb, node, head, tail, mem, content, at, i>>

Allowed(e, kind) == e.frame # 0 /\ e.a /\ (kind = "store" => e.d)

(* The access goes through, with bits that are set or that the hardware    *)
(* sets, or it traps.                                                      *)
Perform ==
  LET p == want.page
      e == Entry(p)
      updated == [e EXCEPT !.a = TRUE, !.d = @ \/ want.kind = "store"]
  IN /\ at = "user" /\ p # 0
     /\ Allowed(e, want.kind) \/ (hardware /\ e.frame # 0)
     /\ tlb' = [tlb EXCEPT ![p] = updated]
     /\ pte' = IF e = updated THEN pte
               ELSE [pte EXCEPT ![p].a = TRUE, ![p].d = @ \/ want.kind = "store"]
     /\ mem' = IF want.kind = "store" THEN [mem EXCEPT ![e.frame] = 0] ELSE mem
     /\ content' = IF want.kind = "store" THEN [content EXCEPT ![p] = 0] ELSE content
     /\ want' = NoWant
     /\ UNCHANGED <<hardware, node, head, tail, at, i>>

Trap ==
  LET e == Entry(want.page)
  IN /\ at = "user" /\ want.page # 0
     /\ ~Allowed(e, want.kind) /\ ~(hardware /\ e.frame # 0)
     /\ at' = "fault"
     /\ UNCHANGED <<hardware, pte, tlb, node, head, tail, mem, content, want, i>>

(* Translations are fetched whenever the hardware likes.                   *)
Walk(p) ==
  /\ pte[p].frame # 0 /\ at # "done"
  /\ tlb' = [tlb EXCEPT ![p] = pte[p]]
  /\ UNCHANGED <<hardware, pte, node, head, tail, mem, content, want, at, i>>

-----------------------------------------------------------------------------
(* handle_fault on a page that is mapped: it sets the bit that is missing. *)
SetBit ==
  LET p == want.page
      expected == ~pte[p].a \/ (~pte[p].d /\ want.kind = "store")
  IN /\ at = "fault" /\ pte[p].frame # 0
     /\ pte' = CASE ~pte[p].a -> [pte EXCEPT ![p].a = TRUE]
                 [] pte[p].a /\ expected -> [pte EXCEPT ![p].d = TRUE]
                 [] OTHER -> pte
     /\ at' = IF expected THEN "user" ELSE "assertion failed"
     /\ tlb' = Flushed(p)
     /\ UNCHANGED <<hardware, node, head, tail, mem, content, want, i>>

(* handle_fault on another page: it takes the first frame of the list, and *)
(* maps it with both bits set, to copy the page of the program.            *)
TakesHead(p) ==
  /\ head' = node[head].next
  /\ tail' = IF head' = tail THEN 0 ELSE tail
  /\ node' = [node EXCEPT ![NodeOf(p)] = node[head]]

MapPage ==
  LET p == want.page
  IN /\ at = "fault" /\ pte[p].frame = 0
     /\ IF head = 0 \/ node[NodeOf(p)].addr # 0
        THEN at' = "assertion failed" /\ UNCHANGED <<pte, tlb, node, head, tail>>
        ELSE /\ TakesHead(p)
             /\ pte' = [pte EXCEPT ![p] = [frame |-> node[head].addr, a |-> TRUE, d |-> TRUE]]
             /\ tlb' = Flushed(p) /\ at' = "copy"
     /\ UNCHANGED <<hardware, mem, content, want, i>>

CopyPage ==
  LET e == Entry(want.page)
  IN /\ at = "copy" /\ at' = "clear"
     /\ mem' = [mem EXCEPT ![e.frame] = Loaded(want.page)]
     /\ tlb' = [tlb EXCEPT ![want.page] = e]
     /\ UNCHANGED <<hardware, pte, node, head, tail, content, want, i>>

ClearBits ==
  /\ at = "clear" /\ at' = "user"
  /\ pte' = [pte EXCEPT ![want.page].a = FALSE, ![want.page].d = FALSE]
  /\ tlb' = Flushed(want.page)
  /\ UNCHANGED <<hardware, node, head, tail, mem, content, want, i>>

-----------------------------------------------------------------------------
(* handle_trap: the test has ended.  evict, for every page, puts the page  *)
(* of the program back in the frame and the node, without its frame, on    *)
(* the list.                                                               *)
Ecall ==
  /\ at = "user" /\ want = NoWant
  /\ at' = "evict" /\ i' = 1
  /\ UNCHANGED <<hardware, pte, tlb, node, head, tail, mem, content, want>>

PutsLast(n) ==
  /\ tail' = n
  /\ head' = IF tail = 0 THEN n ELSE head
  /\ node' = [m \in Nodes |-> IF m = n THEN [node[m] EXCEPT !.addr = 0]
                              ELSE IF m = tail THEN [node[m] EXCEPT !.next = n] ELSE node[m]]

Evict ==
  LET e == Entry(i)
      expected == pte[i].a /\ (mem[e.frame] # Loaded(i) => pte[i].d)
  IN /\ at = "evict" /\ i <= Pages /\ node[NodeOf(i)].addr # 0
     /\ IF expected
        THEN /\ PutsLast(NodeOf(i)) /\ i' = i + 1 /\ UNCHANGED at
             /\ mem' = [mem EXCEPT ![e.frame] = Loaded(i)]
        ELSE at' = "assertion failed" /\ UNCHANGED <<node, head, tail, mem, i>>
     /\ UNCHANGED <<hardware, pte, tlb, content, want>>

NotMapped ==
  /\ at = "evict" /\ i <= Pages /\ node[NodeOf(i)].addr = 0
  /\ i' = i + 1
  /\ UNCHANGED <<hardware, pte, tlb, node, head, tail, mem, content, want, at>>

Terminate ==
  /\ at = "evict" /\ i > Pages /\ at' = "done"
  /\ UNCHANGED <<hardware, pte, tlb, node, head, tail, mem, content, want, i>>

-----------------------------------------------------------------------------
Init ==
  /\ hardware \in BOOLEAN
  /\ pte = [p \in User |-> NotValid] /\ tlb = [p \in User |-> NotValid]
  /\ node = [n \in Nodes |-> IF n \in Frames
                             THEN [addr |-> n, next |-> IF n = Pages + 1 THEN 0 ELSE n + 1]
                             ELSE [addr |-> 0, next |-> 0]]
  /\ head = 1 /\ tail = Pages + 1
  /\ mem = [f \in Frames |-> -1] /\ content = [p \in User |-> Loaded(p)]
  /\ want = NoWant /\ at = "user" /\ i = 0

Handler == SetBit \/ MapPage \/ CopyPage \/ ClearBits
Exit == Ecall \/ Evict \/ NotMapped \/ Terminate
Next == \/ \E p \in User : Walk(p) \/ \E kind \in {"load", "store"} : Access(p, kind)
        \/ Perform \/ Trap \/ Handler \/ Exit

Spec == Init /\ [][Next]_vars

-----------------------------------------------------------------------------
TypeOK ==
  /\ \A e \in {pte[p] : p \in User} \cup {tlb[p] : p \in User} :
       e \in [frame : Frames \cup {0}, a : BOOLEAN, d : BOOLEAN]
  /\ node \in [Nodes -> [addr : Frames \cup {0}, next : Nodes \cup {0}]]
  /\ {head, tail} \subseteq Nodes \cup {0}
  /\ at \in {"user", "fault", "copy", "clear", "evict", "done", "assertion failed"}

(* No assertion fails: a trap on a page with both bits never comes, as     *)
(* every change of an entry is flushed; the list never runs out; a page    *)
(* that is evicted was accessed, and is dirty if it differs from the       *)
(* program (vm.c:96-107, 125-149).                                         *)
AssertionsHold == at # "assertion failed"

(* The test finds in a page what it stored there, and stores it in a frame *)
(* of no other page, whichever copy of the entry is used (vm.c:143-156).   *)
PagesHold ==
  at = "user" => \A p \in User :
    /\ pte[p].frame # 0 => mem[pte[p].frame] = content[p]
    /\ tlb[p].frame \in {0, pte[p].frame}

(* The nodes on the list.                                                  *)
Listed ==
  LET nth[k \in 1 .. 2 * Pages + 1] ==
        IF k = 1 THEN head ELSE IF nth[k - 1] = 0 THEN 0 ELSE node[nth[k - 1]].next
  IN {nth[k] : k \in 1 .. 2 * Pages + 1} \ {0}
Mapped == {p \in User : pte[p].frame # 0}

(* Every frame is free or belongs to one page as long as the test runs,    *)
(* and then the nodes of its pages are all on the list, although evict     *)
(* leaves a list of one frame for an empty one (vm.c:112-118, 139-141).    *)
FramesAccountedFor ==
  /\ at \in {"user", "fault", "copy", "clear"} =>
       /\ {node[n].addr : n \in Listed} \cup {pte[p].frame : p \in Mapped} = Frames
       /\ Cardinality(Listed) + Cardinality(Mapped) = Cardinality(Frames)
  /\ at = "done" => {NodeOf(p) : p \in Mapped} \subseteq Listed
=============================================================================
