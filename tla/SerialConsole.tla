---------------------------- MODULE SerialConsole ----------------------------
(***************************************************************************)
(* The console of the serial boot loader (boot-loader-serial.c): main,     *)
(* which edits a line and echoes it, parse, which runs it, and load_run,   *)
(* which hands the line over to the XMODEM receiver or leaves for a        *)
(* program.  The terminal at the other end shows what is echoed.           *)
(*                                                                         *)
(* buf is the line up to i: the rest of the C array is never read.         *)
(***************************************************************************)
EXTENDS Integers, Sequences, SequencesExt

CONSTANTS
  BufLen,   \* the size of buf and lbuf (20)
  Keys      \* the keys of the terminal

SerialConsoleAssumption ==
  /\ BufLen \in Nat /\ BufLen > 2
  /\ Keys \subseteq {"CR", "BS", "ESC", "[", "A", "h", "l", "s", "j", "w", "SP"}

VARIABLES
  buf,     \* the line typed so far, i = Len(buf)
  lbuf,    \* the last line, li = Len(lbuf)
  esc,     \* how much of an escape sequence has come
  mode,    \* "line", or what load_run does: "receive", "program"
  screen,  \* history: what the terminal shows from the prompt to the cursor
  ran      \* history: the last line run: its length, what it did, whether
           \* the terminal showed it, or the cursor had been off the line

vars == <<buf, lbuf, esc, mode, screen, ran>>

Blank == [cells |-> <<>>, off |-> FALSE]

-----------------------------------------------------------------------------
(* What a terminal does with an echoed character.  A backspace moves the   *)
(* cursor back, or off the line, under the prompt.                         *)
Show(s, c) ==
  CASE c = "CR" \/ s.off -> s
    [] c = "BS" /\ s.cells = <<>> -> [s EXCEPT !.off = TRUE]
    [] c = "BS" /\ s.cells # <<>> -> [s EXCEPT !.cells = Front(@)]
    [] OTHER -> [s EXCEPT !.cells = Append(@, c)]

ShowAll(s, line) == FoldLeft(Show, s, line)
Backspaces(n) == [k \in 1 .. n |-> "BS"]

-----------------------------------------------------------------------------
(* parse: what a command line does, by its first two characters.           *)
parse(line) ==
  CASE Len(line) < 2 -> "nothing"
    [] line[2] = "CR" -> (CASE line[1] = "h" -> "help" [] line[1] = "l" -> "load"
                            [] line[1] = "s" -> "status" [] OTHER -> "invalid")
    [] line[2] # "SP" -> "invalid"
    [] line[1] \in {"d", "j", "p", "r", "b", "w"} -> line[1]
    [] OTHER -> "invalid"

(* load_run for "l" and "b" (receive), and for "j".                        *)
ModeAfter(did) == CASE did \in {"load", "b"} -> "receive" [] did = "j" -> "program" [] OTHER -> "line"

(* The end of a line: what was typed, without its last character, is the   *)
(* line to recall.                                                         *)
Ended(line) == Front(line)

(* A bug: the line may hold one character more.                            *)
Full_OneMore(line) == Len(line) >= BufLen

Full(line) == Len(line) >= BufLen - 1

Text(line) == IF Last(line) = "CR" THEN Front(line) ELSE line

EndLine(line, shown) ==
  /\ lbuf' = IF Len(line) > 1 THEN Ended(line) ELSE lbuf
  /\ buf' = <<>>
  /\ ran' = [len |-> Len(line), did |-> parse(line),
             seen |-> shown.cells = Text(line), off |-> shown.off]
  /\ mode' = ModeAfter(parse(line))
  /\ screen' = Blank

-----------------------------------------------------------------------------
(* A key that is no part of an escape sequence.                            *)
Stored(c) == IF c = "BS" /\ buf # <<>> THEN Front(buf) ELSE Append(buf, c)

Key(c) ==
  /\ mode = "line"
  /\ c # "ESC" /\ esc # 2 /\ ~(esc = 1 /\ c = "[")
  /\ esc' = 0
  /\ IF c = "CR" \/ Full(Stored(c))
     THEN EndLine(Stored(c), Show(screen, c))
     ELSE buf' = Stored(c) /\ screen' = Show(screen, c) /\ UNCHANGED <<lbuf, ran, mode>>

(* "ESC" and "[" are not echoed; the character behind them is swallowed.   *)
EscapeBegins(c) ==
  /\ mode = "line"
  /\ \/ c = "ESC" /\ esc' = 1
     \/ c = "[" /\ esc = 1 /\ esc' = 2
  /\ UNCHANGED <<buf, lbuf, mode, ran, screen>>

Erased == Backspaces(Len(buf))

Escape(c) ==
  /\ mode = "line" /\ esc = 2 /\ c # "ESC"
  /\ esc' = 0
  /\ IF c = "A"
     THEN buf' = lbuf /\ screen' = ShowAll(ShowAll(screen, Erased), lbuf)
     ELSE UNCHANGED <<buf, screen>>
  /\ UNCHANGED <<lbuf, mode, ran>>

(* xmodemReceive returns, whatever it returns; a jump does not.            *)
Received ==
  /\ mode = "receive"
  /\ mode' = "line"
  /\ UNCHANGED <<buf, lbuf, esc, screen, ran>>

-----------------------------------------------------------------------------
Init ==
  /\ buf = <<>> /\ lbuf = <<>> /\ esc = 0 /\ mode = "line" /\ screen = Blank
  /\ ran = [len |-> 0, did |-> "nothing", seen |-> TRUE, off |-> FALSE]

Next == \/ \E c \in Keys : Key(c) \/ EscapeBegins(c) \/ Escape(c)
        \/ Received

Spec == Init /\ [][Next]_vars

-----------------------------------------------------------------------------
TypeOK ==
  /\ Range(buf) \cup Range(lbuf) \subseteq Keys /\ esc \in 0 .. 2
  /\ mode \in {"line", "receive", "program"}

(* A line and the zero behind it fit into buf, also after lines have been  *)
(* recalled and typed on.                                                  *)
LineFits == Len(buf) < BufLen - 1 /\ ran.len < BufLen

(* The line that is run is the line the terminal shows, through all        *)
(* corrections and recalls - unless a backspace was typed at its very      *)
(* beginning, which moves the cursor and is kept as a character.           *)
ShownIsRun == ~ran.off => ran.seen
=============================================================================
