------------------------------- MODULE Screen -------------------------------
(***************************************************************************)
(* The text screen of screen.c: putch(), its scrolling, and locate(), with   *)
(* the scrollback buffer that receives a copy of what is printed.  The       *)
(* callers (module Console) hold mutex_printf (printf()), or run alone       *)
(* (menu(), which draws its entries again after locate()), so each call is   *)
(* one step.                                                               *)
(***************************************************************************)
EXTENDS Integers

CONSTANTS W, H,        \* screen_w, screen_h
          Tab,         \* 8
          BufSize,     \* SCROLLBACK_BUF_SIZE, in bytes
          Chars,       \* the characters that are printed
          Blank, Old,  \* a space; what was on the screen before
          MaxLines     \* bound: the last line the program writes to is in the buffer

ASSUME ScreenAssumption ==
  /\ W \in Nat \ {0} /\ H \in Nat /\ H > 1 /\ MaxLines \in Nat
  /\ BufSize \in Nat /\ BufSize >= W * (MaxLines + 1)
  /\ Tab \in Nat \ {0} /\ W % Tab = 0
  /\ Blank \notin Chars /\ Old \notin Chars /\ Blank # Old

VARIABLES csr_x, csr_y,     \* the cursor
          text,             \* textmemptr[]: the rows, 0 is the status monitor
          buf,              \* buf_scrollback[]
          buf_x, buf_y      \* where the next character goes in it

screenVars == <<csr_x, csr_y, text, buf, buf_x, buf_y>>

Columns == 0..(W - 1)
Row(ch) == [x \in Columns |-> ch]

\* init_video() and init_video_scrollback(), after some lines of output; row H is
\* the memory behind the screen.
ScreenInit ==
  /\ csr_x = 0 /\ csr_y \in 1..(H - 1)
  /\ text = [r \in 0..H |-> Row(IF r \in csr_y..(H - 1) THEN Blank ELSE Old)]
  /\ buf = [i \in 0..(BufSize - 1) |-> Blank]
  /\ buf_x = 0 /\ buf_y = 0

-----------------------------------------------------------------------------
(* Plausible defects, one definition each, for the mutation runs.          *)

ScrollTooFar(t, y) ==
  IF y < H THEN t
  ELSE [r \in 0..H |-> IF r \in 0..(H - 2) THEN t[r + 1] ELSE IF r = H - 1 THEN Row(Blank) ELSE t[r]]

NotBlanked(t, y) ==
  IF y < H THEN t ELSE [r \in 0..H |-> IF r \in 1..(H - 1) THEN t[r + 1] ELSE t[r]]

WrapOneLate(x) == x > W

-----------------------------------------------------------------------------
(* The code.                                                               *)

\* if (csr_x >= screen_w)
AtEdge(x) == x >= W

\* scroll(), for a cursor in row y: the rows 2 .. H go one up, and the last one
\* becomes blank.
Scrolled(t, y) ==
  IF y < H THEN t
  ELSE [r \in 0..H |-> IF r \in 1..(H - 2) THEN t[r + 1] ELSE IF r = H - 1 THEN Row(Blank) ELSE t[r]]

\* The end of putch(): the cursor has come to column x of row y, and of line l
\* of the buffer; t is the screen.
Finish(x, y, l, t) ==
  LET wrap == IF AtEdge(x) THEN 1 ELSE 0 IN
    /\ csr_x' = IF AtEdge(x) THEN 0 ELSE x
    /\ buf_x' = csr_x'
    /\ csr_y' = IF y + wrap >= H THEN H - 1 ELSE y + wrap
    /\ text' = Scrolled(t, y + wrap)
    /\ buf_y' = l + wrap

\* c >= ' '
PutChar(c) ==
  /\ buf_y < MaxLines
  /\ buf' = [buf EXCEPT ![buf_y * W + buf_x] = c]
  /\ Finish(csr_x + 1, csr_y, buf_y, [text EXCEPT ![csr_y][csr_x] = c])

\* '\b'
PutBackspace ==
  /\ Finish(IF csr_x # 0 THEN csr_x - 1 ELSE 0, csr_y, buf_y, text)
  /\ UNCHANGED buf

\* '\t'
PutTab ==
  /\ buf_y < MaxLines
  /\ Finish(((csr_x + Tab) \div Tab) * Tab, csr_y, buf_y, text)
  /\ UNCHANGED buf

\* '\r'
PutReturn ==
  /\ Finish(0, csr_y, buf_y, text)
  /\ UNCHANGED buf

\* '\n' (the case buf_y > SCROLLBACK_BUF_SIZE is beyond MaxLines).
PutNewline ==
  /\ buf_y < MaxLines
  /\ Finish(0, csr_y + 1, buf_y + 1, text)
  /\ UNCHANGED buf

\* locate(0, -u): menu() goes back over the u lines it has printed, which are
\* all on the screen still.
Locate(u) ==
  /\ u < csr_y /\ u <= buf_y
  /\ csr_x' = 0 /\ buf_x' = 0
  /\ csr_y' = csr_y - u
  /\ buf_y' = buf_y - u
  /\ UNCHANGED <<text, buf>>

-----------------------------------------------------------------------------
(* Correctness.                                                            *)

\* "Scrolling does not touch the status monitor line" (line 252), and what is
\* printed stays on the screen: only status_putch(), which no step has, may write
\* to row 0.
StatusKept == text[0] = Row(Old) /\ text[H] = Row(Old)

\* The screen shows the last lines of what was printed: each of its rows has the
\* text of the line of the scrollback buffer it stands for, however often the
\* screen was scrolled and the cursor was moved back.
BufRow(l) == [x \in Columns |-> buf[l * W + x]]
ShowsTail ==
  \A r \in 1..(H - 1) :
    LET l == buf_y - (csr_y - r) IN l \in 0..MaxLines => text[r] = BufRow(l)

\* The scrollback buffer is the page of Terminal, whose steps putch() and
\* locate() take.
Page == [l \in 0..MaxLines |-> BufRow(l)]
Term == INSTANCE Terminal WITH page <- Page, line <- buf_y, col <- buf_x, Lines <- MaxLines + 1
KeepsPage == Term!Spec
=============================================================================
