------------------------------ MODULE Terminal ------------------------------
(***************************************************************************)
(* What putch() and locate() of screen.c promise to the reader of the        *)
(* scrollback: a page on which the program writes line after line, with a    *)
(* cursor.  There is no screen here that the text scrolls out of.            *)
(***************************************************************************)
EXTENDS Integers

CONSTANTS W,       \* columns
          Tab,     \* distance of the tab stops
          Lines,   \* lines of the page
          Chars,   \* printable characters
          Blank

VARIABLES page, line, col

Init ==
  /\ page = [l \in 0..(Lines - 1) |-> [x \in 0..(W - 1) |-> Blank]]
  /\ line = 0 /\ col = 0

\* The cursor goes to column x, or, past the right edge, to the next line.
MoveTo(x) ==
  IF x >= W THEN col' = 0 /\ line' = line + 1
            ELSE col' = x /\ line' = line

Put(ch) == page' = [page EXCEPT ![line][col] = ch] /\ MoveTo(col + 1)
Tabulate  == MoveTo(((col \div Tab) + 1) * Tab) /\ UNCHANGED page
Back      == col > 0 /\ MoveTo(col - 1) /\ UNCHANGED page
Return    == MoveTo(0) /\ UNCHANGED page
NewLine   == col' = 0 /\ line' = line + 1 /\ UNCHANGED page

\* Back to the beginning of a line that is above.
Up == line' \in 0..line /\ col' = 0 /\ UNCHANGED page

Next == (\E ch \in Chars : Put(ch)) \/ Tabulate \/ Back \/ Return \/ NewLine \/ Up

Spec == Init /\ [][Next]_<<page, line, col>>
=============================================================================
