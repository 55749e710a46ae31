SPECIFICATION Spec
CONSTANTS
  W = 2
  H = 7
  Tab = 1
  BufSize = 16
  Chars <- MCChars
  Blank = 0
  Old = 99
  MaxLines = 7
  CPUs <- MCCPUs
  Scancodes <- MCScancodes
  KbcSize = 3
  Printed = {1}
  PageStep = 4
  Entries = 2
  Caption = 2
  Plain <- MCPlain
  Marked <- MCMarked
INVARIANTS
  StatusKept
  ShowsTailOfOutput
  MenuShown
  EndShowsLast
  SomeoneStays
PROPERTIES
  KeepsPage
  KeysAsTyped
CHECK_DEADLOCK FALSE
