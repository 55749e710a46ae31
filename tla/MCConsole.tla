----------------------------- MODULE MCConsole -----------------------------
(* A screen of 2 columns and 7 rows, a menu of two entries.                 *)
EXTENDS Console

MCCPUs == {0, 1}
MCScancodes == {<<28>>, <<224, 72>>, <<224, 80>>, <<225, 29, 69>>, <<1>>, <<224, 79>>}
MCPlain(e) == 10 + e
MCMarked(e) == 20 + e
MCChars == {1, 2, 10, 11, 20, 21}
=============================================================================
