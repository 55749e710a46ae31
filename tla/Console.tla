------------------------------ MODULE Console ------------------------------
(***************************************************************************)
(* The user's side of the system: the keyboard of keyboard.c, the cursor of *)
(* menu() over its entries (menu.c), the output of a payload, and stop() of *)
(* cpu.c, in which the last CPU shows the scrollback buffer                  *)
(* (video_scrollback() of screen.c) until ESC and then reboots.             *)
(*                                                                         *)
(* A scancode is the sequence of bytes the keyboard sends for one key, with  *)
(* a prefix e0 or e1 for some.  main() is in the setting OFFER_MENU >= 2:    *)
(* the menu comes first; one entry starts the output, after which the menu   *)
(* comes again, and another ends main().                                    *)
(***************************************************************************)
EXTENDS Screen, Sequences, FiniteSets

CONSTANTS CPUs,        \* the CPUs that came up; 0 shows the menu
          Scancodes,   \* what the keyboard may send: keys pressed and released
          KbcSize,     \* bound: bytes in the keyboard buffer
          Printed,     \* the characters a payload prints
          PageStep,    \* 20: lines the viewer moves by a page
          Entries,     \* the entries of the menu
          Caption, Plain(_), Marked(_)   \* the menu's lines: one character each

\* What a keyboard sends for a key: one byte, or one after the prefix e0, or two
\* after e1, the code of Ctrl and another, as for the key Pause alone.
Byte == 0..255
Codes ==
  {<<b>> : b \in Byte \ {224, 225}} \cup {<<224, b>> : b \in Byte}
    \cup {<<225, b, c>> : b \in {29, 157}, c \in Byte}

ASSUME ConsoleAssumption ==
  /\ IsFiniteSet(CPUs) /\ 0 \in CPUs
  /\ Scancodes \subseteq Codes /\ \A s \in Scancodes : Len(s) <= KbcSize
  /\ Printed \subseteq Chars /\ Caption \in Chars
  /\ Entries \in 2..(H - 2)
  /\ \A u \in 0..(Entries - 1) : {Plain(u), Marked(u)} \subseteq Chars
  /\ PageStep \in 1..(H - 3)

VARIABLES kbc,            \* bytes in the buffer of the keyboard controller
          e0_code, e1_code, e1_prev,
          sent,           \* history: the scancodes not read to the end yet
          got,            \* history: the bytes read of the first of them
          key,            \* what wait_for_key() returned last, "none" if it means nothing
          pc,             \* where each CPU is
          u,              \* menu(): the next entry to draw; Entries: all are drawn
          selection,
          m,              \* the mutex of stop() is free
          cpus_halted,
          seen,           \* the value of it that a CPU loaded
          offset_y        \* video_scrollback(): the line at the top

keyVars == <<kbc, e0_code, e1_code, e1_prev, sent, got, key>>
menuVars == <<u, selection>>
stopVars == <<m, cpus_halted, seen, offset_y>>
vars == <<screenVars, keyVars, pc, menuVars, stopVars>>

cpu_online == Cardinality(CPUs)

Init ==
  /\ ScreenInit
  /\ kbc = <<>> /\ e0_code = 0 /\ e1_code = 0 /\ e1_prev = 0
  /\ sent = <<>> /\ got = 0 /\ key = "none"
  /\ pc = [p \in CPUs |-> IF p = 0 THEN "caption" ELSE "wait"]
  /\ u = 0 /\ selection = 0
  /\ m = TRUE /\ cpus_halted = 0 /\ offset_y = 0
  /\ seen = [p \in CPUs |-> 0]

Go(p, from, to) ==
  /\ pc[p] = from
  /\ pc' = [pc EXCEPT ![p] = to]

-----------------------------------------------------------------------------
(* Plausible defects, one definition each, for the mutation runs.          *)

PrefixKept(byte) == IF e1_code = 0 /\ byte = 224 THEN 1 ELSE e0_code

OneLineLess == Entries - 1

NoTest(line) == line - PageStep

Unlocked(p) ==
  /\ Go(p, "stop", "load")
  /\ UNCHANGED <<screenVars, keyVars, menuVars, stopVars>>

-----------------------------------------------------------------------------
(* The keyboard.                                                           *)

\* scancode_to_keycode(), for the keys the menu and the viewer know: all others,
\* modifiers, letters and released keys, mean nothing to them.
Keycode(scancode) ==
  CASE scancode = <<224, 72>> -> "UP"     [] scancode = <<224, 80>> -> "DOWN"
    [] scancode = <<224, 73>> -> "PGUP"   [] scancode = <<224, 81>> -> "PGDOWN"
    [] scancode = <<224, 71>> -> "HOME"   [] scancode = <<224, 79>> -> "END"
    [] scancode = <<1>> -> "ESC"          [] scancode = <<28>> -> "ENTER"
    [] OTHER -> "none"

\* The user presses or releases a key.
Send(s) ==
  /\ Len(kbc) + Len(s) <= KbcSize
  /\ kbc' = kbc \o s
  /\ sent' = Append(sent, s)
  /\ UNCHANGED <<e0_code, e1_code, e1_prev, got, key, screenVars, pc, menuVars, stopVars>>

\* The new e0_code and e1_code.
E0(byte) == IF e0_code = 0 /\ e1_code = 0 /\ byte = 224 THEN 1 ELSE 0
E1(byte) ==
  CASE e0_code = 1 -> e1_code
    [] e0_code = 0 /\ e1_code > 0 -> (e1_code + 1) % 3
    [] OTHER -> IF byte = 225 THEN 1 ELSE 0

\* What keyboard_get_scancode() returns, <<0>> for a prefix; the byte after the
\* prefix e1 is returned as if it were a scancode of its own.
Scancode(byte) ==
  CASE e0_code = 1 -> <<224, byte>>
    [] e0_code = 0 /\ e1_code = 2 -> <<225, e1_prev, byte>>
    [] e0_code = 0 /\ e1_code = 0 /\ byte \in {224, 225} -> <<0>>
    [] OTHER -> <<byte>>

\* A call of keyboard_get_scancode() in wait_for_key() that finds a byte.
GetKey ==
  /\ kbc # <<>>
  /\ kbc' = Tail(kbc)
  /\ e0_code' = E0(Head(kbc)) /\ e1_code' = E1(Head(kbc))
  /\ e1_prev' = IF e0_code = 0 /\ e1_code = 1 THEN Head(kbc) ELSE e1_prev
  /\ key' = Keycode(Scancode(Head(kbc)))
  /\ IF got + 1 = Len(Head(sent)) THEN got' = 0 /\ sent' = Tail(sent)
                                  ELSE got' = got + 1 /\ UNCHANGED sent

\* wait_for_key() goes on polling.
Prefix == Scancode(Head(kbc)) = <<0>>

-----------------------------------------------------------------------------
(* menu(), on CPU 0                                                        *)

DrawCaption ==
  /\ pc[0] = "caption"
  /\ IF csr_x = 0 THEN PutChar(Caption) /\ UNCHANGED pc
                  ELSE PutNewline /\ Go(0, "caption", "menu")
  /\ UNCHANGED <<keyVars, menuVars, stopVars>>

Look(e) == IF selection = e THEN Marked(e) ELSE Plain(e)

\* One pass of the loop over the entries draws a line.
DrawEntry ==
  /\ pc[0] = "menu" /\ u < Entries
  /\ IF csr_x = 0 THEN PutChar(Look(u)) /\ UNCHANGED u ELSE PutNewline /\ u' = u + 1
  /\ UNCHANGED <<keyVars, pc, selection, stopVars>>

\* locate(0, -u)
Height == Entries

Moved(k, s) ==
  CASE k = "DOWN" /\ s < Entries - 1 -> s + 1
    [] k = "UP" /\ s > 0 -> s - 1
    [] OTHER -> s

MenuKey ==
  /\ pc[0] = "menu" /\ u = Entries
  /\ GetKey
  /\ IF Prefix THEN UNCHANGED <<screenVars, pc, menuVars>>
     ELSE IF key' = "ENTER"
     THEN /\ pc' = [p \in CPUs |-> IF selection = 0 THEN (IF p = 0 THEN "print" ELSE "wait") ELSE "stop"]
          /\ UNCHANGED <<screenVars, menuVars>>
     ELSE /\ Locate(Height)
          /\ u' = 0 /\ selection' = Moved(key', selection)
          /\ UNCHANGED pc
  /\ UNCHANGED stopVars

\* The first entry: some output.
Output ==
  /\ pc[0] = "print"
  /\ (\E c \in Printed : PutChar(c)) \/ PutBackspace \/ PutTab \/ PutReturn \/ PutNewline
  /\ UNCHANGED <<keyVars, pc, menuVars, stopVars>>

\* The output is over, at the beginning of a line; main() calls menu() again.
OutputEnd ==
  /\ csr_x = 0
  /\ Go(0, "print", "caption")
  /\ u' = 0 /\ selection' = 0
  /\ UNCHANGED <<screenVars, keyVars, stopVars>>

-----------------------------------------------------------------------------
(* stop(): smp_status() writes to the status line, which is left out.      *)

LockStop(p) ==
  /\ m
  /\ Go(p, "stop", "load")
  /\ m' = FALSE
  /\ UNCHANGED <<screenVars, keyVars, menuVars, cpus_halted, seen, offset_y>>

\* cpus_halted++
LoadHalted(p) ==
  /\ Go(p, "load", "store")
  /\ seen' = [seen EXCEPT ![p] = cpus_halted]
  /\ UNCHANGED <<screenVars, keyVars, menuVars, m, cpus_halted, offset_y>>

StoreHalted(p) ==
  /\ Go(p, "store", "unlock")
  /\ cpus_halted' = seen[p] + 1
  /\ UNCHANGED <<screenVars, keyVars, menuVars, m, seen, offset_y>>

UnlockStop(p) ==
  /\ Go(p, "unlock", "test")
  /\ m' = TRUE
  /\ UNCHANGED <<screenVars, keyVars, menuVars, cpus_halted, seen, offset_y>>

\* if (cpus_halted < cpu_online), read again without the mutex
TestHalted(p) ==
  /\ Go(p, "test", IF cpus_halted < cpu_online THEN "hlt" ELSE "draw")
  /\ UNCHANGED <<screenVars, keyVars, menuVars, stopVars>>

-----------------------------------------------------------------------------
(* video_scrollback().  What two CPUs in it would do to each other is not   *)
(* modelled: the second one only is shown to come, if it does.  Its title    *)
(* goes to the status line with status_putch(), which is left out as in      *)
(* smp_status().                                                            *)

Viewers == {p \in CPUs : pc[p] \in {"draw", "view"}}

\* The test at the beginning of the loop; offset_y is unsigned, so that below 0
\* is far above.
Clamp(line) == IF line < 0 \/ line > BufSize THEN BufSize ELSE line

\* The top of the screen shows the lines from offset_y on; behind the end of the
\* buffer there is anything.
Shown(line) == IF (line + 1) * W <= BufSize THEN [x \in Columns |-> buf[line * W + x]] ELSE Row(Old)

Draw(p) ==
  /\ Viewers = {p}
  /\ Go(p, "draw", "view")
  /\ text' = [r \in 0..H |-> IF r \in 1..(H - 2) THEN Shown(offset_y + r - 1) ELSE text[r]]
  /\ UNCHANGED <<csr_x, csr_y, buf, buf_x, buf_y, keyVars, menuVars, stopVars>>

\* if (offset_y > 20) offset_y -= 20; else offset_y = 0;
PageUp(line) == IF line > PageStep THEN line - PageStep ELSE 0

\* The switch: KEY_END goes on into KEY_PGUP.
Scroll(k) ==
  CASE k = "UP" -> IF offset_y > 0 THEN offset_y - 1 ELSE 0
    [] k = "DOWN" -> offset_y + 1
    [] k = "PGDOWN" -> offset_y + PageStep
    [] k = "HOME" -> 0
    [] k = "END" -> PageUp(buf_y)
    [] k = "PGUP" -> PageUp(offset_y)
    [] OTHER -> offset_y

ViewKey(p) ==
  /\ Viewers = {p} /\ pc[p] = "view"
  /\ GetKey
  /\ IF Prefix THEN UNCHANGED pc ELSE pc' = [pc EXCEPT ![p] = IF key' = "ESC" THEN "reboot" ELSE "draw"]
  /\ offset_y' = Clamp(Scroll(key'))
  /\ UNCHANGED <<screenVars, menuVars, m, cpus_halted, seen>>

-----------------------------------------------------------------------------
Step(p) ==
  \/ p = 0 /\ (DrawCaption \/ DrawEntry \/ MenuKey \/ Output \/ OutputEnd)
  \/ LockStop(p) \/ LoadHalted(p) \/ StoreHalted(p) \/ UnlockStop(p) \/ TestHalted(p)
  \/ Draw(p) \/ ViewKey(p)

Next == (\E p \in CPUs : Step(p)) \/ (\E s \in Scancodes : Send(s))

Spec == Init /\ [][Next]_vars

-----------------------------------------------------------------------------
(* Correctness.                                                            *)

\* Before stop(), where the viewer draws over it, the screen shows the end of the
\* scrollback buffer.
ShowsTailOfOutput == pc[0] \in {"caption", "menu", "print"} => ShowsTail

\* When menu() waits for a key, its caption and its entries are on the screen,
\* once, with the one mark at the selection, however often it went up and drew
\* them again and wherever on the screen it began.
MenuShown ==
  pc[0] = "menu" /\ u = Entries =>
    /\ selection < Entries
    /\ \A e \in 0..(Entries - 1) : text[csr_y - Entries + e][0] = Look(e)
    /\ csr_y - Entries > 1 => text[csr_y - Entries - 1][0] = Caption

\* A key that wait_for_key() returns is the one the user pressed, when its last
\* byte is read: no byte of one is taken for another key.
KeysAsTyped ==
  [][kbc # <<>> /\ kbc' = Tail(kbc) =>
       key' = IF got + 1 = Len(Head(sent)) THEN Keycode(Head(sent)) ELSE "none"]_kbc

\* KEY_END shows the last line that was printed.
EndShowsLast ==
  \A p \in CPUs : pc[p] = "view" /\ key = "END" => buf_y \in offset_y..(offset_y + H - 3)

\* The CPUs do not all go to sleep in stop(): one stays to show the buffer.
SomeoneStays == \E p \in CPUs : pc[p] # "hlt"
=============================================================================
