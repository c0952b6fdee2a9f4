--------------------------- MODULE Utf8Collector ---------------------------
(***************************************************************************)
(* apars_utf8.c: the bytes of a character are collected until it is whole  *)
(* or cannot become one.  The collector is [bytes, len]: what has come of  *)
(* the character and how long it is to be.                                 *)
(***************************************************************************)
EXTENDS Integers, Sequences

NoBytes == [bytes |-> <<>>, len |-> 0]           \* apars_reset_utf8buffer

Continues(c) == c \in 128..191

(* Length of the character that c begins; 0 if none does.                  *)
LengthFrom(c) ==
  IF c \in 194..223 THEN 2 ELSE IF c \in 224..239 THEN 3
  ELSE IF c \in 240..244 THEN 4 ELSE 0

(* Mutant of Malformed: the trap for surrogates is lost.                   *)
MalformedNoTrap(b) ==
  \/ b[1] = 244 /\ b[2] > 143
  \/ b[1] = 240 /\ b[2] < 144
  \/ b[1] = 224 /\ b[2] < 160

(* Overlong, a surrogate, or above U+10FFFF.                               *)
Malformed(b) ==
  \/ b[1] = 244 /\ b[2] > 143
  \/ b[1] = 240 /\ b[2] < 144
  \/ b[1] = 237 /\ b[2] > 159
  \/ b[1] = 224 /\ b[2] < 160

(* apars_handle_plainchar: the collector after c, and what is shown for    *)
(* it: nothing yet, a good character, or bytes that are not one.           *)
Collect(u, c) ==
  LET b == Append(u.bytes, c)
      Shown(how) == [utf |-> NoBytes, how |-> how, glyph |-> b]
      Wait(len) == [utf |-> [bytes |-> b, len |-> len],
                    how |-> "wait", glyph |-> <<>>]
  IN  CASE c < 128 -> [utf |-> NoBytes, how |-> "good", glyph |-> <<c>>]
        [] c >= 128 /\ u.len = 0 /\ LengthFrom(c) = 0 -> Shown("bad")
        [] c >= 128 /\ u.len = 0 /\ LengthFrom(c) # 0 -> Wait(LengthFrom(c))
        [] c >= 128 /\ u.len > 0 /\ ~Continues(c) -> Shown("bad")
        [] c >= 128 /\ u.len > 0 /\ Continues(c) /\ Len(b) < u.len -> Wait(u.len)
        [] OTHER -> Shown(IF Malformed(b) THEN "bad" ELSE "good")

-----------------------------------------------------------------------------
(* Debugging: each character is written out, with its name if it is a      *)
(* control character (hdump_good), in hex if it is not one (hdump_bad).    *)

(* Cells c takes, without the space behind it, and cells it asks for.      *)
TwoLetters == {8, 25} \cup (10..15) \cup (28..31)      \* BS, EM, LF..SI, FS..US
CellsOf(c) ==
  IF c.how = "bad" THEN 4 * Len(c.glyph) - 1
  ELSE IF c.glyph[1] \in TwoLetters THEN 2
  ELSE IF c.glyph[1] < 32 THEN 3
  ELSE IF c.glyph[1] = 127 THEN 0 ELSE 1             \* DEL is not shown
CellsAsked(c) == IF c.how = "bad" THEN 5 * Len(c.glyph) ELSE 6

(* hdump_spaces_eol on a screen w wide: does the character need a new      *)
(* line?  x = w is a cursor that hangs in the last column; the room is     *)
(* computed without a sign, and negative it counts as any amount.          *)
BreaksLine(x, w, c) ==
  /\ w >= CellsAsked(c)
  /\ (IF x = w THEN w - 1 ELSE x) > w - CellsAsked(c)
DumpFrom(x, w, c) == IF BreaksLine(x, w, c) THEN 0 ELSE x
(* The column after n more cells.                                          *)
After(x, w, n) == IF n = 0 THEN x ELSE ((x + n - 1) % w) + 1
=============================================================================
