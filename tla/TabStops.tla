------------------------------ MODULE TabStops ------------------------------
(***************************************************************************)
(* The tab stops of user/screen.c: a bitmap in 32-bit words, searched word *)
(* by word.  The stops are a set of columns here; what the search to the   *)
(* left makes of the words is kept.                                        *)
(***************************************************************************)
EXTENDS Integers, FiniteSets, FiniteSetsExt

CONSTANTS WordBits, TABSTOP_WORDS

ASSUME TabAssumption == WordBits \in Nat \ {0} /\ TABSTOP_WORDS \in Nat \ {0}

Columns == 0..(WordBits * TABSTOP_WORDS - 1)
InitialTabs == {c \in Columns : c % 8 = 7}             \* 0x80808080

(* The last column of a line w cells wide.                                 *)
LastColumn(w, double) == IF double THEN w \div 2 - 1 ELSE w - 1

(* next_tab_stop: -1 if there is none before the end of the line, or of    *)
(* the bitmap.                                                             *)
NextTab(T, x, w, double) ==
  LET ahead == {c \in T \cap Columns : c > x /\ c <= LastColumn(w, double)}
  IN  IF ahead = {} THEN -1 ELSE Min(ahead)

(* Mutant of PrevTab: the search begins at the cursor.                     *)
PrevTabHere(T, x) ==
  IF {c \in T : c <= x} = {} THEN -1 ELSE Max({c \in T : c <= x})

(* prev_tab_stop: from the word of column x - 1 down.  In a word below it  *)
(* the search counts from the beginning of the word x is in, wherever that *)
(* is: empty words in between are not counted.                             *)
PrevTab(T, x) ==
  LET left == {c \in T : c < x}
      stop == Max(left)
  IN  IF left = {} THEN -1
      ELSE IF stop \div WordBits = (x - 1) \div WordBits THEN stop
      ELSE (x - (x % WordBits)) - WordBits + (stop % WordBits)

(* screen_tab_forward, screen_tab_reverse, one step.                       *)
TabForward(T, x, w, double) ==
  LET c == NextTab(T, x, w, double)
  IN  IF c = -1 THEN LastColumn(w, double) ELSE c
TabReverse(T, x) == IF PrevTab(T, x) = -1 THEN 0 ELSE PrevTab(T, x)

(* Is a word without stops passed on the way to the stop on the left?      *)
PassesEmptyWord(T, x) ==
  x >= WordBits /\ \A c \in T : c < x => c \div WordBits < x \div WordBits - 1
=============================================================================
