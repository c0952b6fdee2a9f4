-------------------------------- MODULE Grid --------------------------------
(***************************************************************************)
(* What a user of the terminal sees: a character in each place of the      *)
(* screen, and what each operation of ScreenGeometry promises to do with   *)
(* them.  There is no cache, no reference and no row buffer here: lines    *)
(* and characters move, and what they leave is blank.                      *)
(***************************************************************************)
EXTENDS ScreenGeometry

CONSTANT Chars    \* the characters the host prints

VARIABLES
  grid,     \* the character in each place <<row, column>>
  insert,   \* insert mode
  last      \* the last character printed, or none

view == <<geo, grid, insert, last>>

Places(s) == (0..(s.h - 1)) \X (0..(s.w - 1))
BlankGrid(s) == [p \in Places(s) |-> " "]
Blanked(g, S) == [p \in DOMAIN g |-> IF p \in S THEN " " ELSE g[p]]
NoChar == ""

(* Lines of rows a..b, and characters of row y from column x on, move.     *)
LinesUp(g, a, b, n) ==
  [p \in DOMAIN g |-> IF p[1] \notin a..b THEN g[p]
                      ELSE IF p[1] + n <= b THEN g[<<p[1] + n, p[2]>>] ELSE " "]
LinesDown(g, a, b, n) ==
  [p \in DOMAIN g |-> IF p[1] \notin a..b THEN g[p]
                      ELSE IF p[1] - n >= a THEN g[<<p[1] - n, p[2]>>] ELSE " "]
CharsRight(g, y, x, n) ==
  [p \in DOMAIN g |-> IF p[1] # y \/ p[2] < x THEN g[p]
                      ELSE IF p[2] - n >= x THEN g[<<y, p[2] - n>>] ELSE " "]
CharsLeft(g, y, x, n) ==
  [p \in DOMAIN g |-> IF p[1] # y \/ p[2] < x THEN g[p]
                      ELSE IF p[2] + n < scr.w THEN g[<<y, p[2] + n>>] ELSE " "]

(* The place a character printed with the cursor c goes to, and the grid   *)
(* that is ready for it.                                                   *)
Target(c) == <<WriteAt(c).y, WriteAt(c).x>>
Prepared(c) ==
  LET g == IF WrapScrolls(c) THEN LinesUp(grid, scr.top, scr.btm, 1) ELSE grid
      p == Target(c)
  IN  IF insert /\ p[2] < scr.w - 1 THEN CharsRight(g, p[1], p[2], 1) ELSE g

(* A terminal out of room for glyphs may show "?" instead.                 *)
Shows(c, ch) ==
  \E seen \in {ch, "?"} : grid' = [Prepared(c) EXCEPT ![Target(c)] = seen]

GInit ==
  /\ Init
  /\ grid = BlankGrid(scr)
  /\ insert = FALSE
  /\ last = NoChar

GPut(ch) ==
  /\ PutChar
  /\ Shows(ClearInvalidHanging(cur), ch)
  /\ last' = ch
  /\ UNCHANGED insert

GRepeat ==
  /\ Repeat
  /\ Shows(cur, IF last = NoChar THEN " " ELSE last)
  /\ last' = IF last = NoChar THEN " " ELSE last
  /\ UNCHANGED insert

GLineFeed ==
  /\ LineFeed
  /\ grid' = IF ScrollsUp THEN LinesUp(grid, scr.top, scr.btm, 1) ELSE grid
  /\ UNCHANGED <<insert, last>>

GReverseIndex ==
  /\ ReverseIndex
  /\ grid' = IF ScrollsDown THEN LinesDown(grid, scr.top, scr.btm, 1) ELSE grid
  /\ UNCHANGED <<insert, last>>

(* Operations on lines.                                                    *)
GLines(n) ==
  /\ \/ ScrollUp(n) /\ grid' = LinesUp(grid, scr.top, scr.btm, n)
     \/ ScrollDown(n) /\ grid' = LinesDown(grid, scr.top, scr.btm, n)
     \/ InsertLines(n) /\ grid' = LinesDown(grid, cur.y, scr.btm, n)
  /\ UNCHANGED <<insert, last>>

GDeleteLines(n) ==
  /\ DeleteLines(n)
  /\ grid' = LinesUp(grid, cur.y, scr.btm, n)
  /\ UNCHANGED <<insert, last>>

(* Operations on the characters of the cursor's line.                      *)
GCharacters(n) ==
  /\ UNCHANGED <<geo, insert, last>>
  /\ \/ grid' = CharsRight(grid, cur.y, cur.x, n)
     \/ grid' = CharsLeft(grid, cur.y, cur.x, n)
     \/ grid' = Blanked(grid, {p \in DOMAIN grid :
                                 p[1] = cur.y /\ p[2] \in cur.x..(cur.x + n - 1)})

GBackIndex(n) ==
  /\ BackIndex(n)
  /\ grid' = IF n > cur.x THEN CharsRight(grid, cur.y, 0, n - cur.x) ELSE grid
  /\ UNCHANGED <<insert, last>>

(* Erasing up to the cursor, and from it on, in the line or the screen.    *)
Before(p) == p[1] < cur.y \/ (p[1] = cur.y /\ p[2] <= cur.x)
After(p) == p[1] > cur.y \/ (p[1] = cur.y /\ p[2] >= cur.x)

GEraseLine ==
  /\ UNCHANGED <<geo, insert, last>>
  /\ \/ grid' = Blanked(grid, {p \in DOMAIN grid : p[1] = cur.y})
     \/ grid' = Blanked(grid, {p \in DOMAIN grid : p[1] = cur.y /\ After(p)})
     \/ grid' = Blanked(grid, {p \in DOMAIN grid : p[1] = cur.y /\ Before(p)})

GEraseScreen ==
  /\ \/ EraseBelow /\ grid' = Blanked(grid, {p \in DOMAIN grid : After(p)})
     \/ EraseAbove /\ grid' = Blanked(grid, {p \in DOMAIN grid : Before(p)})
  /\ UNCHANGED <<insert, last>>

(* Operations that leave the whole screen blank, at its size afterwards.   *)
GClear ==
  /\ \/ EraseAll \/ ColumnMode \/ AlternateIn \/ AlternateOut \/ Resize
     \/ (SwapOut /\ Resized)
  /\ grid' = BlankGrid(scr')
  /\ last' = NoChar
  /\ UNCHANGED insert

GReset ==
  /\ Reset \/ ApplySettings
  /\ grid' = BlankGrid(scr')
  /\ last' = NoChar
  /\ insert' = FALSE

GFillWithE ==
  /\ FillWithE
  /\ grid' = [p \in Places(scr) |-> "E"]
  /\ last' = NoChar
  /\ insert' = FALSE

GInsertMode ==
  /\ \E on \in BOOLEAN : insert' = on
  /\ UNCHANGED <<geo, grid, last>>

(* Operations that move the cursor or change a mode touch no character.    *)
GStill ==
  /\ \/ CarriageReturn \/ Place \/ Move \/ BackSpace \/ TabForward \/ TabReverse
     \/ WrapEnable \/ ReverseWrapEnable \/ SetLineAttr
     \/ SetScrollingRegion \/ SetOriginMode \/ SaveCursor
     \/ (\E a \in BOOLEAN : RestoreCursor(a))
     \/ SwapIn \/ (SwapOut /\ ~Resized)
  /\ UNCHANGED <<grid, insert, last>>

GNext ==
  \/ \E ch \in Chars : GPut(ch)
  \/ GRepeat
  \/ GLineFeed
  \/ GReverseIndex
  \/ \E n \in Steps : GLines(n) \/ GDeleteLines(n) \/ GCharacters(n) \/ GBackIndex(n)
  \/ GEraseLine
  \/ GEraseScreen
  \/ GClear
  \/ GReset
  \/ GFillWithE
  \/ GInsertMode
  \/ GStill

GSpec == GInit /\ [][GNext]_view
=============================================================================
