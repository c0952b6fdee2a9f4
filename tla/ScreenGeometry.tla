--------------------------- MODULE ScreenGeometry ---------------------------
(***************************************************************************)
(* Where things are on the terminal screen of user/screen.c: its size, the *)
(* cursor, the scrolling region, the double-width lines, the saved cursor  *)
(* and the state kept for the alternate buffer.  What the cells hold is    *)
(* the subject of ScreenCells, which conjoins it to these actions.         *)
(*                                                                         *)
(* Each action is one escape sequence, control character or change of the  *)
(* settings, run to completion: the parser and the web server's callbacks  *)
(* are cooperative tasks.  Rows and columns are counted from 0.            *)
(***************************************************************************)
EXTENDS Integers

CONSTANTS
  Sizes,     \* the sizes <<W, H>> the host and the settings ask for
  Slack,     \* how far below the last row DECSTBM's bottom may be asked for
  Steps,     \* arguments of motions, insertions, deletions and scrolls
  LineAttrs, \* LINE_ATTRS_COUNT
  Careful,   \* are sizes changed only where the code copes with it (below)?
  Ops        \* the groups of operations in use

Groups == {"print", "place", "move", "modes", "tabs", "double", "region",
           "origin", "lines", "deletelines", "erase", "save", "restore",
           "alt", "resize", "reset", "settings", "noclear",
           "insert", "characters", "deletechars"}    \* these in ScreenCells

ASSUME GeometryAssumption ==
  /\ Sizes \subseteq (Nat \ {0}) \X (Nat \ {0})
  /\ Slack \in Nat
  /\ Steps \subseteq Nat \ {0}
  /\ LineAttrs \in Nat
  /\ Careful \in BOOLEAN
  /\ Ops \subseteq Groups

(* Each row has its line attributes.  The code takes for granted that 64   *)
(* are enough; with more rows, which host and settings may ask for, it     *)
(* writes behind line_attribs, and nothing here is said of it.             *)
ASSUME RowsAssumption == \A s \in Sizes : s[2] <= LineAttrs

VARIABLES
  scr,     \* W, H, and the scrolling region vm0, vm1 as top, btm
  cur,     \* cursor
  dbl,     \* the double-width bit of line_attribs
  saved,   \* {} or {cursor_sav}
  alt,     \* state_backup.alternate_active
  backup,  \* size and region in state_backup
  conf     \* termconf's width and height

geo == <<scr, cur, dbl, saved, alt, backup, conf>>

Lower(a, b) == IF a <= b THEN a ELSE b

WholeScreen(w, h) == [w |-> w, h |-> h, top |-> 0, btm |-> h - 1]

(* Mutant of NoDoubles: one line too many.                                 *)
NoDoublesPast == [r \in 0..LineAttrs |-> FALSE]

NoDoubles == [r \in 0..(LineAttrs - 1) |-> FALSE]
CursorHome(c) == [c EXCEPT !.x = 0, !.y = 0, !.hanging = FALSE]
FreshCursor == [x |-> 0, y |-> 0, hanging |-> FALSE,
                wrap |-> TRUE, rev |-> FALSE, origin |-> FALSE]

Init ==
  /\ conf \in Sizes
  /\ scr = WholeScreen(conf[1], conf[2])
  /\ backup = scr
  /\ cur = FreshCursor
  /\ dbl = NoDoubles
  /\ saved = {}
  /\ alt = FALSE

Inside(s, c) == s.top <= c.y /\ c.y <= s.btm     \* cursor_inside_region

(* Line attributes move with the lines of rows a..b.                       *)
DoublesUp(a, b, n) ==
  [r \in DOMAIN dbl |-> IF r \in a..b THEN r + n <= b /\ dbl[r + n] ELSE dbl[r]]
DoublesDown(a, b, n) ==
  [r \in DOMAIN dbl |-> IF r \in a..b THEN r - n >= a /\ dbl[r - n] ELSE dbl[r]]
DoublesOff(a, b) == [r \in DOMAIN dbl |-> r \notin a..b /\ dbl[r]]

-----------------------------------------------------------------------------
(* Placing the cursor.                                                     *)

Half == scr.w \div 2
ClampDouble(x, y) == IF dbl[y] /\ x >= Half THEN Half - 1 ELSE x

(* screen_cursor_set_x uses the line the cursor is on, before any change   *)
(* of line.                                                                *)
SetX(c, v) ==
  [c EXCEPT !.x = ClampDouble(Lower(v, scr.w - 1), c.y), !.hanging = FALSE]

(* Mutant of SetY: DECOM's rows are not limited to the region.             *)
SetYFree(s, c, v) ==
  [c EXCEPT !.y = IF c.origin THEN Lower(v + s.top, s.h - 1)
                              ELSE Lower(v, s.h - 1)]

SetY(s, c, v) ==
  [c EXCEPT !.y = IF c.origin THEN Lower(v + s.top, s.btm)
                              ELSE Lower(v, s.h - 1)]

(* CUP, CHA and VPA.                                                       *)
CursorSet(v, u) == cur' = SetY(scr, SetX(cur, u), v)

Place ==
  /\ \/ \E v \in 0..scr.h, u \in 0..scr.w : CursorSet(v, u)
     \/ \E u \in 0..scr.w : cur' = SetX(cur, u)
     \/ \E v \in 0..scr.h : cur' = SetY(scr, cur, v)
  /\ UNCHANGED <<scr, dbl, saved, alt, backup, conf>>

-----------------------------------------------------------------------------
(* Relative motion: screen_cursor_move.                                    *)

ClearInvalidHanging(c) == [c EXCEPT !.hanging = c.hanging /\ c.x = scr.w - 1]

(* cursor.x >= W/2 compares an int with an unsigned: a negative x is large.*)
PastHalf(x) == x < 0 \/ x >= Half

(* Reverse wraparound: n > 0 steps back from column 0, from the top row to *)
(* the bottom of the region.                                               *)
ReverseWrap(c, n) ==
  LET k == Lower(n, scr.w * scr.h)
      rows == (k + scr.w - 1) \div scr.w
  IN  [c EXCEPT !.x = (-k) % scr.w,
                !.y = IF rows <= c.y THEN c.y - rows
                                     ELSE (c.y - rows) % (scr.btm + 1)]

(* The line attributes are read before the row is confined: past either    *)
(* end of line_attribs the byte found there is any.                        *)
DoubleAt(y, junk) == IF y \in DOMAIN dbl THEN dbl[y] ELSE junk

(* The column after moving by dx; reverse wraparound takes the row along.  *)
MoveX(c, dx, junk) ==
  LET x0 == Lower(c.x + dx, scr.w - 1)
      x1 == IF DoubleAt(c.y, junk) /\ PastHalf(x0) THEN Half - 1 ELSE x0
  IN  IF x1 >= 0 THEN [c EXCEPT !.x = x1]
      ELSE IF c.wrap /\ c.rev THEN ReverseWrap(c, -x1)
      ELSE [c EXCEPT !.x = 0]

(* Mutant of ConfineY: a cursor that was in the region may leave it.       *)
ConfineYScreen(c, inside) ==
  [c EXCEPT !.y = IF c.y < 0 THEN 0 ELSE Lower(c.y, scr.h - 1)]

(* The region holds a cursor that was in it, the screen any other one.     *)
ConfineY(c, inside) ==
  [c EXCEPT !.y = IF inside
                  THEN IF c.y < scr.top THEN scr.top ELSE Lower(c.y, scr.btm)
                  ELSE IF c.y < 0 THEN 0
                  ELSE IF c.y > scr.btm THEN Lower(c.y, scr.h - 1)
                  ELSE c.y]

Moved(dy, dx, junk) ==
  LET c0 == ClearInvalidHanging(cur)
      c1 == [c0 EXCEPT !.y = c0.y + dy, !.hanging = c0.hanging /\ dx >= 0]
  IN  ConfineY(MoveX(c1, dx, junk), Inside(scr, cur))

Motion(dy, dx) == \E junk \in BOOLEAN : cur' = Moved(dy, dx, junk)

(* CUU, CUD, CUF, CUB and BS; with a carriage return, CNL, CPL and ESC E.  *)
Move ==
  /\ \/ \E n \in Steps : Motion(n, 0) \/ Motion(-n, 0) \/ Motion(0, n) \/ Motion(0, -n)
     \/ \E n \in Steps, d \in {-1, 1}, junk \in BOOLEAN :
          cur' = SetX(Moved(d * n, 0, junk), 0)
  /\ UNCHANGED <<scr, dbl, saved, alt, backup, conf>>

BackSpace ==
  /\ Motion(0, -1)
  /\ UNCHANGED <<scr, dbl, saved, alt, backup, conf>>

(* LF and IND scroll at the bottom of the region, RI at its top.           *)
ScrollsUp == cur.y = scr.btm
ScrollsDown == cur.y = scr.top

LineFeed ==
  /\ Motion(1, 0)
  /\ dbl' = IF ScrollsUp THEN DoublesUp(scr.top, scr.btm, 1) ELSE dbl
  /\ UNCHANGED <<scr, saved, alt, backup, conf>>

ReverseIndex ==
  /\ Motion(-1, 0)
  /\ dbl' = IF ScrollsDown THEN DoublesDown(scr.top, scr.btm, 1) ELSE dbl
  /\ UNCHANGED <<scr, saved, alt, backup, conf>>

(* HT, CHT and CBT: to a tab stop, or to the end of the line.              *)
TabForward ==
  /\ LET end == IF dbl[cur.y] THEN Half - 1 ELSE scr.w - 1
     IN  \E x \in {u \in 0..end : u > cur.x} \cup {end} : cur' = [cur EXCEPT !.x = x]
  /\ UNCHANGED <<scr, dbl, saved, alt, backup, conf>>

TabReverse ==
  /\ \E x \in {u \in 0..cur.x : u < cur.x} \cup {0} : cur' = [cur EXCEPT !.x = x]
  /\ UNCHANGED <<scr, dbl, saved, alt, backup, conf>>

(* DECBI: what does not fit to the left shoves the line to the right.      *)
BackIndex(n) ==
  /\ cur' = [cur EXCEPT !.x = IF n <= cur.x THEN cur.x - n ELSE 0]
  /\ UNCHANGED <<scr, dbl, saved, alt, backup, conf>>

-----------------------------------------------------------------------------
(* Printing: putchar_graphic.                                              *)

Wraps(c) == c.hanging /\ c.wrap
WrapScrolls(c) == Wraps(c) /\ c.y + 1 > scr.btm

(* The scheduled wrap is performed before the character is written.        *)
WriteAt(c) ==
  IF Wraps(c) THEN [c EXCEPT !.x = 0, !.y = Lower(c.y + 1, scr.btm), !.hanging = FALSE]
              ELSE c

(* Mutant of Advance: the last column is not the end of the line.          *)
AdvancePast(c, d) == [c EXCEPT !.x = c.x + 1]

(* Then the cursor steps right; in the last column it stays and hangs.     *)
Advance(c, d) ==
  LET x1 == Lower(c.x + 1, scr.w - 1)
      half == d[c.y] /\ x1 >= Half
  IN  [c EXCEPT !.x = IF half THEN Half - 1 ELSE x1,
                !.hanging = c.hanging \/ c.x + 1 >= scr.w \/ half]

PutGraphic(c) ==
  LET d == IF WrapScrolls(c) THEN DoublesUp(scr.top, scr.btm, 1) ELSE dbl
  IN  /\ cur' = Advance(WriteAt(c), d)
      /\ dbl' = d
      /\ UNCHANGED <<scr, saved, alt, backup, conf>>

(* A printed character; REP repeats the last one without clearing a        *)
(* hanging flag that became invalid, one such step for each repetition.    *)
PutChar == PutGraphic(ClearInvalidHanging(cur))
Repeat == PutGraphic(cur)

CarriageReturn ==
  /\ cur' = SetX(cur, 0)
  /\ UNCHANGED <<scr, dbl, saved, alt, backup, conf>>

-----------------------------------------------------------------------------
(* Lines, region and modes.                                                *)

(* ESC # 3, 4, 6 make the line double-width, ESC # 1, 2, 5 single-width.   *)
SetLineAttr ==
  /\ \E double \in BOOLEAN :
       /\ dbl' = [dbl EXCEPT ![cur.y] = double]
       /\ cur' = [cur EXCEPT !.x = IF double THEN Lower(cur.x, Half) ELSE cur.x]
  /\ UNCHANGED <<scr, saved, alt, backup, conf>>

(* Mutant of Region: without arguments, the bottom is one row too low.     *)
RegionPast(from, to) ==
  IF from <= 0 /\ to <= 0 THEN [WholeScreen(scr.w, scr.h) EXCEPT !.btm = scr.h]
  ELSE IF from >= 0 /\ from < scr.h - 1 /\ to > from
       THEN [scr EXCEPT !.top = from, !.btm = to]
       ELSE scr

(* DECSTBM: the bottom is taken as asked.                                  *)
Region(from, to) ==
  IF from <= 0 /\ to <= 0 THEN WholeScreen(scr.w, scr.h)
  ELSE IF from >= 0 /\ from < scr.h - 1 /\ to > from
       THEN [scr EXCEPT !.top = from, !.btm = to]
       ELSE scr

(* The region is followed by the cursor, DECOM included.                   *)
HomeIn(s, c) == SetY(s, SetX(c, 0), 0)

SetScrollingRegion ==
  /\ \E from, to \in -1..(scr.h - 1 + Slack) : scr' = Region(from, to)
  /\ cur' = HomeIn(scr', cur)
  /\ UNCHANGED <<dbl, saved, alt, backup, conf>>

SetOriginMode ==
  /\ \E on \in BOOLEAN : cur' = HomeIn(scr, [cur EXCEPT !.origin = on])
  /\ UNCHANGED <<scr, dbl, saved, alt, backup, conf>>

WrapEnable ==
  /\ \E on \in BOOLEAN : cur' = [cur EXCEPT !.wrap = on]
  /\ UNCHANGED <<scr, dbl, saved, alt, backup, conf>>

ReverseWrapEnable ==
  /\ \E on \in BOOLEAN : cur' = [cur EXCEPT !.rev = on]
  /\ UNCHANGED <<scr, dbl, saved, alt, backup, conf>>

(* SU, SD; IL and DL work from the cursor's line, only inside the region.  *)
ScrollUp(n) ==
  /\ dbl' = DoublesUp(scr.top, scr.btm, n)
  /\ UNCHANGED <<scr, cur, saved, alt, backup, conf>>

ScrollDown(n) ==
  /\ dbl' = DoublesDown(scr.top, scr.btm, n)
  /\ UNCHANGED <<scr, cur, saved, alt, backup, conf>>

(* The lines inserted keep the attributes of those they push down.         *)
InsertLines(n) ==
  /\ Inside(scr, cur)
  /\ dbl' = [r \in DOMAIN dbl |->
               IF cur.y + n > scr.btm THEN r \notin cur.y..scr.btm /\ dbl[r]
               ELSE IF r \in (cur.y + n)..scr.btm THEN dbl[r - n]
               ELSE dbl[r]]
  /\ UNCHANGED <<scr, cur, saved, alt, backup, conf>>

(* With only one line left to move, that line is cleared as well.          *)
DeleteLines(n) ==
  /\ Inside(scr, cur)
  /\ dbl' = IF scr.btm - n <= cur.y THEN DoublesOff(cur.y, scr.btm)
                                    ELSE DoublesUp(cur.y, scr.btm, n)
  /\ UNCHANGED <<scr, cur, saved, alt, backup, conf>>

(* ED 0 and 1 keep the cursor, ED 2 takes it home.                         *)
EraseBelow ==
  /\ dbl' = DoublesOff(cur.y, LineAttrs - 1)
  /\ UNCHANGED <<scr, cur, saved, alt, backup, conf>>

EraseAbove ==
  /\ dbl' = DoublesOff(0, cur.y)
  /\ UNCHANGED <<scr, cur, saved, alt, backup, conf>>

EraseAll ==
  /\ dbl' = NoDoubles
  /\ cur' = SetY(scr, [cur EXCEPT !.x = 0, !.hanging = FALSE], 0)
  /\ UNCHANGED <<scr, saved, alt, backup, conf>>

(* DECCOLM only has its side effects.                                      *)
ColumnMode ==
  /\ scr' = WholeScreen(scr.w, scr.h)
  /\ dbl' = NoDoubles
  /\ cur' = CursorHome(cur)
  /\ UNCHANGED <<saved, alt, backup, conf>>

-----------------------------------------------------------------------------
(* Saved state, sizes and settings.                                        *)

(* DECSC, SCP and both 1048 h and 1048 l.                                  *)
SaveCursor ==
  /\ saved' = {cur}
  /\ UNCHANGED <<scr, cur, dbl, alt, backup, conf>>

(* A saved cursor is put back as it is, even on a smaller screen; with     *)
(* Careful nobody asks for that.                                           *)
InScreen(s, c) == c.x \in 0..(s.w - 1) /\ c.y \in 0..(s.h - 1)
Restorable(s) == Careful => \A c \in saved : InScreen(s, c)

(* DECRC with all the saved attributes, RCP with the position only.        *)
Restored(c, d, withAttrs) ==
  IF saved = {} THEN CursorHome(c)
  ELSE LET s == CHOOSE s \in saved : TRUE
           t == IF withAttrs THEN s
                ELSE [c EXCEPT !.x = s.x, !.y = s.y, !.hanging = s.hanging]
       IN  [t EXCEPT !.x = IF d[t.y] /\ t.x >= Half THEN Half - 1 ELSE t.x]

RestoreCursor(withAttrs) ==
  /\ Restorable(scr)
  /\ cur' = Restored(cur, dbl, withAttrs)
  /\ UNCHANGED <<scr, dbl, saved, alt, backup, conf>>

(* screen_swap_state(true): the size and the region are remembered.        *)
ToAlternate == alt' = TRUE /\ backup' = IF alt THEN backup ELSE scr

(* Mutant of Unswapped: the size is not put back.                          *)
UnswappedRegion == [scr EXCEPT !.top = backup.top, !.btm = backup.btm]

(* screen_swap_state(false): the region comes back, then screen_resize,    *)
(* which resets it if the size has changed.                                *)
Unswapped ==
  IF backup.w = scr.w /\ backup.h = scr.h
  THEN [scr EXCEPT !.top = backup.top, !.btm = backup.btm]
  ELSE WholeScreen(backup.w, backup.h)

(* Mutant of ResetOnResize: the cursor is not moved.                       *)
KeepOnResize(c) == c

ResetOnResize(c) == CursorHome(c)

Resized == <<backup.w, backup.h>> # <<scr.w, scr.h>>

(* 47 and 1047.                                                            *)
SwapIn ==
  /\ ToAlternate
  /\ UNCHANGED <<scr, cur, dbl, saved, conf>>

SwapOut ==
  /\ alt
  /\ scr' = Unswapped
  /\ cur' = IF Resized THEN ResetOnResize(cur) ELSE cur
  /\ dbl' = IF Resized THEN NoDoubles ELSE dbl
  /\ alt' = FALSE
  /\ UNCHANGED <<saved, backup, conf>>

(* 1049 saves or restores the cursor and clears the screen as well.        *)
AlternateIn ==
  /\ saved' = {cur}
  /\ ToAlternate
  /\ dbl' = NoDoubles
  /\ UNCHANGED <<scr, cur, conf>>

AlternateOut ==
  /\ scr' = IF alt THEN Unswapped ELSE scr
  /\ Restorable(scr')
  /\ dbl' = NoDoubles
  /\ cur' = Restored(IF alt /\ Resized THEN ResetOnResize(cur) ELSE cur,
                     NoDoubles, TRUE)
  /\ alt' = FALSE
  /\ UNCHANGED <<saved, backup, conf>>

(* CSI 8 t and CSI 24 t.                                                   *)
Resize ==
  /\ \E s \in Sizes :
       /\ s # <<scr.w, scr.h>>
       /\ scr' = WholeScreen(s[1], s[2])
  /\ cur' = ResetOnResize(cur)
  /\ dbl' = NoDoubles
  /\ UNCHANGED <<saved, alt, backup, conf>>

(* RIS, and DECALN, which keeps the size.                                  *)
ResetTo(s) ==
  /\ scr' = WholeScreen(s[1], s[2])
  /\ cur' = FreshCursor
  /\ dbl' = NoDoubles
  /\ alt' = FALSE
  /\ UNCHANGED <<saved, backup>>

Reset == ResetTo(conf) /\ UNCHANGED conf
FillWithE == ResetTo(<<scr.w, scr.h>>) /\ UNCHANGED conf

(* The settings page: a new size resets the screen; otherwise termconf is  *)
(* copied over termconf_live, the size of which may be another one; with   *)
(* Careful it is not.                                                      *)
ApplySettings ==
  \E s \in Sizes :
    /\ conf' = s
    /\ s # conf
    /\ ResetTo(s)

ApplySettingsNoClear ==
  /\ Careful => conf = <<scr.w, scr.h>>
  /\ scr' = [scr EXCEPT !.w = conf[1], !.h = conf[2]]
  /\ UNCHANGED <<cur, dbl, saved, alt, backup, conf>>

-----------------------------------------------------------------------------
Printing == PutChar \/ Repeat \/ CarriageReturn \/ LineFeed \/ ReverseIndex
Lines == \E n \in Steps : InsertLines(n) \/ ScrollUp(n) \/ ScrollDown(n)
Erase == EraseBelow \/ EraseAbove \/ EraseAll \/ ColumnMode

(* One operation of the groups ops.                                        *)
NextOf(ops) ==
  \/ "print" \in ops /\ Printing
  \/ "place" \in ops /\ Place
  \/ "move" \in ops /\ (Move \/ BackSpace \/ \E n \in Steps : BackIndex(n))
  \/ "modes" \in ops /\ (WrapEnable \/ ReverseWrapEnable)
  \/ "tabs" \in ops /\ (TabForward \/ TabReverse)
  \/ "double" \in ops /\ SetLineAttr
  \/ "region" \in ops /\ SetScrollingRegion
  \/ "origin" \in ops /\ SetOriginMode
  \/ "lines" \in ops /\ Lines
  \/ "deletelines" \in ops /\ \E n \in Steps : DeleteLines(n)
  \/ "erase" \in ops /\ Erase
  \/ "save" \in ops /\ SaveCursor
  \/ "restore" \in ops /\ \E a \in BOOLEAN : RestoreCursor(a)
  \/ "alt" \in ops /\ (SwapIn \/ SwapOut)
  \/ {"alt", "save", "restore"} \subseteq ops /\ (AlternateIn \/ AlternateOut)
  \/ "resize" \in ops /\ Resize
  \/ "reset" \in ops /\ (Reset \/ FillWithE)
  \/ "settings" \in ops /\ ApplySettings
  \/ "noclear" \in ops /\ ApplySettingsNoClear

Next == NextOf(Ops)

Spec == Init /\ [][Next]_geo

-----------------------------------------------------------------------------
(* Properties.                                                             *)

ScreenShape ==
  [w : Nat \ {0}, h : Nat \ {0}, top : Nat, btm : Nat]
CursorShape ==
  [x : Int, y : Int, hanging : BOOLEAN, wrap : BOOLEAN, rev : BOOLEAN, origin : BOOLEAN]

GeoTypeOK ==
  /\ scr \in ScreenShape /\ backup \in ScreenShape
  /\ cur \in CursorShape
  /\ dbl \in [0..(LineAttrs - 1) -> BOOLEAN]
  /\ saved \subseteq CursorShape
  /\ alt \in BOOLEAN
  /\ conf \in Sizes

(* Every cell the cursor is on is a cell of the screen, whatever sequence  *)
(* of operations led there.                                                *)
CursorInScreen == InScreen(scr, cur)

(* The scrolling region, and the one remembered for the way back from the  *)
(* alternate buffer, are rows of the screen they will be used on.          *)
RegionInScreen ==
  /\ scr.top <= scr.btm /\ scr.btm < scr.h
  /\ backup.top <= backup.btm /\ backup.btm < backup.h

(* In origin mode only restoring a saved cursor or leaving the alternate   *)
(* buffer can take the cursor out of the scrolling region.                 *)
OriginConfined ==
  [][cur.origin /\ cur'.origin /\ Inside(scr, cur) =>
       Inside(scr', cur') \/ SwapOut \/ AlternateOut \/ \E a \in BOOLEAN : RestoreCursor(a)]_geo

(* Relative motion, printing and line feeds never take the cursor out of   *)
(* the scrolling region, with or without origin mode.                      *)
MotionConfined ==
  [][Inside(scr, cur) /\ ~Inside(scr', cur') =>
       ~(Printing \/ Move \/ BackSpace \/ TabForward \/ TabReverse)]_geo
=============================================================================
