----------------------------- MODULE ScreenCells -----------------------------
(***************************************************************************)
(* What the cells of user/screen.c hold: the symbol of each one, and the   *)
(* cache of glyphs with its use counters.  Each action is an operation of  *)
(* ScreenGeometry together with what it does to the cells; Grid says what  *)
(* the user should see of it.                                              *)
(*                                                                         *)
(* A cell also has colours and attributes.  They are copied and cleared    *)
(* with the symbol and are left out.                                       *)
(***************************************************************************)
EXTENDS ScreenGeometry, UnicodeCache, FiniteSets

CONSTANTS
  Chars,      \* the characters the host prints
  Slot0,      \* the slot that the symbol of a never used cell, 0, refers to
  MaxCells,   \* MAX_SCREEN_SIZE
  MaxUses     \* bound: the operations that leak wait once a count reaches it

ASSUME CellsAssumption ==
  /\ \A s \in Sizes : s[1] * s[2] <= MaxCells
  /\ MaxCells \in Nat /\ CountMod \in Nat /\ MaxCells < CountMod   \* 2000 < 2^16
  /\ Chars \subseteq Glyphs \cup {" "}
  /\ Slots \cap Ascii = {}
  /\ Slot0 \in Slots
  /\ MaxUses < CountMod

VARIABLES
  buf,      \* screen[] and cache[]
  insert,   \* scr.insert_mode
  last      \* scr.last_char, or none

cellvars == <<geo, buf, insert, last>>

NoChar == ""
At(y, x) == y * scr.w + x

CellsInit ==
  /\ Init
  /\ buf = [cells |-> [p \in 0..(MaxCells - 1) |-> IF p < At(scr.h, 0) THEN " " ELSE Slot0],
            cache |-> CacheInit]
  /\ insert = FALSE
  /\ last = NoChar

-----------------------------------------------------------------------------
(* Cells, rows and ranges.                                                 *)

(* A loop makes turn 1, then turn 2, up to turn n.                         *)
Loop(b, n, Turn(_, _)) ==
  LET f[k \in 0..n] == IF k = 0 THEN b ELSE Turn(f[k - 1], k) IN f[n]

Row(y) == At(y, 0)..At(y, scr.w - 1)

FreeCell(b, p) == [b EXCEPT !.cache = Remove(@, b.cells[p])]
BackupCell(b, p) == [b EXCEPT !.cache = Inc(@, b.cells[p])]
CopyCell(b, to, from) == [b EXCEPT !.cells[to] = b.cells[from]]

(* The cells from p on are released, or counted once more.                 *)
FreeCells(b, p, n) == Loop(b, n, LAMBDA c, k : FreeCell(c, p + k - 1))
BackupCells(b, p, n) == Loop(b, n, LAMBDA c, k : BackupCell(c, p + k - 1))

FreeRow(b, y) == FreeCells(b, At(y, 0), scr.w)
BackupRow(b, y) == BackupCells(b, At(y, 0), scr.w)
CopyRow(b, to, from) ==
  [b EXCEPT !.cells = [p \in DOMAIN b.cells |->
     IF p \in Row(to) THEN b.cells[p - At(to, 0) + At(from, 0)] ELSE b.cells[p]]]

(* clear_range_noutf and clear_range_utf: without and with freeing.        *)
Clear(b, from, to) ==
  [b EXCEPT !.cells = [p \in DOMAIN b.cells |->
     IF p \in from..Lower(to, At(scr.h, 0) - 1) THEN " " ELSE b.cells[p]]]
ClearUtf(b, from, to) ==
  Clear(FreeCells(b, from, Lower(to, At(scr.h, 0) - 1) - from + 1), from, to)

ClearRows(b, from, to) == Clear(b, At(from, 0), At(to + 1, 0) - 1)
ClearRowsUtf(b, from, to) == ClearUtf(b, At(from, 0), At(to + 1, 0) - 1)

(* One turn of a loop that moves rows: the old contents are released, the  *)
(* new ones counted once more unless this is the last turn.                *)
MoveRow(b, to, from, final) ==
  LET moved == CopyRow(FreeRow(b, to), to, from)
  IN  IF final THEN moved ELSE BackupRow(moved, to)

MoveCell(b, to, from) == BackupCell(CopyCell(FreeCell(b, to), to, from), to)

(* The loops over m rows or cells that each get what is n places ahead,    *)
(* in the direction d of the loop: 1 is up or left, -1 down or right.      *)
MoveRows(b, y, d, n, m) ==
  Loop(b, m, LAMBDA c, k : MoveRow(c, y + d * (k - 1), y + d * (k - 1 + n), k = m))
MoveCells(b, p, d, n, m) ==
  Loop(b, m, LAMBDA c, k : MoveCell(c, p + d * (k - 1), p + d * (k - 1 + n)))

(* Rows top..btm move by n, when there are more than n.                    *)
RowsUp(b, top, n) ==
  ClearRows(MoveRows(b, top, 1, n, scr.btm - n - top + 1), scr.btm - n + 1, scr.btm)
RowsDown(b, top, n) ==
  ClearRows(MoveRows(b, scr.btm, -1, n, scr.btm - n - top + 1), top, top + n - 1)

-----------------------------------------------------------------------------
(* What each operation does to the cells.                                  *)

RegionHeight == scr.btm - scr.top + 1     \* RH

ScrolledUp(b, n) ==
  IF n >= RegionHeight THEN ClearRowsUtf(b, scr.top, scr.btm) ELSE RowsUp(b, scr.top, n)

ScrolledDown(b, n) ==
  IF n >= RegionHeight THEN ClearRowsUtf(b, scr.top, scr.btm) ELSE RowsDown(b, scr.top, n)

LinesInserted(n) ==
  IF cur.y + n > scr.btm THEN ClearRowsUtf(buf, cur.y, scr.btm) ELSE RowsDown(buf, cur.y, n)

LinesDeleted(n) ==
  IF scr.btm - n <= cur.y THEN ClearRowsUtf(buf, cur.y, scr.btm) ELSE RowsUp(buf, cur.y, n)

LineEnd(y) == At(y, scr.w - 1)

CharsInserted(b, c, n) ==
  IF c.x + n >= scr.w THEN ClearUtf(b, At(c.y, c.x), LineEnd(c.y))
  ELSE ClearUtf(MoveCells(b, LineEnd(c.y), -1, n, scr.w - n - c.x),
                At(c.y, c.x), At(c.y, c.x + n - 1))

(* Mutant of CharsDeleted: the loop stops before the last cell.            *)
CharsDeletedShort(b, c, n) ==
  IF scr.w - n <= c.x THEN ClearUtf(b, At(c.y, c.x), LineEnd(c.y))
  ELSE Clear(MoveCells(b, At(c.y, c.x), 1, n, scr.w - n - c.x - 1),
             At(c.y, scr.w - n), LineEnd(c.y))

(* The loop runs once too often, into the next line or past the last one.  *)
CharsDeleted(b, c, n) ==
  IF scr.w - n <= c.x THEN ClearUtf(b, At(c.y, c.x), LineEnd(c.y))
  ELSE Clear(MoveCells(b, At(c.y, c.x), 1, n, scr.w - n - c.x + 1),
             At(c.y, scr.w - n), LineEnd(c.y))

CharsErased(n) ==
  ClearUtf(buf, At(cur.y, cur.x),
           IF cur.x + n >= scr.w THEN LineEnd(cur.y) ELSE At(cur.y, cur.x + n - 1))

(* putchar_graphic, after the wrap.                                        *)
Written(c, ch) ==
  LET scrolled == IF WrapScrolls(c) THEN ScrolledUp(buf, 1) ELSE buf
      at == WriteAt(c)
      b == IF insert /\ at.x < scr.w - 1 THEN CharsInserted(scrolled, at, 1) ELSE scrolled
      freed == FreeCell(b, At(at.y, at.x)).cache
  IN  [cells |-> [b.cells EXCEPT ![At(at.y, at.x)] = AddedRef(freed, ch)],
       cache |-> Add(freed, ch)]

(* Mutants of AllCleared: in the old size; only the cache.                 *)
AllClearedOldSize(b, s, ch) ==
  [cells |-> [p \in DOMAIN b.cells |-> IF p < scr.w * scr.h THEN ch ELSE b.cells[p]],
   cache |-> CacheClear(b.cache)]
AllClearedCacheOnly(b, s, ch) == [b EXCEPT !.cache = CacheClear(@)]

(* screen_clear(CLEAR_ALL) forgets every use and frees none.               *)
AllCleared(b, s, ch) ==
  [cells |-> [p \in DOMAIN b.cells |-> IF p < s.w * s.h THEN ch ELSE b.cells[p]],
   cache |-> CacheClear(b.cache)]

-----------------------------------------------------------------------------
(* The operations.                                                         *)

Contents(b) == buf' = b /\ UNCHANGED <<insert, last>>

CPutChar(ch) ==
  /\ PutChar
  /\ buf' = Written(ClearInvalidHanging(cur), ch)
  /\ last' = ch
  /\ UNCHANGED insert

CRepeat ==
  LET ch == IF last = NoChar THEN " " ELSE last
  IN  /\ Repeat
      /\ buf' = Written(cur, ch)
      /\ last' = ch
      /\ UNCHANGED insert

CLineFeed == LineFeed /\ Contents(IF ScrollsUp THEN ScrolledUp(buf, 1) ELSE buf)
CReverseIndex ==
  ReverseIndex /\ Contents(IF ScrollsDown THEN ScrolledDown(buf, 1) ELSE buf)

(* Moving several lines, or characters to the left, can count a glyph more *)
(* often than it is there; the bound keeps the counts of a run finite.     *)
MayLeak == \A s \in Slots : buf.cache[s].count < MaxUses

CScrollUp(n) == (n = 1 \/ MayLeak) /\ ScrollUp(n) /\ Contents(ScrolledUp(buf, n))
CScrollDown(n) == (n = 1 \/ MayLeak) /\ ScrollDown(n) /\ Contents(ScrolledDown(buf, n))
CInsertLines(n) == (n = 1 \/ MayLeak) /\ InsertLines(n) /\ Contents(LinesInserted(n))
CDeleteLines(n) == (n = 1 \/ MayLeak) /\ DeleteLines(n) /\ Contents(LinesDeleted(n))

CInsertChars(n) == UNCHANGED geo /\ Contents(CharsInserted(buf, cur, n))

(* screen[] with what happens to be in the memory behind it: there the     *)
(* loop of CharsDeleted ends in the last line of a screen of MaxCells.     *)
Overread(b, junk) ==
  [b EXCEPT !.cells = [p \in 0..MaxCells |-> IF p < MaxCells THEN b.cells[p] ELSE junk]]
OfArray(b) == [b EXCEPT !.cells = [p \in 0..(MaxCells - 1) |-> b.cells[p]]]

CDeleteChars(n) ==
  /\ MayLeak /\ UNCHANGED geo
  /\ \E junk \in Slots \cup Ascii :
       Contents(OfArray(CharsDeleted(Overread(buf, junk), cur, n)))
CEraseChars(n) == UNCHANGED geo /\ Contents(CharsErased(n))
CBackIndex(n) ==
  /\ BackIndex(n)
  /\ Contents(IF n <= cur.x THEN buf
              ELSE CharsInserted(buf, [cur EXCEPT !.x = 0], n - cur.x))

(* EL and ED.                                                              *)
CEraseLine ==
  /\ UNCHANGED geo
  /\ \/ Contents(ClearRowsUtf(buf, cur.y, cur.y))
     \/ Contents(ClearUtf(buf, At(cur.y, cur.x), LineEnd(cur.y)))
     \/ Contents(ClearUtf(buf, At(cur.y, 0), At(cur.y, cur.x)))

CEraseBelow ==
  EraseBelow /\ Contents(ClearUtf(buf, At(cur.y, cur.x), At(scr.h, 0) - 1))
CEraseAbove == EraseAbove /\ Contents(ClearUtf(buf, 0, At(cur.y, cur.x)))

(* Those that clear the whole screen, in the size it has afterwards.       *)
ClearsAll == buf' = AllCleared(buf, scr', " ") /\ last' = NoChar

CClear ==
  /\ EraseAll \/ ColumnMode
  /\ ClearsAll
  /\ UNCHANGED insert

CResize ==
  /\ Resize
  /\ ClearsAll
  /\ UNCHANGED insert

(* Leaving the alternate buffer clears the screen before it is resized.    *)
CAlternate ==
  /\ AlternateIn \/ AlternateOut
  /\ buf' = AllCleared(AllCleared(buf, scr, " "), scr', " ")
  /\ last' = NoChar
  /\ UNCHANGED insert

CSwapIn == SwapIn /\ Contents(buf)
CSwapOut ==
  /\ SwapOut
  /\ IF Resized THEN ClearsAll ELSE UNCHANGED <<buf, last>>
  /\ UNCHANGED insert

CReset ==
  /\ Reset
  /\ ClearsAll
  /\ insert' = FALSE

CApplySettings ==
  /\ ApplySettings
  /\ ClearsAll
  /\ insert' = FALSE

CFillWithE ==
  /\ FillWithE
  /\ buf' = AllCleared(buf, scr', "E")
  /\ last' = NoChar
  /\ insert' = FALSE

InsertMode ==
  /\ \E on \in BOOLEAN : insert' = on
  /\ UNCHANGED <<geo, buf, last>>

(* Those that only move the cursor or change a mode.                       *)
Still(A) == A /\ UNCHANGED <<buf, insert, last>>

CNext ==
  \/ "print" \in Ops /\ (\/ \E ch \in Chars : CPutChar(ch)
                         \/ CRepeat \/ Still(CarriageReturn)
                         \/ CLineFeed \/ CReverseIndex)
  \/ "place" \in Ops /\ Still(Place)
  \/ "move" \in Ops /\ (Still(Move) \/ Still(BackSpace) \/ \E n \in Steps : CBackIndex(n))
  \/ "region" \in Ops /\ Still(SetScrollingRegion)
  \/ "origin" \in Ops /\ Still(SetOriginMode)
  \/ "insert" \in Ops /\ InsertMode
  \/ "lines" \in Ops /\ \E n \in Steps : CScrollUp(n) \/ CScrollDown(n) \/ CInsertLines(n)
  \/ "deletelines" \in Ops /\ \E n \in Steps : CDeleteLines(n)
  \/ "characters" \in Ops /\ (CEraseLine \/ \E n \in Steps : CInsertChars(n) \/ CEraseChars(n))
  \/ "deletechars" \in Ops /\ \E n \in Steps : CDeleteChars(n)
  \/ "erase" \in Ops /\ (CEraseBelow \/ CEraseAbove \/ CClear)
  \/ "save" \in Ops /\ Still(SaveCursor)
  \/ "restore" \in Ops /\ \E a \in BOOLEAN : Still(RestoreCursor(a))
  \/ "alt" \in Ops /\ (CSwapIn \/ CSwapOut)
  \/ {"alt", "save", "restore"} \subseteq Ops /\ CAlternate
  \/ "resize" \in Ops /\ CResize
  \/ "reset" \in Ops /\ (CReset \/ CFillWithE)
  \/ "settings" \in Ops /\ CApplySettings
  \/ "noclear" \in Ops /\ Still(ApplySettingsNoClear)

CSpec == CellsInit /\ [][CNext]_cellvars

-----------------------------------------------------------------------------
(* Properties.                                                             *)

(* The count of every slot is the number of cells that refer to it: no     *)
(* glyph on the screen loses its slot to another one, and no slot is kept  *)
(* for a glyph that is gone.                                               *)
Uses(s) == Cardinality({p \in 0..(At(scr.h, 0) - 1) : buf.cells[p] = s})
ExactRefs == \A s \in Slots : buf.cache[s].count = Uses(s)

(* What the user sees is what Grid promises: every operation moves, writes *)
(* and erases the characters it should and no others.                      *)
Shown ==
  [p \in (0..(scr.h - 1)) \X (0..(scr.w - 1)) |->
     Retrieve(buf.cache, buf.cells[At(p[1], p[2])])]
Ideal == INSTANCE Grid WITH grid <- Shown
ImplementsGrid == Ideal!GSpec
=============================================================================
