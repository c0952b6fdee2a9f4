------------------------------ MODULE Serializer ------------------------------
(***************************************************************************)
(* The screen section of the messages of screenSerializeToBuffer: a        *)
(* rectangle of cells as a run of marks, repeats and symbols, cut where    *)
(* the buffer is full.  A cell is what it shows: its glyph, colours and    *)
(* attributes, and a screen is a function from row * width + column to     *)
(* cells.                                                                  *)
(*                                                                         *)
(* Reading such a section is the browser's part; Paint is written from how *)
(* the section is put together.                                            *)
(***************************************************************************)
EXTENDS Integers, SequencesExt

CONSTANT Glyphs      \* the characters

MaxChunks == 20      \* the buffers one update may fill
Reserve == 12        \* a buffer with no more room than this is full

NoCell == [sym |-> "none", fg |-> 0, bg |-> 0, attrs |-> {}]
Blank == [NoCell EXCEPT !.sym = "space"]

(* utf8_encode: the bytes of a number; and those of what a cell shows.     *)
NumLen(n) == IF n + 1 < 128 THEN 1 ELSE IF n + 1 < 2048 THEN 2
             ELSE IF n + 1 < 65536 THEN 3 ELSE 4
Ascii == {"space", "a", "E", "?"}

(* The characters of one byte are characters, and no cell is one.          *)
ASSUME GlyphAssumption == Ascii \subseteq Glyphs /\ NoCell.sym \notin Glyphs
GlyphLen(g) == IF g \in Ascii THEN 1 ELSE 3
AttrBit == [fg |-> 1, bg |-> 2, bold |-> 4, overline |-> 256]
Bits(A) == FoldSet(LAMBDA a, n : n + AttrBit[a], 0, A)

(* What a cell may take: both colours, the attributes and its character.   *)
MaxCellLen == (1 + 4) + (1 + 4) + 3

(* A cell without the attribute has the colour 0.                          *)
Cells == {c \in [sym : Glyphs, fg : 0..255, bg : 0..255,
                 attrs : SUBSET DOMAIN AttrBit] :
            ("fg" \in c.attrs \/ c.fg = 0) /\ ("bg" \in c.attrs \/ c.bg = 0)}

-----------------------------------------------------------------------------
(* The rectangle to send: rows y0..y1, columns x0..x1.                     *)

WholeScreen(h, w) == [y0 |-> 0, y1 |-> h - 1, x0 |-> 0, x1 |-> w - 1]
Final(r, w) == w * r.y1 + r.x1
RectsOn(h, w) ==
  {r \in [y0 : 0..(h - 1), y1 : 0..(h - 1), x0 : 0..(w - 1), x1 : 0..(w - 1)] :
     r.y0 <= r.y1 /\ r.x0 <= r.x1}

(* Mutant of After: a new line is entered at its first column.             *)
AfterFromEdge(i, r, w) ==
  LET j == i + 1
  IN  IF j % w > r.x1 THEN j + w - r.x1 + r.x0 - 1 ELSE j

(* INC_I; where the rectangle is the whole screen it is the successor.     *)
After(i, r, w) ==
  LET j == i + 1
  IN  IF j % w = 0 THEN j + r.x0
      ELSE IF j % w > r.x1 THEN j + w - r.x1 + r.x0 - 1
      ELSE j

(* How many cells from i on are the same as the last one sent, and where   *)
(* they end.                                                               *)
Same(last, i, cells, r, w) ==
  LET run[n \in Nat] ==
        IF n = 0 THEN [n |-> 0, at |-> i]
        ELSE LET b == run[n - 1]
             IN  IF b.at > Final(r, w) \/ cells[b.at] # last THEN b
                 ELSE [n |-> b.n + 1, at |-> After(b.at, r, w)]
  IN  run[Cardinality(DOMAIN cells)]

-----------------------------------------------------------------------------
(* What is put into the buffer.  s: the place i, the room left, the tokens *)
(* out, the last cell sent and the last colours that showed.               *)

Size(token) ==
  CASE token[1] = "colors" -> 1 + NumLen(token[3] * 256 + token[2])
    [] token[1] \in {"fg", "bg", "repeat"} -> 1 + NumLen(token[2])
    [] token[1] = "attrs" -> IF token[2] = {} THEN 1 ELSE 1 + NumLen(Bits(token[2]))
    [] token[1] = "sym" -> GlyphLen(token[2])

PutToken(s, token) == [s EXCEPT !.out = Append(@, token), !.room = @ - Size(token)]

Live(live, c) == [fg |-> IF "fg" \in c.attrs THEN c.fg ELSE live.fg,
                  bg |-> IF "bg" \in c.attrs THEN c.bg ELSE live.bg]

(* The marks before a cell that differs from the last one.                 *)
PutColors(s, c) ==
  LET fg == c.fg # s.live.fg /\ "fg" \in c.attrs
      bg == c.bg # s.live.bg /\ "bg" \in c.attrs
  IN  IF s.last = NoCell \/ (fg /\ bg) THEN PutToken(s, <<"colors", c.fg, c.bg>>)
      ELSE IF fg THEN PutToken(s, <<"fg", c.fg>>)
      ELSE IF bg THEN PutToken(s, <<"bg", c.bg>>)
      ELSE s

PutAttrs(s, c) ==
  IF s.last = NoCell \/ c.attrs # s.last.attrs THEN PutToken(s, <<"attrs", c.attrs>>) ELSE s

PutSym(s, g) == PutToken(s, <<"sym", g>>)

Different(s, c, r, w) ==
  [PutSym(PutAttrs(PutColors(s, c), c), c.sym)
     EXCEPT !.i = After(@, r, w), !.last = c, !.live = Live(@, c)]

(* What is not worth a mark is at most two cells.                          *)
Repeated(s, same) ==
  LET g == s.last.sym
      told == IF GlyphLen(g) * same.n > 2 THEN PutToken(s, <<"repeat", same.n>>)
              ELSE IF same.n = 2 THEN PutSym(PutSym(s, g), g)
              ELSE PutSym(s, g)
  IN  [told EXCEPT !.i = same.at]

(* One turn of the loop over the cells.                                    *)
Turn(s, cells, r, w) ==
  IF s.i > Final(r, w) \/ s.room <= Reserve THEN s
  ELSE LET same == Same(s.last, s.i, cells, r, w)
       IN  IF same.n = 0 THEN Different(s, cells[s.i], r, w) ELSE Repeated(s, same)

Loop(s, cells, r, w) ==
  LET t[n \in Nat] == IF n = 0 THEN s ELSE Turn(t[n - 1], cells, r, w)
  IN  t[Cardinality(DOMAIN cells)]

(* The next buffer, unless the last cell was reached; it may still be due. *)
Chunk(s, cells, r, w, buflen) ==
  IF s.i >= Final(r, w) THEN s ELSE Loop([s EXCEPT !.room = buflen], cells, r, w)

(* The buffers, after a header and the other topics in room bytes.         *)
Filled(cells, r, w, room, buflen) ==
  LET start == [i |-> w * r.y0 + r.x0, room |-> room, out |-> <<>>, last |-> NoCell,
                live |-> [fg |-> 0, bg |-> 0]]
      s[n \in 1..MaxChunks] == IF n = 1 THEN Loop(start, cells, r, w)
                               ELSE Chunk(s[n - 1], cells, r, w, buflen)
  IN  s[MaxChunks]

(* The whole section.                                                      *)
Section(cells, r, w, room, buflen) ==
  [rect |-> r, tokens |-> Filled(cells, r, w, room, buflen).out]

-----------------------------------------------------------------------------
(* A browser's screen after a section: the tokens fill the rectangle.      *)

Shown(c) == [c EXCEPT !.fg = IF "fg" \in c.attrs THEN @ ELSE 0,
                      !.bg = IF "bg" \in c.attrs THEN @ ELSE 0]

Place(r, n, w) == ((r.y0 + n \div (r.x1 - r.x0 + 1)) * w + r.x0) + (n % (r.x1 - r.x0 + 1))

Write(p, k, r, w) ==
  LET to == {Place(r, p.n + j, w) : j \in 0..(k - 1)}
  IN  [p EXCEPT !.n = @ + k,
                !.cells = [q \in DOMAIN @ |-> IF q \in to THEN Shown(p.pen) ELSE @[q]]]

PaintToken(p, t, r, w) ==
  CASE t[1] = "colors" -> [p EXCEPT !.pen.fg = t[2], !.pen.bg = t[3]]
    [] t[1] = "fg" -> [p EXCEPT !.pen.fg = t[2]]
    [] t[1] = "bg" -> [p EXCEPT !.pen.bg = t[2]]
    [] t[1] = "attrs" -> [p EXCEPT !.pen.attrs = t[2]]
    [] t[1] = "sym" -> Write([p EXCEPT !.pen.sym = t[2]], 1, r, w)
    [] t[1] = "repeat" -> Write(p, t[2], r, w)

Painted(cells, tokens, r, w) ==
  LET p[n \in 0..Len(tokens)] ==
        IF n = 0 THEN [cells |-> cells, n |-> 0, pen |-> NoCell]
        ELSE PaintToken(p[n - 1], tokens[n], r, w)
  IN  p[Len(tokens)]

Paint(cells, section, w) == Painted(cells, section.tokens, section.rect, w).cells
=============================================================================
