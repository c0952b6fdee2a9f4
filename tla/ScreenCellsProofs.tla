-------------------------- MODULE ScreenCellsProofs --------------------------
(***************************************************************************)
(* The cursor and the scrolling region stay on the screen, for every set   *)
(* of sizes at least two columns wide, every set of arguments and every    *)
(* choice of operations, when the host keeps within the limits the code    *)
(* does not check: no more rows than have attributes (RowsAssumption),     *)
(* margins on the screen (Slack = 0), and changes of size after which      *)
(* neither an old saved cursor nor an old size is used again (Careful).    *)
(* And the glyphs' use counters are exact, under the same conditions, as   *)
(* long as no operation is used that leaks.  From both it follows that the *)
(* user sees what Grid promises.                                           *)
(***************************************************************************)
EXTENDS ScreenCells, Iteration, FiniteSetTheorems

(* A screen the operations can work on, and a cursor on it.                *)
Sound(s) ==
  /\ s \in ScreenShape
  /\ 2 <= s.w /\ s.h <= LineAttrs
  /\ s.top <= s.btm /\ s.btm < s.h

On(s, c) == c \in CursorShape /\ InScreen(s, c)

Doubles == [0..(LineAttrs - 1) -> BOOLEAN]

IInv ==
  /\ Sound(scr) /\ Sound(backup)
  /\ On(scr, cur)
  /\ dbl \in Doubles
  /\ saved \subseteq CursorShape
  /\ alt \in BOOLEAN
  /\ conf \in Sizes

Wide == \A s \in Sizes : 2 <= s[1]

-----------------------------------------------------------------------------
(* Arithmetic.                                                             *)

LEMMA HalfInside ==
  ASSUME NEW w \in Nat, 2 <= w
  PROVE  w \div 2 \in 1..(w - 1)
OBVIOUS

LEMMA ModInside ==
  ASSUME NEW k \in Int, NEW w \in Nat, 0 < w
  PROVE  k % w \in 0..(w - 1)
OBVIOUS

LEMMA LowerIs ==
  ASSUME NEW a \in Int, NEW b \in Int
  PROVE  /\ Lower(a, b) \in Int
         /\ Lower(a, b) <= a /\ Lower(a, b) <= b
         /\ Lower(a, b) = a \/ Lower(a, b) = b
BY DEF Lower

(* A size that is asked for is one to work on, with the cursor at home.    *)
LEMMA WholeIsSound ==
  ASSUME Wide, NEW s \in Sizes
  PROVE  Sound(WholeScreen(s[1], s[2]))
<1>1. s[1] \in Nat \ {0} /\ s[2] \in 1..LineAttrs /\ LineAttrs \in Nat
  BY GeometryAssumption, RowsAssumption
<1>2. 2 <= s[1]
  BY DEF Wide
<1> QED
  BY <1>1, <1>2 DEF Sound, WholeScreen, ScreenShape

LEMMA SameIsSound ==
  ASSUME NEW s, Sound(s)
  PROVE  Sound(WholeScreen(s.w, s.h))
BY DEF Sound, WholeScreen, ScreenShape

LEMMA FreshIsOn ==
  ASSUME NEW s, Sound(s)
  PROVE  On(s, FreshCursor)
BY DEF Sound, ScreenShape, On, CursorShape, InScreen, FreshCursor

LEMMA NoDoublesIsDoubles == NoDoubles \in Doubles
BY DEF NoDoubles, Doubles

-----------------------------------------------------------------------------
(* Placing the cursor.                                                     *)

(* A cursor put in another place.                                         *)
Put(c, x, y) == [c EXCEPT !.x = x, !.y = y]

LEMMA PutIs ==
  ASSUME NEW c \in CursorShape, NEW x \in Int, NEW y \in Int
  PROVE  /\ Put(c, x, y) \in CursorShape
         /\ Put(c, x, y).x = x
         /\ Put(c, x, y).y = y
         /\ Put(c, x, y).hanging = c.hanging
         /\ Put(c, x, y).origin = c.origin
BY DEF Put, CursorShape

(* The hanging flag has no part in where the cursor is.                    *)
LEMMA HangIs ==
  ASSUME NEW c \in CursorShape
  PROVE  /\ [c EXCEPT !.hanging = FALSE] \in CursorShape
         /\ [c EXCEPT !.hanging = FALSE].x = c.x
         /\ [c EXCEPT !.hanging = FALSE].y = c.y
         /\ [c EXCEPT !.hanging = FALSE].origin = c.origin
BY DEF CursorShape

LEMMA HomeIsOn ==
  ASSUME NEW s, Sound(s), NEW c \in CursorShape
  PROVE  On(s, CursorHome(c))
<1>1. s.w \in Nat \ {0} /\ s.h \in Nat \ {0}
  BY DEF Sound, ScreenShape
<1>2. Put(c, 0, 0) \in CursorShape /\ Put(c, 0, 0).x = 0 /\ Put(c, 0, 0).y = 0
  BY PutIs
<1>3. CursorHome(c) = [Put(c, 0, 0) EXCEPT !.hanging = FALSE]
  BY DEF CursorHome, Put
<1>4. CursorHome(c) \in CursorShape /\ CursorHome(c).x = 0 /\ CursorHome(c).y = 0
  BY <1>2, <1>3 DEF CursorShape
<1> QED
  BY <1>1, <1>4 DEF On, InScreen

LEMMA SetXIsOn ==
  ASSUME Sound(scr), dbl \in Doubles, NEW v \in Nat,
         NEW c \in CursorShape, c.y \in 0..(scr.h - 1)
  PROVE  /\ On(scr, SetX(c, v))
         /\ SetX(c, v).y = c.y /\ SetX(c, v).origin = c.origin
<1>1. scr.w \in Nat /\ 2 <= scr.w
  BY DEF Sound, ScreenShape
<1>2. Half \in 1..(scr.w - 1)
  BY <1>1, HalfInside DEF Half
<1>3. Lower(v, scr.w - 1) \in 0..(scr.w - 1)
  BY <1>1 DEF Lower
<1>4. ClampDouble(Lower(v, scr.w - 1), c.y) \in 0..(scr.w - 1)
  BY <1>1, <1>2, <1>3 DEF ClampDouble
<1> DEFINE x == ClampDouble(Lower(v, scr.w - 1), c.y)
<1>5. x \in Int /\ c.y \in Int
  BY <1>1, <1>4 DEF CursorShape
<1>6. SetX(c, v) = [Put(c, x, c.y) EXCEPT !.hanging = FALSE]
  BY DEF SetX, Put, CursorShape
<1> HIDE DEF x
<1>7. /\ Put(c, x, c.y) \in CursorShape
      /\ Put(c, x, c.y).x = x /\ Put(c, x, c.y).y = c.y
      /\ Put(c, x, c.y).origin = c.origin
  BY <1>5, PutIs
<1>8. /\ SetX(c, v) \in CursorShape
      /\ SetX(c, v).x = x
      /\ SetX(c, v).y = c.y /\ SetX(c, v).origin = c.origin
  BY <1>6, <1>7, HangIs
<1> QED
  BY <1>4, <1>8 DEF On, InScreen, x

LEMMA SetYIsOn ==
  ASSUME NEW s, Sound(s), NEW v \in Nat,
         NEW c \in CursorShape, c.x \in 0..(s.w - 1)
  PROVE  On(s, SetY(s, c, v))
<1>1. s.h \in Nat /\ s.top \in Nat /\ s.btm \in Nat /\ 0 < s.h /\ s.btm < s.h
  BY DEF Sound, ScreenShape
<1>2. Lower(v, s.h - 1) \in 0..(s.h - 1) /\ Lower(v + s.top, s.btm) \in 0..(s.h - 1)
  BY <1>1 DEF Lower
<1> QED
  BY <1>1, <1>2 DEF SetY, On, CursorShape, InScreen

LEMMA HomeInIsOn ==
  ASSUME Sound(scr), dbl \in Doubles, NEW s, Sound(s), s.w = scr.w,
         NEW c \in CursorShape, c.y \in 0..(scr.h - 1)
  PROVE  On(s, HomeIn(s, c))
<1>1. On(scr, SetX(c, 0))
  BY SetXIsOn
<1> QED
  BY <1>1, SetYIsOn DEF HomeIn, On, InScreen

-----------------------------------------------------------------------------
(* Relative motion.                                                        *)

(* The column is on the line; the row is not yet confined.                 *)
LEMMA ReverseWrapIsInLine ==
  ASSUME Sound(scr), NEW n \in Nat, NEW c \in CursorShape
  PROVE  /\ ReverseWrap(c, n) \in CursorShape
         /\ ReverseWrap(c, n).x \in 0..(scr.w - 1)
<1> DEFINE k == Lower(n, scr.w * scr.h)
           rows == (k + scr.w - 1) \div scr.w
           x == (-k) % scr.w
           y == IF rows <= c.y THEN c.y - rows ELSE (c.y - rows) % (scr.btm + 1)
<1>1. /\ scr.w \in Nat /\ 0 < scr.w /\ scr.h \in Nat
      /\ scr.btm \in Nat /\ c.y \in Int
  BY DEF Sound, ScreenShape, CursorShape
<1>2. scr.w * scr.h \in Int
  BY <1>1
<1>3. k \in Int
  BY <1>2, LowerIs
<1>4. x \in 0..(scr.w - 1)
  BY <1>1, <1>3, ModInside
<1>5. rows \in Int
  BY <1>1, <1>3
<1>6. (c.y - rows) % (scr.btm + 1) \in Int
  BY <1>1, <1>5, ModInside
<1>7. x \in Int /\ y \in Int
  BY <1>1, <1>4, <1>5, <1>6
<1>8. ReverseWrap(c, n) = Put(c, x, y)
  BY DEF ReverseWrap, Put
<1> HIDE DEF k, rows, x, y
<1>9. ReverseWrap(c, n) \in CursorShape /\ ReverseWrap(c, n).x = x
  BY <1>7, <1>8, PutIs
<1> QED
  BY <1>4, <1>9

LEMMA MoveXIsInLine ==
  ASSUME Sound(scr), dbl \in Doubles, NEW junk \in BOOLEAN, NEW dx \in Int,
         NEW c \in CursorShape
  PROVE  /\ MoveX(c, dx, junk) \in CursorShape
         /\ MoveX(c, dx, junk).x \in 0..(scr.w - 1)
<1> DEFINE x0 == Lower(c.x + dx, scr.w - 1)
           x1 == IF DoubleAt(c.y, junk) /\ PastHalf(x0) THEN Half - 1 ELSE x0
<1>1. scr.w \in Nat /\ 2 <= scr.w /\ c.x \in Int
  BY DEF Sound, ScreenShape, CursorShape
<1>2. Half \in 1..(scr.w - 1)
  BY <1>1, HalfInside DEF Half
<1>3. x0 \in Int /\ x0 <= scr.w - 1
  BY <1>1 DEF Lower
<1>4. x1 \in Int /\ x1 <= scr.w - 1
  BY <1>1, <1>2, <1>3
<1> HIDE DEF x1
<1>5. MoveX(c, dx, junk) =
        IF x1 >= 0 THEN [c EXCEPT !.x = x1]
        ELSE IF c.wrap /\ c.rev THEN ReverseWrap(c, -x1)
        ELSE [c EXCEPT !.x = 0]
  BY DEF MoveX, x1
<1>6. x1 < 0 => ReverseWrap(c, -x1) \in CursorShape /\ ReverseWrap(c, -x1).x \in 0..(scr.w - 1)
  BY <1>4, ReverseWrapIsInLine
<1> QED
  BY <1>1, <1>4, <1>5, <1>6 DEF CursorShape

LEMMA ConfineYIsOn ==
  ASSUME Sound(scr), NEW inside \in BOOLEAN,
         NEW c \in CursorShape, c.x \in 0..(scr.w - 1)
  PROVE  On(scr, ConfineY(c, inside))
<1>1. /\ scr.h \in Nat /\ scr.top \in Nat /\ scr.btm \in Nat
      /\ scr.top <= scr.btm /\ scr.btm < scr.h /\ c.y \in Int
  BY DEF Sound, ScreenShape, CursorShape
<1>2. ConfineY(c, inside).y \in 0..(scr.h - 1)
  BY <1>1 DEF ConfineY, Lower, CursorShape
<1> QED
  BY <1>1, <1>2 DEF ConfineY, On, CursorShape, InScreen

LEMMA MovedIsOn ==
  ASSUME IInv, NEW dy \in Int, NEW dx \in Int, NEW junk \in BOOLEAN
  PROVE  On(scr, Moved(dy, dx, junk))
<1> DEFINE c0 == ClearInvalidHanging(cur)
           c1 == [c0 EXCEPT !.y = c0.y + dy, !.hanging = c0.hanging /\ dx >= 0]
<1>1. c0 \in CursorShape
  BY DEF IInv, On, CursorShape, ClearInvalidHanging
<1> HIDE DEF c0
<1>2. c0.x \in Int /\ c0.y + dy \in Int
  BY <1>1 DEF CursorShape
<1>3. Put(c0, c0.x, c0.y + dy) \in CursorShape
  BY <1>1, <1>2, PutIs
<1>4. c1 = [Put(c0, c0.x, c0.y + dy) EXCEPT !.hanging = c0.hanging /\ dx >= 0]
  BY <1>1 DEF Put, CursorShape
<1>5. c1 \in CursorShape
  BY <1>3, <1>4 DEF CursorShape
<1> HIDE DEF c1
<1>6. MoveX(c1, dx, junk) \in CursorShape /\ MoveX(c1, dx, junk).x \in 0..(scr.w - 1)
  BY <1>5, MoveXIsInLine DEF IInv
<1>7. Inside(scr, cur) \in BOOLEAN
  BY DEF Inside
<1>8. On(scr, ConfineY(MoveX(c1, dx, junk), Inside(scr, cur)))
  BY <1>6, <1>7, ConfineYIsOn DEF IInv
<1> QED
  BY <1>8 DEF Moved, c0, c1

LEMMA MotionIsOn ==
  ASSUME IInv, NEW dy \in Int, NEW dx \in Int, Motion(dy, dx)
  PROVE  On(scr, cur')
BY MovedIsOn DEF Motion

LEMMA TabIsOn ==
  ASSUME IInv, TabForward \/ TabReverse
  PROVE  On(scr, cur')
<1>1. scr.w \in Nat /\ 2 <= scr.w /\ cur.x \in 0..(scr.w - 1)
  BY DEF IInv, Sound, ScreenShape, On, InScreen
<1>2. Half \in 1..(scr.w - 1)
  BY <1>1, HalfInside DEF Half
<1>3. PICK x \in 0..(scr.w - 1) : cur' = [cur EXCEPT !.x = x]
  BY <1>1, <1>2 DEF TabForward, TabReverse
<1> QED
  BY <1>3 DEF IInv, On, CursorShape, InScreen

-----------------------------------------------------------------------------
(* Printing, and the line attributes.                                      *)

LEMMA DoublesMoved ==
  ASSUME dbl \in Doubles, LineAttrs \in Nat, NEW a \in Int, NEW b \in Int, NEW n \in Int
  PROVE  /\ DoublesUp(a, b, n) \in Doubles
         /\ DoublesDown(a, b, n) \in Doubles
         /\ DoublesOff(a, b) \in Doubles
<1>1. DOMAIN dbl = 0..(LineAttrs - 1)
  BY DEF Doubles
<1>2. DoublesUp(a, b, n) \in Doubles
  BY <1>1 DEF DoublesUp, Doubles
<1>3. DoublesDown(a, b, n) \in Doubles
  BY <1>1 DEF DoublesDown, Doubles
<1>4. DoublesOff(a, b) \in Doubles
  BY <1>1 DEF DoublesOff, Doubles
<1> QED
  BY <1>2, <1>3, <1>4

LEMMA WriteAtIsOn ==
  ASSUME Sound(scr), NEW c, On(scr, c)
  PROVE  On(scr, WriteAt(c))
<1>1. /\ scr.w \in Nat /\ 2 <= scr.w /\ scr.btm \in Nat /\ scr.btm < scr.h
      /\ scr.h \in Nat /\ c \in CursorShape
      /\ c.x \in 0..(scr.w - 1) /\ c.y \in 0..(scr.h - 1)
  BY DEF Sound, ScreenShape, On, InScreen
<1>2. Lower(c.y + 1, scr.btm) \in 0..(scr.h - 1)
  BY <1>1 DEF Lower
<1> DEFINE y == Lower(c.y + 1, scr.btm)
           d == Put(c, 0, y)
           e == [d EXCEPT !.hanging = FALSE]
<1>3. y \in Int
  BY <1>2
<1> HIDE DEF y
<1>4. d \in CursorShape /\ d.x = 0 /\ d.y = y
  BY <1>1, <1>3, PutIs
<1> HIDE DEF d
<1>5. e \in CursorShape /\ e.x = 0 /\ e.y = y
  BY <1>4, HangIs
<1> HIDE DEF e
<1>6. On(scr, e)
  BY <1>1, <1>2, <1>5 DEF On, InScreen, y
<1>7. WriteAt(c) = IF Wraps(c) THEN e ELSE c
  BY DEF WriteAt, Put, y, d, e
<1> QED
  BY <1>6, <1>7

LEMMA AdvanceIsOn ==
  ASSUME Sound(scr), NEW c, On(scr, c), NEW d
  PROVE  On(scr, Advance(c, d))
<1>1. /\ scr.w \in Nat /\ 2 <= scr.w /\ c \in CursorShape
      /\ c.x \in 0..(scr.w - 1) /\ c.y \in 0..(scr.h - 1)
      /\ c.hanging \in BOOLEAN
  BY DEF Sound, ScreenShape, On, InScreen, CursorShape
<1>2. Half \in 1..(scr.w - 1)
  BY <1>1, HalfInside DEF Half
<1> DEFINE x1 == Lower(c.x + 1, scr.w - 1)
           half == d[c.y] /\ x1 >= Half
           x == IF half THEN Half - 1 ELSE x1
           hanging == c.hanging \/ c.x + 1 >= scr.w \/ half
<1>3. x \in 0..(scr.w - 1)
  BY <1>1, <1>2 DEF Lower
<1>4. x \in Int /\ c.y \in Int /\ hanging \in BOOLEAN
  BY <1>1, <1>3
<1>5. Advance(c, d) = [Put(c, x, c.y) EXCEPT !.hanging = hanging]
  BY <1>1 DEF Advance, Put, CursorShape
<1> HIDE DEF x, hanging
<1>6. /\ Put(c, x, c.y) \in CursorShape
      /\ Put(c, x, c.y).x = x /\ Put(c, x, c.y).y = c.y
  BY <1>1, <1>4, PutIs
<1>7. /\ Advance(c, d) \in CursorShape
      /\ Advance(c, d).x = x /\ Advance(c, d).y = c.y
  BY <1>4, <1>5, <1>6 DEF CursorShape
<1> QED
  BY <1>1, <1>3, <1>7 DEF On, InScreen

LEMMA PutGraphicIsOn ==
  ASSUME IInv, NEW c, On(scr, c), PutGraphic(c)
  PROVE  On(scr, cur') /\ dbl' \in Doubles
<1>1. LineAttrs \in Nat /\ scr.top \in Int /\ scr.btm \in Int
  BY GeometryAssumption, RowsAssumption DEF IInv, Sound, ScreenShape
<1>2. dbl' \in Doubles
  BY <1>1, DoublesMoved DEF PutGraphic, IInv
<1>3. On(scr, WriteAt(c))
  BY WriteAtIsOn DEF IInv
<1>4. On(scr, Advance(WriteAt(c), dbl'))
  BY <1>3, AdvanceIsOn DEF IInv
<1> QED
  BY <1>2, <1>4 DEF PutGraphic

-----------------------------------------------------------------------------
(* Restoring a cursor, and leaving the alternate buffer.                   *)

LEMMA RestoredIsOn ==
  ASSUME IInv, NEW s, Sound(s), Careful, Restorable(s),
         NEW c \in CursorShape, NEW d, NEW all \in BOOLEAN,
         s = scr \/ d = NoDoubles
  PROVE  On(s, Restored(c, d, all))
<1>1. CASE saved = {}
  BY <1>1, HomeIsOn DEF Restored
<1>2. CASE saved # {}
  <2> DEFINE was == CHOOSE v \in saved : TRUE
             x == IF d[was.y] /\ was.x >= Half THEN Half - 1 ELSE was.x
             t == IF all THEN was
                  ELSE [c EXCEPT !.x = was.x, !.y = was.y, !.hanging = was.hanging]
  <2>1. was \in saved
    BY <1>2
  <2>2. was \in CursorShape /\ InScreen(s, was)
    BY <2>1 DEF IInv, Restorable
  <2> HIDE DEF was
  <2>3. was.x \in Int /\ was.y \in Int /\ was.hanging \in BOOLEAN
    BY <2>2 DEF CursorShape
  <2>4. t \in CursorShape /\ t.x = was.x /\ t.y = was.y
    <3>1. Put(c, was.x, was.y) \in CursorShape
          /\ Put(c, was.x, was.y).x = was.x /\ Put(c, was.x, was.y).y = was.y
      BY <2>3, PutIs
    <3>2. ~all => t = [Put(c, was.x, was.y) EXCEPT !.hanging = was.hanging]
      BY DEF Put
    <3>3. all => t = was
      OBVIOUS
    <3>4. ~all => t \in CursorShape /\ t.x = was.x /\ t.y = was.y
      BY <2>3, <3>1, <3>2 DEF CursorShape
    <3> QED
      BY <2>2, <3>3, <3>4
  <2>5. x \in 0..(s.w - 1)
    <3>1. scr.w \in Nat /\ 2 <= scr.w
      BY DEF IInv, Sound, ScreenShape
    <3>2. Half \in 1..(scr.w - 1)
      BY <3>1, HalfInside DEF Half
    <3>3. CASE s = scr
      BY <2>2, <3>1, <3>2, <3>3 DEF InScreen
    <3>4. CASE d = NoDoubles
      <4>1. s.h \in Nat /\ s.h <= LineAttrs /\ LineAttrs \in Nat
        BY GeometryAssumption, RowsAssumption DEF Sound, ScreenShape
      <4>2. was.y \in 0..(LineAttrs - 1)
        BY <2>2, <4>1 DEF InScreen
      <4>3. ~d[was.y]
        BY <3>4, <4>2 DEF NoDoubles
      <4> QED
        BY <2>2, <4>3 DEF InScreen
    <3> QED
      BY <3>3, <3>4
  <2>6. Restored(c, d, all) = [t EXCEPT !.x = IF d[t.y] /\ t.x >= Half THEN Half - 1 ELSE t.x]
    BY <1>2 DEF Restored, was
  <2>7. Restored(c, d, all) = [t EXCEPT !.x = x]
    BY <2>4, <2>6
  <2> HIDE DEF t, x
  <2>8. Restored(c, d, all) \in CursorShape /\ Restored(c, d, all).x = x
        /\ Restored(c, d, all).y = was.y
    <3>1. x \in Int
      BY <2>5, <2>2
    <3> QED
      BY <2>4, <2>7, <3>1 DEF CursorShape
  <2> QED
    BY <2>2, <2>5, <2>8 DEF On, InScreen
<1> QED
  BY <1>1, <1>2

LEMMA UnswappedIsSound ==
  ASSUME IInv
  PROVE  /\ Sound(Unswapped)
         /\ ~Resized => Unswapped.w = scr.w /\ Unswapped.h = scr.h
<1>1. CASE backup.w = scr.w /\ backup.h = scr.h
  BY <1>1 DEF IInv, Sound, ScreenShape, Unswapped
<1>2. CASE ~(backup.w = scr.w /\ backup.h = scr.h)
  BY <1>2, SameIsSound DEF IInv, Unswapped, Resized
<1> QED
  BY <1>1, <1>2

-----------------------------------------------------------------------------
(* The inductive invariant.                                                *)

LEMMA InitSound == ASSUME Wide, Init PROVE IInv
<1>1. conf \in Sizes /\ scr = WholeScreen(conf[1], conf[2]) /\ backup = scr
  BY DEF Init
<1>2. Sound(scr)
  BY <1>1, WholeIsSound
<1>3. On(scr, cur)
  BY <1>2, FreshIsOn DEF Init
<1> QED
  BY <1>1, <1>2, <1>3, NoDoublesIsDoubles DEF Init, IInv

(* Steps that only move the cursor and the line attributes.                *)
LEMMA OnlyCursor ==
  ASSUME IInv, UNCHANGED <<scr, saved, alt, backup, conf>>,
         On(scr, cur'), dbl' \in Doubles
  PROVE  IInv'
BY DEF IInv

(* Steps that put the screen into a state to work on.                      *)
LEMMA NewScreen ==
  ASSUME IInv, Sound(scr'), On(scr', cur'), dbl' \in Doubles,
         UNCHANGED <<saved, backup>>, alt' \in BOOLEAN, conf' \in Sizes
  PROVE  IInv'
BY DEF IInv

LEMMA PlaceKeeps == ASSUME IInv, Place PROVE IInv'
<1>1. Sound(scr) /\ dbl \in Doubles /\ cur \in CursorShape
      /\ cur.x \in 0..(scr.w - 1) /\ cur.y \in 0..(scr.h - 1)
  BY DEF IInv, On, InScreen
<1>2. scr.h \in Nat /\ scr.w \in Nat
  BY <1>1 DEF Sound, ScreenShape
<1>3. ASSUME NEW v \in 0..scr.h, NEW u \in 0..scr.w, CursorSet(v, u)
      PROVE  On(scr, cur')
  <2>1. On(scr, SetX(cur, u))
    BY <1>1, <1>2, SetXIsOn
  <2>2. SetX(cur, u) \in CursorShape /\ SetX(cur, u).x \in 0..(scr.w - 1)
    BY <2>1 DEF On, InScreen
  <2>3. On(scr, SetY(scr, SetX(cur, u), v))
    BY <1>1, <1>2, <2>2, SetYIsOn
  <2> QED
    BY <1>3, <2>3 DEF CursorSet
<1>4. ASSUME NEW u \in 0..scr.w, cur' = SetX(cur, u)
      PROVE  On(scr, cur')
  BY <1>1, <1>2, <1>4, SetXIsOn
<1>5. ASSUME NEW v \in 0..scr.h, cur' = SetY(scr, cur, v)
      PROVE  On(scr, cur')
  BY <1>1, <1>2, <1>5, SetYIsOn
<1>6. On(scr, cur')
  BY <1>3, <1>4, <1>5 DEF Place
<1>7. dbl' \in Doubles
  BY <1>1 DEF Place
<1> QED
  BY <1>6, <1>7, OnlyCursor DEF Place

LEMMA MoveKeeps == ASSUME IInv, Move \/ BackSpace PROVE IInv'
<1>1. ASSUME NEW n \in Steps
      PROVE  n \in Int /\ -n \in Int /\ 1 * n \in Int /\ -1 * n \in Int
  BY GeometryAssumption, RowsAssumption
<1>2. ASSUME NEW n \in Steps, Motion(n, 0) \/ Motion(-n, 0) \/ Motion(0, n) \/ Motion(0, -n)
      PROVE  On(scr, cur')
  BY <1>1, <1>2, MotionIsOn
<1>3. ASSUME NEW n \in Steps, NEW d \in {-1, 1}, NEW junk \in BOOLEAN,
             cur' = SetX(Moved(d * n, 0, junk), 0)
      PROVE  On(scr, cur')
  <2>1. d * n \in Int
    BY <1>1
  <2>2. On(scr, Moved(d * n, 0, junk))
    BY <2>1, MovedIsOn
  <2>3. Moved(d * n, 0, junk) \in CursorShape /\ Moved(d * n, 0, junk).y \in 0..(scr.h - 1)
    BY <2>2 DEF On, InScreen
  <2> QED
    BY <1>3, <2>3, SetXIsOn DEF IInv
<1>4. CASE Move
  <2>1. On(scr, cur')
    BY <1>2, <1>3, <1>4 DEF Move
  <2> QED
    BY <1>4, <2>1, OnlyCursor DEF Move, IInv
<1>5. CASE BackSpace
  <2>1. On(scr, cur')
    BY <1>5, MotionIsOn DEF BackSpace
  <2> QED
    BY <1>5, <2>1, OnlyCursor DEF BackSpace, IInv
<1> QED
  BY <1>4, <1>5

LEMMA BackIndexKeeps == ASSUME IInv, NEW n \in Steps, BackIndex(n) PROVE IInv'
<1>1. n \in Nat
  BY GeometryAssumption, RowsAssumption
<1>2. cur \in CursorShape /\ cur.x \in 0..(scr.w - 1) /\ cur.y \in 0..(scr.h - 1)
      /\ scr.w \in Nat
  BY DEF IInv, On, InScreen, Sound, ScreenShape
<1> DEFINE x == IF n <= cur.x THEN cur.x - n ELSE 0
<1>3. x \in 0..(scr.w - 1)
  BY <1>1, <1>2
<1>4. cur' = [cur EXCEPT !.x = x]
  BY DEF BackIndex
<1> HIDE DEF x
<1>5. On(scr, cur')
  BY <1>2, <1>3, <1>4 DEF On, InScreen, CursorShape
<1> QED
  BY <1>5, OnlyCursor DEF BackIndex, IInv

LEMMA ModeKeeps ==
  ASSUME IInv, WrapEnable \/ ReverseWrapEnable \/ TabForward \/ TabReverse
  PROVE  IInv'
<1>1. CASE WrapEnable \/ ReverseWrapEnable
  <2>1. On(scr, cur')
    BY <1>1 DEF WrapEnable, ReverseWrapEnable, IInv, On, InScreen, CursorShape
  <2> QED
    BY <1>1, <2>1, OnlyCursor DEF WrapEnable, ReverseWrapEnable, IInv
<1>2. CASE TabForward \/ TabReverse
  <2>1. On(scr, cur')
    BY <1>2, TabIsOn
  <2> QED
    BY <1>2, <2>1, OnlyCursor DEF TabForward, TabReverse, IInv
<1> QED
  BY <1>1, <1>2

LEMMA OriginKeeps == ASSUME IInv, SetOriginMode PROVE IInv'
<1>1. PICK on \in BOOLEAN : cur' = HomeIn(scr, [cur EXCEPT !.origin = on])
  BY DEF SetOriginMode
<1>2. [cur EXCEPT !.origin = on] \in CursorShape
      /\ [cur EXCEPT !.origin = on].y \in 0..(scr.h - 1)
  BY DEF IInv, On, InScreen, CursorShape
<1>3. On(scr, cur')
  BY <1>1, <1>2, HomeInIsOn DEF IInv
<1> QED
  BY <1>3, OnlyCursor DEF SetOriginMode, IInv

(* Margins on the screen: this is where Slack = 0 is needed.               *)
LEMMA RegionKeeps == ASSUME IInv, Slack = 0, SetScrollingRegion PROVE IInv'
<1>1. scr.h \in Nat /\ Sound(scr)
  BY DEF IInv, Sound, ScreenShape
<1>2. PICK from \in -1..(scr.h - 1), to \in -1..(scr.h - 1) : scr' = Region(from, to)
  BY <1>1 DEF SetScrollingRegion
<1>3. Sound(scr') /\ scr'.w = scr.w
  <2>1. CASE from <= 0 /\ to <= 0
    BY <1>1, <1>2, <2>1, SameIsSound DEF Region, WholeScreen
  <2>2. CASE from >= 0 /\ from < scr.h - 1 /\ to > from
    <3>1. from \in Nat /\ to \in Nat /\ from <= to /\ to < scr.h
      BY <1>1, <2>2
    <3>2. scr' = [scr EXCEPT !.top = from, !.btm = to]
      BY <1>1, <1>2, <2>2 DEF Region
    <3> QED
      BY <1>1, <3>1, <3>2 DEF Sound, ScreenShape
  <2>3. CASE ~(from <= 0 /\ to <= 0) /\ ~(from >= 0 /\ from < scr.h - 1 /\ to > from)
    BY <1>1, <1>2, <2>3 DEF Region
  <2> QED
    BY <2>1, <2>2, <2>3
<1>4. cur \in CursorShape /\ cur.y \in 0..(scr.h - 1)
  BY DEF IInv, On, InScreen
<1>5. On(scr', HomeIn(scr', cur))
  BY <1>1, <1>3, <1>4, HomeInIsOn DEF IInv
<1> QED
  BY <1>3, <1>5, NewScreen DEF SetScrollingRegion, IInv

LEMMA PrintingKeeps == ASSUME IInv, Printing PROVE IInv'
<1>1. LineAttrs \in Nat /\ scr.top \in Int /\ scr.btm \in Int
  BY GeometryAssumption, RowsAssumption DEF IInv, Sound, ScreenShape
<1>2. ASSUME NEW c, On(scr, c), PutGraphic(c)
      PROVE  IInv'
  BY <1>2, PutGraphicIsOn, OnlyCursor DEF PutGraphic
<1>3. CASE PutChar
  <2>1. On(scr, ClearInvalidHanging(cur))
    BY DEF IInv, On, InScreen, CursorShape, ClearInvalidHanging
  <2> QED
    BY <1>2, <1>3, <2>1 DEF PutChar
<1>4. CASE Repeat
  BY <1>2, <1>4 DEF Repeat, IInv
<1>5. CASE CarriageReturn
  <2>1. On(scr, cur')
    BY <1>5, SetXIsOn DEF CarriageReturn, IInv, On, InScreen
  <2> QED
    BY <1>5, <2>1, OnlyCursor DEF CarriageReturn, IInv
<1>6. CASE LineFeed
  <2>1. On(scr, cur')
    BY <1>6, MotionIsOn DEF LineFeed
  <2>2. dbl' \in Doubles
    BY <1>1, <1>6, DoublesMoved DEF LineFeed, IInv
  <2> QED
    BY <1>6, <2>1, <2>2, OnlyCursor DEF LineFeed
<1>7. CASE ReverseIndex
  <2>1. On(scr, cur')
    BY <1>7, MotionIsOn DEF ReverseIndex
  <2>2. dbl' \in Doubles
    BY <1>1, <1>7, DoublesMoved DEF ReverseIndex, IInv
  <2> QED
    BY <1>7, <2>1, <2>2, OnlyCursor DEF ReverseIndex
<1> QED
  BY <1>3, <1>4, <1>5, <1>6, <1>7 DEF Printing

LEMMA LineAttrKeeps == ASSUME IInv, SetLineAttr PROVE IInv'
<1>1. PICK double \in BOOLEAN :
        /\ dbl' = [dbl EXCEPT ![cur.y] = double]
        /\ cur' = [cur EXCEPT !.x = IF double THEN Lower(cur.x, Half) ELSE cur.x]
  BY DEF SetLineAttr
<1>2. /\ scr.w \in Nat /\ 2 <= scr.w /\ cur \in CursorShape
      /\ cur.x \in 0..(scr.w - 1) /\ cur.y \in 0..(scr.h - 1)
  BY DEF IInv, Sound, ScreenShape, On, InScreen
<1>3. Half \in 1..(scr.w - 1)
  BY <1>2, HalfInside DEF Half
<1>4. (IF double THEN Lower(cur.x, Half) ELSE cur.x) \in 0..(scr.w - 1)
  BY <1>2, <1>3 DEF Lower
<1>5. On(scr, cur')
  BY <1>1, <1>2, <1>4 DEF On, InScreen, CursorShape
<1>6. dbl' \in Doubles
  BY <1>1 DEF IInv, Doubles
<1> QED
  BY <1>5, <1>6, OnlyCursor DEF SetLineAttr

(* Lines that move, and erasures that leave the cursor, change only dbl.   *)
LEMMA LinesKeep ==
  ASSUME IInv, Lines \/ (\E n \in Steps : DeleteLines(n)) \/ EraseBelow \/ EraseAbove
  PROVE  IInv'
<1>1. /\ LineAttrs \in Nat /\ LineAttrs - 1 \in Int /\ 0 \in Int
      /\ scr.top \in Int /\ scr.btm \in Int /\ cur.y \in Int
      /\ dbl \in Doubles /\ On(scr, cur)
      /\ \A n \in Steps : n \in Int
  BY GeometryAssumption, RowsAssumption DEF IInv, Sound, ScreenShape, On, CursorShape
<1>2. DOMAIN dbl = 0..(LineAttrs - 1)
  BY <1>1 DEF Doubles
<1>3. ASSUME NEW n \in Steps, InsertLines(n)
      PROVE  dbl' \in Doubles /\ UNCHANGED <<scr, cur, saved, alt, backup, conf>>
  <2> DEFINE A(r) == IF cur.y + n > scr.btm THEN r \notin cur.y..scr.btm /\ dbl[r]
                     ELSE IF r \in (cur.y + n)..scr.btm THEN dbl[r - n]
                     ELSE dbl[r]
  <2>1. dbl' = [r \in 0..(LineAttrs - 1) |-> A(r)]
    BY <1>2, <1>3 DEF InsertLines
  <2>2. scr.btm <= LineAttrs - 1 /\ cur.y >= 0
    BY <1>1 DEF IInv, Sound, ScreenShape, On, InScreen
  <2>3. ASSUME NEW r \in 0..(LineAttrs - 1)
        PROVE  A(r) \in BOOLEAN
    <3>1. n \in Int
      BY <1>1
    <3>2. dbl[r] \in BOOLEAN
      BY <1>1 DEF Doubles
    <3>3. ASSUME r \in (cur.y + n)..scr.btm
          PROVE  dbl[r - n] \in BOOLEAN
      <4>1. r - n \in 0..(LineAttrs - 1)
        BY <1>1, <2>2, <3>1, <3>3, GeometryAssumption, RowsAssumption
      <4> QED
        BY <1>1, <4>1 DEF Doubles
    <3> QED
      BY <3>2, <3>3
  <2> HIDE DEF A
  <2> QED
    BY <1>3, <2>1, <2>3 DEF Doubles, InsertLines
<1>4. ASSUME NEW n \in Steps, ScrollUp(n) \/ ScrollDown(n)
      PROVE  dbl' \in Doubles /\ UNCHANGED <<scr, cur, saved, alt, backup, conf>>
  BY <1>1, <1>4, DoublesMoved DEF ScrollUp, ScrollDown
<1>5. ASSUME NEW n \in Steps, DeleteLines(n)
      PROVE  dbl' \in Doubles /\ UNCHANGED <<scr, cur, saved, alt, backup, conf>>
  BY <1>1, <1>5, DoublesMoved DEF DeleteLines
<1>6. ASSUME EraseBelow \/ EraseAbove
      PROVE  dbl' \in Doubles /\ UNCHANGED <<scr, cur, saved, alt, backup, conf>>
  BY <1>1, <1>6, DoublesMoved DEF EraseBelow, EraseAbove
<1>7. dbl' \in Doubles /\ UNCHANGED <<scr, cur, saved, alt, backup, conf>>
  BY <1>3, <1>4, <1>5, <1>6 DEF Lines
<1> QED
  BY <1>1, <1>7, OnlyCursor

LEMMA ClearKeeps == ASSUME IInv, EraseAll \/ ColumnMode PROVE IInv'
<1>1. Sound(scr) /\ cur \in CursorShape /\ scr.w \in Nat /\ 0 < scr.w
  BY DEF IInv, On, Sound, ScreenShape
<1>2. CASE EraseAll
  <2> DEFINE c == [cur EXCEPT !.x = 0, !.hanging = FALSE]
  <2>1. cur.y \in Int
    BY <1>1 DEF CursorShape
  <2>2. Put(cur, 0, cur.y) \in CursorShape /\ Put(cur, 0, cur.y).x = 0
    BY <1>1, <2>1, PutIs
  <2>3. c = [Put(cur, 0, cur.y) EXCEPT !.hanging = FALSE]
    BY <1>1 DEF Put, CursorShape
  <2>4. c \in CursorShape /\ c.x \in 0..(scr.w - 1)
    BY <1>1, <2>2, <2>3, HangIs
  <2>5. On(scr, SetY(scr, c, 0))
    BY <1>1, <2>4, SetYIsOn
  <2> QED
    BY <1>2, <2>5, NoDoublesIsDoubles, OnlyCursor DEF EraseAll
<1>3. CASE ColumnMode
  <2>1. Sound(scr')
    BY <1>1, <1>3, SameIsSound DEF ColumnMode
  <2>2. On(scr', cur')
    BY <1>1, <1>3, <2>1, HomeIsOn DEF ColumnMode
  <2> QED
    BY <1>3, <2>1, <2>2, NoDoublesIsDoubles, NewScreen DEF ColumnMode, IInv
<1> QED
  BY <1>2, <1>3

LEMMA SaveKeeps == ASSUME IInv, SaveCursor \/ SwapIn \/ AlternateIn PROVE IInv'
<1>1. saved' \subseteq CursorShape
  BY DEF IInv, On, SaveCursor, SwapIn, AlternateIn
<1>2. UNCHANGED <<scr, cur, conf>>
  BY DEF SaveCursor, SwapIn, AlternateIn
<1>3. Sound(backup')
  BY DEF IInv, SaveCursor, SwapIn, AlternateIn, ToAlternate
<1>4. dbl' \in Doubles /\ alt' \in BOOLEAN
  BY NoDoublesIsDoubles DEF IInv, SaveCursor, SwapIn, AlternateIn, ToAlternate
<1> QED
  BY <1>1, <1>2, <1>3, <1>4 DEF IInv

(* A saved cursor fits the screen it is restored on: this is where Careful *)
(* is needed.                                                              *)
LEMMA RestoreKeeps ==
  ASSUME IInv, Careful, NEW all \in BOOLEAN, RestoreCursor(all)
  PROVE  IInv'
<1>1. Sound(scr) /\ cur \in CursorShape /\ Restorable(scr)
  BY DEF IInv, On, RestoreCursor
<1>2. On(scr, Restored(cur, dbl, all))
  BY <1>1, RestoredIsOn
<1> QED
  BY <1>2, OnlyCursor DEF RestoreCursor, IInv

LEMMA SwapOutKeeps == ASSUME IInv, SwapOut PROVE IInv'
<1>1. Sound(scr')
  BY UnswappedIsSound DEF SwapOut
<1>2. CASE Resized
  BY <1>1, <1>2, HomeIsOn, NoDoublesIsDoubles, NewScreen
  DEF SwapOut, ResetOnResize, IInv, On
<1>3. CASE ~Resized
  <2>1. scr'.w = scr.w /\ scr'.h = scr.h /\ cur' = cur /\ dbl' = dbl
    BY <1>3, UnswappedIsSound DEF SwapOut
  <2>2. On(scr', cur')
    BY <2>1 DEF IInv, On, InScreen
  <2> QED
    BY <1>1, <2>1, <2>2, NewScreen DEF SwapOut, IInv
<1> QED
  BY <1>2, <1>3

LEMMA AlternateOutKeeps == ASSUME IInv, Careful, AlternateOut PROVE IInv'
<1> DEFINE c == IF alt /\ Resized THEN ResetOnResize(cur) ELSE cur
<1>1. Sound(scr')
  BY UnswappedIsSound DEF AlternateOut, IInv
<1>2. cur \in CursorShape /\ Sound(scr)
  BY DEF IInv, On
<1>3. c \in CursorShape
  BY <1>2, HomeIsOn DEF ResetOnResize, On
<1> HIDE DEF c
<1>4. On(scr', Restored(c, NoDoubles, TRUE))
  BY <1>1, <1>3, RestoredIsOn DEF AlternateOut
<1>5. cur' = Restored(c, NoDoubles, TRUE)
  BY DEF AlternateOut, c
<1> QED
  BY <1>1, <1>4, <1>5, NoDoublesIsDoubles, NewScreen DEF AlternateOut, IInv

LEMMA SizesKeep ==
  ASSUME IInv, Wide, Resize \/ Reset \/ FillWithE \/ ApplySettings
  PROVE  IInv'
<1>1. CASE Resize
  <2>1. Sound(scr')
    BY <1>1, WholeIsSound DEF Resize
  <2>2. On(scr', cur')
    BY <1>1, <2>1, HomeIsOn DEF Resize, ResetOnResize, IInv, On
  <2> QED
    BY <1>1, <2>1, <2>2, NoDoublesIsDoubles, NewScreen DEF Resize, IInv
<1>2. ASSUME NEW s, ResetTo(s), Sound(WholeScreen(s[1], s[2])), conf' \in Sizes
      PROVE  IInv'
  <2>1. Sound(scr') /\ cur' = FreshCursor
    BY <1>2 DEF ResetTo
  <2>2. On(scr', cur')
    BY <2>1, FreshIsOn
  <2> QED
    BY <1>2, <2>1, <2>2, NoDoublesIsDoubles, NewScreen DEF ResetTo
<1>3. CASE Reset
  BY <1>2, <1>3, WholeIsSound DEF Reset, IInv
<1>4. CASE FillWithE
  <2>1. Sound(WholeScreen(<<scr.w, scr.h>>[1], <<scr.w, scr.h>>[2]))
    BY SameIsSound DEF IInv
  <2> QED
    BY <1>2, <1>4, <2>1 DEF FillWithE, IInv
<1>5. CASE ApplySettings
  BY <1>2, <1>5, WholeIsSound DEF ApplySettings
<1> QED
  BY <1>1, <1>3, <1>4, <1>5

(* Settings are applied without a reset only over their own size: this too *)
(* takes Careful.                                                          *)
LEMMA NoClearKeeps == ASSUME IInv, Careful, ApplySettingsNoClear PROVE IInv'
<1>1. scr \in ScreenShape
  BY DEF IInv, Sound
<1>2. conf[1] = scr.w /\ conf[2] = scr.h
  BY DEF ApplySettingsNoClear
<1>3. scr' = [scr EXCEPT !.w = scr.w, !.h = scr.h]
  BY <1>2 DEF ApplySettingsNoClear
<1>4. scr' = scr
  BY <1>1, <1>3 DEF ScreenShape
<1> QED
  BY <1>4 DEF ApplySettingsNoClear, IInv

LEMMA StepKeeps ==
  ASSUME Wide, Slack = 0, Careful, IInv, [Next]_geo
  PROVE  IInv'
<1>1. CASE UNCHANGED geo
  BY <1>1 DEF geo, IInv
<1>2. CASE Next
  <2>1. ASSUME NEW n \in Steps, BackIndex(n) PROVE IInv'
    BY <2>1, BackIndexKeeps
  <2>2. ASSUME NEW a \in BOOLEAN, RestoreCursor(a) PROVE IInv'
    BY <2>2, RestoreKeeps
  <2>3. CASE Printing \/ Place \/ Move \/ BackSpace
    BY <2>3, PrintingKeeps, PlaceKeeps, MoveKeeps
  <2>4. CASE WrapEnable \/ ReverseWrapEnable \/ TabForward \/ TabReverse
    BY <2>4, ModeKeeps
  <2>5. CASE SetLineAttr \/ SetScrollingRegion \/ SetOriginMode
    BY <2>5, LineAttrKeeps, RegionKeeps, OriginKeeps
  <2>6. CASE Lines \/ (\E n \in Steps : DeleteLines(n)) \/ Erase
    BY <2>6, LinesKeep, ClearKeeps DEF Erase
  <2>7. CASE SaveCursor \/ SwapIn \/ AlternateIn
    BY <2>7, SaveKeeps
  <2>8. CASE SwapOut \/ AlternateOut
    BY <2>8, SwapOutKeeps, AlternateOutKeeps
  <2>9. CASE Resize \/ Reset \/ FillWithE \/ ApplySettings
    BY <2>9, SizesKeep
  <2>10. CASE ApplySettingsNoClear
    BY <2>10, NoClearKeeps
  <2> QED
    BY <1>2, <2>1, <2>2, <2>3, <2>4, <2>5, <2>6, <2>7, <2>8, <2>9, <2>10 DEF Next, NextOf
<1> QED
  BY <1>1, <1>2

-----------------------------------------------------------------------------
(* The theorems.                                                           *)

THEOREM Soundness ==
  ASSUME Wide, Slack = 0, Careful
  PROVE  Spec => []IInv
<1>1. Init => IInv
  BY InitSound
<1>2. IInv /\ [Next]_geo => IInv'
  BY StepKeeps
<1> QED
  BY <1>1, <1>2, PTL DEF Spec

(* Every variable of the geometry keeps its type.                          *)
THEOREM TypesKept ==
  ASSUME Wide, Slack = 0, Careful
  PROVE  Spec => []GeoTypeOK
<1>1. IInv => GeoTypeOK
  BY DEF IInv, GeoTypeOK, Sound, On, Doubles
<1> QED
  BY <1>1, Soundness, PTL

(* The cell the cursor is on is a cell of the screen after every sequence  *)
(* of operations of user/screen.c.                                         *)
THEOREM CursorStays ==
  ASSUME Wide, Slack = 0, Careful
  PROVE  Spec => []CursorInScreen
<1>1. IInv => CursorInScreen
  BY DEF IInv, On, CursorInScreen
<1> QED
  BY <1>1, Soundness, PTL

(* So are the rows of the scrolling region, now and after the alternate    *)
(* buffer is left.                                                         *)
THEOREM RegionStays ==
  ASSUME Wide, Slack = 0, Careful
  PROVE  Spec => []RegionInScreen
<1>1. IInv => RegionInScreen
  BY DEF IInv, Sound, RegionInScreen
<1> QED
  BY <1>1, Soundness, PTL

-----------------------------------------------------------------------------
(* Motion and the margins.                                                 *)

LEMMA MovedIsInside ==
  ASSUME IInv, Inside(scr, cur), NEW dy \in Int, NEW dx \in Int, NEW junk \in BOOLEAN
  PROVE  Inside(scr, Moved(dy, dx, junk))
<1> DEFINE c0 == ClearInvalidHanging(cur)
           c1 == [c0 EXCEPT !.y = c0.y + dy, !.hanging = c0.hanging /\ dx >= 0]
           c2 == MoveX(c1, dx, junk)
<1>1. c0 \in CursorShape
  BY DEF IInv, On, CursorShape, ClearInvalidHanging
<1> HIDE DEF c0
<1>2. c0.x \in Int /\ c0.y + dy \in Int
  BY <1>1 DEF CursorShape
<1>3. Put(c0, c0.x, c0.y + dy) \in CursorShape
  BY <1>1, <1>2, PutIs
<1>4. c1 = [Put(c0, c0.x, c0.y + dy) EXCEPT !.hanging = c0.hanging /\ dx >= 0]
  BY <1>1 DEF Put, CursorShape
<1>5. c1 \in CursorShape
  BY <1>3, <1>4 DEF CursorShape
<1> HIDE DEF c1
<1>6. c2 \in CursorShape
  BY <1>5, MoveXIsInLine DEF IInv
<1> HIDE DEF c2
<1>7. /\ scr.top \in Nat /\ scr.btm \in Nat /\ scr.top <= scr.btm
      /\ c2.y \in Int
  BY <1>6 DEF IInv, Sound, ScreenShape, CursorShape
<1>8. Inside(scr, ConfineY(c2, TRUE))
  BY <1>6, <1>7 DEF ConfineY, Inside, Lower, CursorShape
<1> QED
  BY <1>8 DEF Moved, c0, c1, c2

LEMMA WrittenIsInside ==
  ASSUME IInv, NEW c, On(scr, c), Inside(scr, c), PutGraphic(c)
  PROVE  Inside(scr, cur')
<1>1. /\ scr.top \in Nat /\ scr.btm \in Nat
      /\ c \in CursorShape /\ c.y \in Int
      /\ scr.top <= c.y /\ c.y <= scr.btm
  BY DEF IInv, Sound, ScreenShape, On, CursorShape, Inside
<1>2. WriteAt(c).y = IF Wraps(c) THEN Lower(c.y + 1, scr.btm) ELSE c.y
  BY <1>1 DEF WriteAt, CursorShape
<1>3. scr.top <= WriteAt(c).y /\ WriteAt(c).y <= scr.btm
  BY <1>1, <1>2 DEF Lower
<1>4. WriteAt(c) \in CursorShape
  BY WriteAtIsOn DEF IInv, On
<1>5. cur'.y = WriteAt(c).y
  BY <1>4 DEF PutGraphic, Advance, CursorShape
<1> QED
  BY <1>3, <1>5 DEF Inside

LEMMA MotionKeepsInside ==
  ASSUME IInv, Inside(scr, cur),
         Printing \/ Move \/ BackSpace \/ TabForward \/ TabReverse
  PROVE  Inside(scr', cur')
<1>1. cur \in CursorShape /\ cur.y \in 0..(scr.h - 1) /\ On(scr, cur)
  BY DEF IInv, On, InScreen
<1>2. ASSUME NEW dy \in Int, NEW dx \in Int, Motion(dy, dx)
      PROVE  Inside(scr, cur')
  BY <1>2, MovedIsInside DEF Motion
<1>3. CASE PutChar
  <2>1. On(scr, ClearInvalidHanging(cur)) /\ ClearInvalidHanging(cur).y = cur.y
    BY <1>1 DEF On, InScreen, CursorShape, ClearInvalidHanging
  <2>2. Inside(scr, ClearInvalidHanging(cur))
    BY <2>1 DEF Inside
  <2> QED
    BY <1>3, <2>1, <2>2, WrittenIsInside DEF PutChar, PutGraphic
<1>4. CASE Repeat
  BY <1>1, <1>4, WrittenIsInside DEF Repeat, PutGraphic
<1>5. CASE CarriageReturn
  <2>1. cur'.y = cur.y
    BY <1>1, <1>5, SetXIsOn DEF CarriageReturn, IInv
  <2> QED
    BY <1>5, <2>1 DEF CarriageReturn, Inside
<1>6. CASE LineFeed \/ ReverseIndex \/ BackSpace
  BY <1>2, <1>6 DEF LineFeed, ReverseIndex, BackSpace
<1>7. CASE Move
  <2>1. \A n \in Steps : n \in Int /\ -n \in Int /\ 1 * n \in Int /\ -1 * n \in Int
    BY GeometryAssumption, RowsAssumption
  <2>2. ASSUME NEW n \in Steps,
               Motion(n, 0) \/ Motion(-n, 0) \/ Motion(0, n) \/ Motion(0, -n)
        PROVE  Inside(scr, cur')
    BY <1>2, <2>1, <2>2
  <2>3. ASSUME NEW n \in Steps, NEW d \in {-1, 1}, NEW junk \in BOOLEAN,
               cur' = SetX(Moved(d * n, 0, junk), 0)
        PROVE  Inside(scr, cur')
    <3>1. d * n \in Int
      BY <2>1
    <3>2. On(scr, Moved(d * n, 0, junk)) /\ Inside(scr, Moved(d * n, 0, junk))
      BY <3>1, MovedIsOn, MovedIsInside
    <3>3. /\ Moved(d * n, 0, junk) \in CursorShape
          /\ Moved(d * n, 0, junk).y \in 0..(scr.h - 1)
      BY <3>2 DEF On, InScreen
    <3>4. cur'.y = Moved(d * n, 0, junk).y
      BY <2>3, <3>3, SetXIsOn DEF IInv
    <3> QED
      BY <3>2, <3>4 DEF Inside
  <2> QED
    BY <1>7, <2>2, <2>3 DEF Move
<1>8. CASE TabForward \/ TabReverse
  <2>1. cur'.y = cur.y
    BY <1>1, <1>8 DEF TabForward, TabReverse, CursorShape
  <2> QED
    BY <1>8, <2>1 DEF TabForward, TabReverse, Inside
<1> QED
  BY <1>3, <1>4, <1>5, <1>6, <1>7, <1>8 DEF Printing

(* Relative motion, printing and line feeds never take the cursor out of   *)
(* the scrolling region, whatever the region, the modes and the arguments. *)
THEOREM MotionStays ==
  ASSUME Wide, Slack = 0, Careful
  PROVE  Spec => MotionConfined
<1>1. IInv => [(Printing \/ Move \/ BackSpace \/ TabForward \/ TabReverse)
                 /\ Inside(scr, cur) => Inside(scr', cur')]_geo
  BY MotionKeepsInside
<1> QED
  BY <1>1, Soundness, PTL DEF MotionConfined

-----------------------------------------------------------------------------
(* Origin mode.                                                            *)

LEMMA SetYIsInside ==
  ASSUME NEW s, Sound(s), NEW v \in Nat, NEW c \in CursorShape, c.origin
  PROVE  Inside(s, SetY(s, c, v))
<1>1. s.top \in Nat /\ s.btm \in Nat /\ s.top <= s.btm
  BY DEF Sound, ScreenShape
<1>2. SetY(s, c, v).y = Lower(v + s.top, s.btm)
  BY DEF SetY, CursorShape
<1> QED
  BY <1>1, <1>2 DEF Lower, Inside

LEMMA HomeInIsInside ==
  ASSUME Sound(scr), dbl \in Doubles, NEW s, Sound(s),
         NEW c \in CursorShape, c.y \in 0..(scr.h - 1), c.origin
  PROVE  Inside(s, HomeIn(s, c))
<1>1. SetX(c, 0) \in CursorShape /\ SetX(c, 0).origin
  BY SetXIsOn DEF On
<1> QED
  BY <1>1, SetYIsInside DEF HomeIn

(* The operations that take the cursor home, to row 0 of a whole screen.   *)
LEMMA HomeIsInside ==
  ASSUME NEW s, Sound(s), s.top = 0, NEW c \in CursorShape
  PROVE  Inside(s, CursorHome(c))
<1>1. s.btm \in Nat
  BY DEF Sound, ScreenShape
<1>2. CursorHome(c).y = 0
  BY DEF CursorHome, CursorShape
<1> QED
  BY <1>1, <1>2 DEF Inside

LEMMA StepInOrigin ==
  ASSUME Wide, Slack = 0, Careful, IInv, IInv', Next,
         cur.origin, cur'.origin, Inside(scr, cur),
         ~SwapOut, ~AlternateOut, \A a \in BOOLEAN : ~RestoreCursor(a)
  PROVE  Inside(scr', cur')
<1>1. /\ Sound(scr) /\ Sound(scr') /\ dbl \in Doubles
      /\ cur \in CursorShape /\ cur.y \in 0..(scr.h - 1)
      /\ scr.h \in Nat /\ scr.w \in Nat
  BY DEF IInv, On, InScreen, Sound, ScreenShape
<1>2. CASE Printing \/ Move \/ BackSpace \/ TabForward \/ TabReverse
  BY <1>2, MotionKeepsInside
<1>3. CASE Place
  <2>1. ASSUME NEW v \in 0..scr.h, NEW u \in 0..scr.w, CursorSet(v, u)
        PROVE  Inside(scr, cur')
    <3>1. SetX(cur, u) \in CursorShape /\ SetX(cur, u).origin
      BY <1>1, SetXIsOn DEF On
    <3> QED
      BY <1>1, <2>1, <3>1, SetYIsInside DEF CursorSet
  <2>2. ASSUME NEW u \in 0..scr.w, cur' = SetX(cur, u)
        PROVE  Inside(scr, cur')
    <3>1. cur'.y = cur.y
      BY <1>1, <2>2, SetXIsOn
    <3> QED
      BY <3>1 DEF Inside
  <2>3. ASSUME NEW v \in 0..scr.h, cur' = SetY(scr, cur, v)
        PROVE  Inside(scr, cur')
    BY <1>1, <2>3, SetYIsInside
  <2> QED
    BY <1>3, <2>1, <2>2, <2>3 DEF Place
<1>4. CASE SetScrollingRegion
  BY <1>1, <1>4, HomeInIsInside DEF SetScrollingRegion
<1>5. CASE SetOriginMode
  <2>1. PICK on \in BOOLEAN : cur' = HomeIn(scr, [cur EXCEPT !.origin = on])
    BY <1>5 DEF SetOriginMode
  <2> DEFINE c == [cur EXCEPT !.origin = on]
  <2>2. c \in CursorShape /\ c.y \in 0..(scr.h - 1) /\ c.origin = on
    BY <1>1 DEF CursorShape
  <2>3. on = TRUE
    <3>1. SetX(c, 0) \in CursorShape /\ SetX(c, 0).origin = on
      BY <1>1, <2>2, SetXIsOn DEF On
    <3>2. cur'.origin = on
      BY <2>1, <3>1 DEF HomeIn, SetY, CursorShape
    <3> QED
      BY <3>2
  <2>4. Inside(scr, cur')
    BY <1>1, <2>1, <2>2, <2>3, HomeInIsInside
  <2> QED
    BY <1>5, <2>4 DEF SetOriginMode
<1>6. CASE EraseAll
  <2> DEFINE c == [cur EXCEPT !.x = 0, !.hanging = FALSE]
  <2>1. c \in CursorShape /\ c.origin
    <3>1. cur.y \in Int
      BY <1>1
    <3>2. Put(cur, 0, cur.y) \in CursorShape
      BY <1>1, <3>1, PutIs
    <3>3. c = [Put(cur, 0, cur.y) EXCEPT !.hanging = FALSE]
      BY <1>1 DEF Put, CursorShape
    <3>4. c \in CursorShape
      BY <3>2, <3>3, HangIs
    <3>5. c.origin
      BY <1>1 DEF CursorShape
    <3> QED
      BY <3>4, <3>5
  <2> QED
    BY <1>1, <1>6, <2>1, SetYIsInside DEF EraseAll
<1>7. CASE ColumnMode \/ Resize
  <2>1. scr'.top = 0 /\ cur' = CursorHome(cur)
    BY <1>7 DEF ColumnMode, Resize, WholeScreen, ResetOnResize
  <2> QED
    BY <1>1, <2>1, HomeIsInside
<1>8. CASE Reset \/ FillWithE \/ ApplySettings
  <2>1. cur' = FreshCursor
    BY <1>8 DEF Reset, FillWithE, ApplySettings, ResetTo
  <2>2. ~cur'.origin
    BY <2>1 DEF FreshCursor
  <2> QED
    BY <2>2
<1>9. CASE ApplySettingsNoClear
  <2>1. scr'.top = scr.top /\ scr'.btm = scr.btm /\ cur' = cur
    BY <1>1, <1>9 DEF ApplySettingsNoClear, Sound, ScreenShape
  <2> QED
    BY <2>1 DEF Inside
<1>10. CASE SetLineAttr \/ WrapEnable \/ ReverseWrapEnable \/ \E n \in Steps : BackIndex(n)
  <2>1. cur'.y = cur.y /\ scr' = scr
    BY <1>1, <1>10 DEF SetLineAttr, WrapEnable, ReverseWrapEnable, BackIndex, CursorShape
  <2> QED
    BY <2>1 DEF Inside
<1>11. CASE \/ Lines \/ (\E n \in Steps : DeleteLines(n)) \/ EraseBelow \/ EraseAbove
            \/ SaveCursor \/ SwapIn \/ AlternateIn
  <2>1. UNCHANGED <<scr, cur>>
    BY <1>11 DEF Lines, InsertLines, ScrollUp, ScrollDown, DeleteLines, EraseBelow,
                 EraseAbove, SaveCursor, SwapIn, AlternateIn
  <2> QED
    BY <2>1
<1> QED
  BY <1>2, <1>3, <1>4, <1>5, <1>6, <1>7, <1>8, <1>9, <1>10, <1>11 DEF Next, NextOf, Erase

(* While origin mode is on, nothing but restoring a saved cursor or        *)
(* leaving the alternate buffer takes the cursor out of the region.        *)
THEOREM OriginStays ==
  ASSUME Wide, Slack = 0, Careful
  PROVE  Spec => OriginConfined
<1> DEFINE A == cur.origin /\ cur'.origin /\ Inside(scr, cur) =>
                  Inside(scr', cur') \/ SwapOut \/ AlternateOut
                  \/ \E a \in BOOLEAN : RestoreCursor(a)
<1>1. IInv /\ IInv' /\ [Next]_geo => [A]_geo
  BY StepInOrigin
<1> QED
  BY <1>1, Soundness, PTL DEF Spec, OriginConfined

-----------------------------------------------------------------------------
(* The cells that use a slot, and how many they are.                       *)

Symbols == Slots \cup Ascii
Characters == Glyphs \cup {" "}
Fillers == {" ", "E"}
AllCells == 0..(MaxCells - 1)
Caches == [Slots -> [bytes : Glyphs \cup {NoBytes}, count : Nat]]
Bufs == [cells : [AllCells -> Symbols], cache : Caches]

UsesIn(c, U, s) == {p \in U : c[p] = s}
Count(c, U, s) == Cardinality(UsesIn(c, U, s))
Counted(k, c, U) == \A s \in Slots : k[s].count = Count(c, U, s)

(* A count is that of the uses among the cells of U.                       *)
Exact(b, U) == b \in Bufs /\ U \subseteq AllCells /\ Counted(b.cache, b.cells, U)

LEMMA AllCellsIs == MaxCells \in Nat /\ AllCells \subseteq Nat /\ AllCells \subseteq Int
<1>1. MaxCells \in Nat
  BY CellsAssumption
<1> QED BY <1>1 DEF AllCells

LEMMA CellsFinite ==
  ASSUME NEW U, U \subseteq AllCells
  PROVE  IsFiniteSet(U) /\ Cardinality(U) \in Nat /\ Cardinality(U) <= MaxCells
<1>1. MaxCells \in Nat
  BY CellsAssumption
<1>2. IsFiniteSet(AllCells) /\ Cardinality(AllCells) = MaxCells
  BY <1>1, FS_Interval DEF AllCells
<1>3. U \in SUBSET AllCells
  OBVIOUS
<1> QED BY <1>2, <1>3, FS_Subset, FS_CardinalityType

LEMMA CountIs ==
  ASSUME NEW U, U \subseteq AllCells, NEW c, NEW s
  PROVE  /\ IsFiniteSet(UsesIn(c, U, s))
         /\ Count(c, U, s) \in Nat /\ Count(c, U, s) < CountMod
         /\ Count(c, U, s) = 0 <=> \A p \in U : c[p] # s
<1> DEFINE V == UsesIn(c, U, s)
<1>1. V \subseteq AllCells
  BY DEF UsesIn
<1>2. IsFiniteSet(V) /\ Cardinality(V) \in Nat /\ Cardinality(V) <= MaxCells
  <2> HIDE DEF V
  <2> QED BY <1>1, CellsFinite
<1>3. Cardinality(V) = 0 <=> V = {}
  BY <1>2, FS_EmptySet
<1>4. V = {} <=> \A p \in U : c[p] # s
  BY DEF UsesIn
<1>5. MaxCells \in Nat /\ MaxCells < CountMod /\ CountMod \in Nat
  BY CellsAssumption
<1> HIDE DEF V
<1>6. Cardinality(V) < CountMod
  BY <1>2, <1>5
<1> QED BY <1>2, <1>3, <1>4, <1>6 DEF V, Count

LEMMA CountWithout ==
  ASSUME NEW U, U \subseteq AllCells, NEW c, NEW s, NEW p \in U
  PROVE  Count(c, U \ {p}, s) = IF c[p] = s THEN Count(c, U, s) - 1 ELSE Count(c, U, s)
<1> DEFINE V == UsesIn(c, U, s)
<1>1. UsesIn(c, U \ {p}, s) = V \ {p} /\ (p \in V <=> c[p] = s)
  BY DEF UsesIn
<1>2. IsFiniteSet(V)
  BY CountIs
<1>3. Cardinality(V \ {p}) = IF p \in V THEN Cardinality(V) - 1 ELSE Cardinality(V)
  <2> HIDE DEF V
  <2> QED BY <1>2, FS_RemoveElement
<1> QED BY <1>1, <1>3 DEF Count

LEMMA CountWith ==
  ASSUME NEW U, U \subseteq AllCells, NEW c, NEW s, NEW p, p \notin U
  PROVE  Count(c, U \cup {p}, s) = IF c[p] = s THEN Count(c, U, s) + 1 ELSE Count(c, U, s)
<1> DEFINE V == UsesIn(c, U, s)
<1>1. /\ UsesIn(c, U \cup {p}, s) = IF c[p] = s THEN V \cup {p} ELSE V
      /\ p \notin V
  BY DEF UsesIn
<1>2. IsFiniteSet(V)
  BY CountIs
<1>3. Cardinality(V \cup {p}) = IF p \in V THEN Cardinality(V) ELSE Cardinality(V) + 1
  <2> HIDE DEF V
  <2> QED BY <1>2, FS_AddElement
<1> QED BY <1>1, <1>3 DEF Count

(* Only the cells of U matter.                                             *)
LEMMA CountSame ==
  ASSUME NEW U, NEW c, NEW d, \A p \in U : c[p] = d[p], NEW s
  PROVE  Count(c, U, s) = Count(d, U, s)
<1>1. UsesIn(c, U, s) = UsesIn(d, U, s)
  BY DEF UsesIn
<1> QED BY <1>1 DEF Count

(* Cells that hold no slot count for nothing.                              *)
LEMMA CountBlanks ==
  ASSUME NEW U, NEW W, U \subseteq W, NEW c, NEW s, \A p \in W \ U : c[p] # s
  PROVE  Count(c, U, s) = Count(c, W, s)
<1>1. UsesIn(c, U, s) = UsesIn(c, W, s)
  BY DEF UsesIn
<1> QED BY <1>1 DEF Count

(* Two parts of U that hold the same, d places apart, stand for each other.*)
Alike(c, U, A, B, d) ==
  /\ U \subseteq AllCells /\ A \subseteq U /\ B \subseteq U /\ A \cap B = {}
  /\ d \in Int
  /\ \A p \in A : p + d \in B /\ c[p + d] = c[p]
  /\ \A p \in B : p - d \in A

Exchanged(c, U, A, B) == \A s : Count(c, U \ B, s) = Count(c, U \ A, s)

LEMMA CountExchanged ==
  ASSUME NEW c, NEW U, NEW A, NEW B, NEW d, Alike(c, U, A, B, d)
  PROVE  Exchanged(c, U, A, B)
<1> SUFFICES ASSUME NEW s PROVE Count(c, U \ B, s) = Count(c, U \ A, s)
  BY DEF Exchanged
<1> DEFINE S == UsesIn(c, U \ B, s)
           T == UsesIn(c, U \ A, s)
           f == [p \in S |-> IF p \in A THEN p + d ELSE p]
<1>1. AllCells \subseteq Int
  BY AllCellsIs
<1>2. ASSUME NEW p \in S PROVE f[p] \in T
  BY <1>1 DEF UsesIn, Alike
<1>3. ASSUME NEW p \in S, NEW q \in S, f[p] = f[q] PROVE p = q
  BY <1>1, <1>3 DEF UsesIn, Alike
<1>4. ASSUME NEW q \in T PROVE \E p \in S : f[p] = q
  <2>1. CASE q \in B
    <3>1. q - d \in A /\ c[q - d + d] = c[q - d] /\ q - d + d = q
      BY <1>1, <2>1 DEF UsesIn, Alike
    <3>2. q - d \in S
      BY <3>1 DEF UsesIn, Alike
    <3> QED BY <3>1, <3>2
  <2>2. CASE q \notin B
    BY <2>2 DEF UsesIn
  <2> QED BY <2>1, <2>2
<1>5. f \in Bijection(S, T)
  <2>1. f \in [S -> T]
    BY <1>2
  <2> HIDE DEF S, T, f
  <2> QED BY <1>3, <1>4, <2>1 DEF Bijection, Injection, Surjection, IsInjective
<1>6. IsFiniteSet(S)
  <2>1. U \ B \subseteq AllCells
    BY DEF Alike
  <2> QED BY <2>1, CountIs
<1> HIDE DEF S, T, f
<1>7. Cardinality(T) = Cardinality(S)
  BY <1>5, <1>6, FS_Bijection DEF ExistsBijection
<1> QED BY <1>7 DEF S, T, Count

-----------------------------------------------------------------------------
(* The counters.                                                           *)

LEMMA SlotsAre ==
  /\ CountMod \in Nat /\ CountMod # 0
  /\ \A s \in Slots : s \notin Ascii /\ s # " " /\ s # "?" /\ s # "E"
<1>1. CountMod \in Nat /\ MaxCells \in Nat /\ MaxCells < CountMod
  BY CellsAssumption
<1>2. Slots \cap Ascii = {}
  BY CellsAssumption
<1>3. \A s \in Slots : s \notin Ascii
  BY <1>2
<1>4. \A s \in Slots : s # " " /\ s # "?" /\ s # "E"
  BY <1>3 DEF Ascii
<1>5. CountMod # 0
  BY <1>1
<1> QED BY <1>1, <1>3, <1>4, <1>5

LEMMA NextNat == \A m \in Nat : m + 1 \in Nat
OBVIOUS

LEMMA ModNat == \A m \in Nat, n \in Nat \ {0} : m % n \in Nat
OBVIOUS

LEMMA ModSmall ==
  ASSUME NEW m \in Nat, NEW n \in Nat, n < m
  PROVE  n % m = n
OBVIOUS

LEMMA CacheIs ==
  ASSUME NEW k \in Caches, NEW s \in Slots
  PROVE  k[s].count \in Nat /\ k[s].bytes \in Glyphs \cup {NoBytes}
BY DEF Caches

(* A counter, set to n.                                                    *)
WithCount(k, r, n) == [k EXCEPT ![r].count = n]

LEMMA WithCountIs ==
  ASSUME NEW k \in Caches, NEW r \in Slots, NEW n \in Nat
  PROVE  /\ WithCount(k, r, n) \in Caches
         /\ \A s \in Slots : WithCount(k, r, n)[s].count = IF s = r THEN n ELSE k[s].count
BY DEF WithCount, Caches

LEMMA RemoveIs ==
  ASSUME NEW k \in Caches, NEW r
  PROVE  /\ Remove(k, r) \in Caches
         /\ \A s \in Slots : Remove(k, r)[s].count =
              IF s = r /\ k[s].count # 0 THEN k[s].count - 1 ELSE k[s].count
<1>1. CASE IsRef(r) /\ k[r].count # 0
  <2> DEFINE n == k[r].count - 1
  <2>1. r \in Slots /\ n \in Nat
    BY <1>1, CacheIs DEF IsRef
  <2>2. Remove(k, r) = WithCount(k, r, n)
    BY <1>1 DEF Remove, WithCount
  <2> HIDE DEF n
  <2>3. /\ Remove(k, r) \in Caches
        /\ \A s \in Slots : Remove(k, r)[s].count = IF s = r THEN n ELSE k[s].count
    BY <2>1, <2>2, WithCountIs
  <2> QED BY <1>1, <2>3 DEF n
<1>2. CASE ~(IsRef(r) /\ k[r].count # 0)
  BY <1>2 DEF Remove, IsRef
<1> QED BY <1>1, <1>2

LEMMA IncIs ==
  ASSUME NEW k \in Caches, NEW r, r \in Slots => k[r].count + 1 < CountMod
  PROVE  /\ Inc(k, r) \in Caches
         /\ \A s \in Slots : Inc(k, r)[s].count =
              IF s = r /\ k[s].count # 0 THEN k[s].count + 1 ELSE k[s].count
<1>1. CASE IsRef(r) /\ k[r].count # 0
  <2> DEFINE n == k[r].count + 1
  <2>1. r \in Slots /\ n \in Nat
    BY <1>1, CacheIs DEF IsRef
  <2>2. n % CountMod = n
    BY <2>1, SlotsAre, ModSmall
  <2>3. Inc(k, r) = WithCount(k, r, n)
    BY <1>1, <2>2 DEF Inc, WithCount
  <2> HIDE DEF n
  <2>4. /\ Inc(k, r) \in Caches
        /\ \A s \in Slots : Inc(k, r)[s].count = IF s = r THEN n ELSE k[s].count
    BY <2>1, <2>3, WithCountIs
  <2> QED BY <1>1, <2>4 DEF n
<1>2. CASE ~(IsRef(r) /\ k[r].count # 0)
  BY <1>2 DEF Inc, IsRef
<1> QED BY <1>1, <1>2

LEMMA IncTyped ==
  ASSUME NEW k \in Caches, NEW r
  PROVE  Inc(k, r) \in Caches
<1>1. CASE IsRef(r) /\ k[r].count # 0
  <2> DEFINE m == k[r].count
             n == (m + 1) % CountMod
  <2>1. r \in Slots /\ m \in Nat
    BY <1>1, CacheIs DEF IsRef
  <2>2. n \in Nat
    <3> HIDE DEF m
    <3>1. m + 1 \in Nat /\ CountMod \in Nat \ {0}
      BY <2>1, SlotsAre, NextNat, Zenon
    <3> QED BY <3>1, ModNat, Zenon
  <2>3. Inc(k, r) = WithCount(k, r, n)
    BY <1>1 DEF Inc, WithCount
  <2> HIDE DEF n
  <2> QED BY <2>1, <2>2, <2>3, WithCountIs
<1>2. CASE ~(IsRef(r) /\ k[r].count # 0)
  BY <1>2 DEF Inc
<1> QED BY <1>1, <1>2

(* A glyph gets the slot it has, or one without uses.                      *)
LEMMA AddIs ==
  ASSUME NEW k \in Caches, NEW c \in Characters,
         \A s \in Slots : k[s].count + 1 < CountMod
  PROVE  /\ Add(k, c) \in Caches
         /\ AddedRef(k, c) \in Symbols
         /\ \A s \in Slots : Add(k, c)[s].count =
              IF s = AddedRef(k, c) THEN k[s].count + 1 ELSE k[s].count
<1>1. CASE c \in Ascii \/ Full(k, c)
  BY <1>1, SlotsAre DEF Add, AddedRef, Symbols, Ascii
<1>2. CASE ~(c \in Ascii \/ Full(k, c))
  <2> DEFINE r == SlotFor(k, c)
             m == k[r].count
             n == m + 1
             v == [bytes |-> c, count |-> n]
  <2>1. r \in Slots
    BY <1>2 DEF Full, SlotFor, First, Holding, Unused
  <2>2. m \in Nat
    <3> HIDE DEF r
    <3> QED BY <2>1, CacheIs
  <2>10. n \in Nat
    <3> HIDE DEF m
    <3> QED BY <2>2, NextNat, Zenon
  <2>8. n % CountMod = n
    <3> HIDE DEF r
    <3> QED BY <2>1, <2>2, <2>10, SlotsAre, ModSmall
  <2>3. Add(k, c) = [k EXCEPT ![r] = v]
    <3>1. Add(k, c) = [k EXCEPT ![r] = [bytes |-> c, count |-> n % CountMod]]
      BY <1>2 DEF Add
    <3> QED BY <2>8, <3>1
  <2>4. AddedRef(k, c) = r
    BY <1>2 DEF AddedRef
  <2>5. c \in Glyphs
    BY <1>2 DEF Ascii, Characters
  <2> HIDE DEF r, n
  <2>9. v \in [bytes : Glyphs \cup {NoBytes}, count : Nat] /\ v.count = n
    BY <2>5, <2>10
  <2> HIDE DEF v
  <2>6. Add(k, c) \in Caches
    BY <2>1, <2>3, <2>9 DEF Caches
  <2>7. \A s \in Slots : Add(k, c)[s].count = IF s = r THEN n ELSE k[s].count
    BY <2>1, <2>3, <2>9 DEF Caches
  <2> QED BY <2>1, <2>2, <2>4, <2>6, <2>7 DEF Symbols, n
<1> QED BY <1>1, <1>2

-----------------------------------------------------------------------------
(* One cell.                                                               *)

LEMMA BufIs ==
  ASSUME NEW b \in Bufs, NEW k \in Caches
  PROVE  /\ b.cells \in [AllCells -> Symbols] /\ b.cache \in Caches
         /\ [b EXCEPT !.cache = k] \in Bufs
         /\ [b EXCEPT !.cache = k].cells = b.cells /\ [b EXCEPT !.cache = k].cache = k
BY DEF Bufs

LEMMA CellsIs ==
  ASSUME NEW b \in Bufs, NEW c \in [AllCells -> Symbols]
  PROVE  /\ [b EXCEPT !.cells = c] \in Bufs
         /\ [b EXCEPT !.cells = c].cells = c /\ [b EXCEPT !.cells = c].cache = b.cache
BY DEF Bufs

LEMMA FreeOne ==
  ASSUME NEW b, NEW U, Exact(b, U), NEW p \in U
  PROVE  Exact(FreeCell(b, p), U \ {p}) /\ FreeCell(b, p).cells = b.cells
<1> DEFINE k == Remove(b.cache, b.cells[p])
           c == b.cells
<1>1. b \in Bufs /\ U \subseteq AllCells /\ b.cache \in Caches /\ Counted(b.cache, c, U)
  BY DEF Exact, Bufs
<1>2. /\ k \in Caches
      /\ \A s \in Slots : k[s].count =
           IF s = c[p] /\ b.cache[s].count # 0 THEN b.cache[s].count - 1 ELSE b.cache[s].count
  BY <1>1, RemoveIs
<1>3. FreeCell(b, p) = [b EXCEPT !.cache = k]
  BY DEF FreeCell
<1> HIDE DEF k
<1>4. FreeCell(b, p) \in Bufs /\ FreeCell(b, p).cells = c /\ FreeCell(b, p).cache = k
  BY <1>1, <1>2, <1>3, BufIs
<1>5. ASSUME NEW s \in Slots PROVE k[s].count = Count(c, U \ {p}, s)
  <2>1. b.cache[s].count = Count(c, U, s)
    BY <1>1 DEF Counted
  <2>2. c[p] = s => Count(c, U, s) # 0
    BY <1>1, CountIs
  <2>3. Count(c, U \ {p}, s) = IF c[p] = s THEN Count(c, U, s) - 1 ELSE Count(c, U, s)
    <3> HIDE DEF c
    <3>1. U \subseteq AllCells
      BY <1>1
    <3> QED BY ONLY <3>1, CountWithout
  <2> QED BY <1>2, <2>1, <2>2, <2>3
<1> QED BY <1>1, <1>4, <1>5 DEF Exact, Counted

(* A cell that is counted once more shares its symbol with one that is.    *)
LEMMA BackupOne ==
  ASSUME NEW b, NEW U, Exact(b, U), NEW p \in AllCells, p \notin U,
         \E q \in U : b.cells[q] = b.cells[p]
  PROVE  Exact(BackupCell(b, p), U \cup {p}) /\ BackupCell(b, p).cells = b.cells
<1> DEFINE k == Inc(b.cache, b.cells[p])
           c == b.cells
<1>1. /\ b \in Bufs /\ U \subseteq AllCells /\ b.cache \in Caches /\ Counted(b.cache, c, U)
      /\ U \cup {p} \subseteq AllCells
  BY DEF Exact, Bufs
<1>2. ASSUME NEW s \in Slots
      PROVE  /\ b.cache[s].count = Count(c, U, s)
             /\ c[p] = s => Count(c, U, s) # 0
             /\ Count(c, U \cup {p}, s) = IF c[p] = s THEN Count(c, U, s) + 1 ELSE Count(c, U, s)
             /\ Count(c, U \cup {p}, s) < CountMod
  <2>1. b.cache[s].count = Count(c, U, s)
    BY <1>1 DEF Counted
  <2>2. c[p] = s => Count(c, U, s) # 0
    BY <1>1, CountIs
  <2>3. Count(c, U \cup {p}, s) = IF c[p] = s THEN Count(c, U, s) + 1 ELSE Count(c, U, s)
    BY <1>1, CountWith
  <2>4. Count(c, U \cup {p}, s) < CountMod
    BY <1>1, CountIs
  <2> QED BY <2>1, <2>2, <2>3, <2>4
<1>3. /\ k \in Caches
      /\ \A s \in Slots : k[s].count =
           IF s = c[p] /\ b.cache[s].count # 0 THEN b.cache[s].count + 1 ELSE b.cache[s].count
  <2>1. c[p] \in Slots => b.cache[c[p]].count + 1 < CountMod
    BY <1>2
  <2> QED BY <1>1, <2>1, IncIs
<1>4. BackupCell(b, p) = [b EXCEPT !.cache = k]
  BY DEF BackupCell
<1> HIDE DEF k
<1>5. BackupCell(b, p) \in Bufs /\ BackupCell(b, p).cells = c /\ BackupCell(b, p).cache = k
  BY <1>1, <1>3, <1>4, BufIs
<1>6. \A s \in Slots : k[s].count = Count(c, U \cup {p}, s)
  BY <1>2, <1>3
<1> QED BY <1>1, <1>5, <1>6 DEF Exact, Counted

(* Other cells than those of U may change.                                 *)
LEMMA ExactOthers ==
  ASSUME NEW b, NEW U, Exact(b, U), NEW c \in [AllCells -> Symbols],
         \A p \in U : c[p] = b.cells[p]
  PROVE  Exact([b EXCEPT !.cells = c], U)
<1>1. b \in Bufs /\ U \subseteq AllCells /\ Counted(b.cache, b.cells, U)
  BY DEF Exact
<1> DEFINE d == [b EXCEPT !.cells = c]
<1>2. d \in Bufs /\ d.cells = c /\ d.cache = b.cache
  BY <1>1, CellsIs
<1> HIDE DEF d
<1>3. \A s \in Slots : Count(c, U, s) = Count(b.cells, U, s)
  BY CountSame
<1>4. Counted(d.cache, d.cells, U)
  BY <1>1, <1>2, <1>3 DEF Counted
<1>5. Exact(d, U)
  BY <1>1, <1>2, <1>4 DEF Exact
<1> QED BY <1>5 DEF d

LEMMA CopyOne ==
  ASSUME NEW b, NEW U, Exact(b, U), NEW p \in AllCells, NEW q \in AllCells, p \notin U
  PROVE  /\ Exact(CopyCell(b, p, q), U)
         /\ CopyCell(b, p, q).cells = [b.cells EXCEPT ![p] = b.cells[q]]
<1> DEFINE c == [b.cells EXCEPT ![p] = b.cells[q]]
<1>1. b \in Bufs /\ b.cells \in [AllCells -> Symbols] /\ U \subseteq AllCells
  BY DEF Exact, Bufs
<1>2. c \in [AllCells -> Symbols] /\ \A r \in U : c[r] = b.cells[r]
  BY <1>1
<1>3. CopyCell(b, p, q) = [b EXCEPT !.cells = c]
  BY DEF CopyCell
<1> HIDE DEF c
<1>4. Exact(CopyCell(b, p, q), U) /\ CopyCell(b, p, q).cells = c
  BY <1>1, <1>2, <1>3, ExactOthers, CellsIs
<1> QED BY <1>4 DEF c

LEMMA MoveOne ==
  ASSUME NEW b, NEW U, Exact(b, U), NEW p \in U, NEW q \in U, p # q
  PROVE  Exact(MoveCell(b, p, q), U)
<1> DEFINE d == FreeCell(b, p)
           e == CopyCell(d, p, q)
<1>1. U \subseteq AllCells /\ p \in AllCells /\ q \in AllCells /\ p \notin U \ {p} /\ q \in U \ {p}
  BY DEF Exact
<1>2. Exact(d, U \ {p})
  BY FreeOne
<1>3. Exact(e, U \ {p}) /\ e.cells = [d.cells EXCEPT ![p] = d.cells[q]]
  <2> HIDE DEF d
  <2> QED BY <1>1, <1>2, CopyOne
<1>4. d.cells \in [AllCells -> Symbols]
  BY <1>2 DEF Exact, Bufs
<1>5. e.cells[q] = e.cells[p]
  BY <1>1, <1>3, <1>4
<1> HIDE DEF e
<1>6. Exact(BackupCell(e, p), (U \ {p}) \cup {p})
  BY <1>1, <1>3, <1>5, BackupOne
<1>7. (U \ {p}) \cup {p} = U
  OBVIOUS
<1> QED BY <1>6, <1>7 DEF MoveCell, e

-----------------------------------------------------------------------------
(* Ranges of cells.                                                        *)

Span(p, n) == p..(p + n - 1)

(* The buffers after each turn of the loop.                                *)
LEMMA FreeCellsRun ==
  ASSUME NEW b \in Bufs, NEW p \in Int, NEW n \in Nat
  PROVE  \E f :
           /\ f[0] = b /\ \A k \in 1..n : f[k] = FreeCell(f[k - 1], p + k - 1)
           /\ FreeCells(b, p, n) = f[n]
<1> DEFINE F == [k \in Nat |-> [c \in Bufs |-> FreeCell(c, p + k - 1)]]
           f[k \in 0..n] == IF k = 0 THEN b ELSE FreeCell(f[k - 1], p + k - 1)
<1>1. ASSUME NEW c \in Bufs, NEW q PROVE FreeCell(c, q) \in Bufs
  <2>1. c.cache \in Caches
    BY DEF Bufs
  <2>2. Remove(c.cache, c.cells[q]) \in Caches
    BY <2>1, RemoveIs
  <2> QED BY <2>2, BufIs DEF FreeCell
<1>2. F \in [Nat -> [Bufs -> Bufs]]
  BY <1>1
<1>3. PICK h : IsRunTo(h, n, Bufs, b, F)
  <2> HIDE DEF F
  <2> QED BY <1>2, Recursion
<1>4. h = [k \in 0..n |-> IF k = 0 THEN b ELSE FreeCell(h[k - 1], p + k - 1)]
  <2>1. ASSUME NEW k \in 1..n PROVE h[k] = FreeCell(h[k - 1], p + k - 1)
    <3>1. h[k - 1] \in Bufs /\ k \in Nat
      BY <1>3 DEF IsRunTo
    <3>2. F[k][h[k - 1]] = FreeCell(h[k - 1], p + k - 1)
      BY <3>1
    <3> HIDE DEF F
    <3> QED BY <1>3, <3>2 DEF IsRunTo
  <2> HIDE DEF F
  <2>2. \A k \in 0..n : k = 0 \/ k \in 1..n
    OBVIOUS
  <2> QED BY <1>3, <2>1, <2>2 DEF IsRunTo
<1>5. f = [k \in 0..n |-> IF k = 0 THEN b ELSE FreeCell(f[k - 1], p + k - 1)]
  BY <1>4, Zenon
<1>6. FreeCells(b, p, n) = f[n]
  BY DEF FreeCells, Loop
<1> HIDE DEF f, F
<1>7. f[0] = b /\ \A k \in 1..n : f[k] = FreeCell(f[k - 1], p + k - 1)
  BY <1>5
<1> QED BY <1>6, <1>7, Zenon

LEMMA FreeCellsIs ==
  ASSUME NEW b, NEW U, Exact(b, U), NEW p \in Int, NEW n \in Nat, Span(p, n) \subseteq U
  PROVE  Exact(FreeCells(b, p, n), U \ Span(p, n)) /\ FreeCells(b, p, n).cells = b.cells
<1>7. PICK f :
        /\ f[0] = b /\ \A k \in 1..n : f[k] = FreeCell(f[k - 1], p + k - 1)
        /\ FreeCells(b, p, n) = f[n]
  <2>1. b \in Bufs
    BY DEF Exact
  <2> QED BY ONLY <2>1, p \in Int, n \in Nat, FreeCellsRun
<1> DEFINE T == {k \in 0..n : Exact(f[k], U \ Span(p, k)) /\ f[k].cells = b.cells}
<1>8. 0 \in T
  <2>1. U \ Span(p, 0) = U
    BY DEF Span
  <2>2. Exact(f[0], U \ Span(p, 0)) /\ f[0].cells = b.cells
    BY <1>7, <2>1
  <2> QED BY <2>2
<1>9. ASSUME NEW k \in 1..n, k - 1 \in T PROVE k \in T
  <2> DEFINE q == p + k - 1
             V == U \ Span(p, k - 1)
  <2>1. q \in V /\ V \ {q} = U \ Span(p, k)
    BY DEF Span
  <2>2. Exact(f[k - 1], V) /\ f[k - 1].cells = b.cells
    BY <1>9
  <2>3. f[k] = FreeCell(f[k - 1], q)
    BY <1>7
  <2> HIDE DEF q, V, T
  <2>4. Exact(f[k], V \ {q}) /\ f[k].cells = b.cells
    BY <2>1, <2>2, <2>3, FreeOne
  <2> QED BY <2>1, <2>4 DEF T
<1>10. n \in T
  <2> HIDE DEF T
  <2> QED BY <1>8, <1>9, TurnByTurn
<1> QED BY <1>7, <1>10

(* The buffers after each turn of the loop.                                *)
LEMMA BackupCellsRun ==
  ASSUME NEW b \in Bufs, NEW p \in Int, NEW n \in Nat
  PROVE  \E f :
           /\ f[0] = b /\ \A k \in 1..n : f[k] = BackupCell(f[k - 1], p + k - 1)
           /\ BackupCells(b, p, n) = f[n]
<1> DEFINE F == [k \in Nat |-> [c \in Bufs |-> BackupCell(c, p + k - 1)]]
           f[k \in 0..n] == IF k = 0 THEN b ELSE BackupCell(f[k - 1], p + k - 1)
<1>1. ASSUME NEW c \in Bufs, NEW q PROVE BackupCell(c, q) \in Bufs
  <2>1. c.cache \in Caches
    BY DEF Bufs
  <2>2. Inc(c.cache, c.cells[q]) \in Caches
    BY <2>1, IncTyped
  <2> QED BY <2>2, BufIs DEF BackupCell
<1>2. F \in [Nat -> [Bufs -> Bufs]]
  BY <1>1
<1>3. PICK h : IsRunTo(h, n, Bufs, b, F)
  <2> HIDE DEF F
  <2> QED BY <1>2, Recursion
<1>4. h = [k \in 0..n |-> IF k = 0 THEN b ELSE BackupCell(h[k - 1], p + k - 1)]
  <2>1. ASSUME NEW k \in 1..n PROVE h[k] = BackupCell(h[k - 1], p + k - 1)
    <3>1. h[k - 1] \in Bufs /\ k \in Nat
      BY <1>3 DEF IsRunTo
    <3>2. F[k][h[k - 1]] = BackupCell(h[k - 1], p + k - 1)
      BY <3>1
    <3> HIDE DEF F
    <3> QED BY <1>3, <3>2 DEF IsRunTo
  <2> HIDE DEF F
  <2>2. \A k \in 0..n : k = 0 \/ k \in 1..n
    OBVIOUS
  <2> QED BY <1>3, <2>1, <2>2 DEF IsRunTo
<1>5. f = [k \in 0..n |-> IF k = 0 THEN b ELSE BackupCell(f[k - 1], p + k - 1)]
  BY <1>4, Zenon
<1>6. BackupCells(b, p, n) = f[n]
  BY DEF BackupCells, Loop
<1> HIDE DEF f, F
<1>7. f[0] = b /\ \A k \in 1..n : f[k] = BackupCell(f[k - 1], p + k - 1)
  BY <1>5
<1> QED BY <1>6, <1>7, Zenon

LEMMA BackupCellsIs ==
  ASSUME NEW b, NEW U, Exact(b, U), NEW p \in Int, NEW n \in Nat,
         Span(p, n) \subseteq AllCells, Span(p, n) \cap U = {},
         \A q \in Span(p, n) : \E r \in U : b.cells[r] = b.cells[q]
  PROVE  Exact(BackupCells(b, p, n), U \cup Span(p, n))
<1>7. PICK f :
        /\ f[0] = b /\ \A k \in 1..n : f[k] = BackupCell(f[k - 1], p + k - 1)
        /\ BackupCells(b, p, n) = f[n]
  <2>1. b \in Bufs
    BY DEF Exact
  <2> QED BY ONLY <2>1, p \in Int, n \in Nat, BackupCellsRun
<1> DEFINE T == {k \in 0..n : Exact(f[k], U \cup Span(p, k)) /\ f[k].cells = b.cells}
<1>8. 0 \in T
  <2>1. U \cup Span(p, 0) = U
    BY DEF Span
  <2>2. Exact(f[0], U \cup Span(p, 0)) /\ f[0].cells = b.cells
    BY <1>7, <2>1
  <2> QED BY <2>2
<1>9. ASSUME NEW k \in 1..n, k - 1 \in T PROVE k \in T
  <2> DEFINE q == p + k - 1
             V == U \cup Span(p, k - 1)
  <2>1. q \in Span(p, n) /\ q \notin V /\ V \cup {q} = U \cup Span(p, k) /\ U \subseteq V
    BY DEF Span
  <2>2. Exact(f[k - 1], V) /\ f[k - 1].cells = b.cells
    BY <1>9
  <2>3. f[k] = BackupCell(f[k - 1], q)
    BY <1>7
  <2> HIDE DEF q, V, T
  <2>4. q \in AllCells /\ \E r \in V : b.cells[r] = b.cells[q]
    BY <2>1
  <2>5. \E r \in V : f[k - 1].cells[r] = f[k - 1].cells[q]
    BY <2>2, <2>4
  <2>6. Exact(f[k], V \cup {q}) /\ f[k].cells = b.cells
    <3> DEFINE e == f[k - 1]
    <3> HIDE DEF e
    <3>1. Exact(e, V) /\ e.cells = b.cells /\ f[k] = BackupCell(e, q)
      BY <2>2, <2>3 DEF e
    <3>2. \E r \in V : e.cells[r] = e.cells[q]
      BY <2>5 DEF e
    <3> QED BY <2>1, <2>4, <3>1, <3>2, BackupOne
  <2>7. Exact(f[k], U \cup Span(p, k)) /\ f[k].cells = b.cells
    BY <2>1, <2>6
  <2> QED BY <2>7 DEF T
<1>10. n \in T
  <2> HIDE DEF T
  <2> QED BY <1>8, <1>9, TurnByTurn
<1> QED BY <1>7, <1>10

(* Cells that were not counted may get any symbol that is no slot.         *)
LEMMA Blanked ==
  ASSUME NEW b, NEW U, Exact(b, U), NEW V, V \subseteq AllCells, V \cap U = {},
         NEW c \in [AllCells -> Symbols],
         \A p \in U : c[p] = b.cells[p], \A p \in V : c[p] \notin Slots
  PROVE  Exact([b EXCEPT !.cells = c], U \cup V)
<1> DEFINE d == [b EXCEPT !.cells = c]
<1>1. Exact(d, U) /\ d.cells = c
  BY ExactOthers, CellsIs DEF Exact
<1> HIDE DEF d
<1>2. \A s \in Slots : Count(c, U, s) = Count(c, U \cup V, s)
  <2> SUFFICES ASSUME NEW s \in Slots PROVE Count(c, U, s) = Count(c, U \cup V, s)
    OBVIOUS
  <2> DEFINE W == U \cup V
  <2>1. U \subseteq W /\ \A p \in W \ U : c[p] # s
    OBVIOUS
  <2> HIDE DEF W
  <2>2. Count(c, U, s) = Count(c, W, s)
    BY ONLY <2>1, CountBlanks
  <2> QED BY <2>2 DEF W
<1>3. d \in Bufs /\ U \cup V \subseteq AllCells /\ Counted(d.cache, d.cells, U \cup V)
  BY <1>1, <1>2 DEF Exact, Counted
<1>4. Exact(d, U \cup V)
  BY <1>3 DEF Exact
<1> QED BY <1>4 DEF d

-----------------------------------------------------------------------------
(* The screen among the cells.                                             *)

OnScreen == 0..(At(scr.h, 0) - 1)
Fits == /\ scr.w \in Nat \ {0} /\ scr.h \in Nat \ {0}
        /\ At(scr.h, 0) \in Nat /\ At(scr.h, 0) <= MaxCells

LEMMA Times ==
  ASSUME NEW w \in Nat, NEW y \in Nat, NEW z \in Nat, y < z
  PROVE  /\ y * w \in Nat /\ z * w \in Nat /\ y * w + w <= z * w
         /\ (y + 1) * w = y * w + w
<1>1. (y + 1) * w = y * w + w /\ y + 1 <= z
  OBVIOUS
<1>2. y * w \in Nat /\ z * w \in Nat /\ (y + 1) * w <= z * w
  BY <1>1
<1> QED BY <1>1, <1>2

LEMMA OnScreenIs ==
  ASSUME Fits
  PROVE  /\ OnScreen \subseteq AllCells /\ OnScreen \subseteq Nat
         /\ \A p \in OnScreen : p <= At(scr.h, 0) - 1
<1>1. MaxCells \in Nat
  BY CellsAssumption
<1> QED BY <1>1 DEF Fits, OnScreen, AllCells

LEMMA RowIs ==
  ASSUME Fits, NEW y \in 0..(scr.h - 1)
  PROVE  /\ At(y, 0) \in Nat /\ Row(y) = Span(At(y, 0), scr.w)
         /\ Row(y) \subseteq OnScreen /\ Row(y) \subseteq AllCells
         /\ At(y + 1, 0) = At(y, 0) + scr.w /\ At(y + 1, 0) <= At(scr.h, 0)
         /\ \A x \in 0..(scr.w - 1) : At(y, x) \in Row(y) /\ At(y, x) = At(y, 0) + x
         /\ \A z \in 0..(scr.h - 1) : z # y => Row(z) \cap Row(y) = {}
<1> DEFINE w == scr.w  h == scr.h
<1>1. w \in Nat \ {0} /\ h \in Nat \ {0} /\ y \in 0..(h - 1)
  BY DEF Fits
<1>2. /\ At(y, 0) = y * w + 0 /\ At(y, w - 1) = y * w + (w - 1)
      /\ At(y + 1, 0) = (y + 1) * w + 0 /\ At(h, 0) = h * w + 0
  BY DEF At
<1>3. /\ y * w \in Nat /\ h * w \in Nat /\ y * w + w <= h * w
      /\ (y + 1) * w = y * w + w
  <2> HIDE DEF w, h
  <2>1. y \in Nat /\ w \in Nat /\ h \in Nat /\ y < h
    BY <1>1
  <2> QED BY ONLY <2>1, Times
<1>5. /\ At(y, 0) = y * w /\ At(y, w - 1) = y * w + w - 1 /\ At(h, 0) = h * w
      /\ At(y + 1, 0) = y * w + w
  BY <1>1, <1>2, <1>3
<1>6. Row(y) = Span(At(y, 0), w)
  BY <1>1, <1>3, <1>5 DEF Row, Span
<1>7. Row(y) \subseteq OnScreen
  BY <1>1, <1>3, <1>5 DEF Row, OnScreen
<1>8. ASSUME NEW x \in 0..(w - 1) PROVE At(y, x) \in Row(y) /\ At(y, x) = At(y, 0) + x
  BY <1>1, <1>3, <1>5 DEF Row, At
<1>9. ASSUME NEW z \in 0..(h - 1), z # y PROVE Row(z) \cap Row(y) = {}
  <2>1. /\ z * w \in Nat /\ (z < y => z * w + w <= y * w) /\ (y < z => y * w + w <= z * w)
    BY <1>1, <1>3, Times
  <2>2. At(z, 0) = z * w /\ At(z, w - 1) = z * w + w - 1
    BY <1>1, <2>1 DEF At
  <2>3. z < y \/ y < z
    BY <1>1, <1>9
  <2> QED BY <1>1, <1>3, <1>5, <2>1, <2>2, <2>3 DEF Row
<1> QED BY <1>3, <1>5, <1>6, <1>7, <1>8, <1>9, OnScreenIs

(* The cells that are cleared, and counted from then on.                   *)
Cleared(a, z) == a..Lower(z, At(scr.h, 0) - 1)

LEMMA ClearIs ==
  ASSUME Fits, NEW b, NEW U, Exact(b, U), NEW a \in Nat, NEW z \in Int,
         Cleared(a, z) \cap U = {}
  PROVE  Exact(Clear(b, a, z), U \cup Cleared(a, z))
<1> DEFINE V == Cleared(a, z)
           c == [p \in DOMAIN b.cells |-> IF p \in V THEN " " ELSE b.cells[p]]
<1>1. b \in Bufs /\ b.cells \in [AllCells -> Symbols] /\ U \subseteq AllCells
  BY DEF Exact, Bufs
<1>2. At(scr.h, 0) \in Nat
  BY DEF Fits
<1>3. V \subseteq AllCells
  <2>1. V \subseteq OnScreen
    BY <1>2 DEF Cleared, Lower, OnScreen
  <2> QED BY <2>1, OnScreenIs
<1>4. " " \in Symbols /\ " " \notin Slots
  BY SlotsAre DEF Symbols, Ascii
<1>5. Clear(b, a, z) = [b EXCEPT !.cells = c]
  BY DEF Clear, Cleared
<1>6. V \cap U = {}
  OBVIOUS
<1> HIDE DEF V
<1>7. /\ c \in [AllCells -> Symbols]
      /\ \A p \in U : c[p] = b.cells[p]
      /\ \A p \in V : c[p] \notin Slots
  BY <1>1, <1>3, <1>4, <1>6
<1> HIDE DEF c
<1>8. Exact([b EXCEPT !.cells = c], U \cup V)
  BY <1>3, <1>6, <1>7, Blanked
<1> QED BY <1>5, <1>8 DEF V

LEMMA ClearUtfIs ==
  ASSUME Fits, NEW b, Exact(b, OnScreen), NEW a \in OnScreen, NEW z \in Int, a <= z
  PROVE  Exact(ClearUtf(b, a, z), OnScreen)
<1> DEFINE n == Lower(z, At(scr.h, 0) - 1) - a + 1
           V == Cleared(a, z)
           d == FreeCells(b, a, n)
<1>1. At(scr.h, 0) \in Nat /\ a \in Nat /\ a <= At(scr.h, 0) - 1
  BY OnScreenIs DEF Fits
<1>2. n \in Nat /\ V = Span(a, n) /\ V \subseteq OnScreen
  BY <1>1 DEF Cleared, Lower, OnScreen, Span
<1>3. ClearUtf(b, a, z) = Clear(d, a, z)
  BY DEF ClearUtf
<1> HIDE DEF n, V
<1>4. Exact(d, OnScreen \ V)
  BY <1>1, <1>2, FreeCellsIs
<1> HIDE DEF d
<1>5. V \cap (OnScreen \ V) = {} /\ (OnScreen \ V) \cup V = OnScreen
  BY <1>2
<1>6. Exact(Clear(d, a, z), (OnScreen \ V) \cup V)
  BY <1>1, <1>4, <1>5, ClearIs DEF V
<1> QED BY <1>3, <1>5, <1>6

(* One row, and several of them.                                           *)
LEMMA ClearRowIs ==
  ASSUME Fits, NEW b, NEW y \in 0..(scr.h - 1), Exact(b, OnScreen \ Row(y))
  PROVE  Exact(ClearRows(b, y, y), OnScreen)
<1> DEFINE a == At(y, 0)  z == At(y + 1, 0) - 1
<1>1. /\ a \in Nat /\ At(y + 1, 0) = a + scr.w /\ At(y + 1, 0) <= At(scr.h, 0)
      /\ Row(y) = Span(a, scr.w) /\ Row(y) \subseteq OnScreen
  BY RowIs
<1>2. scr.w \in Nat /\ At(scr.h, 0) \in Nat
  BY DEF Fits
<1>3. z \in Int /\ Cleared(a, z) = Row(y)
  BY <1>1, <1>2 DEF Cleared, Lower, Span
<1>4. ClearRows(b, y, y) = Clear(b, a, z)
  BY DEF ClearRows
<1> HIDE DEF a, z
<1>5. (OnScreen \ Row(y)) \cup Row(y) = OnScreen /\ Row(y) \cap (OnScreen \ Row(y)) = {}
  BY <1>1
<1>6. Exact(Clear(b, a, z), (OnScreen \ Row(y)) \cup Row(y))
  BY <1>1, <1>3, <1>5, ClearIs
<1> QED BY <1>4, <1>5, <1>6

LEMMA ClearRowsUtfIs ==
  ASSUME Fits, NEW b, Exact(b, OnScreen),
         NEW y \in 0..(scr.h - 1), NEW z \in 0..(scr.h - 1), y <= z
  PROVE  Exact(ClearRowsUtf(b, y, z), OnScreen)
<1> DEFINE p == At(y, 0)  q == At(z + 1, 0) - 1
<1>1. scr.w \in Nat \ {0} /\ scr.h \in Nat
  BY DEF Fits
<1>2. p \in Row(y) /\ Row(y) \subseteq OnScreen
  BY <1>1, RowIs
<1>3. At(z, 0) \in Nat /\ At(z + 1, 0) = At(z, 0) + scr.w /\ p \in Nat
  BY RowIs
<1>4. p <= At(z, 0)
  <2>1. y \in Nat /\ z \in Nat /\ (y = z \/ y < z)
    OBVIOUS
  <2>2. At(y, 0) = y * scr.w + 0 /\ At(z, 0) = z * scr.w + 0
    BY DEF At
  <2>3. y < z => y * scr.w + 0 \in Nat /\ z * scr.w + 0 \in Nat /\ y * scr.w + scr.w <= z * scr.w
    BY <1>1, <2>1, Times
  <2> HIDE DEF p
  <2>4. CASE y = z
    BY <1>3, <2>4 DEF p
  <2>5. CASE y < z
    BY <1>1, <1>3, <2>2, <2>3, <2>5 DEF p
  <2> QED BY <2>1, <2>4, <2>5
<1>5. q \in Int /\ p <= q
  BY <1>1, <1>3, <1>4
<1>6. ClearRowsUtf(b, y, z) = ClearUtf(b, p, q)
  BY DEF ClearRowsUtf
<1> HIDE DEF p, q
<1> QED BY <1>2, <1>5, <1>6, ClearUtfIs

-----------------------------------------------------------------------------
(* Moving rows and cells.                                                  *)

(* What is copied to a row, and where it came from.                        *)
Copied(c, e, to, from) ==
  LET d == At(to, 0) - At(from, 0)
  IN  /\ d \in Int
      /\ \A p \in Row(from) : p + d \in Row(to) /\ e[p + d] = c[p] /\ e[p] = c[p]
      /\ \A p \in Row(to) : p - d \in Row(from)

LEMMA CopyRowIs ==
  ASSUME Fits, NEW b, NEW U, Exact(b, U),
         NEW to \in 0..(scr.h - 1), NEW from \in 0..(scr.h - 1), to # from,
         Row(to) \cap U = {}
  PROVE  /\ Exact(CopyRow(b, to, from), U)
         /\ Copied(b.cells, CopyRow(b, to, from).cells, to, from)
<1> DEFINE s == At(to, 0)  t == At(from, 0)  d == s - t
           c == [p \in DOMAIN b.cells |->
                   IF p \in Row(to) THEN b.cells[p - s + t] ELSE b.cells[p]]
<1>1. b \in Bufs /\ b.cells \in [AllCells -> Symbols] /\ U \subseteq AllCells
  BY DEF Exact, Bufs
<1>2. /\ s \in Nat /\ Row(to) = Span(s, scr.w) /\ Row(to) \subseteq AllCells
      /\ t \in Nat /\ Row(from) = Span(t, scr.w) /\ Row(from) \subseteq AllCells
      /\ Row(from) \cap Row(to) = {}
  BY RowIs
<1>3. scr.w \in Nat
  BY DEF Fits
<1>4. CopyRow(b, to, from) = [b EXCEPT !.cells = c]
  BY DEF CopyRow
<1> HIDE DEF s, t
<1>5. d \in Int
  BY <1>2
<1>6. ASSUME NEW p \in Row(to)
      PROVE  p - s + t \in Row(from) /\ p - d \in Row(from)
  BY <1>2, <1>3 DEF Span
<1>7. ASSUME NEW p \in Row(from) PROVE p + d \in Row(to) /\ p \in Int
  BY <1>2, <1>3 DEF Span
<1> HIDE DEF d
<1>8. c \in [AllCells -> Symbols] /\ \A p \in U : c[p] = b.cells[p]
  <2>1. ASSUME NEW p \in AllCells
        PROVE  (IF p \in Row(to) THEN b.cells[p - s + t] ELSE b.cells[p]) \in Symbols
    BY <1>1, <1>2, <1>6
  <2> QED BY <1>1, <2>1
<1>9. ASSUME NEW p \in Row(from) PROVE c[p + d] = b.cells[p] /\ c[p] = b.cells[p]
  <2> DEFINE q == p + d
  <2>1. q \in Row(to) /\ q - s + t = p
    BY <1>2, <1>7 DEF d
  <2> HIDE DEF q
  <2>2. c[q] = b.cells[p]
    BY <1>1, <1>2, <2>1
  <2>3. c[p] = b.cells[p]
    BY <1>1, <1>2
  <2> QED BY <2>2, <2>3 DEF q
<1> HIDE DEF c
<1>10. Exact([b EXCEPT !.cells = c], U) /\ [b EXCEPT !.cells = c].cells = c
  BY <1>1, <1>8, ExactOthers, CellsIs
<1>11. Copied(b.cells, c, to, from)
  BY <1>5, <1>6, <1>7, <1>9 DEF Copied, d, s, t
<1> QED BY <1>4, <1>10, <1>11

LEMMA MoveRowIs ==
  ASSUME Fits, NEW b, Exact(b, OnScreen),
         NEW to \in 0..(scr.h - 1), NEW from \in 0..(scr.h - 1), to # from
  PROVE  /\ Exact(MoveRow(b, to, from, FALSE), OnScreen)
         /\ Exact(MoveRow(b, to, from, TRUE), OnScreen \ Row(from))
<1> DEFINE A == Row(from)  B == Row(to)  U == OnScreen
           d == FreeRow(b, to)
           e == CopyRow(d, to, from)
           n == At(to, 0) - At(from, 0)
<1>1. /\ At(to, 0) \in Nat /\ B = Span(At(to, 0), scr.w) /\ scr.w \in Nat
      /\ A \subseteq U /\ B \subseteq U /\ A \cap B = {} /\ U \subseteq AllCells
  BY RowIs, OnScreenIs DEF Fits
<1>2. /\ MoveRow(b, to, from, TRUE) = e
      /\ MoveRow(b, to, from, FALSE) = BackupCells(e, At(to, 0), scr.w)
  BY DEF MoveRow, BackupRow
<1>3. Exact(d, U \ B)
  <2>1. FreeRow(b, to) = FreeCells(b, At(to, 0), scr.w)
    BY DEF FreeRow
  <2> HIDE DEF A, B, U
  <2> QED BY <1>1, <2>1, FreeCellsIs DEF U
<1> HIDE DEF d
<1>4. Exact(e, U \ B) /\ Copied(d.cells, e.cells, to, from)
  <2>1. B \cap (U \ B) = {}
    OBVIOUS
  <2> QED BY <1>3, <2>1, CopyRowIs
<1> HIDE DEF e
<1>5. /\ n \in Int
      /\ \A p \in A : p + n \in B /\ e.cells[p + n] = e.cells[p]
      /\ \A p \in B : p - n \in A
  BY <1>4 DEF Copied
<1> HIDE DEF A, B, U, n
<1>6. Exact(e, U \ A)
  <2>1. \A s \in Slots : Count(e.cells, U \ B, s) = Count(e.cells, U \ A, s)
    <3> DEFINE c == e.cells
    <3>1. Alike(c, U, A, B, n)
      BY <1>1, <1>5 DEF Alike
    <3> HIDE DEF c
    <3>2. Exchanged(c, U, A, B)
      BY <3>1, CountExchanged
    <3> QED BY <3>2 DEF Exchanged, c
  <2>2. U \ A \subseteq AllCells
    BY <1>1
  <2> QED BY <1>4, <2>1, <2>2 DEF Exact, Counted
<1>7. Exact(BackupCells(e, At(to, 0), scr.w), U)
  <2>1. \A q \in B : \E r \in U \ B : e.cells[r] = e.cells[q]
    <3> SUFFICES ASSUME NEW q \in B PROVE \E r \in U \ B : e.cells[r] = e.cells[q]
      OBVIOUS
    <3>1. q \in Int
      BY <1>1, AllCellsIs
    <3>2. q - n \in A /\ q - n + n = q
      BY <1>5, <3>1
    <3> QED BY <1>1, <1>5, <3>2
  <2>2. B \cap (U \ B) = {} /\ (U \ B) \cup B = U /\ B \subseteq AllCells
    BY <1>1
  <2>3. Exact(BackupCells(e, At(to, 0), scr.w), (U \ B) \cup B)
    BY <1>1, <1>4, <2>1, <2>2, BackupCellsIs
  <2> QED BY <2>2, <2>3
<1> QED BY <1>2, <1>6, <1>7 DEF U, A

(* Cells that each get what is n places ahead of them.                     *)
LEMMA MoveCellsIs ==
  ASSUME Fits, NEW b, Exact(b, OnScreen),
         NEW p \in Int, NEW d \in {1, -1}, NEW n \in Nat \ {0}, NEW m \in Nat,
         \A k \in 1..m : p + d * (k - 1) \in OnScreen /\ p + d * (k - 1 + n) \in OnScreen
  PROVE  Exact(MoveCells(b, p, d, n, m), OnScreen)
<1> DEFINE U == OnScreen
           S == {c \in Bufs : Exact(c, U)}
           to(k) == p + d * (k - 1)
           from(k) == p + d * (k - 1 + n)
           F == [k \in Nat |-> [c \in S |-> IF k \in 1..m THEN MoveCell(c, to(k), from(k)) ELSE c]]
           f[k \in 0..m] == IF k = 0 THEN b ELSE MoveCell(f[k - 1], to(k), from(k))
<1>1. b \in S
  BY DEF Exact
<1>2. ASSUME NEW k \in 1..m PROVE to(k) \in U /\ from(k) \in U /\ to(k) # from(k)
  <2>1. to(k) \in U /\ from(k) \in U
    OBVIOUS
  <2>2. d = 1 => to(k) = p + k - 1 /\ from(k) = p + k - 1 + n
    OBVIOUS
  <2>3. d = -1 => to(k) = p - k + 1 /\ from(k) = p - k + 1 - n
    OBVIOUS
  <2> HIDE DEF to, from
  <2> QED BY <2>1, <2>2, <2>3
<1>3. MoveCells(b, p, d, n, m) = f[m]
  BY DEF MoveCells, Loop
<1> HIDE DEF to, from, U
<1>4. ASSUME NEW k \in 1..m, NEW c \in S PROVE MoveCell(c, to(k), from(k)) \in S
  <2>1. Exact(MoveCell(c, to(k), from(k)), U)
    BY <1>2, MoveOne
  <2> QED BY <2>1 DEF Exact
<1>5. F \in [Nat -> [S -> S]]
  <2> HIDE DEF S
  <2> QED BY <1>4
<1>6. PICK h : IsRunTo(h, m, S, b, F)
  <2> HIDE DEF F, S
  <2> QED BY <1>1, <1>5, Recursion
<1>7. h = [k \in 0..m |-> IF k = 0 THEN b ELSE MoveCell(h[k - 1], to(k), from(k))]
  <2> HIDE DEF S
  <2>1. ASSUME NEW k \in 1..m PROVE h[k] = MoveCell(h[k - 1], to(k), from(k))
    <3>1. h[k - 1] \in S /\ k \in Nat
      BY <1>6 DEF IsRunTo
    <3>2. F[k][h[k - 1]] = MoveCell(h[k - 1], to(k), from(k))
      BY <3>1
    <3> HIDE DEF F
    <3> QED BY <1>6, <3>2 DEF IsRunTo
  <2> HIDE DEF F
  <2>2. \A k \in 0..m : k = 0 \/ k \in 1..m
    OBVIOUS
  <2> QED BY <1>6, <2>1, <2>2 DEF IsRunTo
<1>8. f = [k \in 0..m |-> IF k = 0 THEN b ELSE MoveCell(f[k - 1], to(k), from(k))]
  BY <1>7, Zenon
<1> HIDE DEF f, F, S
<1>9. f[0] = b /\ \A k \in 1..m : f[k] = MoveCell(f[k - 1], to(k), from(k))
  BY <1>8
<1> DEFINE T == {k \in 0..m : f[k] \in S}
<1>10. 0 \in T
  BY <1>1, <1>9
<1>11. ASSUME NEW k \in 1..m, k - 1 \in T PROVE k \in T
  BY <1>4, <1>9, <1>11
<1>12. m \in T
  <2> HIDE DEF T
  <2> QED BY <1>10, <1>11, TurnByTurn
<1> QED BY <1>3, <1>12 DEF S, U

(* Rows that each get what is in the next one.  In the last turn the row   *)
(* that is copied is not counted once more.                                *)
LEMMA MoveRowsIs ==
  ASSUME Fits, NEW b, Exact(b, OnScreen),
         NEW y \in Int, NEW d \in {1, -1}, NEW m \in Nat \ {0},
         \A k \in 0..m : y + d * k \in 0..(scr.h - 1)
  PROVE  Exact(MoveRows(b, y, d, 1, m), OnScreen \ Row(y + d * m))
<1> DEFINE U == OnScreen
           V == OnScreen \ Row(y + d * m)
           S == {c \in Bufs : Exact(c, U) \/ Exact(c, V)}
           turn(c, k) == MoveRow(c, y + d * (k - 1), y + d * (k - 1 + 1), k = m)
           F == [k \in Nat |-> [c \in S |-> IF k \in 1..m /\ Exact(c, U) THEN turn(c, k) ELSE c]]
           f[k \in 0..m] == IF k = 0 THEN b ELSE turn(f[k - 1], k)
<1>1. b \in S /\ Exact(b, U)
  BY DEF Exact
<1>2. MoveRows(b, y, d, 1, m) = f[m]
  BY DEF MoveRows, Loop
<1>3. ASSUME NEW k \in 1..m, NEW c, Exact(c, U)
      PROVE  IF k = m THEN Exact(turn(c, k), V) ELSE Exact(turn(c, k), U)
  <2> DEFINE to == y + d * (k - 1)  from == y + d * (k - 1 + 1)
  <2>1. to \in 0..(scr.h - 1) /\ from \in 0..(scr.h - 1)
    OBVIOUS
  <2>2. to # from /\ (k = m => from = y + d * m)
    <3>1. d = 1 => to = y + k - 1 /\ from = y + k /\ y + d * m = y + m
      OBVIOUS
    <3>2. d = -1 => to = y - k + 1 /\ from = y - k /\ y + d * m = y - m
      OBVIOUS
    <3> HIDE DEF to, from
    <3> QED BY <3>1, <3>2
  <2>3. turn(c, k) = IF k = m THEN MoveRow(c, to, from, TRUE) ELSE MoveRow(c, to, from, FALSE)
    BY DEF MoveRow
  <2> HIDE DEF to, from, turn
  <2>4. /\ Exact(MoveRow(c, to, from, FALSE), OnScreen)
        /\ Exact(MoveRow(c, to, from, TRUE), OnScreen \ Row(from))
    BY <1>3, <2>1, <2>2, MoveRowIs
  <2>5. CASE k = m
    BY <2>2, <2>3, <2>4, <2>5
  <2>6. CASE k # m
    BY <2>3, <2>4, <2>6
  <2> QED BY <2>5, <2>6
<1> HIDE DEF turn, U, V
<1>4. ASSUME NEW g, g[0] = b, \A k \in 1..m : Exact(g[k - 1], U) => g[k] = turn(g[k - 1], k)
      PROVE  \A k \in 0..m : k < m => Exact(g[k], U)
  <2> DEFINE T == {k \in 0..m : k < m => Exact(g[k], U)}
  <2>1. 0 \in T
    BY <1>1, <1>4
  <2>2. ASSUME NEW k \in 1..m, k - 1 \in T PROVE k \in T
    <3>1. Exact(g[k - 1], U)
      BY <2>2
    <3>2. g[k] = turn(g[k - 1], k)
      BY <1>4, <3>1
    <3>3. k < m => Exact(turn(g[k - 1], k), U)
      BY <1>3, <3>1
    <3> QED BY <3>2, <3>3
  <2>3. \A k \in 0..m : k \in T
    <3> HIDE DEF T
    <3> QED BY <2>1, <2>2, TurnByTurn
  <2> QED BY <2>3
<1>5. F \in [Nat -> [S -> S]]
  <2>1. ASSUME NEW k \in 1..m, NEW c, Exact(c, U) PROVE turn(c, k) \in S
    BY <1>3, <2>1 DEF Exact
  <2> HIDE DEF S
  <2> QED BY <2>1
<1>6. PICK h : IsRunTo(h, m, S, b, F)
  <2> HIDE DEF F, S
  <2> QED BY <1>1, <1>5, Recursion
<1>7. h = [k \in 0..m |-> IF k = 0 THEN b ELSE turn(h[k - 1], k)]
  <2> HIDE DEF S
  <2>1. ASSUME NEW k \in 1..m, Exact(h[k - 1], U) PROVE h[k] = turn(h[k - 1], k)
    <3>1. h[k - 1] \in S /\ k \in Nat
      BY <1>6 DEF IsRunTo
    <3>2. F[k][h[k - 1]] = turn(h[k - 1], k)
      BY <2>1, <3>1
    <3> HIDE DEF F
    <3> QED BY <1>6, <3>2 DEF IsRunTo
  <2> HIDE DEF F
  <2>2. \A k \in 0..m : k < m => Exact(h[k], U)
    BY <1>4, <1>6, <2>1 DEF IsRunTo
  <2>3. \A k \in 0..m : k = 0 \/ k \in 1..m
    OBVIOUS
  <2>4. \A k \in 1..m : h[k] = turn(h[k - 1], k)
    <3> SUFFICES ASSUME NEW k \in 1..m PROVE h[k] = turn(h[k - 1], k)
      OBVIOUS
    <3>1. Exact(h[k - 1], U)
      BY <2>2
    <3> QED BY <2>1, <3>1
  <2> QED BY <1>6, <2>3, <2>4 DEF IsRunTo
<1>8. f = [k \in 0..m |-> IF k = 0 THEN b ELSE turn(f[k - 1], k)]
  BY <1>7, Zenon
<1> HIDE DEF f, F, S
<1>9. f[0] = b /\ \A k \in 1..m : f[k] = turn(f[k - 1], k)
  BY <1>8
<1>10. \A k \in 0..m : k < m => Exact(f[k], U)
  BY <1>4, <1>9
<1>11. Exact(f[m], V)
  <2>1. m - 1 \in 0..m /\ m - 1 < m /\ m \in 1..m
    OBVIOUS
  <2>2. Exact(f[m - 1], U) /\ f[m] = turn(f[m - 1], m)
    BY <1>9, <1>10, <2>1
  <2> QED BY <1>3, <2>1, <2>2
<1> QED BY <1>2, <1>11 DEF V

-----------------------------------------------------------------------------
(* What the operations do to the cells of a screen that fits.              *)

LEMMA SoundIs ==
  ASSUME Sound(scr)
  PROVE  /\ scr.w \in Nat /\ 2 <= scr.w /\ scr.h \in Nat /\ scr.top \in Nat /\ scr.btm \in Nat
         /\ scr.top <= scr.btm /\ scr.btm < scr.h
         /\ scr.top \in 0..(scr.h - 1) /\ scr.btm \in 0..(scr.h - 1)
BY DEF Sound, ScreenShape

(* One row up or down leaves one row to clear, the one that is not counted.*)
LEMMA RowsMovedIs ==
  ASSUME Fits, Sound(scr), NEW b, Exact(b, OnScreen), NEW top \in Nat, top < scr.btm
  PROVE  Exact(RowsUp(b, top, 1), OnScreen) /\ Exact(RowsDown(b, top, 1), OnScreen)
<1> DEFINE m == scr.btm - top
           u == MoveRows(b, top, 1, 1, m)
           v == MoveRows(b, scr.btm, -1, 1, m)
<1>1. scr.btm \in 0..(scr.h - 1) /\ scr.h \in Nat /\ m \in Nat \ {0} /\ top \in 0..(scr.h - 1)
  BY SoundIs
<1>2. /\ scr.btm - 1 - top + 1 = m /\ scr.btm - 1 + 1 = scr.btm /\ top + 1 - 1 = top
      /\ top + 1 * m = scr.btm /\ scr.btm + (-1) * m = top
  BY <1>1
<1>3. RowsUp(b, top, 1) = ClearRows(u, scr.btm, scr.btm)
  BY <1>2 DEF RowsUp
<1>4. RowsDown(b, top, 1) = ClearRows(v, top, top)
  BY <1>2 DEF RowsDown
<1>5. Exact(u, OnScreen \ Row(scr.btm))
  <2> DEFINE e == 1
  <2>1. \A k \in 0..m : top + e * k \in 0..(scr.h - 1)
    BY <1>1
  <2>2. e \in {1, -1} /\ top \in Int
    BY <1>1
  <2> HIDE DEF m, e
  <2>3. Exact(MoveRows(b, top, e, 1, m), OnScreen \ Row(top + e * m))
    BY <1>1, <2>1, <2>2, MoveRowsIs
  <2> QED BY <1>2, <2>3 DEF e
<1>6. Exact(v, OnScreen \ Row(top))
  <2> DEFINE e == -1
  <2>1. \A k \in 0..m : scr.btm + e * k \in 0..(scr.h - 1)
    BY <1>1
  <2>2. e \in {1, -1} /\ scr.btm \in Int
    BY <1>1
  <2> HIDE DEF m, e
  <2>3. Exact(MoveRows(b, scr.btm, e, 1, m), OnScreen \ Row(scr.btm + e * m))
    BY <1>1, <2>1, <2>2, MoveRowsIs
  <2> QED BY <1>2, <2>3 DEF e
<1> HIDE DEF m, u, v
<1>7. Exact(ClearRows(u, scr.btm, scr.btm), OnScreen)
  BY <1>1, <1>5, ClearRowIs
<1>8. Exact(ClearRows(v, top, top), OnScreen)
  BY <1>1, <1>6, ClearRowIs
<1> QED BY <1>3, <1>4, <1>7, <1>8

LEMMA ScrolledIs ==
  ASSUME Fits, Sound(scr), NEW b, Exact(b, OnScreen)
  PROVE  Exact(ScrolledUp(b, 1), OnScreen) /\ Exact(ScrolledDown(b, 1), OnScreen)
<1>1. /\ scr.top \in 0..(scr.h - 1) /\ scr.btm \in 0..(scr.h - 1) /\ scr.top <= scr.btm
      /\ scr.top \in Nat /\ scr.btm \in Nat
  BY SoundIs
<1>2. CASE 1 >= RegionHeight
  <2>1. Exact(ClearRowsUtf(b, scr.top, scr.btm), OnScreen)
    BY <1>1, ClearRowsUtfIs
  <2> QED BY <1>2, <2>1 DEF ScrolledUp, ScrolledDown
<1>3. CASE ~(1 >= RegionHeight)
  <2>1. scr.top < scr.btm
    BY <1>1, <1>3 DEF RegionHeight
  <2>2. Exact(RowsUp(b, scr.top, 1), OnScreen) /\ Exact(RowsDown(b, scr.top, 1), OnScreen)
    BY <1>1, <2>1, RowsMovedIs
  <2> QED BY <1>3, <2>2 DEF ScrolledUp, ScrolledDown
<1> QED BY <1>2, <1>3

LEMMA LinesMovedIs ==
  ASSUME Fits, Sound(scr), Exact(buf, OnScreen), On(scr, cur), Inside(scr, cur)
  PROVE  Exact(LinesInserted(1), OnScreen) /\ Exact(LinesDeleted(1), OnScreen)
<1>1. /\ scr.btm \in 0..(scr.h - 1) /\ scr.btm \in Nat
      /\ cur.y \in 0..(scr.h - 1) /\ cur.y \in Nat /\ cur.y <= scr.btm
  BY SoundIs DEF On, InScreen, Inside
<1>2. CASE cur.y + 1 > scr.btm
  <2>1. Exact(ClearRowsUtf(buf, cur.y, scr.btm), OnScreen)
    BY <1>1, ClearRowsUtfIs
  <2>2. scr.btm - 1 <= cur.y
    BY <1>1, <1>2
  <2> QED BY <1>2, <2>1, <2>2 DEF LinesInserted, LinesDeleted
<1>3. CASE ~(cur.y + 1 > scr.btm)
  <2>1. cur.y < scr.btm
    BY <1>1, <1>3
  <2>2. Exact(RowsUp(buf, cur.y, 1), OnScreen) /\ Exact(RowsDown(buf, cur.y, 1), OnScreen)
    BY <1>1, <2>1, RowsMovedIs
  <2>3. Exact(ClearRowsUtf(buf, cur.y, scr.btm), OnScreen)
    BY <1>1, ClearRowsUtfIs
  <2> QED BY <1>3, <2>2, <2>3 DEF LinesInserted, LinesDeleted
<1> QED BY <1>2, <1>3

(* The cells of the cursor's line.                                         *)
LEMMA LineIs ==
  ASSUME Fits, NEW y \in 0..(scr.h - 1)
  PROVE  /\ \A x \in 0..(scr.w - 1) : At(y, x) \in OnScreen /\ At(y, x) = At(y, 0) + x
         /\ LineEnd(y) \in OnScreen /\ LineEnd(y) = At(y, 0) + scr.w - 1
         /\ At(y, 0) \in Nat /\ scr.w \in Nat \ {0}
         /\ \A k \in 0..(scr.w - 1) : At(y, 0) + k \in OnScreen /\ LineEnd(y) - k \in OnScreen
<1>1. /\ Row(y) = Span(At(y, 0), scr.w) /\ Row(y) \subseteq OnScreen /\ At(y, 0) \in Nat
      /\ \A x \in 0..(scr.w - 1) : At(y, x) \in Row(y) /\ At(y, x) = At(y, 0) + x
  BY RowIs
<1>2. scr.w \in Nat \ {0}
  BY DEF Fits
<1>3. scr.w - 1 \in 0..(scr.w - 1)
  BY <1>2
<1>4. LineEnd(y) \in Row(y) /\ LineEnd(y) = At(y, 0) + (scr.w - 1)
  BY <1>1, <1>3 DEF LineEnd
<1>5. \A k \in 0..(scr.w - 1) : At(y, 0) + k \in Row(y) /\ LineEnd(y) - k \in Row(y)
  BY <1>1, <1>2, <1>4 DEF Span
<1>6. LineEnd(y) = At(y, 0) + scr.w - 1
  BY <1>1, <1>2, <1>4
<1> QED BY <1>1, <1>2, <1>4, <1>5, <1>6

LEMMA LineErasedIs ==
  ASSUME Fits, NEW b, Exact(b, OnScreen), NEW c, On(scr, c)
  PROVE  /\ Exact(ClearUtf(b, At(c.y, c.x), LineEnd(c.y)), OnScreen)
         /\ Exact(ClearUtf(b, At(c.y, 0), At(c.y, c.x)), OnScreen)
         /\ \A n \in Nat \ {0} : c.x + n < scr.w =>
              Exact(ClearUtf(b, At(c.y, c.x), At(c.y, c.x + n - 1)), OnScreen)
<1>1. c.y \in 0..(scr.h - 1) /\ c.x \in 0..(scr.w - 1)
  BY DEF On, InScreen
<1> DEFINE a == At(c.y, 0)  p == At(c.y, c.x)  q == LineEnd(c.y)
<1>2. /\ p \in OnScreen /\ p = a + c.x /\ q \in OnScreen /\ q = a + scr.w - 1
      /\ a \in Nat /\ scr.w \in Nat \ {0}
  BY <1>1, LineIs
<1>3. a \in OnScreen
  <2>1. 0 \in 0..(scr.w - 1)
    BY <1>2
  <2> QED BY <1>1, <2>1, LineIs
<1>4. ASSUME NEW n \in Nat \ {0}, c.x + n < scr.w
      PROVE  Exact(ClearUtf(b, p, At(c.y, c.x + n - 1)), OnScreen)
  <2> DEFINE z == At(c.y, c.x + n - 1)
  <2>1. c.x + n - 1 \in 0..(scr.w - 1)
    BY <1>1, <1>2, <1>4
  <2>2. z = a + (c.x + n - 1)
    BY <1>1, <2>1, LineIs
  <2>3. z \in Int /\ p <= z
    BY <1>1, <1>2, <2>2
  <2> HIDE DEF z, p
  <2> QED BY <1>2, <2>3, ClearUtfIs DEF z
<1> HIDE DEF a, p, q
<1>5. p \in Int /\ q \in Int /\ p <= q /\ a <= p
  BY <1>1, <1>2
<1>6. Exact(ClearUtf(b, p, q), OnScreen) /\ Exact(ClearUtf(b, a, p), OnScreen)
  BY <1>2, <1>3, <1>5, ClearUtfIs
<1> QED BY <1>4, <1>6 DEF a, p, q

LEMMA CharsInsertedIs ==
  ASSUME Fits, NEW b, Exact(b, OnScreen), NEW c, On(scr, c), NEW n \in Nat \ {0}
  PROVE  Exact(CharsInserted(b, c, n), OnScreen)
<1>1. c.y \in 0..(scr.h - 1) /\ c.x \in 0..(scr.w - 1) /\ scr.w \in Nat
  BY DEF On, InScreen, Fits
<1>2. CASE c.x + n >= scr.w
  BY <1>2, LineErasedIs DEF CharsInserted
<1>3. CASE ~(c.x + n >= scr.w)
  <2> DEFINE m == scr.w - n - c.x
             e == LineEnd(c.y)
             d == -1
             v == MoveCells(b, e, d, n, m)
  <2>1. m \in Nat /\ c.x + n < scr.w
    BY <1>1, <1>3
  <2>2. e \in Int /\ \A k \in 0..(scr.w - 1) : e - k \in OnScreen
    BY <1>1, LineIs, OnScreenIs
  <2>3. \A k \in 1..m : e + d * (k - 1) \in OnScreen /\ e + d * (k - 1 + n) \in OnScreen
    <3> SUFFICES ASSUME NEW k \in 1..m
                 PROVE  e + d * (k - 1) \in OnScreen /\ e + d * (k - 1 + n) \in OnScreen
      OBVIOUS
    <3>1. k - 1 \in 0..(scr.w - 1) /\ k - 1 + n \in 0..(scr.w - 1)
      BY <1>1, <2>1
    <3> HIDE DEF e
    <3>2. e + d * (k - 1) = e - (k - 1) /\ e + d * (k - 1 + n) = e - (k - 1 + n)
      BY <2>2, <3>1
    <3> QED BY <2>2, <3>1, <3>2
  <2>4. d \in {1, -1}
    OBVIOUS
  <2> HIDE DEF m, e, d
  <2>5. Exact(v, OnScreen)
    BY <2>1, <2>2, <2>3, <2>4, MoveCellsIs
  <2> HIDE DEF v
  <2>6. Exact(ClearUtf(v, At(c.y, c.x), At(c.y, c.x + n - 1)), OnScreen)
    BY <2>1, <2>5, LineErasedIs
  <2>7. CharsInserted(b, c, n) = ClearUtf(v, At(c.y, c.x), At(c.y, c.x + n - 1))
    BY <1>3 DEF CharsInserted, v, m, e, d
  <2> QED BY <2>6, <2>7
<1> QED BY <1>2, <1>3

LEMMA CharsErasedIs ==
  ASSUME Fits, Exact(buf, OnScreen), On(scr, cur), NEW n \in Nat \ {0}
  PROVE  Exact(CharsErased(n), OnScreen)
<1>1. cur.x \in 0..(scr.w - 1) /\ scr.w \in Nat
  BY DEF On, InScreen, Fits
<1>2. CASE cur.x + n >= scr.w
  BY <1>2, LineErasedIs DEF CharsErased
<1>3. CASE ~(cur.x + n >= scr.w)
  <2>1. cur.x + n < scr.w
    BY <1>1, <1>3
  <2> QED BY <1>3, <2>1, LineErasedIs DEF CharsErased
<1> QED BY <1>2, <1>3

(* A cell is released and gets a character that is added to the cache.     *)
AddedAt(b, p, ch) ==
  LET freed == FreeCell(b, p).cache
  IN  [cells |-> [b.cells EXCEPT ![p] = AddedRef(freed, ch)], cache |-> Add(freed, ch)]

LEMMA AddOne ==
  ASSUME NEW b, NEW U, Exact(b, U), NEW p \in U, NEW ch \in Characters
  PROVE  Exact(AddedAt(b, p, ch), U)
<1> DEFINE V == U \ {p}
           c == b.cells
           freed == FreeCell(b, p).cache
           r == AddedRef(freed, ch)
           k == Add(freed, ch)
           e == [c EXCEPT ![p] = r]
<1>1. /\ U \subseteq AllCells /\ V \subseteq AllCells /\ p \in AllCells
      /\ c \in [AllCells -> Symbols]
  BY DEF Exact, Bufs
<1>2. freed \in Caches /\ \A s \in Slots : freed[s].count = Count(c, V, s)
  <2>1. Exact(FreeCell(b, p), V) /\ FreeCell(b, p).cells = c
    BY FreeOne
  <2> HIDE DEF V, c
  <2> QED BY <2>1 DEF Exact, Bufs, Counted
<1> HIDE DEF freed
<1>3. ASSUME NEW d \in [AllCells -> Symbols], \A q \in V : d[q] = c[q], NEW s \in Slots
      PROVE  /\ Count(d, U, s) = IF d[p] = s THEN freed[s].count + 1 ELSE freed[s].count
             /\ Count(d, U, s) < CountMod /\ freed[s].count \in Nat
  <2>1. /\ Count(d, U, s) \in Nat /\ Count(d, U, s) < CountMod
        /\ Count(c, V, s) \in Nat
    BY <1>1, CountIs
  <2>2. Count(d, V, s) = IF d[p] = s THEN Count(d, U, s) - 1 ELSE Count(d, U, s)
    BY <1>1, CountWithout
  <2>3. Count(d, V, s) = Count(c, V, s)
    <3> HIDE DEF V
    <3> QED BY <1>3, CountSame
  <2>4. freed[s].count = Count(c, V, s)
    BY <1>2
  <2> HIDE DEF V, c
  <2> QED BY <2>1, <2>2, <2>3, <2>4
<1>4. ASSUME NEW s \in Slots PROVE freed[s].count + 1 < CountMod
  <2> DEFINE d == [c EXCEPT ![p] = s]
  <2>1. d \in [AllCells -> Symbols] /\ d[p] = s /\ \A q \in V : d[q] = c[q]
    BY <1>1 DEF Symbols
  <2> HIDE DEF d, V, c
  <2> QED BY <1>3, <2>1
<1>5. /\ k \in Caches /\ r \in Symbols
      /\ \A s \in Slots : k[s].count = IF s = r THEN freed[s].count + 1 ELSE freed[s].count
  BY <1>2, <1>4, AddIs
<1> HIDE DEF r, k
<1>6. e \in [AllCells -> Symbols] /\ e[p] = r /\ \A q \in V : e[q] = c[q]
  BY <1>1, <1>5
<1> HIDE DEF e, V, c
<1>7. \A s \in Slots : k[s].count = Count(e, U, s)
  BY <1>3, <1>5, <1>6
<1> DEFINE f == [cells |-> e, cache |-> k]
<1>8. f \in Bufs /\ f.cells = e /\ f.cache = k
  BY <1>5, <1>6 DEF Bufs
<1> HIDE DEF f
<1>9. Exact(f, U)
  BY <1>1, <1>7, <1>8 DEF Exact, Counted
<1> QED BY <1>9 DEF AddedAt, f, e, k, r, freed, c

LEMMA WrittenIs ==
  ASSUME Fits, Sound(scr), Exact(buf, OnScreen), NEW c, On(scr, c), NEW ch \in Characters
  PROVE  Exact(Written(c, ch), OnScreen)
<1> DEFINE at == WriteAt(c)
           scrolled == IF WrapScrolls(c) THEN ScrolledUp(buf, 1) ELSE buf
           b == IF insert /\ at.x < scr.w - 1 THEN CharsInserted(scrolled, at, 1) ELSE scrolled
           p == At(at.y, at.x)
<1>1. On(scr, at)
  BY WriteAtIsOn
<1>2. Exact(scrolled, OnScreen)
  BY ScrolledIs
<1> HIDE DEF at, scrolled
<1>3. Exact(CharsInserted(scrolled, at, 1), OnScreen)
  BY <1>1, <1>2, CharsInsertedIs
<1>4. Exact(b, OnScreen)
  BY <1>2, <1>3
<1>5. p \in OnScreen
  BY <1>1, LineIs DEF On, InScreen
<1>6. Written(c, ch) = AddedAt(b, p, ch)
  BY DEF Written, AddedAt, at, scrolled
<1> HIDE DEF b, p
<1> QED BY <1>4, <1>5, <1>6, AddOne

(* Clearing the screen forgets the uses; no cell of the new one has any.   *)
LEMMA AllClearedIs ==
  ASSUME NEW b \in Bufs, NEW s, NEW ch \in Fillers, s.w * s.h \in Nat, s.w * s.h <= MaxCells
  PROVE  Exact(AllCleared(b, s, ch), 0..(s.w * s.h - 1))
<1> DEFINE n == s.w * s.h
           U == 0..(n - 1)
           c == [p \in DOMAIN b.cells |-> IF p < n THEN ch ELSE b.cells[p]]
           k == CacheClear(b.cache)
           f == [cells |-> c, cache |-> k]
<1>1. b.cells \in [AllCells -> Symbols] /\ b.cache \in Caches
  BY DEF Bufs
<1>2. AllCleared(b, s, ch) = f
  BY DEF AllCleared
<1> HIDE DEF n
<1>3. n \in Nat /\ n <= MaxCells /\ MaxCells \in Nat
  BY CellsAssumption DEF n
<1>4. U \subseteq AllCells
  BY <1>3 DEF AllCells
<1>5. ch \in Symbols /\ ch \notin Slots
  BY SlotsAre DEF Symbols, Ascii, Fillers
<1>6. c \in [AllCells -> Symbols] /\ \A p \in U : c[p] = ch
  BY <1>1, <1>3, <1>4, <1>5
<1>7. k \in Caches /\ \A r \in Slots : k[r].count = 0
  BY <1>1 DEF CacheClear, Caches
<1> HIDE DEF c, k, U
<1>8. f \in Bufs /\ f.cells = c /\ f.cache = k
  BY <1>6, <1>7 DEF Bufs
<1> HIDE DEF f
<1>9. \A r \in Slots : Count(c, U, r) = 0
  BY <1>4, <1>5, <1>6, CountIs
<1>10. Exact(f, U)
  BY <1>4, <1>7, <1>8, <1>9 DEF Exact, Counted
<1> QED BY <1>2, <1>10 DEF U, n

-----------------------------------------------------------------------------
(* The invariant of the cells.                                             *)

(* Both sizes are among those that are asked for.                          *)
SizesKnown == <<scr.w, scr.h>> \in Sizes /\ <<backup.w, backup.h>> \in Sizes

LEMMA SizeIs ==
  ASSUME NEW s \in Sizes
  PROVE  /\ s = <<s[1], s[2]>> /\ s[1] \in Nat \ {0} /\ s[2] \in Nat \ {0}
         /\ s[1] * s[2] \in Nat /\ s[1] * s[2] <= MaxCells
<1>1. s \in (Nat \ {0}) \X (1..LineAttrs) /\ LineAttrs \in Nat
  BY GeometryAssumption, RowsAssumption
<1>2. s = <<s[1], s[2]>> /\ s[1] \in Nat \ {0} /\ s[2] \in Nat \ {0}
  BY <1>1
<1>3. s[1] * s[2] <= MaxCells
  BY CellsAssumption
<1>4. \A m, n \in Nat : m * n \in Nat
  OBVIOUS
<1> QED BY <1>2, <1>3, <1>4

(* A screen of a known size fits, before and after a step.                 *)
Screen(s) == 0..(s.w * s.h - 1)

LEMMA FitsIs ==
  ASSUME <<scr.w, scr.h>> \in Sizes
  PROVE  Fits /\ OnScreen = Screen(scr)
<1> DEFINE w == scr.w  h == scr.h  t == <<w, h>>
<1>1. t[1] = w /\ t[2] = h /\ t \in Sizes
  OBVIOUS
<1> HIDE DEF t
<1>2. w \in Nat \ {0} /\ h \in Nat \ {0} /\ w * h \in Nat /\ w * h <= MaxCells
  BY <1>1, SizeIs
<1>3. At(h, 0) = h * w + 0
  BY DEF At
<1> HIDE DEF w, h
<1>4. h * w + 0 = w * h
  BY <1>2
<1>5. At(h, 0) = w * h
  BY <1>3, <1>4
<1> QED BY <1>2, <1>5 DEF Fits, OnScreen, Screen, w, h

LEMMA FitsAfter ==
  ASSUME NEW s, s = scr', <<s.w, s.h>> \in Sizes
  PROVE  OnScreen' = Screen(s)
<1> DEFINE w == s.w  h == s.h  t == <<w, h>>
<1>1. t[1] = w /\ t[2] = h /\ t \in Sizes
  OBVIOUS
<1> HIDE DEF t
<1>2. w \in Nat \ {0} /\ h \in Nat \ {0}
  BY <1>1, SizeIs
<1>3. OnScreen' = 0..((h * w + 0) - 1)
  BY DEF OnScreen, At
<1> HIDE DEF w, h
<1>4. h * w + 0 = w * h
  BY <1>2
<1>5. OnScreen' = 0..((w * h) - 1)
  BY ONLY <1>3, <1>4
<1> QED BY <1>5 DEF Screen, w, h

LEMMA SizesStay ==
  ASSUME Careful, IInv, SizesKnown, [Next]_geo
  PROVE  SizesKnown'
<1>1. CASE scr' = scr /\ backup' = backup
  BY <1>1 DEF SizesKnown
<1>2. scr \in ScreenShape /\ backup \in ScreenShape
  BY DEF IInv, Sound
<1>3. CASE scr'.w = scr.w /\ scr'.h = scr.h /\ backup' = backup
  BY <1>3 DEF SizesKnown
<1>4. CASE SetScrollingRegion
  <2>1. PICK from, to : scr' = Region(from, to)
    BY <1>4 DEF SetScrollingRegion
  <2>2. scr'.w = scr.w /\ scr'.h = scr.h
    BY <1>2, <2>1 DEF Region, WholeScreen, ScreenShape
  <2> QED BY <1>3, <1>4, <2>2 DEF SetScrollingRegion
<1>5. CASE ColumnMode \/ FillWithE
  BY <1>3, <1>5 DEF ColumnMode, FillWithE, ResetTo, WholeScreen
<1>6. CASE ApplySettingsNoClear
  <2>1. conf = <<scr.w, scr.h>> /\ scr' = [scr EXCEPT !.w = conf[1], !.h = conf[2]]
    BY <1>6 DEF ApplySettingsNoClear
  <2>2. scr'.w = scr.w /\ scr'.h = scr.h
    BY <1>2, <2>1 DEF ScreenShape
  <2> QED BY <1>3, <1>6, <2>2 DEF ApplySettingsNoClear
<1>7. CASE SwapIn \/ AlternateIn
  BY <1>7 DEF SwapIn, AlternateIn, ToAlternate, SizesKnown
<1>8. CASE SwapOut \/ AlternateOut
  <2>1. (scr' = scr \/ scr' = Unswapped) /\ backup' = backup
    BY <1>8 DEF SwapOut, AlternateOut
  <2>2. Unswapped.w = backup.w /\ Unswapped.h = backup.h
    BY <1>2 DEF Unswapped, WholeScreen, ScreenShape
  <2> QED BY <2>1, <2>2 DEF SizesKnown
<1>9. CASE Resize \/ Reset \/ ApplySettings
  <2>1. PICK s \in Sizes : scr' = WholeScreen(s[1], s[2])
    BY <1>9 DEF Resize, Reset, ApplySettings, ResetTo, IInv
  <2>2. <<scr'.w, scr'.h>> = s
    BY <2>1, SizeIs DEF WholeScreen
  <2>3. backup' = backup
    BY <1>9 DEF Resize, Reset, ApplySettings, ResetTo
  <2> QED BY <2>2, <2>3 DEF SizesKnown
<1>10. CASE UNCHANGED geo
  BY <1>1, <1>10 DEF geo
<1>11. CASE Printing \/ Place \/ Move \/ BackSpace \/ \E n \in Steps : BackIndex(n)
  BY <1>1, <1>11 DEF Printing, PutChar, Repeat, PutGraphic, CarriageReturn, LineFeed,
    ReverseIndex, Place, Move, BackSpace, BackIndex
<1>12. CASE WrapEnable \/ ReverseWrapEnable \/ TabForward \/ TabReverse \/ SetLineAttr \/ SetOriginMode
  BY <1>1, <1>12 DEF WrapEnable, ReverseWrapEnable, TabForward, TabReverse, SetLineAttr, SetOriginMode
<1>13. CASE Lines \/ (\E n \in Steps : DeleteLines(n)) \/ EraseBelow \/ EraseAbove \/ EraseAll
  BY <1>1, <1>13 DEF Lines, InsertLines, ScrollUp, ScrollDown, DeleteLines, EraseBelow, EraseAbove, EraseAll
<1>14. CASE SaveCursor \/ \E a \in BOOLEAN : RestoreCursor(a)
  BY <1>1, <1>14 DEF SaveCursor, RestoreCursor
<1>15. [Next]_geo
  OBVIOUS
<1> QED
  BY <1>4, <1>5, <1>6, <1>7, <1>8, <1>9, <1>10, <1>11, <1>12, <1>13, <1>14, <1>15
  DEF Next, NextOf, Erase

(* The counts are right, and what is repeated is a character.              *)
CellsRight == Exact(buf, OnScreen) /\ last \in Characters \cup {NoChar}

CInv == IInv /\ SizesKnown /\ CellsRight

LEMMA CInvIs ==
  ASSUME CInv
  PROVE  /\ Fits /\ OnScreen = Screen(scr) /\ Sound(scr) /\ On(scr, cur) /\ Exact(buf, OnScreen)
         /\ buf \in Bufs /\ IInv /\ SizesKnown /\ last \in Characters \cup {NoChar}
         /\ cur.y \in 0..(scr.h - 1) /\ cur.x \in 0..(scr.w - 1)
<1>1. IInv /\ SizesKnown /\ CellsRight
  BY DEF CInv
<1>2. Fits /\ OnScreen = Screen(scr)
  BY <1>1, FitsIs DEF SizesKnown
<1>3. Sound(scr) /\ On(scr, cur) /\ cur.y \in 0..(scr.h - 1) /\ cur.x \in 0..(scr.w - 1)
  BY <1>1 DEF IInv, On, InScreen
<1>4. Exact(buf, OnScreen) /\ buf \in Bufs /\ last \in Characters \cup {NoChar}
  BY <1>1 DEF CellsRight, Exact
<1> QED BY <1>1, <1>2, <1>3, <1>4

LEMMA InPlace ==
  ASSUME scr' = scr, Exact(buf', OnScreen), last' \in Characters \cup {NoChar}
  PROVE  CellsRight'
<1>1. OnScreen' = OnScreen
  BY DEF OnScreen, At
<1> QED BY <1>1 DEF CellsRight

LEMMA ContentsIs ==
  ASSUME CInv, scr' = scr, NEW b, Exact(b, OnScreen), Contents(b)
  PROVE  CellsRight'
<1>1. buf' = b /\ last' = last
  BY DEF Contents
<1> QED BY <1>1, CInvIs, InPlace

LEMMA CharsAre == Chars \subseteq Characters /\ " " \in Characters
BY CellsAssumption DEF Characters

LEMMA PrintingCounts ==
  ASSUME CInv, (\E ch \in Chars : CPutChar(ch)) \/ CRepeat \/ CLineFeed \/ CReverseIndex
  PROVE  CellsRight'
<1>1. ASSUME NEW c, On(scr, c), NEW ch \in Characters, scr' = scr,
             buf' = Written(c, ch), last' = ch
      PROVE  CellsRight'
  <2>1. Exact(Written(c, ch), OnScreen)
    BY <1>1, CInvIs, WrittenIs
  <2>2. Exact(buf', OnScreen) /\ last' \in Characters \cup {NoChar}
    BY <1>1, <2>1
  <2> QED BY <1>1, <2>2, InPlace
<1>2. ASSUME NEW ch \in Chars, CPutChar(ch) PROVE CellsRight'
  <2> DEFINE c == ClearInvalidHanging(cur)
  <2>1. On(scr, c)
    BY CInvIs DEF On, InScreen, CursorShape, ClearInvalidHanging
  <2>2. scr' = scr /\ buf' = Written(c, ch) /\ last' = ch /\ ch \in Characters
    BY <1>2, CharsAre DEF CPutChar, PutChar, PutGraphic
  <2> HIDE DEF c
  <2> QED BY <1>1, <2>1, <2>2
<1>3. CASE CRepeat
  <2> DEFINE ch == IF last = NoChar THEN " " ELSE last
  <2>1. ch \in Characters
    BY CInvIs, CharsAre
  <2>2. scr' = scr /\ buf' = Written(cur, ch) /\ last' = ch
    BY <1>3 DEF CRepeat, Repeat, PutGraphic
  <2> HIDE DEF ch
  <2> QED BY <1>1, <2>1, <2>2, CInvIs
<1>4. CASE CLineFeed \/ CReverseIndex
  <2>1. /\ Exact(ScrolledUp(buf, 1), OnScreen) /\ Exact(ScrolledDown(buf, 1), OnScreen)
        /\ Exact(buf, OnScreen)
    BY CInvIs, ScrolledIs
  <2>2. /\ scr' = scr
        /\ Contents(ScrolledUp(buf, 1)) \/ Contents(ScrolledDown(buf, 1)) \/ Contents(buf)
    BY <1>4 DEF CLineFeed, CReverseIndex, LineFeed, ReverseIndex
  <2> QED BY <2>1, <2>2, ContentsIs
<1> QED BY <1>2, <1>3, <1>4

(* Lines are moved one by one.                                             *)
LEMMA LinesCount ==
  ASSUME CInv, CScrollUp(1) \/ CScrollDown(1) \/ CInsertLines(1) \/ CDeleteLines(1)
  PROVE  CellsRight'
<1>1. CASE CScrollUp(1) \/ CScrollDown(1)
  <2>1. Exact(ScrolledUp(buf, 1), OnScreen) /\ Exact(ScrolledDown(buf, 1), OnScreen)
    BY CInvIs, ScrolledIs
  <2>2. scr' = scr /\ (Contents(ScrolledUp(buf, 1)) \/ Contents(ScrolledDown(buf, 1)))
    BY <1>1 DEF CScrollUp, CScrollDown, ScrollUp, ScrollDown
  <2> QED BY <2>1, <2>2, ContentsIs
<1>2. CASE CInsertLines(1) \/ CDeleteLines(1)
  <2>1. /\ scr' = scr /\ (Contents(LinesInserted(1)) \/ Contents(LinesDeleted(1)))
        /\ Inside(scr, cur)
    BY <1>2 DEF CInsertLines, CDeleteLines, InsertLines, DeleteLines
  <2>2. Exact(LinesInserted(1), OnScreen) /\ Exact(LinesDeleted(1), OnScreen)
    BY <2>1, CInvIs, LinesMovedIs
  <2> QED BY <2>1, <2>2, ContentsIs
<1> QED BY <1>1, <1>2

LEMMA CharsCount ==
  ASSUME CInv, NEW n \in Steps, CInsertChars(n) \/ CEraseChars(n) \/ CBackIndex(n)
  PROVE  CellsRight'
<1>1. n \in Nat \ {0}
  BY GeometryAssumption, RowsAssumption
<1>2. CASE CInsertChars(n) \/ CEraseChars(n)
  <2>1. Exact(CharsInserted(buf, cur, n), OnScreen) /\ Exact(CharsErased(n), OnScreen)
    BY <1>1, CInvIs, CharsInsertedIs, CharsErasedIs
  <2>2. scr' = scr /\ (Contents(CharsInserted(buf, cur, n)) \/ Contents(CharsErased(n)))
    BY <1>2 DEF CInsertChars, CEraseChars, geo
  <2> QED BY <2>1, <2>2, ContentsIs
<1>3. CASE CBackIndex(n)
  <2> DEFINE c == [cur EXCEPT !.x = 0]
             m == n - cur.x
  <2>1. scr' = scr /\ Contents(IF n <= cur.x THEN buf ELSE CharsInserted(buf, c, m))
    BY <1>3 DEF CBackIndex, BackIndex
  <2>2. On(scr, c)
    BY CInvIs DEF On, InScreen, CursorShape, Sound, ScreenShape
  <2>3. ~(n <= cur.x) => m \in Nat \ {0}
    BY <1>1, CInvIs
  <2> HIDE DEF c, m
  <2>4. CASE n <= cur.x
    BY <2>1, <2>4, CInvIs, ContentsIs
  <2>5. CASE ~(n <= cur.x)
    <3>1. Exact(CharsInserted(buf, c, m), OnScreen)
      BY <2>2, <2>3, <2>5, CInvIs, CharsInsertedIs
    <3> QED BY <2>1, <2>5, <3>1, ContentsIs
  <2> QED BY <2>4, <2>5
<1> QED BY <1>2, <1>3

LEMMA ErasingCounts ==
  ASSUME CInv, CEraseLine \/ CEraseBelow \/ CEraseAbove
  PROVE  CellsRight'
<1> DEFINE p == At(cur.y, cur.x)
           e == LineEnd(cur.y)
           a == At(cur.y, 0)
           z == At(scr.h, 0) - 1
<1>1. /\ Exact(ClearRowsUtf(buf, cur.y, cur.y), OnScreen)
      /\ Exact(ClearUtf(buf, p, e), OnScreen)
      /\ Exact(ClearUtf(buf, a, p), OnScreen)
  <2>1. cur.y <= cur.y
    BY CInvIs
  <2> QED BY <2>1, CInvIs, ClearRowsUtfIs, LineErasedIs
<1>2. p \in OnScreen /\ p \in Nat /\ z \in Int /\ p <= z /\ 0 \in OnScreen
  <2>1. p \in OnScreen
    BY CInvIs, LineIs
  <2>2. p \in Nat /\ p <= At(scr.h, 0) - 1 /\ At(scr.h, 0) \in Nat
    BY <2>1, CInvIs, OnScreenIs DEF Fits
  <2> HIDE DEF p
  <2> QED BY <2>1, <2>2 DEF OnScreen
<1>3. Exact(ClearUtf(buf, p, z), OnScreen) /\ Exact(ClearUtf(buf, 0, p), OnScreen)
  <2> HIDE DEF p, z
  <2>1. p \in Int /\ 0 <= p
    BY <1>2
  <2> QED BY <1>2, <2>1, CInvIs, ClearUtfIs
<1> HIDE DEF p, e, a, z
<1>4. /\ scr' = scr
      /\ \/ Contents(ClearRowsUtf(buf, cur.y, cur.y))
         \/ Contents(ClearUtf(buf, p, e)) \/ Contents(ClearUtf(buf, a, p))
         \/ Contents(ClearUtf(buf, p, z)) \/ Contents(ClearUtf(buf, 0, p))
  BY DEF CEraseLine, CEraseBelow, CEraseAbove, EraseBelow, EraseAbove, geo, p, e, a, z
<1> QED BY <1>1, <1>3, <1>4, ContentsIs

(* The screen is cleared in the size it has afterwards.                    *)
LEMMA ClearsAllCounts ==
  ASSUME NEW b \in Bufs, NEW ch \in Fillers, SizesKnown',
         buf' = AllCleared(b, scr', ch), last' = NoChar
  PROVE  CellsRight'
<1> DEFINE s == scr'
           t == <<s.w, s.h>>
<1>1. t \in Sizes /\ t[1] = s.w /\ t[2] = s.h
  BY DEF SizesKnown
<1> HIDE DEF t
<1>2. s.w * s.h \in Nat /\ s.w * s.h <= MaxCells
  BY <1>1, SizeIs
<1>3. OnScreen' = Screen(s)
  <2>1. <<s.w, s.h>> \in Sizes
    BY DEF SizesKnown
  <2> QED BY <2>1, FitsAfter
<1> HIDE DEF s
<1>4. Exact(AllCleared(b, s, ch), Screen(s))
  BY <1>2, AllClearedIs DEF Screen
<1>5. Exact(buf', OnScreen')
  BY <1>3, <1>4 DEF s
<1> QED BY <1>5 DEF CellsRight

LEMMA ClearedTyped ==
  ASSUME NEW b \in Bufs, NEW s, NEW ch \in Fillers
  PROVE  AllCleared(b, s, ch) \in Bufs
<1> DEFINE c == [p \in DOMAIN b.cells |-> IF p < s.w * s.h THEN ch ELSE b.cells[p]]
           k == CacheClear(b.cache)
<1>1. b.cells \in [AllCells -> Symbols] /\ b.cache \in Caches
  BY DEF Bufs
<1>2. ch \in Symbols
  BY DEF Symbols, Ascii, Fillers
<1>3. c \in [AllCells -> Symbols]
  BY <1>1, <1>2
<1>4. k \in Caches
  BY <1>1 DEF CacheClear, Caches
<1>5. AllCleared(b, s, ch) = [cells |-> c, cache |-> k]
  BY DEF AllCleared
<1> HIDE DEF c, k
<1> QED BY <1>3, <1>4, <1>5 DEF Bufs

LEMMA SameSizeIs ==
  ASSUME CInv, scr'.w = scr.w, scr'.h = scr.h, buf' = buf, last' = last
  PROVE  CellsRight'
<1>1. OnScreen' = OnScreen
  BY DEF OnScreen, At
<1> QED BY <1>1 DEF CellsRight, CInv

LEMMA ClearingCounts ==
  ASSUME CInv, SizesKnown',
         CClear \/ CResize \/ CAlternate \/ CReset \/ CApplySettings \/ CFillWithE
  PROVE  CellsRight'
<1>1. buf \in Bufs /\ " " \in Fillers /\ "E" \in Fillers
  BY CInvIs DEF Fillers
<1>2. AllCleared(buf, scr, " ") \in Bufs
  BY <1>1, ClearedTyped
<1>3. \/ ClearsAll
      \/ buf' = AllCleared(AllCleared(buf, scr, " "), scr', " ") /\ last' = NoChar
      \/ buf' = AllCleared(buf, scr', "E") /\ last' = NoChar
  BY DEF CClear, CResize, CAlternate, CReset, CApplySettings, CFillWithE
<1> QED BY <1>1, <1>2, <1>3, ClearsAllCounts DEF ClearsAll

LEMMA SwapsCount ==
  ASSUME CInv, SizesKnown', CSwapIn \/ CSwapOut
  PROVE  CellsRight'
<1>1. CASE CSwapIn
  BY <1>1, SameSizeIs DEF CSwapIn, SwapIn, Contents
<1>2. CASE CSwapOut /\ Resized
  <2>1. buf \in Bufs /\ " " \in Fillers
    BY CInvIs DEF Fillers
  <2> QED BY <1>2, <2>1, ClearsAllCounts DEF CSwapOut, ClearsAll
<1>3. CASE CSwapOut /\ ~Resized
  <2>1. backup.w = scr.w /\ backup.h = scr.h /\ scr' = Unswapped /\ buf' = buf /\ last' = last
    BY <1>3 DEF CSwapOut, SwapOut, Resized
  <2>2. scr \in ScreenShape
    BY CInvIs DEF Sound
  <2>3. scr'.w = scr.w /\ scr'.h = scr.h
    BY <2>1, <2>2 DEF Unswapped, ScreenShape
  <2> QED BY <2>1, <2>3, SameSizeIs
<1> QED BY <1>1, <1>2, <1>3

(* The operations that leave the cells alone.                              *)
Stays ==
  \/ CarriageReturn \/ Place \/ Move \/ BackSpace \/ SetOriginMode \/ SaveCursor
  \/ SetScrollingRegion \/ ApplySettingsNoClear \/ \E a \in BOOLEAN : RestoreCursor(a)

LEMMA StillCounts ==
  ASSUME CInv, Careful, Still(Stays) \/ InsertMode \/ UNCHANGED cellvars
  PROVE  CellsRight'
<1>1. scr \in ScreenShape
  BY CInvIs DEF Sound
<1>2. buf' = buf /\ last' = last
  BY DEF Still, InsertMode, cellvars
<1>3. scr'.w = scr.w /\ scr'.h = scr.h
  <2>1. CASE SetScrollingRegion
    <3>1. PICK from, to : scr' = Region(from, to)
      BY <2>1 DEF SetScrollingRegion
    <3> QED BY <1>1, <3>1 DEF Region, WholeScreen, ScreenShape
  <2>2. CASE ApplySettingsNoClear
    <3>1. conf = <<scr.w, scr.h>> /\ scr' = [scr EXCEPT !.w = conf[1], !.h = conf[2]]
      BY <2>2 DEF ApplySettingsNoClear
    <3> QED BY <1>1, <3>1 DEF ScreenShape
  <2>3. CASE \/ CarriageReturn \/ Place \/ Move \/ BackSpace \/ SetOriginMode \/ SaveCursor
             \/ \E a \in BOOLEAN : RestoreCursor(a)
    BY <2>3 DEF CarriageReturn, Place, Move, BackSpace, SetOriginMode, SaveCursor, RestoreCursor
  <2>4. CASE InsertMode \/ UNCHANGED cellvars
    BY <2>4 DEF InsertMode, cellvars, geo
  <2> QED BY <2>1, <2>2, <2>3, <2>4 DEF Still, Stays
<1> QED BY <1>2, <1>3, SameSizeIs

-----------------------------------------------------------------------------
(* The steps and the theorem.                                              *)

(* What a step of the cells is, when nothing that leaks is in use.         *)
LinesOneByOne == Steps \subseteq {1} \/ {"lines", "deletelines"} \cap Ops = {}
NoLeaks == "deletechars" \notin Ops /\ LinesOneByOne

Writing == (\E ch \in Chars : CPutChar(ch)) \/ CRepeat \/ CLineFeed \/ CReverseIndex
ByLines == CScrollUp(1) \/ CScrollDown(1) \/ CInsertLines(1) \/ CDeleteLines(1)
ByChars == \E n \in Steps : CInsertChars(n) \/ CEraseChars(n) \/ CBackIndex(n)
Erasing == CEraseLine \/ CEraseBelow \/ CEraseAbove
Clearing == CClear \/ CResize \/ CAlternate \/ CReset \/ CApplySettings \/ CFillWithE

LEMMA Operations ==
  ASSUME NoLeaks, CNext
  PROVE  \/ Writing \/ ByLines \/ ByChars \/ Erasing \/ Clearing
         \/ CSwapIn \/ CSwapOut \/ Still(Stays) \/ InsertMode
<1>1. ASSUME LinesOneByOne,
             \/ "lines" \in Ops /\ \E n \in Steps : CScrollUp(n) \/ CScrollDown(n) \/ CInsertLines(n)
             \/ "deletelines" \in Ops /\ \E n \in Steps : CDeleteLines(n)
      PROVE  ByLines
  <2>1. "lines" \in Ops \/ "deletelines" \in Ops
    BY <1>1
  <2>2. Steps \subseteq {1}
    BY <1>1, <2>1 DEF LinesOneByOne
  <2>3. PICK n \in Steps : CScrollUp(n) \/ CScrollDown(n) \/ CInsertLines(n) \/ CDeleteLines(n)
    BY <1>1
  <2>4. n = 1
    BY <2>2
  <2> QED BY <2>3, <2>4 DEF ByLines
<1> QED
  BY <1>1 DEF CNext, NoLeaks, Writing, ByChars, Erasing, Clearing, Still, Stays

(* Each of them is one of the geometry, or leaves it alone.                *)
LEMMA StepOfGeometry ==
  ASSUME [CNext]_cellvars
  PROVE  [Next]_geo
<1>1. CASE UNCHANGED cellvars
  BY <1>1 DEF cellvars
<1>2. ASSUME NEW n \in Steps, "lines" \in Ops, CScrollUp(n) \/ CScrollDown(n) \/ CInsertLines(n)
      PROVE  Next
  BY <1>2 DEF CScrollUp, CScrollDown, CInsertLines, Lines, Next, NextOf
<1>3. ASSUME NEW n \in Steps, "deletelines" \in Ops, CDeleteLines(n)
      PROVE  Next
  BY <1>3 DEF CDeleteLines, Next, NextOf
<1>4. CASE "print" \in Ops /\ (Writing \/ Still(CarriageReturn))
  BY <1>4 DEF Writing, CPutChar, CRepeat, CLineFeed, CReverseIndex, Still, Printing, Next, NextOf
<1>5. CASE "move" \in Ops /\ (Still(Move) \/ Still(BackSpace) \/ \E n \in Steps : CBackIndex(n))
  BY <1>5 DEF Still, CBackIndex, Next, NextOf
<1>6. CASE InsertMode \/ CEraseLine \/ \E n \in Steps : CInsertChars(n) \/ CEraseChars(n) \/ CDeleteChars(n)
  BY <1>6 DEF InsertMode, CEraseLine, CInsertChars, CEraseChars, CDeleteChars
<1>7. CASE "erase" \in Ops /\ (CEraseBelow \/ CEraseAbove \/ CClear)
  BY <1>7 DEF CEraseBelow, CEraseAbove, CClear, Erase, Next, NextOf
<1>8. CASE \/ "place" \in Ops /\ Still(Place)
           \/ "region" \in Ops /\ Still(SetScrollingRegion)
           \/ "origin" \in Ops /\ Still(SetOriginMode)
           \/ "save" \in Ops /\ Still(SaveCursor)
           \/ "restore" \in Ops /\ \E a \in BOOLEAN : Still(RestoreCursor(a))
           \/ "noclear" \in Ops /\ Still(ApplySettingsNoClear)
  BY <1>8 DEF Still, Next, NextOf
<1>9. CASE \/ "alt" \in Ops /\ (CSwapIn \/ CSwapOut)
           \/ {"alt", "save", "restore"} \subseteq Ops /\ CAlternate
  BY <1>9 DEF CSwapIn, CSwapOut, CAlternate, Next, NextOf
<1>10. CASE \/ "resize" \in Ops /\ CResize
            \/ "reset" \in Ops /\ (CReset \/ CFillWithE)
            \/ "settings" \in Ops /\ CApplySettings
  BY <1>10 DEF CResize, CReset, CFillWithE, CApplySettings, Next, NextOf
<1> QED
  BY <1>1, <1>2, <1>3, <1>4, <1>5, <1>6, <1>7, <1>8, <1>9, <1>10 DEF CNext, Writing

LEMMA CountsStep ==
  ASSUME Wide, Slack = 0, Careful, NoLeaks, CInv, [CNext]_cellvars
  PROVE  CInv'
<1>1. IInv' /\ SizesKnown'
  BY StepOfGeometry, StepKeeps, SizesStay DEF CInv
<1> SUFFICES CellsRight'
  BY <1>1 DEF CInv
<1>2. CASE UNCHANGED cellvars
  BY <1>2, StillCounts
<1>3. CASE CNext
  <2>1. CASE Writing
    BY <2>1, PrintingCounts DEF Writing
  <2>2. CASE ByLines
    BY <2>2, LinesCount DEF ByLines
  <2>3. CASE ByChars
    BY <2>3, CharsCount DEF ByChars
  <2>4. CASE Erasing
    BY <2>4, ErasingCounts DEF Erasing
  <2>5. CASE Clearing
    BY <1>1, <2>5, ClearingCounts DEF Clearing
  <2>6. CASE CSwapIn \/ CSwapOut
    BY <1>1, <2>6, SwapsCount
  <2>7. CASE Still(Stays) \/ InsertMode
    BY <2>7, StillCounts
  <2> QED BY <1>3, <2>1, <2>2, <2>3, <2>4, <2>5, <2>6, <2>7, Operations
<1> QED BY <1>2, <1>3

LEMMA CountsInit ==
  ASSUME Wide, CellsInit
  PROVE  CInv
<1> DEFINE c == [p \in 0..(MaxCells - 1) |-> IF p < At(scr.h, 0) THEN " " ELSE Slot0]
<1>1. IInv
  BY InitSound DEF CellsInit
<1>2. SizesKnown
  <2>1. conf \in Sizes /\ scr = WholeScreen(conf[1], conf[2]) /\ backup = scr
    BY DEF CellsInit, Init
  <2>2. <<scr.w, scr.h>> = conf
    BY <2>1, SizeIs DEF WholeScreen
  <2> QED BY <2>1, <2>2 DEF SizesKnown
<1>3. Fits
  BY <1>2, FitsIs DEF SizesKnown
<1>4. buf = [cells |-> c, cache |-> CacheInit] /\ last = NoChar
  BY DEF CellsInit
<1>5. Slot0 \in Symbols /\ " " \in Symbols /\ \A s \in Slots : s # " "
  BY CellsAssumption, SlotsAre DEF Symbols, Ascii
<1>6. c \in [AllCells -> Symbols] /\ \A p \in OnScreen : c[p] = " "
  <2>1. c \in [AllCells -> Symbols]
    BY <1>5 DEF AllCells
  <2>2. OnScreen \subseteq AllCells /\ \A p \in OnScreen : p < At(scr.h, 0)
    BY <1>3, OnScreenIs DEF Fits
  <2> QED BY <2>1, <2>2 DEF AllCells
<1>7. CacheInit \in Caches /\ \A s \in Slots : CacheInit[s].count = 0
  BY DEF CacheInit, Caches
<1> HIDE DEF c
<1>8. buf \in Bufs /\ buf.cells = c /\ buf.cache = CacheInit
  BY <1>4, <1>6, <1>7 DEF Bufs
<1>9. \A s \in Slots : Count(c, OnScreen, s) = 0
  BY <1>3, <1>5, <1>6, OnScreenIs, CountIs
<1>10. Exact(buf, OnScreen)
  BY <1>3, <1>7, <1>8, <1>9, OnScreenIs DEF Exact, Counted
<1> QED BY <1>1, <1>2, <1>4, <1>10 DEF CInv, CellsRight

(* The use count of every glyph in the cache is the number of cells of the *)
(* screen that show it, after every sequence of operations in which lines  *)
(* are moved one at a time and DCH is not used: those two leak.  The       *)
(* screens may be of any size that fits screen[] and line_attribs, and may *)
(* fill screen[] to its last cell.                                         *)
THEOREM CountsExact ==
  ASSUME Wide, Slack = 0, Careful, NoLeaks
  PROVE  CSpec => []ExactRefs
<1>1. CellsInit => CInv
  BY CountsInit
<1>2. CInv /\ [CNext]_cellvars => CInv'
  BY CountsStep
<1>3. CInv => ExactRefs
  <2> SUFFICES ASSUME CInv, NEW s \in Slots PROVE buf.cache[s].count = Uses(s)
    BY DEF ExactRefs
  <2>1. Counted(buf.cache, buf.cells, OnScreen)
    BY CInvIs DEF Exact
  <2> QED BY <2>1 DEF Counted, Count, UsesIn, Uses, OnScreen
<1> QED
  BY <1>1, <1>2, <1>3, PTL DEF CSpec

-----------------------------------------------------------------------------
(* The operators of Grid's own geometry are those of this one.             *)
LEMMA MovedSame ==
  \A dy, dx, junk : Ideal!Moved(dy, dx, junk) = Moved(dy, dx, junk)
<1>1. \A c : Ideal!ClearInvalidHanging(c) = ClearInvalidHanging(c)
  BY Zenon DEF Ideal!ClearInvalidHanging, ClearInvalidHanging
<1>2. \A c, i : Ideal!ConfineY(c, i) = ConfineY(c, i)
  BY Zenon DEF Ideal!ConfineY, ConfineY, Ideal!Lower, Lower
<1>3. \A c, n : Ideal!ReverseWrap(c, n) = ReverseWrap(c, n)
  BY Zenon DEF Ideal!ReverseWrap, ReverseWrap, Ideal!Lower, Lower
<1>4. \A c, dx, junk : Ideal!MoveX(c, dx, junk) = MoveX(c, dx, junk)
  <2>1. \A y, junk : Ideal!DoubleAt(y, junk) = DoubleAt(y, junk)
    BY Zenon DEF Ideal!DoubleAt, DoubleAt
  <2>2. \A x : Ideal!PastHalf(x) = PastHalf(x)
    BY Zenon DEF Ideal!PastHalf, PastHalf, Ideal!Half, Half
  <2>3. Ideal!Half = Half /\ \A a, b : Ideal!Lower(a, b) = Lower(a, b)
    BY Zenon DEF Ideal!Half, Half, Ideal!Lower, Lower
  <2> QED BY <1>3, <2>1, <2>2, <2>3 DEF Ideal!MoveX, MoveX
<1>5. \A s, c : Ideal!Inside(s, c) = Inside(s, c)
  BY Zenon DEF Ideal!Inside, Inside
<1> QED BY <1>1, <1>2, <1>4, <1>5, Zenon DEF Ideal!Moved, Moved

LEMMA SetSame ==
  /\ \A c, v : Ideal!SetX(c, v) = SetX(c, v)
  /\ \A s, c, v : Ideal!SetY(s, c, v) = SetY(s, c, v)
BY Zenon DEF Ideal!SetX, SetX, Ideal!ClampDouble, ClampDouble, Ideal!Half, Half, Ideal!Lower, Lower, Ideal!SetY, SetY

LEMMA DoublesSame ==
  /\ \A a, b, n : Ideal!DoublesUp(a, b, n) = DoublesUp(a, b, n)
  /\ \A a, b, n : Ideal!DoublesDown(a, b, n) = DoublesDown(a, b, n)
  /\ \A a, b : Ideal!DoublesOff(a, b) = DoublesOff(a, b)
  /\ Ideal!NoDoubles = NoDoubles /\ Ideal!Half = Half
  /\ \A a, b : Ideal!Lower(a, b) = Lower(a, b)
BY Zenon DEF Ideal!DoublesUp, DoublesUp, Ideal!DoublesDown, DoublesDown,
   Ideal!DoublesOff, DoublesOff, Ideal!NoDoubles, NoDoubles, Ideal!Half, Half,
   Ideal!Lower, Lower

LEMMA WriteSame ==
  /\ \A c : Ideal!WrapScrolls(c) <=> WrapScrolls(c)
  /\ \A c : Ideal!WriteAt(c) = WriteAt(c)
  /\ \A c : Ideal!ClearInvalidHanging(c) = ClearInvalidHanging(c)
  /\ \A c, d : Ideal!Advance(c, d) = Advance(c, d)
BY Zenon DEF Ideal!WrapScrolls, WrapScrolls, Ideal!Wraps, Wraps, Ideal!WriteAt, WriteAt,
   Ideal!Lower, Lower, Ideal!Advance, Advance, Ideal!Half, Half,
   Ideal!ClearInvalidHanging, ClearInvalidHanging

LEMMA PrintSame ==
  /\ PutChar => Ideal!PutChar
  /\ Repeat => Ideal!Repeat
BY WriteSame, DoublesSame DEF Ideal!PutChar, PutChar, Ideal!Repeat, Repeat,
   Ideal!PutGraphic, PutGraphic

LEMMA MotionSame ==
  /\ Move => Ideal!Move
  /\ BackSpace => Ideal!BackSpace
  /\ LineFeed => Ideal!LineFeed
  /\ ReverseIndex => Ideal!ReverseIndex
  /\ Place => Ideal!Place
  /\ CarriageReturn => Ideal!CarriageReturn
  /\ \A n : BackIndex(n) => Ideal!BackIndex(n)
<1>1. \A dy, dx : Ideal!Motion(dy, dx) <=> Motion(dy, dx)
  BY MovedSame DEF Ideal!Motion, Motion
<1>2. Move => Ideal!Move
  BY <1>1, MovedSame, SetSame DEF Ideal!Move, Move
<1>3. (BackSpace => Ideal!BackSpace) /\ (LineFeed => Ideal!LineFeed)
      /\ (ReverseIndex => Ideal!ReverseIndex)
  BY <1>1, DoublesSame DEF Ideal!BackSpace, BackSpace, Ideal!LineFeed, LineFeed,
     Ideal!ReverseIndex, ReverseIndex, Ideal!ScrollsUp, ScrollsUp,
     Ideal!ScrollsDown, ScrollsDown
<1>4. Place => Ideal!Place
  BY SetSame DEF Ideal!Place, Place, Ideal!CursorSet, CursorSet
<1>5. (CarriageReturn => Ideal!CarriageReturn) /\ \A n : BackIndex(n) => Ideal!BackIndex(n)
  BY SetSame DEF Ideal!CarriageReturn, CarriageReturn, Ideal!BackIndex, BackIndex
<1> QED BY <1>2, <1>3, <1>4, <1>5

LEMMA LinesSame ==
  /\ \A n : ScrollUp(n) => Ideal!ScrollUp(n)
  /\ \A n : ScrollDown(n) => Ideal!ScrollDown(n)
  /\ \A n : InsertLines(n) => Ideal!InsertLines(n)
  /\ EraseBelow => Ideal!EraseBelow
  /\ EraseAbove => Ideal!EraseAbove
  /\ EraseAll => Ideal!EraseAll
<1>1. \A s, c : Ideal!Inside(s, c) <=> Inside(s, c)
  BY Zenon DEF Ideal!Inside, Inside
<1> QED
  BY <1>1, DoublesSame, SetSame DEF Ideal!ScrollUp, ScrollUp, Ideal!ScrollDown, ScrollDown,
     Ideal!InsertLines, InsertLines, Ideal!EraseBelow, EraseBelow, Ideal!EraseAbove, EraseAbove,
     Ideal!EraseAll, EraseAll

LEMMA RegionSame ==
  /\ SetScrollingRegion => Ideal!SetScrollingRegion
  /\ SetOriginMode => Ideal!SetOriginMode
<1>1. \A a, b : Ideal!Region(a, b) = Region(a, b)
  BY Zenon DEF Ideal!Region, Region, Ideal!WholeScreen, WholeScreen
<1>2. \A s, c : Ideal!HomeIn(s, c) = HomeIn(s, c)
  BY SetSame, Zenon DEF Ideal!HomeIn, HomeIn
<1> QED BY <1>1, <1>2 DEF Ideal!SetScrollingRegion, SetScrollingRegion,
     Ideal!SetOriginMode, SetOriginMode

LEMMA SavedSame ==
  /\ SaveCursor => Ideal!SaveCursor
  /\ \A a : RestoreCursor(a) => Ideal!RestoreCursor(a)
  /\ SwapIn => Ideal!SwapIn
  /\ AlternateIn => Ideal!AlternateIn
<1>1. \A s : Ideal!Restorable(s) <=> Restorable(s)
  BY DEF Ideal!Restorable, Restorable, Ideal!InScreen, InScreen
<1>2. \A c, d, a : Ideal!Restored(c, d, a) = Restored(c, d, a)
  BY Zenon DEF Ideal!Restored, Restored, Ideal!CursorHome, CursorHome, Ideal!Half, Half
<1> QED BY <1>1, <1>2, DoublesSame DEF Ideal!SaveCursor, SaveCursor,
     Ideal!RestoreCursor, RestoreCursor, Ideal!SwapIn, SwapIn, Ideal!AlternateIn, AlternateIn,
     Ideal!ToAlternate, ToAlternate

LEMMA SizesSame ==
  /\ ColumnMode => Ideal!ColumnMode
  /\ AlternateOut => Ideal!AlternateOut
  /\ Resize => Ideal!Resize
  /\ SwapOut => Ideal!SwapOut
  /\ Ideal!Resized <=> Resized
  /\ Reset => Ideal!Reset
  /\ FillWithE => Ideal!FillWithE
  /\ ApplySettings => Ideal!ApplySettings
<1>1. \A w, h : Ideal!WholeScreen(w, h) = WholeScreen(w, h)
  BY Zenon DEF Ideal!WholeScreen, WholeScreen
<1>2. \A s : Ideal!Restorable(s) <=> Restorable(s)
  BY DEF Ideal!Restorable, Restorable, Ideal!InScreen, InScreen
<1>3. \A c, d, a : Ideal!Restored(c, d, a) = Restored(c, d, a)
  BY Zenon DEF Ideal!Restored, Restored, Ideal!CursorHome, CursorHome, Ideal!Half, Half
<1>4. Ideal!Unswapped = Unswapped
  BY <1>1 DEF Ideal!Unswapped, Unswapped
<1>5. /\ \A c : Ideal!ResetOnResize(c) = ResetOnResize(c)
      /\ \A c : Ideal!CursorHome(c) = CursorHome(c)
      /\ Ideal!Resized <=> Resized
  BY Zenon DEF Ideal!ResetOnResize, ResetOnResize, Ideal!CursorHome, CursorHome,
     Ideal!Resized, Resized
<1>6. (ColumnMode => Ideal!ColumnMode) /\ (Resize => Ideal!Resize)
  BY <1>1, <1>5, DoublesSame DEF Ideal!ColumnMode, ColumnMode, Ideal!Resize, Resize
<1>7. (AlternateOut => Ideal!AlternateOut) /\ (SwapOut => Ideal!SwapOut)
  BY <1>2, <1>3, <1>4, <1>5, DoublesSame DEF Ideal!AlternateOut, AlternateOut,
     Ideal!SwapOut, SwapOut
<1>8. \A s : ResetTo(s) => Ideal!ResetTo(s)
  BY <1>1, DoublesSame DEF Ideal!ResetTo, ResetTo, Ideal!FreshCursor, FreshCursor
<1> QED BY <1>5, <1>6, <1>7, <1>8 DEF Ideal!Reset, Reset, Ideal!FillWithE, FillWithE,
     Ideal!ApplySettings, ApplySettings

-----------------------------------------------------------------------------
(* Places.                                                                 *)
Rows == 0..(scr.h - 1)
Columns == 0..(scr.w - 1)

LEMMA PlacesAre ==
  ASSUME Fits
  PROVE  /\ Rows \subseteq Nat /\ Columns \subseteq Nat /\ scr.w \in Nat /\ scr.h \in Nat
         /\ \A y \in Rows, x \in Columns :
              At(y, x) \in OnScreen /\ At(y, x) \in AllCells /\ At(y, x) = At(y, 0) + x
<1>1. scr.w \in Nat /\ scr.h \in Nat
  BY DEF Fits
<1>2. OnScreen \subseteq AllCells
  BY OnScreenIs
<1> QED BY <1>1, <1>2, LineIs DEF Rows, Columns

(* The cells of the screen go row by row.                                  *)
LEMMA PlacesInOrder ==
  ASSUME Fits, NEW y \in Rows, NEW x \in Columns, NEW z \in Rows, NEW u \in Columns
  PROVE  /\ At(y, x) <= At(z, u) <=> y < z \/ (y = z /\ x <= u)
         /\ At(y, x) = At(z, u) <=> y = z /\ x = u
<1> DEFINE w == scr.w  a == y * scr.w  b == z * scr.w
<1>1. w \in Nat /\ y \in Nat /\ z \in Nat /\ x \in Nat /\ u \in Nat /\ x < w /\ u < w
  BY PlacesAre DEF Rows, Columns
<1>2. At(y, x) = a + x /\ At(z, u) = b + u
  BY DEF At
<1>3. y < z => a + w <= b
  BY <1>1, Times
<1>4. z < y => b + w <= a
  BY <1>1, Times
<1>5. a \in Nat /\ b \in Nat
  <2>1. \A i \in Nat : i * w \in Nat
    BY <1>1, Times, 0 \in Nat
  <2> QED BY <1>1, <2>1
<1>6. y = z => a = b
  OBVIOUS
<1> HIDE DEF w, a, b
<1> QED BY <1>1, <1>2, <1>3, <1>4, <1>5, <1>6

-----------------------------------------------------------------------------
(* What is seen in a cell.                                                 *)
Cell(b, y, x) == b.cells[At(y, x)]
Seen(b, y, x) == Retrieve(b.cache, Cell(b, y, x))

(* The slots have the same contents.                                       *)
SameBytes(b, e) == \A s \in Slots : e.cache[s].bytes = b.cache[s].bytes

(* Each slot a cell of the screen refers to is in use.                     *)
Held(b) == \A p \in OnScreen : b.cells[p] \in Slots => b.cache[b.cells[p]].count # 0

LEMMA ExactHolds ==
  ASSUME Fits, NEW b, Exact(b, OnScreen)
  PROVE  b \in Bufs /\ Held(b)
<1> SUFFICES ASSUME NEW p \in OnScreen, b.cells[p] \in Slots
             PROVE  b.cache[b.cells[p]].count # 0
  BY DEF Exact, Held
<1>1. b.cache[b.cells[p]].count = Count(b.cells, OnScreen, b.cells[p])
  BY DEF Exact, Counted
<1> QED BY <1>1, CountIs, OnScreenIs

(* Cells that hold the same show the same, before a loop and after it.     *)
LEMMA SeenMoves ==
  ASSUME Fits, NEW b, NEW e, SameBytes(b, e), Held(b), Held(e),
         NEW y \in Rows, NEW x \in Columns, NEW z \in Rows, NEW u \in Columns,
         Cell(e, y, x) = Cell(b, z, u)
  PROVE  Seen(e, y, x) = Seen(b, z, u)
<1>1. At(y, x) \in OnScreen /\ At(z, u) \in OnScreen
  BY PlacesAre
<1>2. Cell(b, z, u) \in Slots => b.cache[Cell(b, z, u)].count # 0
  BY <1>1 DEF Held, Cell
<1>3. Cell(b, z, u) \in Slots => e.cache[Cell(b, z, u)].count # 0
  BY <1>1 DEF Held, Cell
<1> QED BY <1>2, <1>3 DEF Seen, Retrieve, IsRef, SameBytes

LEMMA SeenBlank ==
  ASSUME NEW e, NEW y, NEW x, Cell(e, y, x) \in Ascii
  PROVE  Seen(e, y, x) = Cell(e, y, x)
BY SlotsAre DEF Seen, Retrieve, IsRef

-----------------------------------------------------------------------------
(* Releasing cells and counting them once more change no character.        *)
SameCells(b, e) == e \in Bufs /\ e.cells = b.cells /\ SameBytes(b, e)

LEMMA SameAgain ==
  ASSUME NEW b, NEW c, NEW e, SameCells(b, c), SameCells(c, e)
  PROVE  SameCells(b, e)
BY DEF SameCells, SameBytes

LEMMA RemoveKeeps ==
  ASSUME NEW k \in Caches, NEW r, NEW s \in Slots
  PROVE  Remove(k, r)[s].bytes = k[s].bytes /\ Inc(k, r)[s].bytes = k[s].bytes
<1>1. k = [t \in Slots |-> k[t]] /\ k[s] = [bytes |-> k[s].bytes, count |-> k[s].count]
  BY DEF Caches
<1> QED BY <1>1 DEF Remove, Inc, IsRef

LEMMA FreeOneSame ==
  ASSUME NEW b \in Bufs, NEW p
  PROVE  SameCells(b, FreeCell(b, p)) /\ SameCells(b, BackupCell(b, p))
<1>1. b.cache \in Caches
  BY DEF Bufs
<1>2. Remove(b.cache, b.cells[p]) \in Caches /\ Inc(b.cache, b.cells[p]) \in Caches
  BY <1>1, RemoveIs, IncTyped
<1> QED BY <1>1, <1>2, BufIs, RemoveKeeps DEF SameCells, SameBytes, FreeCell, BackupCell

LEMMA FreeCellsSame ==
  ASSUME NEW b \in Bufs, NEW p \in Int, NEW n \in Nat
  PROVE  SameCells(b, FreeCells(b, p, n))
<1>1. PICK f :
        /\ f[0] = b /\ \A k \in 1..n : f[k] = FreeCell(f[k - 1], p + k - 1)
        /\ FreeCells(b, p, n) = f[n]
  BY ONLY b \in Bufs, p \in Int, n \in Nat, FreeCellsRun
<1> DEFINE T == {k \in 0..n : SameCells(b, f[k])}
<1>2. 0 \in T
  BY <1>1 DEF SameCells, SameBytes
<1>3. ASSUME NEW k \in 1..n, k - 1 \in T PROVE k \in T
  <2>1. SameCells(b, f[k - 1]) /\ f[k - 1] \in Bufs
    BY <1>3 DEF SameCells
  <2>2. SameCells(b, f[k])
    BY <1>1, <2>1, FreeOneSame, SameAgain
  <2> QED BY <2>2
<1>4. n \in T
  <2> HIDE DEF T
  <2> QED BY <1>2, <1>3, TurnByTurn
<1> QED BY <1>1, <1>4

LEMMA BackupCellsSame ==
  ASSUME NEW b \in Bufs, NEW p \in Int, NEW n \in Nat
  PROVE  SameCells(b, BackupCells(b, p, n))
<1>1. PICK f :
        /\ f[0] = b /\ \A k \in 1..n : f[k] = BackupCell(f[k - 1], p + k - 1)
        /\ BackupCells(b, p, n) = f[n]
  BY ONLY b \in Bufs, p \in Int, n \in Nat, BackupCellsRun
<1> DEFINE T == {k \in 0..n : SameCells(b, f[k])}
<1>2. 0 \in T
  BY <1>1 DEF SameCells, SameBytes
<1>3. ASSUME NEW k \in 1..n, k - 1 \in T PROVE k \in T
  <2>1. SameCells(b, f[k - 1]) /\ f[k - 1] \in Bufs
    BY <1>3 DEF SameCells
  <2>2. SameCells(b, f[k])
    BY <1>1, <2>1, FreeOneSame, SameAgain
  <2> QED BY <2>2
<1>4. n \in T
  <2> HIDE DEF T
  <2> QED BY <1>2, <1>3, TurnByTurn
<1> QED BY <1>1, <1>4

-----------------------------------------------------------------------------
(* Where the cells of a buffer come from.                                  *)
LEMMA ClearCells ==
  ASSUME Fits, NEW b \in Bufs, NEW a \in Nat, NEW z \in Int
  PROVE  /\ Clear(b, a, z) \in Bufs /\ SameBytes(b, Clear(b, a, z))
         /\ \A y \in Rows, x \in Columns :
              Cell(Clear(b, a, z), y, x) =
                IF At(y, x) \in a..z THEN " " ELSE Cell(b, y, x)
<1> DEFINE c == [p \in DOMAIN b.cells |->
                   IF p \in a..Lower(z, At(scr.h, 0) - 1) THEN " " ELSE b.cells[p]]
<1>1. b.cells \in [AllCells -> Symbols] /\ DOMAIN b.cells = AllCells /\ " " \in Symbols
  BY DEF Bufs, Symbols, Ascii
<1>2. c \in [AllCells -> Symbols]
  BY <1>1
<1>3. \A y \in Rows, x \in Columns :
        c[At(y, x)] = IF At(y, x) \in a..z THEN " " ELSE b.cells[At(y, x)]
  <2> SUFFICES ASSUME NEW y \in Rows, NEW x \in Columns
               PROVE  c[At(y, x)] = IF At(y, x) \in a..z THEN " " ELSE b.cells[At(y, x)]
    OBVIOUS
  <2> DEFINE p == At(y, x)
  <2>1. p \in AllCells /\ p \in Nat /\ p <= At(scr.h, 0) - 1 /\ At(scr.h, 0) \in Nat
    BY PlacesAre, OnScreenIs DEF Fits
  <2> HIDE DEF p
  <2>2. p \in a..Lower(z, At(scr.h, 0) - 1) <=> p \in a..z
    BY <2>1 DEF Lower
  <2>3. c[p] = IF p \in a..z THEN " " ELSE b.cells[p]
    BY <1>1, <2>1, <2>2
  <2> QED BY <2>3 DEF p
<1>4. Clear(b, a, z) = [b EXCEPT !.cells = c]
  BY DEF Clear
<1> HIDE DEF c
<1>5. /\ Clear(b, a, z) \in Bufs
      /\ Clear(b, a, z).cells = c /\ Clear(b, a, z).cache = b.cache
  BY <1>2, <1>4, CellsIs
<1> QED BY <1>3, <1>5 DEF Cell, SameBytes

LEMMA ClearUtfCells ==
  ASSUME Fits, NEW b \in Bufs, NEW a \in OnScreen, NEW z \in Int, a <= z
  PROVE  /\ ClearUtf(b, a, z) \in Bufs /\ SameBytes(b, ClearUtf(b, a, z))
         /\ \A y \in Rows, x \in Columns :
              Cell(ClearUtf(b, a, z), y, x) =
                IF At(y, x) \in a..z THEN " " ELSE Cell(b, y, x)
<1> DEFINE n == Lower(z, At(scr.h, 0) - 1) - a + 1
           c == FreeCells(b, a, n)
<1>1. a \in Nat /\ a <= At(scr.h, 0) - 1 /\ At(scr.h, 0) \in Nat
  BY OnScreenIs DEF Fits
<1>2. n \in Nat
  BY <1>1 DEF Lower
<1>3. ClearUtf(b, a, z) = Clear(c, a, z)
  BY DEF ClearUtf
<1> HIDE DEF n
<1>4. SameCells(b, c)
  BY <1>1, <1>2, FreeCellsSame
<1> HIDE DEF c
<1>5. c \in Bufs /\ c.cells = b.cells /\ SameBytes(b, c)
  BY <1>4 DEF SameCells
<1>6. /\ Clear(c, a, z) \in Bufs /\ SameBytes(c, Clear(c, a, z))
      /\ \A y \in Rows, x \in Columns :
           Cell(Clear(c, a, z), y, x) = IF At(y, x) \in a..z THEN " " ELSE Cell(c, y, x)
  BY <1>1, <1>5, ClearCells
<1> QED BY <1>3, <1>5, <1>6 DEF Cell, SameBytes

(* One row gets what another one holds.                                    *)
RowCopied(b, e, to, from) ==
  /\ e \in Bufs /\ SameBytes(b, e)
  /\ \A y \in Rows, x \in Columns :
       Cell(e, y, x) = Cell(b, IF y = to THEN from ELSE y, x)

LEMMA CopyRowCells ==
  ASSUME Fits, NEW b \in Bufs, NEW to \in Rows, NEW from \in Rows
  PROVE  RowCopied(b, CopyRow(b, to, from), to, from)
<1> DEFINE c == [p \in DOMAIN b.cells |->
                   IF p \in Row(to) THEN b.cells[p - At(to, 0) + At(from, 0)] ELSE b.cells[p]]
<1>1. b.cells \in [AllCells -> Symbols] /\ DOMAIN b.cells = AllCells
  BY DEF Bufs
<1>2. /\ At(to, 0) \in Nat /\ At(from, 0) \in Nat
      /\ Row(to) = Span(At(to, 0), scr.w) /\ Row(from) = Span(At(from, 0), scr.w)
      /\ Row(from) \subseteq AllCells
  BY RowIs DEF Rows
<1>3. \A p \in Row(to) : p - At(to, 0) + At(from, 0) \in AllCells
  <2>1. scr.w \in Nat
    BY PlacesAre
  <2>2. \A p \in Row(to) : p - At(to, 0) + At(from, 0) \in Row(from)
    BY <1>2, <2>1 DEF Span
  <2> QED BY <1>2, <2>2
<1>4. c \in [AllCells -> Symbols]
  BY <1>1, <1>3
<1>5. \A y \in Rows, x \in Columns :
        c[At(y, x)] = b.cells[At(IF y = to THEN from ELSE y, x)]
  <2> SUFFICES ASSUME NEW y \in Rows, NEW x \in Columns
               PROVE  c[At(y, x)] = b.cells[At(IF y = to THEN from ELSE y, x)]
    OBVIOUS
  <2>1. /\ At(y, x) \in AllCells /\ x \in Nat
        /\ At(to, x) = At(to, 0) + x /\ At(from, x) = At(from, 0) + x
    BY PlacesAre
  <2>2. CASE y = to
    <3>1. At(to, x) \in Row(to)
      BY RowIs DEF Rows, Columns
    <3>2. At(to, x) - At(to, 0) + At(from, 0) = At(from, x)
      BY <1>2, <2>1
    <3>3. c[At(to, x)] = b.cells[At(to, x) - At(to, 0) + At(from, 0)]
      BY <1>1, <2>1, <2>2, <3>1
    <3> HIDE DEF c
    <3> QED BY <2>2, <3>2, <3>3
  <2>3. CASE y # to
    <3>1. At(y, x) \in Row(y) /\ Row(to) \cap Row(y) = {}
      BY <2>3, RowIs DEF Rows, Columns
    <3>2. c[At(y, x)] = b.cells[At(y, x)]
      BY <1>1, <2>1, <3>1
    <3> HIDE DEF c
    <3> QED BY <2>3, <3>2
  <2> QED BY <2>2, <2>3
<1>6. CopyRow(b, to, from) = [b EXCEPT !.cells = c]
  BY DEF CopyRow
<1> HIDE DEF c
<1>7. /\ CopyRow(b, to, from) \in Bufs /\ CopyRow(b, to, from).cells = c
      /\ CopyRow(b, to, from).cache = b.cache
  BY <1>4, <1>6, CellsIs
<1> QED BY <1>5, <1>7 DEF RowCopied, Cell, SameBytes

LEMMA MoveRowCells ==
  ASSUME Fits, NEW b \in Bufs, NEW to \in Rows, NEW from \in Rows, NEW final
  PROVE  RowCopied(b, MoveRow(b, to, from, final), to, from)
<1> DEFINE c == FreeRow(b, to)
           e == CopyRow(c, to, from)
           d == BackupRow(e, to)
<1>1. At(to, 0) \in Nat /\ scr.w \in Nat
  BY PlacesAre, RowIs DEF Rows
<1>2. SameCells(b, c)
  BY <1>1, FreeCellsSame DEF FreeRow
<1>3. c \in Bufs /\ c.cells = b.cells /\ SameBytes(b, c)
  BY <1>2 DEF SameCells
<1>4. MoveRow(b, to, from, final) = IF final THEN e ELSE d
  BY DEF MoveRow
<1> HIDE DEF c
<1>5. RowCopied(c, e, to, from)
  BY <1>3, CopyRowCells
<1> HIDE DEF e
<1>6. SameCells(e, d)
  BY <1>1, <1>5, BackupCellsSame DEF BackupRow, RowCopied
<1> HIDE DEF d
<1>7. RowCopied(b, e, to, from)
  BY <1>3, <1>5 DEF RowCopied, SameBytes, Cell
<1>8. RowCopied(b, d, to, from)
  BY <1>6, <1>7 DEF RowCopied, SameBytes, Cell, SameCells
<1> QED BY <1>4, <1>7, <1>8

(* The row or cell that turn k writes, the one it reads, and those that    *)
(* the first k turns have written.                                         *)
Target(y, d, k) == y + d * (k - 1)
Source(y, d, n, k) == y + d * (k - 1 + n)
Touched(y, d, k) == IF d = 1 THEN y..(y + k - 1) ELSE (y - k + 1)..y

Within(y, d, n, m, S) ==
  \A k \in 1..m : Target(y, d, k) \in S /\ Source(y, d, n, k) \in S

(* A turn reads what no turn before it has written.                        *)
ReadsAhead(y, d, n, k) ==
  /\ Source(y, d, n, k) = Target(y, d, k) + d * n
  /\ Source(y, d, n, k) # Target(y, d, k)
  /\ Source(y, d, n, k) \notin Touched(y, d, k - 1)
  /\ \A z \in Int :
       z \in Touched(y, d, k) <=> z \in Touched(y, d, k - 1) \/ z = Target(y, d, k)

LEMMA TurnsTouch ==
  ASSUME NEW y \in Int, NEW d \in {1, -1}, NEW n \in Nat \ {0}, NEW k \in Nat \ {0}
  PROVE  ReadsAhead(y, d, n, k)
<1> DEFINE to == Target(y, d, k)  from == Source(y, d, n, k)
<1>1. CASE d = 1
  <2>1. to = y + k - 1 /\ from = y + k - 1 + n /\ d * n = n
    BY <1>1 DEF Target, Source
  <2>2. Touched(y, d, k) = y..(y + k - 1) /\ Touched(y, d, k - 1) = y..(y + k - 2)
    BY <1>1 DEF Touched
  <2> QED BY <2>1, <2>2 DEF ReadsAhead
<1>2. CASE d = -1
  <2>1. to = y - k + 1 /\ from = y - k + 1 - n /\ d * n = -n
    BY <1>2 DEF Target, Source
  <2>2. /\ Touched(y, d, k) = (y - k + 1)..y
        /\ Touched(y, d, k - 1) = (y - k + 2)..y
    BY <1>2 DEF Touched
  <2> QED BY <2>1, <2>2 DEF ReadsAhead
<1> QED BY <1>1, <1>2

LEMMA NoneTouched == \A y \in Int, d \in {1, -1} : Touched(y, d, 0) = {}
BY DEF Touched

(* The buffers after each turn of the loop.                                *)
RowTurns(f, b, y, d, n, m) ==
  /\ f[0] = b /\ \A k \in 0..m : f[k] \in Bufs
  /\ \A k \in 1..m :
       f[k] = MoveRow(f[k - 1], Target(y, d, k), Source(y, d, n, k), k = m)

LEMMA MoveRowsRun ==
  ASSUME Fits, NEW b \in Bufs, NEW y \in Int, NEW d \in {1, -1}, NEW n \in Nat, NEW m \in Nat,
         Within(y, d, n, m, Rows)
  PROVE  \E f : RowTurns(f, b, y, d, n, m) /\ MoveRows(b, y, d, n, m) = f[m]
<1> DEFINE turn(c, k) == MoveRow(c, Target(y, d, k), Source(y, d, n, k), k = m)
           F == [k \in Nat |-> [c \in Bufs |-> IF k \in 1..m THEN turn(c, k) ELSE c]]
           f[k \in 0..m] == IF k = 0 THEN b ELSE turn(f[k - 1], k)
<1>1. MoveRows(b, y, d, n, m) = f[m]
  BY DEF MoveRows, Loop, Target, Source
<1>2. ASSUME NEW k \in 1..m, NEW c \in Bufs PROVE turn(c, k) \in Bufs
  <2> DEFINE to == Target(y, d, k)  from == Source(y, d, n, k)
  <2>1. to \in Rows /\ from \in Rows
    BY DEF Within
  <2>2. turn(c, k) = MoveRow(c, to, from, k = m)
    OBVIOUS
  <2> HIDE DEF to, from, turn
  <2> QED BY <2>1, <2>2, MoveRowCells DEF RowCopied
<1>11. \A k \in 1..m : \A c : turn(c, k) = MoveRow(c, Target(y, d, k), Source(y, d, n, k), k = m)
  OBVIOUS
<1> HIDE DEF turn
<1>3. F \in [Nat -> [Bufs -> Bufs]]
  BY <1>2
<1>4. PICK h : IsRunTo(h, m, Bufs, b, F)
  <2> HIDE DEF F
  <2> QED BY <1>3, Recursion
<1>5. h = [k \in 0..m |-> IF k = 0 THEN b ELSE turn(h[k - 1], k)]
  <2>1. ASSUME NEW k \in 1..m PROVE h[k] = turn(h[k - 1], k)
    <3>1. h[k - 1] \in Bufs /\ k \in Nat
      BY <1>4 DEF IsRunTo
    <3>2. F[k][h[k - 1]] = turn(h[k - 1], k)
      BY <3>1
    <3> HIDE DEF F
    <3> QED BY <1>4, <3>2 DEF IsRunTo
  <2> HIDE DEF F
  <2>2. \A k \in 0..m : k = 0 \/ k \in 1..m
    OBVIOUS
  <2> QED BY <1>4, <2>1, <2>2 DEF IsRunTo
<1>6. f = [k \in 0..m |-> IF k = 0 THEN b ELSE turn(f[k - 1], k)]
  BY <1>5, Zenon
<1> HIDE DEF f, F
<1>7. f[0] = b /\ \A k \in 1..m : f[k] = turn(f[k - 1], k)
  BY <1>6
<1> DEFINE T == {k \in 0..m : f[k] \in Bufs}
<1>8. 0 \in T
  BY <1>7
<1>9. ASSUME NEW k \in 1..m, k - 1 \in T PROVE k \in T
  BY <1>2, <1>7, <1>9
<1>10. \A k \in 0..m : k \in T
  <2> HIDE DEF T
  <2> QED BY <1>8, <1>9, TurnByTurn
<1>12. RowTurns(f, b, y, d, n, m)
  BY <1>7, <1>10, <1>11 DEF RowTurns
<1> QED BY <1>1, <1>12

(* Rows that each get what is n rows ahead of them.                        *)
RowsMoved(b, e, y, d, n, m) ==
  /\ e \in Bufs /\ SameBytes(b, e)
  /\ \A z \in Rows, x \in Columns :
       Cell(e, z, x) = IF z \in Touched(y, d, m) THEN Cell(b, z + d * n, x) ELSE Cell(b, z, x)

LEMMA MoveRowsCells ==
  ASSUME Fits, NEW b \in Bufs, NEW y \in Int, NEW d \in {1, -1}, NEW n \in Nat \ {0}, NEW m \in Nat,
         Within(y, d, n, m, Rows)
  PROVE  RowsMoved(b, MoveRows(b, y, d, n, m), y, d, n, m)
<1>1. PICK f : RowTurns(f, b, y, d, n, m) /\ MoveRows(b, y, d, n, m) = f[m]
  <2>1. n \in Nat
    OBVIOUS
  <2> QED BY <2>1, MoveRowsRun
<1> DEFINE T == {k \in 0..m : RowsMoved(b, f[k], y, d, n, k)}
<1>2. 0 \in T
  BY <1>1, NoneTouched DEF RowsMoved, SameBytes, RowTurns
<1>3. ASSUME NEW k \in 1..m, k - 1 \in T PROVE k \in T
  <2> DEFINE to == Target(y, d, k)
             from == Source(y, d, n, k)
             c == f[k - 1]
             e == f[k]
  <2>1. to \in Rows /\ from \in Rows
    BY DEF Within
  <2>9. k - 1 \in 0..m /\ k - 1 \in Nat
    OBVIOUS
  <2>2. RowsMoved(b, c, y, d, n, k - 1) /\ c \in Bufs
    BY <1>3 DEF RowsMoved
  <2>3. e = MoveRow(c, to, from, k = m)
    BY <1>1 DEF RowTurns
  <2>4. /\ from = to + d * n /\ from \notin Touched(y, d, k - 1)
        /\ \A z \in Int : z \in Touched(y, d, k) <=> z \in Touched(y, d, k - 1) \/ z = to
    <3>1. k \in Nat \ {0}
      OBVIOUS
    <3>2. ReadsAhead(y, d, n, k)
      BY <3>1, TurnsTouch
    <3> QED BY <3>2 DEF ReadsAhead
  <2> HIDE DEF to, from, c, e, T
  <2>5. RowCopied(c, e, to, from)
    BY <2>1, <2>2, <2>3, MoveRowCells
  <2>6. e \in Bufs /\ SameBytes(b, e)
    BY <2>2, <2>5 DEF RowCopied, RowsMoved, SameBytes
  <2>7. ASSUME NEW z \in Rows, NEW x \in Columns
        PROVE  Cell(e, z, x) =
                 IF z \in Touched(y, d, k) THEN Cell(b, z + d * n, x) ELSE Cell(b, z, x)
    <3>1. z \in Int
      BY PlacesAre
    <3>2. CASE z = to
      <4>1. Cell(e, z, x) = Cell(c, from, x)
        BY <2>5, <3>2 DEF RowCopied
      <4>2. Cell(c, from, x) = Cell(b, from, x)
        BY <2>1, <2>2, <2>4 DEF RowsMoved
      <4> QED BY <2>4, <3>1, <3>2, <4>1, <4>2
    <3>3. CASE z # to
      <4>1. Cell(e, z, x) = Cell(c, z, x)
        BY <2>5, <3>3 DEF RowCopied
      <4>2. z \in Touched(y, d, k) <=> z \in Touched(y, d, k - 1)
        BY <2>4, <3>1, <3>3
      <4> QED BY <2>2, <4>1, <4>2 DEF RowsMoved
    <3> QED BY <3>2, <3>3
  <2>8. RowsMoved(b, e, y, d, n, k)
    BY <2>6, <2>7 DEF RowsMoved
  <2> QED BY <2>8 DEF T, e
<1>4. m \in T
  <2> HIDE DEF T
  <2> QED BY <1>2, <1>3, TurnByTurn
<1> QED BY <1>1, <1>4

-----------------------------------------------------------------------------
(* The same of cells.                                                      *)
CellCopied(b, e, p, q) ==
  e \in Bufs /\ SameBytes(b, e) /\ e.cells = [b.cells EXCEPT ![p] = b.cells[q]]

LEMMA MoveCellCells ==
  ASSUME NEW b \in Bufs, NEW p \in AllCells, NEW q \in AllCells
  PROVE  CellCopied(b, MoveCell(b, p, q), p, q)
<1> DEFINE c == FreeCell(b, p)
           e == CopyCell(c, p, q)
           g == [c.cells EXCEPT ![p] = c.cells[q]]
<1>1. SameCells(b, c)
  BY FreeOneSame
<1>2. MoveCell(b, p, q) = BackupCell(e, p)
  BY DEF MoveCell
<1> HIDE DEF c
<1>3. c \in Bufs /\ c.cells = b.cells /\ SameBytes(b, c)
  BY <1>1 DEF SameCells
<1>4. g \in [AllCells -> Symbols] /\ e = [c EXCEPT !.cells = g]
  BY <1>3 DEF Bufs, CopyCell
<1>5. g = [b.cells EXCEPT ![p] = b.cells[q]]
  BY <1>3
<1> HIDE DEF g, e
<1>6. e \in Bufs /\ e.cells = g /\ e.cache = c.cache
  BY <1>3, <1>4, CellsIs
<1>7. SameCells(e, BackupCell(e, p))
  BY <1>6, FreeOneSame
<1> QED BY <1>2, <1>3, <1>5, <1>6, <1>7 DEF SameCells, SameBytes, CellCopied

(* The buffers after each turn of the loop.                                *)
CellTurns(f, b, p, d, n, m) ==
  /\ f[0] = b /\ \A k \in 0..m : f[k] \in Bufs
  /\ \A k \in 1..m :
       f[k] = MoveCell(f[k - 1], Target(p, d, k), Source(p, d, n, k))

LEMMA MoveCellsRun ==
  ASSUME NEW b \in Bufs, NEW p \in Int, NEW d \in {1, -1}, NEW n \in Nat, NEW m \in Nat,
         Within(p, d, n, m, AllCells)
  PROVE  \E f : CellTurns(f, b, p, d, n, m) /\ MoveCells(b, p, d, n, m) = f[m]
<1> DEFINE turn(c, k) == MoveCell(c, Target(p, d, k), Source(p, d, n, k))
           F == [k \in Nat |-> [c \in Bufs |-> IF k \in 1..m THEN turn(c, k) ELSE c]]
           f[k \in 0..m] == IF k = 0 THEN b ELSE turn(f[k - 1], k)
<1>1. MoveCells(b, p, d, n, m) = f[m]
  BY DEF MoveCells, Loop, Target, Source
<1>2. ASSUME NEW k \in 1..m, NEW c \in Bufs PROVE turn(c, k) \in Bufs
  <2> DEFINE to == Target(p, d, k)  from == Source(p, d, n, k)
  <2>1. to \in AllCells /\ from \in AllCells
    BY DEF Within
  <2>2. turn(c, k) = MoveCell(c, to, from)
    OBVIOUS
  <2> HIDE DEF to, from, turn
  <2>3. CellCopied(c, turn(c, k), to, from)
    BY <2>1, <2>2, MoveCellCells
  <2> QED BY <2>3 DEF CellCopied
<1>3. \A k \in 1..m : \A c : turn(c, k) = MoveCell(c, Target(p, d, k), Source(p, d, n, k))
  OBVIOUS
<1> HIDE DEF turn
<1>4. F \in [Nat -> [Bufs -> Bufs]]
  BY <1>2
<1>5. PICK h : IsRunTo(h, m, Bufs, b, F)
  <2> HIDE DEF F
  <2> QED BY <1>4, Recursion
<1>6. h = [k \in 0..m |-> IF k = 0 THEN b ELSE turn(h[k - 1], k)]
  <2>1. ASSUME NEW k \in 1..m PROVE h[k] = turn(h[k - 1], k)
    <3>1. h[k - 1] \in Bufs /\ k \in Nat
      BY <1>5 DEF IsRunTo
    <3>2. F[k][h[k - 1]] = turn(h[k - 1], k)
      BY <3>1
    <3> HIDE DEF F
    <3> QED BY <1>5, <3>2 DEF IsRunTo
  <2> HIDE DEF F
  <2>2. \A k \in 0..m : k = 0 \/ k \in 1..m
    OBVIOUS
  <2> QED BY <1>5, <2>1, <2>2 DEF IsRunTo
<1>7. f = [k \in 0..m |-> IF k = 0 THEN b ELSE turn(f[k - 1], k)]
  BY <1>6, Zenon
<1> HIDE DEF f, F
<1>8. f[0] = b /\ \A k \in 1..m : f[k] = turn(f[k - 1], k)
  BY <1>7
<1> DEFINE T == {k \in 0..m : f[k] \in Bufs}
<1>9. 0 \in T
  BY <1>8
<1>10. ASSUME NEW k \in 1..m, k - 1 \in T PROVE k \in T
  BY <1>2, <1>8, <1>10
<1>11. \A k \in 0..m : k \in T
  <2> HIDE DEF T
  <2> QED BY <1>9, <1>10, TurnByTurn
<1>12. CellTurns(f, b, p, d, n, m)
  BY <1>3, <1>8, <1>11 DEF CellTurns
<1> QED BY <1>1, <1>12

CellsMoved(b, e, p, d, n, m) ==
  /\ e \in Bufs /\ SameBytes(b, e)
  /\ \A q \in AllCells :
       e.cells[q] = IF q \in Touched(p, d, m) THEN b.cells[q + d * n] ELSE b.cells[q]

LEMMA MoveCellsCells ==
  ASSUME NEW b \in Bufs, NEW p \in Int, NEW d \in {1, -1}, NEW n \in Nat \ {0}, NEW m \in Nat,
         Within(p, d, n, m, AllCells)
  PROVE  CellsMoved(b, MoveCells(b, p, d, n, m), p, d, n, m)
<1>1. PICK f : CellTurns(f, b, p, d, n, m) /\ MoveCells(b, p, d, n, m) = f[m]
  <2>1. n \in Nat
    OBVIOUS
  <2> QED BY <2>1, MoveCellsRun
<1> DEFINE T == {k \in 0..m : CellsMoved(b, f[k], p, d, n, k)}
<1>2. 0 \in T
  BY <1>1, NoneTouched DEF CellsMoved, SameBytes, CellTurns
<1>3. ASSUME NEW k \in 1..m, k - 1 \in T PROVE k \in T
  <2> DEFINE to == Target(p, d, k)
             from == Source(p, d, n, k)
             c == f[k - 1]
             e == f[k]
  <2>1. to \in AllCells /\ from \in AllCells
    BY DEF Within
  <2>9. k - 1 \in 0..m /\ k - 1 \in Nat
    OBVIOUS
  <2>2. CellsMoved(b, c, p, d, n, k - 1) /\ c \in Bufs
    BY <1>3 DEF CellsMoved
  <2>3. e = MoveCell(c, to, from)
    BY <1>1 DEF CellTurns
  <2>4. /\ from = to + d * n /\ from \notin Touched(p, d, k - 1)
        /\ \A z \in Int : z \in Touched(p, d, k) <=> z \in Touched(p, d, k - 1) \/ z = to
    <3>1. k \in Nat \ {0}
      OBVIOUS
    <3>2. ReadsAhead(p, d, n, k)
      BY <3>1, TurnsTouch
    <3> QED BY <3>2 DEF ReadsAhead
  <2> HIDE DEF to, from, c, e, T
  <2>5. e \in Bufs /\ SameBytes(c, e) /\ e.cells = [c.cells EXCEPT ![to] = c.cells[from]]
    BY <2>1, <2>2, <2>3, MoveCellCells DEF CellCopied
  <2>6. SameBytes(b, e)
    BY <2>2, <2>5 DEF CellsMoved, SameBytes
  <2>7. ASSUME NEW q \in AllCells
        PROVE  e.cells[q] =
                 IF q \in Touched(p, d, k) THEN b.cells[q + d * n] ELSE b.cells[q]
    <3>1. q \in Int /\ q \in DOMAIN c.cells
      BY <2>2, AllCellsIs DEF Bufs
    <3>2. CASE q = to
      <4>1. e.cells[q] = c.cells[from]
        BY <2>5, <3>1, <3>2
      <4>2. c.cells[from] = b.cells[from]
        BY <2>1, <2>2, <2>4 DEF CellsMoved
      <4> QED BY <2>4, <3>1, <3>2, <4>1, <4>2
    <3>3. CASE q # to
      <4>1. e.cells[q] = c.cells[q]
        BY <2>5, <3>1, <3>3
      <4>2. q \in Touched(p, d, k) <=> q \in Touched(p, d, k - 1)
        BY <2>4, <3>1, <3>3
      <4> QED BY <2>2, <4>1, <4>2 DEF CellsMoved
    <3> QED BY <3>2, <3>3
  <2>8. CellsMoved(b, e, p, d, n, k)
    BY <2>5, <2>6, <2>7 DEF CellsMoved
  <2> QED BY <2>8 DEF T, e
<1>4. m \in T
  <2> HIDE DEF T
  <2> QED BY <1>2, <1>3, TurnByTurn
<1> QED BY <1>1, <1>4

-----------------------------------------------------------------------------
(* What the operations do to the cells of the screen.                      *)
Keeps(b, e) == e \in Bufs /\ SameBytes(b, e)

UpMoved(b, e, a, z, n) ==
  /\ Keeps(b, e)
  /\ \A y \in Rows, x \in Columns :
       Cell(e, y, x) = IF y \notin a..z THEN Cell(b, y, x)
                       ELSE IF y + n <= z THEN Cell(b, y + n, x) ELSE " "
DownMoved(b, e, a, z, n) ==
  /\ Keeps(b, e)
  /\ \A y \in Rows, x \in Columns :
       Cell(e, y, x) = IF y \notin a..z THEN Cell(b, y, x)
                       ELSE IF y - n >= a THEN Cell(b, y - n, x) ELSE " "
RightMoved(b, e, y, x, n) ==
  /\ Keeps(b, e)
  /\ \A r \in Rows, u \in Columns :
       Cell(e, r, u) = IF r # y \/ u < x THEN Cell(b, r, u)
                       ELSE IF u - n >= x THEN Cell(b, y, u - n) ELSE " "
Wiped(b, e, S) ==
  /\ Keeps(b, e)
  /\ \A r \in Rows, u \in Columns :
       Cell(e, r, u) = IF <<r, u>> \in S THEN " " ELSE Cell(b, r, u)

(* The places from <<y, x>> to <<z, v>>, line by line.                     *)
From(y, x, z, v) ==
  {p \in Rows \X Columns : /\ y < p[1] \/ (y = p[1] /\ x <= p[2])
                           /\ p[1] < z \/ (p[1] = z /\ p[2] <= v)}

LEMMA RangeIs ==
  ASSUME Fits, NEW y \in Rows, NEW x \in Columns, NEW z \in Rows, NEW v \in Columns,
         NEW r \in Rows, NEW u \in Columns
  PROVE  At(r, u) \in At(y, x)..At(z, v) <=> <<r, u>> \in From(y, x, z, v)
<1>1. /\ At(y, x) <= At(r, u) <=> y < r \/ (y = r /\ x <= u)
      /\ At(r, u) <= At(z, v) <=> r < z \/ (r = z /\ u <= v)
  BY PlacesInOrder
<1>2. At(r, u) \in Int /\ At(y, x) \in Int /\ At(z, v) \in Int
  BY PlacesAre, OnScreenIs
<1>3. At(r, u) \in At(y, x)..At(z, v) <=> At(y, x) <= At(r, u) /\ At(r, u) <= At(z, v)
  BY <1>2
<1> QED BY <1>1, <1>3 DEF From

LEMMA ClearWipes ==
  ASSUME Fits, NEW b \in Bufs, NEW y \in Rows, NEW x \in Columns, NEW z \in Rows, NEW v \in Columns
  PROVE  Wiped(b, Clear(b, At(y, x), At(z, v)), From(y, x, z, v))
<1> DEFINE e == Clear(b, At(y, x), At(z, v))
<1>1. At(y, x) \in Nat /\ At(z, v) \in Int
  BY PlacesAre, OnScreenIs
<1>2. /\ e \in Bufs /\ SameBytes(b, e)
      /\ \A r \in Rows, u \in Columns :
           Cell(e, r, u) = IF At(r, u) \in At(y, x)..At(z, v) THEN " " ELSE Cell(b, r, u)
  BY <1>1, ClearCells
<1> HIDE DEF e
<1>3. ASSUME NEW r \in Rows, NEW u \in Columns
      PROVE  Cell(e, r, u) = IF <<r, u>> \in From(y, x, z, v) THEN " " ELSE Cell(b, r, u)
  <2>1. At(r, u) \in At(y, x)..At(z, v) <=> <<r, u>> \in From(y, x, z, v)
    BY RangeIs
  <2> QED BY <1>2, <2>1
<1>4. Wiped(b, e, From(y, x, z, v))
  BY <1>2, <1>3, Zenon DEF Wiped, Keeps
<1> QED BY <1>4 DEF e

LEMMA ClearUtfWipes ==
  ASSUME Fits, NEW b \in Bufs, NEW y \in Rows, NEW x \in Columns, NEW z \in Rows, NEW v \in Columns,
         y < z \/ (y = z /\ x <= v)
  PROVE  Wiped(b, ClearUtf(b, At(y, x), At(z, v)), From(y, x, z, v))
<1> DEFINE e == ClearUtf(b, At(y, x), At(z, v))
<1>1. At(y, x) \in OnScreen /\ At(z, v) \in Int /\ At(y, x) <= At(z, v)
  BY PlacesAre, OnScreenIs, PlacesInOrder
<1>2. /\ e \in Bufs /\ SameBytes(b, e)
      /\ \A r \in Rows, u \in Columns :
           Cell(e, r, u) = IF At(r, u) \in At(y, x)..At(z, v) THEN " " ELSE Cell(b, r, u)
  BY <1>1, ClearUtfCells
<1> HIDE DEF e
<1>3. ASSUME NEW r \in Rows, NEW u \in Columns
      PROVE  Cell(e, r, u) = IF <<r, u>> \in From(y, x, z, v) THEN " " ELSE Cell(b, r, u)
  <2>1. At(r, u) \in At(y, x)..At(z, v) <=> <<r, u>> \in From(y, x, z, v)
    BY RangeIs
  <2> QED BY <1>2, <2>1
<1>4. Wiped(b, e, From(y, x, z, v))
  BY <1>2, <1>3, Zenon DEF Wiped, Keeps
<1> QED BY <1>4 DEF e

(* The ends of the lines.                                                  *)
LEMMA Ends ==
  ASSUME Fits, NEW y \in Rows
  PROVE  /\ 0 \in Columns /\ scr.w - 1 \in Columns /\ LineEnd(y) = At(y, scr.w - 1)
         /\ At(y + 1, 0) - 1 = At(y, scr.w - 1)
<1>1. scr.w \in Nat \ {0} /\ 0 \in Columns /\ scr.w - 1 \in Columns
  BY DEF Fits, Columns
<1>2. At(y + 1, 0) = At(y, 0) + scr.w /\ At(y, 0) \in Nat
  BY RowIs DEF Rows
<1>3. At(y, scr.w - 1) = At(y, 0) + (scr.w - 1)
  BY <1>1, PlacesAre
<1> QED BY <1>1, <1>2, <1>3 DEF LineEnd

LEMMA RowsWiped ==
  ASSUME Fits, NEW b \in Bufs, NEW y \in Rows, NEW z \in Rows, y <= z
  PROVE  /\ Wiped(b, ClearRows(b, y, z), From(y, 0, z, scr.w - 1))
         /\ Wiped(b, ClearRowsUtf(b, y, z), From(y, 0, z, scr.w - 1))
<1>1. 0 \in Columns /\ scr.w - 1 \in Columns /\ At(z + 1, 0) - 1 = At(z, scr.w - 1)
  BY Ends
<1>2. y < z \/ (y = z /\ 0 <= scr.w - 1)
  BY <1>1 DEF Rows, Columns
<1> QED BY <1>1, <1>2, ClearWipes, ClearUtfWipes DEF ClearRows, ClearRowsUtf

LEMMA WholeRows ==
  ASSUME Fits, NEW y \in Rows, NEW z \in Rows, NEW r \in Rows, NEW u \in Columns
  PROVE  <<r, u>> \in From(y, 0, z, scr.w - 1) <=> r \in y..z
<1>1. y \in Int /\ z \in Int /\ r \in Int /\ u \in Int /\ 0 <= u /\ u <= scr.w - 1
  BY PlacesAre DEF Columns
<1>2. <<r, u>> \in Rows \X Columns
  OBVIOUS
<1> QED BY <1>1, <1>2 DEF From

-----------------------------------------------------------------------------
(* Lines.                                                                  *)
LEMMA RowsUpCells ==
  ASSUME Fits, Sound(scr), NEW b \in Bufs, NEW top \in Nat, NEW n \in Nat \ {0},
         top + n <= scr.btm
  PROVE  UpMoved(b, RowsUp(b, top, n), top, scr.btm, n)
<1> DEFINE m == scr.btm - n - top + 1
           c == MoveRows(b, top, 1, n, m)
           e == ClearRows(c, scr.btm - n + 1, scr.btm)
<1>1. /\ scr.btm \in Nat /\ scr.h \in Nat /\ scr.btm < scr.h
      /\ Rows \subseteq Nat /\ scr.btm \in Rows
  BY SoundIs, PlacesAre DEF Rows
<1>2. m \in Nat /\ scr.btm - n + 1 \in Rows /\ scr.btm - n + 1 <= scr.btm
  BY <1>1 DEF Rows
<1>3. Within(top, 1, n, m, Rows)
  BY <1>1 DEF Within, Target, Source, Rows
<1>4. RowsUp(b, top, n) = e
  BY DEF RowsUp
<1>5. Touched(top, 1, m) = top..(scr.btm - n)
  BY <1>1 DEF Touched
<1> HIDE DEF m
<1>6. RowsMoved(b, c, top, 1, n, m)
  <2>1. top \in Int /\ 1 \in {1, -1}
    OBVIOUS
  <2> QED BY <1>2, <1>3, <2>1, MoveRowsCells
<1> HIDE DEF c
<1>7. Wiped(c, e, From(scr.btm - n + 1, 0, scr.btm, scr.w - 1))
  BY <1>1, <1>2, <1>6, RowsWiped DEF RowsMoved
<1> HIDE DEF e
<1>8. Keeps(b, e)
  BY <1>6, <1>7 DEF RowsMoved, Wiped, Keeps, SameBytes
<1>9. ASSUME NEW y \in Rows, NEW x \in Columns
      PROVE  Cell(e, y, x) = IF y \notin top..scr.btm THEN Cell(b, y, x)
                             ELSE IF y + n <= scr.btm THEN Cell(b, y + n, x) ELSE " "
  <2>1. <<y, x>> \in From(scr.btm - n + 1, 0, scr.btm, scr.w - 1) <=>
          y \in (scr.btm - n + 1)..scr.btm
    BY <1>1, <1>2, WholeRows
  <2>2. Cell(e, y, x) = IF y \in (scr.btm - n + 1)..scr.btm THEN " " ELSE Cell(c, y, x)
    BY <1>7, <2>1 DEF Wiped
  <2>3. Cell(c, y, x) = IF y \in top..(scr.btm - n) THEN Cell(b, y + 1 * n, x) ELSE Cell(b, y, x)
    BY <1>5, <1>6 DEF RowsMoved
  <2>4. y \in Nat /\ 1 * n = n /\ n \in Nat
    BY <1>1
  <2>5. Cell(c, y, x) = IF y \in top..(scr.btm - n) THEN Cell(b, y + n, x) ELSE Cell(b, y, x)
    BY <2>3, <2>4
  <2>6. /\ y \in (scr.btm - n + 1)..scr.btm <=> y \in top..scr.btm /\ ~(y + n <= scr.btm)
        /\ y \in top..(scr.btm - n) <=> y \in top..scr.btm /\ y + n <= scr.btm
    BY <1>1, <2>4
  <2> QED BY <2>2, <2>5, <2>6
<1> QED BY <1>4, <1>8, <1>9 DEF UpMoved

LEMMA RowsDownCells ==
  ASSUME Fits, Sound(scr), NEW b \in Bufs, NEW top \in Nat, NEW n \in Nat \ {0},
         top + n <= scr.btm
  PROVE  DownMoved(b, RowsDown(b, top, n), top, scr.btm, n)
<1> DEFINE m == scr.btm - n - top + 1
           c == MoveRows(b, scr.btm, -1, n, m)
           e == ClearRows(c, top, top + n - 1)
<1>1. /\ scr.btm \in Nat /\ scr.h \in Nat /\ scr.btm < scr.h
      /\ Rows \subseteq Nat /\ scr.btm \in Rows
  BY SoundIs, PlacesAre DEF Rows
<1>2. m \in Nat /\ top \in Rows /\ top + n - 1 \in Rows /\ top <= top + n - 1
  BY <1>1 DEF Rows
<1>3. Within(scr.btm, -1, n, m, Rows)
  <2> SUFFICES ASSUME NEW k \in 1..m
               PROVE  /\ scr.btm + (-1) * (k - 1) \in Rows
                      /\ scr.btm + (-1) * (k - 1 + n) \in Rows
    BY DEF Within, Target, Source
  <2>1. /\ scr.btm + (-1) * (k - 1) = scr.btm - k + 1
        /\ scr.btm + (-1) * (k - 1 + n) = scr.btm - k + 1 - n
    BY <1>1
  <2> QED BY <1>1, <2>1 DEF Rows
<1>4. RowsDown(b, top, n) = e
  BY DEF RowsDown
<1>5. Touched(scr.btm, -1, m) = (top + n)..scr.btm
  BY <1>1 DEF Touched
<1> HIDE DEF m
<1>6. RowsMoved(b, c, scr.btm, -1, n, m)
  <2>1. scr.btm \in Int /\ -1 \in {1, -1}
    BY <1>1
  <2> QED BY <1>2, <1>3, <2>1, MoveRowsCells
<1> HIDE DEF c
<1>7. Wiped(c, e, From(top, 0, top + n - 1, scr.w - 1))
  BY <1>1, <1>2, <1>6, RowsWiped DEF RowsMoved
<1> HIDE DEF e
<1>8. Keeps(b, e)
  BY <1>6, <1>7 DEF RowsMoved, Wiped, Keeps, SameBytes
<1>9. ASSUME NEW y \in Rows, NEW x \in Columns
      PROVE  Cell(e, y, x) = IF y \notin top..scr.btm THEN Cell(b, y, x)
                             ELSE IF y - n >= top THEN Cell(b, y - n, x) ELSE " "
  <2>1. <<y, x>> \in From(top, 0, top + n - 1, scr.w - 1) <=> y \in top..(top + n - 1)
    BY <1>1, <1>2, WholeRows
  <2>2. Cell(e, y, x) = IF y \in top..(top + n - 1) THEN " " ELSE Cell(c, y, x)
    BY <1>7, <2>1 DEF Wiped
  <2>3. Cell(c, y, x) = IF y \in (top + n)..scr.btm THEN Cell(b, y + (-1) * n, x)
                                                    ELSE Cell(b, y, x)
    BY <1>5, <1>6 DEF RowsMoved
  <2>4. y \in Nat /\ y + (-1) * n = y - n /\ n \in Nat
    BY <1>1
  <2>5. Cell(c, y, x) = IF y \in (top + n)..scr.btm THEN Cell(b, y - n, x) ELSE Cell(b, y, x)
    BY <2>3, <2>4
  <2>6. /\ y \in top..(top + n - 1) <=> y \in top..scr.btm /\ ~(y - n >= top)
        /\ y \in (top + n)..scr.btm <=> y \in top..scr.btm /\ y - n >= top
    BY <1>1, <2>4
  <2> QED BY <2>2, <2>5, <2>6
<1> QED BY <1>4, <1>8, <1>9 DEF DownMoved

(* Where all lines give way, they are blank.                               *)
LEMMA AllRowsWiped ==
  ASSUME Fits, Sound(scr), NEW b \in Bufs, NEW top \in Rows, top <= scr.btm,
         NEW n \in Nat \ {0}, scr.btm < top + n
  PROVE  /\ UpMoved(b, ClearRowsUtf(b, top, scr.btm), top, scr.btm, n)
         /\ DownMoved(b, ClearRowsUtf(b, top, scr.btm), top, scr.btm, n)
<1> DEFINE e == ClearRowsUtf(b, top, scr.btm)
<1>1. scr.btm \in Rows /\ Rows \subseteq Nat
  BY SoundIs, PlacesAre DEF Rows
<1>2. Wiped(b, e, From(top, 0, scr.btm, scr.w - 1))
  BY <1>1, RowsWiped
<1> HIDE DEF e
<1>3. ASSUME NEW y \in Rows, NEW x \in Columns
      PROVE  /\ Cell(e, y, x) = IF y \notin top..scr.btm THEN Cell(b, y, x)
                                ELSE IF y + n <= scr.btm THEN Cell(b, y + n, x) ELSE " "
             /\ Cell(e, y, x) = IF y \notin top..scr.btm THEN Cell(b, y, x)
                                ELSE IF y - n >= top THEN Cell(b, y - n, x) ELSE " "
  <2>1. <<y, x>> \in From(top, 0, scr.btm, scr.w - 1) <=> y \in top..scr.btm
    BY <1>1, WholeRows
  <2>2. Cell(e, y, x) = IF y \in top..scr.btm THEN " " ELSE Cell(b, y, x)
    BY <1>2, <2>1 DEF Wiped
  <2>3. y \in Nat /\ top \in Nat /\ scr.btm \in Nat
    BY <1>1
  <2>4. y \in top..scr.btm => ~(y + n <= scr.btm) /\ ~(y - n >= top)
    BY <2>3
  <2> QED BY <2>2, <2>4
<1>4. Keeps(b, e)
  BY <1>2 DEF Wiped
<1>5. UpMoved(b, e, top, scr.btm, n) /\ DownMoved(b, e, top, scr.btm, n)
  BY <1>3, <1>4, Zenon DEF UpMoved, DownMoved
<1> QED BY <1>5 DEF e

LEMMA ScrolledCells ==
  ASSUME Fits, Sound(scr), NEW b \in Bufs, NEW n \in Nat \ {0}
  PROVE  /\ UpMoved(b, ScrolledUp(b, n), scr.top, scr.btm, n)
         /\ DownMoved(b, ScrolledDown(b, n), scr.top, scr.btm, n)
<1>1. /\ scr.top \in Nat /\ scr.btm \in Nat /\ scr.top <= scr.btm
      /\ scr.top \in Rows
  BY SoundIs DEF Rows
<1>2. CASE n >= RegionHeight
  <2>1. scr.btm < scr.top + n
    BY <1>1, <1>2 DEF RegionHeight
  <2> QED BY <1>1, <1>2, <2>1, AllRowsWiped DEF ScrolledUp, ScrolledDown
<1>3. CASE ~(n >= RegionHeight)
  <2>1. scr.top + n <= scr.btm
    BY <1>1, <1>3 DEF RegionHeight
  <2> QED BY <1>1, <1>3, <2>1, RowsUpCells, RowsDownCells DEF ScrolledUp, ScrolledDown
<1> QED BY <1>2, <1>3

LEMMA LinesInsertedCells ==
  ASSUME Fits, Sound(scr), buf \in Bufs, On(scr, cur), Inside(scr, cur), NEW n \in Nat \ {0}
  PROVE  DownMoved(buf, LinesInserted(n), cur.y, scr.btm, n)
<1>1. cur.y \in Nat /\ cur.y \in Rows /\ scr.btm \in Nat /\ cur.y <= scr.btm
  BY SoundIs DEF On, InScreen, Inside, Rows
<1>2. CASE cur.y + n > scr.btm
  <2>1. scr.btm < cur.y + n
    BY <1>1, <1>2
  <2> QED BY <1>1, <1>2, <2>1, AllRowsWiped DEF LinesInserted
<1>3. CASE ~(cur.y + n > scr.btm)
  <2>1. cur.y + n <= scr.btm
    BY <1>1, <1>3
  <2> QED BY <1>1, <1>3, <2>1, RowsDownCells DEF LinesInserted
<1> QED BY <1>2, <1>3

-----------------------------------------------------------------------------
(* Characters of a line.                                                   *)
LEMMA SetWiped ==
  ASSUME NEW b, NEW e, NEW S, NEW T, Wiped(b, e, S),
         \A r \in Rows, u \in Columns : <<r, u>> \in S <=> <<r, u>> \in T
  PROVE  Wiped(b, e, T)
<1>1. Keeps(b, e)
  BY DEF Wiped
<1>2. ASSUME NEW r \in Rows, NEW u \in Columns
      PROVE  Cell(e, r, u) = IF <<r, u>> \in T THEN " " ELSE Cell(b, r, u)
  <2>1. Cell(e, r, u) = IF <<r, u>> \in S THEN " " ELSE Cell(b, r, u)
    BY DEF Wiped
  <2>2. <<r, u>> \in S <=> <<r, u>> \in T
    OBVIOUS
  <2> QED BY <2>1, <2>2
<1> QED BY <1>1, <1>2, Zenon DEF Wiped

(* The places of one line.                                                 *)
LEMMA InLine ==
  ASSUME Fits, NEW y \in Rows, NEW x \in Columns, NEW v \in Columns, NEW r \in Rows, NEW u \in Columns
  PROVE  <<r, u>> \in From(y, x, y, v) <=> r = y /\ u \in x..v
<1>1. y \in Int /\ r \in Int /\ x \in Int /\ v \in Int /\ u \in Int
  BY PlacesAre
<1>2. <<r, u>> \in Rows \X Columns
  OBVIOUS
<1> QED BY <1>1, <1>2 DEF From

LEMMA ToLineEnd ==
  ASSUME Fits, NEW b \in Bufs, NEW y \in Rows, NEW x \in Columns
  PROVE  Wiped(b, ClearUtf(b, At(y, x), LineEnd(y)), From(y, x, y, scr.w - 1))
<1>1. scr.w - 1 \in Columns /\ LineEnd(y) = At(y, scr.w - 1)
  BY Ends
<1>2. y < y \/ (y = y /\ x <= scr.w - 1)
  BY PlacesAre DEF Columns
<1> QED BY <1>1, <1>2, ClearUtfWipes

(* A line whose characters move right out of it altogether is blank.       *)
LEMMA AllCharsWiped ==
  ASSUME Fits, NEW b \in Bufs, NEW y \in Rows, NEW x \in Columns, NEW n \in Nat \ {0}, x + n >= scr.w
  PROVE  RightMoved(b, ClearUtf(b, At(y, x), LineEnd(y)), y, x, n)
<1> DEFINE e == ClearUtf(b, At(y, x), LineEnd(y))
<1>1. Wiped(b, e, From(y, x, y, scr.w - 1))
  BY ToLineEnd
<1> HIDE DEF e
<1>2. Keeps(b, e)
  BY <1>1 DEF Wiped
<1>3. ASSUME NEW r \in Rows, NEW u \in Columns
      PROVE  Cell(e, r, u) = IF r # y \/ u < x THEN Cell(b, r, u)
                             ELSE IF u - n >= x THEN Cell(b, y, u - n) ELSE " "
  <2>1. scr.w - 1 \in Columns
    BY Ends
  <2>2. <<r, u>> \in From(y, x, y, scr.w - 1) <=> r = y /\ u \in x..(scr.w - 1)
    BY <2>1, InLine
  <2>3. Cell(e, r, u) = IF r = y /\ u \in x..(scr.w - 1) THEN " " ELSE Cell(b, r, u)
    BY <1>1, <2>2 DEF Wiped
  <2>4. u \in Nat /\ x \in Nat /\ u < scr.w /\ scr.w \in Nat /\ n \in Nat
    BY PlacesAre DEF Columns
  <2>5. (r = y /\ u \in x..(scr.w - 1)) <=> ~(r # y \/ u < x)
    BY <2>4
  <2>6. ~(u - n >= x)
    BY <2>4
  <2> QED BY <2>3, <2>5, <2>6
<1>4. RightMoved(b, e, y, x, n)
  BY <1>2, <1>3, Zenon DEF RightMoved
<1> QED BY <1>4 DEF e

(* The characters that stay on the line, and those that give way.          *)
LEMMA SomeCharsMoved ==
  ASSUME Fits, NEW b \in Bufs, NEW y \in Rows, NEW x \in Columns, NEW n \in Nat \ {0}, x + n < scr.w
  PROVE  LET c == MoveCells(b, LineEnd(y), -1, n, scr.w - n - x)
         IN  /\ Keeps(b, c)
             /\ \A r \in Rows, u \in Columns :
                  Cell(c, r, u) = IF r = y /\ u >= x + n THEN Cell(b, y, u - n) ELSE Cell(b, r, u)
<1> DEFINE m == scr.w - n - x
           p == LineEnd(y)
           d == -1
           c == MoveCells(b, p, d, n, m)
<1>1. /\ x \in Nat /\ scr.w \in Nat /\ n \in Nat /\ m \in Nat /\ x + n \in Columns
      /\ scr.w - 1 \in Columns
  BY PlacesAre, Ends DEF Columns
<1>2. /\ p = At(y, scr.w - 1) /\ p = At(y, 0) + (scr.w - 1) /\ At(y, 0) \in Nat /\ p \in Int
      /\ At(y, x + n) = At(y, 0) + (x + n)
  BY <1>1, Ends, PlacesAre, RowIs DEF Rows
<1>3. \A k \in 0..(scr.w - 1) : p - k \in AllCells
  BY LineIs, OnScreenIs DEF Rows
<1>4. d \in {1, -1} /\ d * n = -n
  BY <1>1
<1>5. Touched(p, d, m) = At(y, x + n)..At(y, scr.w - 1)
  <2>1. Touched(p, d, m) = (p - m + 1)..p
    BY DEF Touched
  <2>2. p - m + 1 = At(y, x + n)
    BY <1>1, <1>2
  <2> QED BY <1>2, <2>1, <2>2
<1>6. Within(p, d, n, m, AllCells)
  <2> SUFFICES ASSUME NEW k \in 1..m
               PROVE  p + d * (k - 1) \in AllCells /\ p + d * (k - 1 + n) \in AllCells
    BY DEF Within, Target, Source
  <2>1. k - 1 \in 0..(scr.w - 1) /\ k - 1 + n \in 0..(scr.w - 1)
    BY <1>1
  <2> HIDE DEF p
  <2>2. p + d * (k - 1) = p - (k - 1) /\ p + d * (k - 1 + n) = p - (k - 1 + n)
    BY <1>2, <2>1
  <2> QED BY <1>3, <2>1, <2>2
<1> HIDE DEF m, p, d
<1>7. CellsMoved(b, c, p, d, n, m)
  BY <1>1, <1>2, <1>4, <1>6, MoveCellsCells
<1> HIDE DEF c
<1>8. Keeps(b, c)
  BY <1>7 DEF CellsMoved, Keeps
<1>9. ASSUME NEW r \in Rows, NEW u \in Columns
      PROVE  Cell(c, r, u) = IF r = y /\ u >= x + n THEN Cell(b, y, u - n) ELSE Cell(b, r, u)
  <2> DEFINE q == At(r, u)
  <2>1. /\ q \in AllCells /\ q \in Int /\ u \in Nat /\ u < scr.w /\ At(y, u) = At(y, 0) + u
        /\ At(y, u) \in Int
    <3>1. q \in AllCells /\ At(y, u) = At(y, 0) + u /\ u \in Nat /\ u < scr.w
      BY PlacesAre DEF Columns
    <3>2. q \in Int
      BY <3>1, AllCellsIs
    <3> HIDE DEF q
    <3> QED BY <1>2, <3>1, <3>2
  <2>2. q \in Touched(p, d, m) <=> <<r, u>> \in From(y, x + n, y, scr.w - 1)
    BY <1>1, <1>5, RangeIs
  <2>3. <<r, u>> \in From(y, x + n, y, scr.w - 1) <=> r = y /\ u \in (x + n)..(scr.w - 1)
    BY <1>1, InLine
  <2>4. u \in (x + n)..(scr.w - 1) <=> u >= x + n
    BY <1>1, <2>1
  <2>7. q = At(r, u)
    OBVIOUS
  <2> HIDE DEF q
  <2>5. c.cells[q] = IF r = y /\ u >= x + n THEN b.cells[q + d * n] ELSE b.cells[q]
    BY <1>7, <2>1, <2>2, <2>3, <2>4 DEF CellsMoved
  <2>6. r = y /\ u >= x + n => q + d * n = At(y, u - n)
    <3> SUFFICES ASSUME r = y, u >= x + n PROVE q + d * n = At(y, u - n)
      OBVIOUS
    <3>1. u - n \in Columns
      BY <1>1, <2>1 DEF Columns
    <3>2. At(y, u - n) = At(y, 0) + (u - n)
      BY <3>1, PlacesAre
    <3>3. q = At(y, 0) + u
      BY <2>1, <2>7
    <3>4. At(y, 0) \in Int /\ d * n = -n
      BY <1>2, <1>4
    <3> QED BY <1>1, <2>1, <3>2, <3>3, <3>4
  <2> QED BY <2>5, <2>6, <2>7 DEF Cell
<1> QED BY <1>8, <1>9 DEF c, m, p, d

LEMMA CharsInsertedCells ==
  ASSUME Fits, NEW b \in Bufs, NEW c, On(scr, c), NEW n \in Nat \ {0}
  PROVE  RightMoved(b, CharsInserted(b, c, n), c.y, c.x, n)
<1> DEFINE y == c.y  x == c.x
<1>1. y \in Rows /\ x \in Columns /\ x \in Nat /\ scr.w \in Nat
  BY PlacesAre DEF On, InScreen, Rows, Columns
<1>2. CASE x + n >= scr.w
  BY <1>1, <1>2, AllCharsWiped DEF CharsInserted
<1>3. CASE ~(x + n >= scr.w)
  <2> DEFINE v == MoveCells(b, LineEnd(y), -1, n, scr.w - n - x)
             e == ClearUtf(v, At(y, x), At(y, x + n - 1))
  <2>1. CharsInserted(b, c, n) = e
    BY <1>3 DEF CharsInserted
  <2>2. x + n < scr.w /\ x + n - 1 \in Columns /\ x <= x + n - 1
    BY <1>1, <1>3 DEF Columns
  <2> HIDE DEF y, x
  <2>3. /\ Keeps(b, v)
        /\ \A r \in Rows, u \in Columns :
             Cell(v, r, u) = IF r = y /\ u >= x + n THEN Cell(b, y, u - n) ELSE Cell(b, r, u)
    BY <1>1, <2>2, SomeCharsMoved
  <2> HIDE DEF v
  <2>4. Wiped(v, e, From(y, x, y, x + n - 1))
    BY <1>1, <2>2, <2>3, ClearUtfWipes DEF Keeps
  <2> HIDE DEF e
  <2>5. Keeps(b, e)
    BY <2>3, <2>4 DEF Wiped, Keeps, SameBytes
  <2>6. ASSUME NEW r \in Rows, NEW u \in Columns
        PROVE  Cell(e, r, u) = IF r # y \/ u < x THEN Cell(b, r, u)
                               ELSE IF u - n >= x THEN Cell(b, y, u - n) ELSE " "
    <3>1. <<r, u>> \in From(y, x, y, x + n - 1) <=> r = y /\ u \in x..(x + n - 1)
      BY <1>1, <2>2, InLine
    <3>2. Cell(e, r, u) = IF r = y /\ u \in x..(x + n - 1) THEN " " ELSE Cell(v, r, u)
      BY <2>4, <3>1 DEF Wiped
    <3>3. Cell(v, r, u) = IF r = y /\ u >= x + n THEN Cell(b, y, u - n) ELSE Cell(b, r, u)
      BY <2>3
    <3>4. u \in Nat /\ n \in Nat
      BY PlacesAre
    <3>5. /\ u >= x + n <=> u - n >= x
          /\ u \in x..(x + n - 1) <=> ~(u < x) /\ ~(u - n >= x)
          /\ u - n >= x => ~(u < x)
      BY <1>1, <3>4
    <3> QED BY <3>2, <3>3, <3>5
  <2>7. RightMoved(b, e, y, x, n)
    BY <2>5, <2>6, Zenon DEF RightMoved
  <2> QED BY <2>1, <2>7 DEF y, x
<1> QED BY <1>2, <1>3

-----------------------------------------------------------------------------
(* Erasing in the line of the cursor, and in the screen.                   *)
LEMMA LineErasedCells ==
  ASSUME Fits, NEW b \in Bufs, On(scr, cur)
  PROVE  /\ Wiped(b, ClearRowsUtf(b, cur.y, cur.y), {p \in Rows \X Columns : p[1] = cur.y})
         /\ Wiped(b, ClearUtf(b, At(cur.y, cur.x), LineEnd(cur.y)),
                  {p \in Rows \X Columns : p[1] = cur.y /\ Ideal!After(p)})
         /\ Wiped(b, ClearUtf(b, At(cur.y, 0), At(cur.y, cur.x)),
                  {p \in Rows \X Columns : p[1] = cur.y /\ Ideal!Before(p)})
<1> DEFINE y == cur.y  x == cur.x  w == scr.w - 1
<1>1. y \in Rows /\ x \in Columns /\ 0 \in Columns /\ w \in Columns /\ x \in Nat /\ y \in Nat
      /\ w \in Nat /\ x <= w
  BY PlacesAre, Ends DEF On, InScreen, Rows, Columns
<1>2. ASSUME NEW r \in Rows, NEW u \in Columns
      PROVE  /\ <<r, u>> \in From(y, 0, y, w) <=> r = y
             /\ <<r, u>> \in From(y, x, y, w) <=> r = y /\ Ideal!After(<<r, u>>)
             /\ <<r, u>> \in From(y, 0, y, x) <=> r = y /\ Ideal!Before(<<r, u>>)
  <2>1. /\ <<r, u>> \in From(y, 0, y, w) <=> r = y /\ u \in 0..w
        /\ <<r, u>> \in From(y, x, y, w) <=> r = y /\ u \in x..w
        /\ <<r, u>> \in From(y, 0, y, x) <=> r = y /\ u \in 0..x
    BY <1>1, InLine
  <2>2. u \in Nat /\ u <= w /\ r \in Nat
    BY PlacesAre DEF Columns
  <2>3. /\ Ideal!After(<<r, u>>) <=> r > y \/ (r = y /\ u >= x)
        /\ Ideal!Before(<<r, u>>) <=> r < y \/ (r = y /\ u <= x)
    BY DEF Ideal!After, Ideal!Before
  <2> QED BY <1>1, <2>1, <2>2, <2>3
<1> HIDE DEF y, x, w
<1>3. Wiped(b, ClearRowsUtf(b, y, y), From(y, 0, y, w))
  BY <1>1, RowsWiped DEF w
<1>4. Wiped(b, ClearUtf(b, At(y, x), LineEnd(y)), From(y, x, y, w))
  BY <1>1, ToLineEnd DEF w
<1>5. Wiped(b, ClearUtf(b, At(y, 0), At(y, x)), From(y, 0, y, x))
  BY <1>1, ClearUtfWipes
<1>6. Wiped(b, ClearRowsUtf(b, y, y), {p \in Rows \X Columns : p[1] = y})
  BY <1>2, <1>3, SetWiped
<1>7. Wiped(b, ClearUtf(b, At(y, x), LineEnd(y)),
            {p \in Rows \X Columns : p[1] = y /\ Ideal!After(p)})
  BY <1>2, <1>4, SetWiped
<1>8. Wiped(b, ClearUtf(b, At(y, 0), At(y, x)),
            {p \in Rows \X Columns : p[1] = y /\ Ideal!Before(p)})
  BY <1>2, <1>5, SetWiped
<1> QED BY <1>6, <1>7, <1>8 DEF y, x

LEMMA ScreenErasedCells ==
  ASSUME Fits, NEW b \in Bufs, On(scr, cur)
  PROVE  /\ Wiped(b, ClearUtf(b, At(cur.y, cur.x), At(scr.h, 0) - 1),
                  {p \in Rows \X Columns : Ideal!After(p)})
         /\ Wiped(b, ClearUtf(b, 0, At(cur.y, cur.x)),
                  {p \in Rows \X Columns : Ideal!Before(p)})
<1> DEFINE y == cur.y  x == cur.x  w == scr.w - 1  h == scr.h - 1
<1>1. /\ y \in Rows /\ x \in Columns /\ 0 \in Columns /\ w \in Columns /\ 0 \in Rows /\ h \in Rows
      /\ x \in Nat /\ y \in Nat /\ w \in Nat /\ h \in Nat /\ x <= w /\ y <= h
  BY PlacesAre, Ends DEF On, InScreen, Rows, Columns, Fits
<1>2. At(scr.h, 0) - 1 = At(h, w) /\ At(0, 0) = 0
  <2>1. At(h + 1, 0) - 1 = At(h, w)
    BY <1>1, Ends
  <2>2. h + 1 = scr.h
    BY PlacesAre
  <2>3. At(0, 0) = 0
    BY PlacesAre DEF At
  <2> QED BY <2>1, <2>2, <2>3
<1>3. ASSUME NEW r \in Rows, NEW u \in Columns
      PROVE  /\ <<r, u>> \in From(y, x, h, w) <=> Ideal!After(<<r, u>>)
             /\ <<r, u>> \in From(0, 0, y, x) <=> Ideal!Before(<<r, u>>)
  <2>1. u \in Nat /\ u <= w /\ r \in Nat /\ r <= h /\ <<r, u>> \in Rows \X Columns
    BY PlacesAre DEF Columns, Rows
  <2>2. /\ Ideal!After(<<r, u>>) <=> r > y \/ (r = y /\ u >= x)
        /\ Ideal!Before(<<r, u>>) <=> r < y \/ (r = y /\ u <= x)
    BY DEF Ideal!After, Ideal!Before
  <2> HIDE DEF y, x, w, h
  <2> QED BY <1>1, <2>1, <2>2 DEF From
<1> HIDE DEF y, x, w, h
<1>4. Wiped(b, ClearUtf(b, At(y, x), At(h, w)), From(y, x, h, w))
  <2>1. y < h \/ (y = h /\ x <= w)
    BY <1>1
  <2> QED BY <1>1, <2>1, ClearUtfWipes
<1>5. Wiped(b, ClearUtf(b, At(0, 0), At(y, x)), From(0, 0, y, x))
  <2>1. 0 < y \/ (0 = y /\ 0 <= x)
    BY <1>1
  <2> QED BY <1>1, <2>1, ClearUtfWipes
<1>6. Wiped(b, ClearUtf(b, At(y, x), At(h, w)), {p \in Rows \X Columns : Ideal!After(p)})
  BY <1>3, <1>4, SetWiped
<1>7. Wiped(b, ClearUtf(b, At(0, 0), At(y, x)), {p \in Rows \X Columns : Ideal!Before(p)})
  BY <1>3, <1>5, SetWiped
<1> QED BY <1>2, <1>6, <1>7 DEF y, x

LEMMA CharsErasedCells ==
  ASSUME Fits, buf \in Bufs, On(scr, cur), NEW n \in Nat \ {0}
  PROVE  Wiped(buf, CharsErased(n),
               {p \in Rows \X Columns : p[1] = cur.y /\ p[2] \in cur.x..(cur.x + n - 1)})
<1> DEFINE y == cur.y  x == cur.x
           S == {p \in Rows \X Columns : p[1] = y /\ p[2] \in x..(x + n - 1)}
<1>1. /\ y \in Rows /\ x \in Columns /\ x \in Nat /\ scr.w \in Nat /\ n \in Nat
      /\ scr.w - 1 \in Columns
  BY PlacesAre, Ends DEF On, InScreen, Rows, Columns
<1> HIDE DEF y, x
<1>2. ASSUME NEW r \in Rows, NEW u \in Columns
      PROVE  <<r, u>> \in S <=> r = y /\ u \in x..(x + n - 1)
  OBVIOUS
<1> HIDE DEF S
<1>3. CASE x + n >= scr.w
  <2>1. Wiped(buf, ClearUtf(buf, At(y, x), LineEnd(y)), From(y, x, y, scr.w - 1))
    BY <1>1, ToLineEnd
  <2>2. ASSUME NEW r \in Rows, NEW u \in Columns
        PROVE  <<r, u>> \in From(y, x, y, scr.w - 1) <=> <<r, u>> \in S
    <3>1. <<r, u>> \in From(y, x, y, scr.w - 1) <=> r = y /\ u \in x..(scr.w - 1)
      BY <1>1, InLine
    <3>2. u \in Nat /\ u < scr.w
      BY PlacesAre DEF Columns
    <3>3. u \in x..(scr.w - 1) <=> u \in x..(x + n - 1)
      BY <1>1, <1>3, <3>2
    <3> QED BY <1>2, <3>1, <3>3
  <2>3. Wiped(buf, ClearUtf(buf, At(y, x), LineEnd(y)), S)
    BY <2>1, <2>2, SetWiped
  <2> QED BY <1>3, <2>3 DEF CharsErased, S, y, x
<1>4. CASE ~(x + n >= scr.w)
  <2>1. x + n - 1 \in Columns /\ x <= x + n - 1
    BY <1>1, <1>4 DEF Columns
  <2>2. Wiped(buf, ClearUtf(buf, At(y, x), At(y, x + n - 1)), From(y, x, y, x + n - 1))
    BY <1>1, <2>1, ClearUtfWipes
  <2>3. ASSUME NEW r \in Rows, NEW u \in Columns
        PROVE  <<r, u>> \in From(y, x, y, x + n - 1) <=> <<r, u>> \in S
    BY <1>1, <1>2, <2>1, InLine
  <2>4. Wiped(buf, ClearUtf(buf, At(y, x), At(y, x + n - 1)), S)
    BY <2>2, <2>3, SetWiped
  <2> QED BY <1>4, <2>4 DEF CharsErased, S, y, x
<1> QED BY <1>3, <1>4

-----------------------------------------------------------------------------
(* What the user sees of a buffer.                                         *)
GridOf(b) == [p \in Rows \X Columns |-> Seen(b, p[1], p[2])]

LEMMA GridIs ==
  ASSUME NEW b
  PROVE  /\ DOMAIN GridOf(b) = Rows \X Columns
         /\ \A y \in Rows, x \in Columns :
              <<y, x>> \in DOMAIN GridOf(b) /\ GridOf(b)[<<y, x>>] = Seen(b, y, x)
BY DEF GridOf

LEMMA ShownIs == Shown = GridOf(buf)
BY DEF Shown, GridOf, Seen, Cell, Rows, Columns

IsGrid(f) == f = [p \in Rows \X Columns |-> f[p]]

LEMMA OneGrid ==
  ASSUME NEW f, IsGrid(f), NEW e, \A y \in Rows, x \in Columns : f[<<y, x>>] = Seen(e, y, x)
  PROVE  f = GridOf(e)
<1>1. ASSUME NEW p \in Rows \X Columns PROVE f[p] = Seen(e, p[1], p[2])
  <2>1. p = <<p[1], p[2]>> /\ p[1] \in Rows /\ p[2] \in Columns
    OBVIOUS
  <2> QED BY <2>1
<1> QED BY <1>1 DEF GridOf, IsGrid

LEMMA UpSeen ==
  ASSUME Fits, NEW b, NEW e, Held(b), Held(e),
         NEW a \in Nat, NEW z \in Rows, NEW n \in Nat \ {0}, UpMoved(b, e, a, z, n)
  PROVE  GridOf(e) = Ideal!LinesUp(GridOf(b), a, z, n)
<1> DEFINE g == GridOf(b)
           f == Ideal!LinesUp(g, a, z, n)
<1>1. f = [p \in Rows \X Columns |-> IF p[1] \notin a..z THEN g[p]
             ELSE IF p[1] + n <= z THEN g[<<p[1] + n, p[2]>>] ELSE " "]
  BY GridIs DEF Ideal!LinesUp
<1> HIDE DEF g, f
<1>2. IsGrid(f)
  BY <1>1 DEF IsGrid
<1>3. ASSUME NEW y \in Rows, NEW x \in Columns PROVE f[<<y, x>>] = Seen(e, y, x)
  <2>1. f[<<y, x>>] = IF y \notin a..z THEN g[<<y, x>>]
                      ELSE IF y + n <= z THEN g[<<y + n, x>>] ELSE " "
    <3>1. <<y, x>> \in Rows \X Columns
      OBVIOUS
    <3> QED BY <1>1, <3>1
  <2>2. Cell(e, y, x) = IF y \notin a..z THEN Cell(b, y, x)
                        ELSE IF y + n <= z THEN Cell(b, y + n, x) ELSE " "
    BY DEF UpMoved
  <2>3. SameBytes(b, e)
    BY DEF UpMoved, Keeps
  <2>4. y \in Nat /\ z \in Nat /\ n \in Nat
    BY PlacesAre
  <2>5. CASE y \notin a..z
    BY <2>1, <2>2, <2>3, <2>5, SeenMoves, GridIs DEF g
  <2>6. CASE y \in a..z /\ y + n <= z
    <3>1. y + n \in Rows
      BY <2>4, <2>6, PlacesAre DEF Rows
    <3> QED BY <2>1, <2>2, <2>3, <2>6, <3>1, SeenMoves, GridIs DEF g
  <2>7. CASE y \in a..z /\ ~(y + n <= z)
    <3>1. Cell(e, y, x) = " " /\ Cell(e, y, x) \in Ascii
      BY <2>2, <2>7 DEF Ascii
    <3> QED BY <2>1, <2>7, <3>1, SeenBlank
  <2> QED BY <2>5, <2>6, <2>7
<1> QED BY <1>2, <1>3, OneGrid DEF f, g

LEMMA DownSeen ==
  ASSUME Fits, NEW b, NEW e, Held(b), Held(e),
         NEW a \in Nat, NEW z \in Rows, NEW n \in Nat \ {0}, DownMoved(b, e, a, z, n)
  PROVE  GridOf(e) = Ideal!LinesDown(GridOf(b), a, z, n)
<1> DEFINE g == GridOf(b)
           f == Ideal!LinesDown(g, a, z, n)
<1>1. f = [p \in Rows \X Columns |-> IF p[1] \notin a..z THEN g[p]
             ELSE IF p[1] - n >= a THEN g[<<p[1] - n, p[2]>>] ELSE " "]
  BY GridIs DEF Ideal!LinesDown
<1> HIDE DEF g, f
<1>2. IsGrid(f)
  BY <1>1 DEF IsGrid
<1>3. ASSUME NEW y \in Rows, NEW x \in Columns PROVE f[<<y, x>>] = Seen(e, y, x)
  <2>1. f[<<y, x>>] = IF y \notin a..z THEN g[<<y, x>>]
                      ELSE IF y - n >= a THEN g[<<y - n, x>>] ELSE " "
    <3>1. <<y, x>> \in Rows \X Columns
      OBVIOUS
    <3> QED BY <1>1, <3>1
  <2>2. Cell(e, y, x) = IF y \notin a..z THEN Cell(b, y, x)
                        ELSE IF y - n >= a THEN Cell(b, y - n, x) ELSE " "
    BY DEF DownMoved
  <2>3. SameBytes(b, e)
    BY DEF DownMoved, Keeps
  <2>4. y \in Nat /\ z \in Nat /\ n \in Nat
    BY PlacesAre
  <2>5. CASE y \notin a..z
    BY <2>1, <2>2, <2>3, <2>5, SeenMoves, GridIs DEF g
  <2>6. CASE y \in a..z /\ y - n >= a
    <3>1. y - n \in Rows
      BY <2>4, <2>6, PlacesAre DEF Rows
    <3> QED BY <2>1, <2>2, <2>3, <2>6, <3>1, SeenMoves, GridIs DEF g
  <2>7. CASE y \in a..z /\ ~(y - n >= a)
    <3>1. Cell(e, y, x) = " " /\ Cell(e, y, x) \in Ascii
      BY <2>2, <2>7 DEF Ascii
    <3> QED BY <2>1, <2>7, <3>1, SeenBlank
  <2> QED BY <2>5, <2>6, <2>7
<1> QED BY <1>2, <1>3, OneGrid DEF f, g

LEMMA RightSeen ==
  ASSUME Fits, NEW b, NEW e, Held(b), Held(e),
         NEW y \in Rows, NEW x \in Columns, NEW n \in Nat \ {0}, RightMoved(b, e, y, x, n)
  PROVE  GridOf(e) = Ideal!CharsRight(GridOf(b), y, x, n)
<1> DEFINE g == GridOf(b)
           f == Ideal!CharsRight(g, y, x, n)
<1>1. f = [p \in Rows \X Columns |-> IF p[1] # y \/ p[2] < x THEN g[p]
             ELSE IF p[2] - n >= x THEN g[<<y, p[2] - n>>] ELSE " "]
  BY GridIs DEF Ideal!CharsRight
<1> HIDE DEF g, f
<1>2. IsGrid(f)
  BY <1>1 DEF IsGrid
<1>3. ASSUME NEW r \in Rows, NEW u \in Columns PROVE f[<<r, u>>] = Seen(e, r, u)
  <2>1. f[<<r, u>>] = IF r # y \/ u < x THEN g[<<r, u>>]
                      ELSE IF u - n >= x THEN g[<<y, u - n>>] ELSE " "
    <3>1. <<r, u>> \in Rows \X Columns
      OBVIOUS
    <3> QED BY <1>1, <3>1
  <2>2. Cell(e, r, u) = IF r # y \/ u < x THEN Cell(b, r, u)
                        ELSE IF u - n >= x THEN Cell(b, y, u - n) ELSE " "
    BY DEF RightMoved
  <2>3. SameBytes(b, e)
    BY DEF RightMoved, Keeps
  <2>4. u \in Nat /\ x \in Nat /\ n \in Nat
    BY PlacesAre
  <2>5. CASE r # y \/ u < x
    <3>1. Cell(e, r, u) = Cell(b, r, u)
      BY <2>2, <2>5
    <3>2. Seen(e, r, u) = Seen(b, r, u)
      BY <2>3, <3>1, SeenMoves
    <3> QED BY <2>1, <2>5, <3>2, GridIs DEF g
  <2>6. CASE ~(r # y \/ u < x) /\ u - n >= x
    <3>1. u - n \in Columns
      BY <2>4, <2>6, PlacesAre DEF Columns
    <3> QED BY <2>1, <2>2, <2>3, <2>6, <3>1, SeenMoves, GridIs DEF g
  <2>7. CASE ~(r # y \/ u < x) /\ ~(u - n >= x)
    <3>1. Cell(e, r, u) = " " /\ Cell(e, r, u) \in Ascii
      BY <2>2, <2>7 DEF Ascii
    <3> QED BY <2>1, <2>7, <3>1, SeenBlank
  <2> QED BY <2>5, <2>6, <2>7
<1> QED BY <1>2, <1>3, OneGrid DEF f, g

LEMMA WipedSeen ==
  ASSUME Fits, NEW b, NEW e, Held(b), Held(e), NEW S, Wiped(b, e, S)
  PROVE  GridOf(e) = Ideal!Blanked(GridOf(b), S)
<1> DEFINE g == GridOf(b)
           f == Ideal!Blanked(g, S)
<1>1. f = [p \in Rows \X Columns |-> IF p \in S THEN " " ELSE g[p]]
  BY GridIs DEF Ideal!Blanked
<1> HIDE DEF g, f
<1>2. IsGrid(f)
  BY <1>1 DEF IsGrid
<1>3. ASSUME NEW r \in Rows, NEW u \in Columns PROVE f[<<r, u>>] = Seen(e, r, u)
  <2>1. f[<<r, u>>] = IF <<r, u>> \in S THEN " " ELSE g[<<r, u>>]
    <3>1. <<r, u>> \in Rows \X Columns
      OBVIOUS
    <3> QED BY <1>1, <3>1
  <2>2. Cell(e, r, u) = IF <<r, u>> \in S THEN " " ELSE Cell(b, r, u)
    BY DEF Wiped
  <2>3. SameBytes(b, e)
    BY DEF Wiped, Keeps
  <2>5. CASE <<r, u>> \notin S
    BY <2>1, <2>2, <2>3, <2>5, SeenMoves, GridIs DEF g
  <2>6. CASE <<r, u>> \in S
    <3>1. Cell(e, r, u) = " " /\ Cell(e, r, u) \in Ascii
      BY <2>2, <2>6 DEF Ascii
    <3> QED BY <2>1, <2>6, <3>1, SeenBlank
  <2> QED BY <2>5, <2>6
<1> QED BY <1>2, <1>3, OneGrid DEF f, g

-----------------------------------------------------------------------------
(* A character that is added.                                              *)

(* The slots that hold a glyph in use hold it still.                       *)
LEMMA AddKeeps ==
  ASSUME NEW k \in Caches, NEW ch \in Characters, NEW s \in Slots, k[s].count # 0
  PROVE  Add(k, ch)[s].bytes = k[s].bytes
<1>1. CASE ch \in Ascii \/ Full(k, ch)
  BY <1>1 DEF Add
<1>2. CASE ~(ch \in Ascii \/ Full(k, ch))
  <2> DEFINE r == SlotFor(k, ch)
             v == [bytes |-> ch, count |-> (k[r].count + 1) % CountMod]
  <2>1. r \in Slots /\ (k[r].bytes = ch \/ k[r].count = 0)
    BY <1>2 DEF Full, SlotFor, First, Holding, Unused
  <2>2. Add(k, ch) = [k EXCEPT ![r] = v] /\ v.bytes = ch
    BY <1>2 DEF Add
  <2> HIDE DEF r, v
  <2>3. DOMAIN k = Slots
    BY DEF Caches
  <2> QED BY <2>1, <2>2, <2>3
<1> QED BY <1>1, <1>2

(* The slot that the cell gets holds the glyph.                            *)
LEMMA AddHolds ==
  ASSUME NEW k \in Caches, NEW ch \in Characters
  PROVE  LET r == AddedRef(k, ch)
         IN  \/ r \notin Slots /\ (r = ch \/ r = "?")
             \/ r \in Slots /\ Add(k, ch)[r].bytes = ch
<1>1. CASE ch \in Ascii \/ Full(k, ch)
  BY <1>1, SlotsAre DEF AddedRef, Ascii
<1>2. CASE ~(ch \in Ascii \/ Full(k, ch))
  <2> DEFINE r == SlotFor(k, ch)
             v == [bytes |-> ch, count |-> (k[r].count + 1) % CountMod]
  <2>1. r \in Slots /\ AddedRef(k, ch) = r
    BY <1>2 DEF Full, SlotFor, First, Holding, Unused, AddedRef
  <2>2. Add(k, ch) = [k EXCEPT ![r] = v] /\ v.bytes = ch
    BY <1>2 DEF Add
  <2> HIDE DEF r, v
  <2>3. DOMAIN k = Slots
    BY DEF Caches
  <2> QED BY <2>1, <2>2, <2>3
<1> QED BY <1>1, <1>2

(* One place shows the character, or that there is no room for it.         *)
Printed(b, e, y, x, ch) ==
  \E seen \in {ch, "?"} : GridOf(e) = [GridOf(b) EXCEPT ![<<y, x>>] = seen]

LEMMA AddedSeen ==
  ASSUME Fits, NEW b, Exact(b, OnScreen), NEW y \in Rows, NEW x \in Columns, NEW ch \in Characters
  PROVE  Printed(b, AddedAt(b, At(y, x), ch), y, x, ch)
<1> DEFINE p == At(y, x)
           V == OnScreen \ {p}
           k == FreeCell(b, p).cache
           e == AddedAt(b, p, ch)
           r == AddedRef(k, ch)
           g == GridOf(b)
           seen == Seen(e, y, x)
           f == [g EXCEPT ![<<y, x>>] = seen]
<1>1. p \in OnScreen /\ p \in AllCells
  BY PlacesAre
<1>2. b \in Bufs /\ Held(b)
  BY ExactHolds
<1>3. Exact(e, OnScreen)
  BY <1>1, AddOne
<1>4. e \in Bufs /\ Held(e)
  BY <1>3, ExactHolds
<1>5. e.cells = [b.cells EXCEPT ![p] = r] /\ e.cache = Add(k, ch)
  BY DEF AddedAt
<1>6. /\ k \in Caches /\ \A s \in Slots : k[s].bytes = b.cache[s].bytes
      /\ Counted(k, b.cells, V) /\ V \subseteq AllCells
  <2>1. Exact(FreeCell(b, p), V) /\ FreeCell(b, p).cells = b.cells
    BY <1>1, FreeOne
  <2>2. SameCells(b, FreeCell(b, p))
    BY <1>2, FreeOneSame
  <2> QED BY <2>1, <2>2 DEF Exact, Bufs, SameCells, SameBytes
<1>7. DOMAIN b.cells = AllCells
  BY <1>2 DEF Bufs
<1> HIDE DEF e, k, r, V
<1>8. seen \in {ch, "?"}
  <2>1. Cell(e, y, x) = r
    BY <1>1, <1>5, <1>7 DEF Cell
  <2>2. \/ r \notin Slots /\ (r = ch \/ r = "?")
        \/ r \in Slots /\ Add(k, ch)[r].bytes = ch
    BY <1>6, AddHolds DEF r
  <2>3. r \in Slots => e.cache[r].count # 0
    BY <1>1, <1>4, <2>1 DEF Held, Cell
  <2> QED BY <1>5, <2>1, <2>2, <2>3 DEF Seen, Retrieve, IsRef
<1>9. ASSUME NEW z \in Rows, NEW u \in Columns, <<z, u>> # <<y, x>>
      PROVE  Seen(e, z, u) = Seen(b, z, u)
  <2> DEFINE q == At(z, u)  s == b.cells[q]
  <2>1. q \in OnScreen /\ q \in AllCells /\ q # p
    BY <1>9, PlacesAre, PlacesInOrder
  <2>2. Cell(e, z, u) = s /\ Cell(b, z, u) = s
    BY <1>5, <1>7, <2>1 DEF Cell
  <2>3. CASE s \in Slots
    <3>1. q \in V
      BY <2>1 DEF V
    <3>2. k[s].count = Count(b.cells, V, s)
      BY <1>6, <2>3 DEF Counted
    <3>3. Count(b.cells, V, s) # 0
      BY <1>6, <3>1, CountIs
    <3> HIDE DEF q, s
    <3>4. e.cache[s].bytes = b.cache[s].bytes
      BY <1>5, <1>6, <2>3, <3>2, <3>3, AddKeeps
    <3>5. b.cache[s].count # 0 /\ e.cache[s].count # 0
      BY <1>2, <1>4, <2>1, <2>2, <2>3 DEF Held, Cell, q
    <3> QED BY <2>2, <3>4, <3>5 DEF Seen, Retrieve
  <2>4. CASE s \notin Slots
    BY <2>2, <2>4 DEF Seen, Retrieve, IsRef
  <2> QED BY <2>3, <2>4
<1>10. IsGrid(f)
  <2> HIDE DEF seen
  <2> QED BY GridIs DEF IsGrid, GridOf
<1>11. ASSUME NEW z \in Rows, NEW u \in Columns PROVE f[<<z, u>>] = Seen(e, z, u)
  <2>1. CASE <<z, u>> = <<y, x>>
    <3>1. f[<<z, u>>] = seen
      BY <2>1, GridIs
    <3>2. z = y /\ u = x
      BY <2>1
    <3> QED BY <3>1, <3>2
  <2>2. CASE <<z, u>> # <<y, x>>
    <3>1. f[<<z, u>>] = g[<<z, u>>]
      BY <2>2, GridIs
    <3>2. g[<<z, u>>] = Seen(b, z, u)
      BY GridIs
    <3> QED BY <1>9, <2>2, <3>1, <3>2
  <2> QED BY <2>1, <2>2
<1>12. f = GridOf(e)
  <2> HIDE DEF f
  <2> QED BY <1>10, <1>11, OneGrid
<1> QED BY <1>8, <1>12 DEF e, Printed

-----------------------------------------------------------------------------
(* The steps, as the user sees them.                                       *)
LEMMA ShownThen ==
  ASSUME scr'.w = scr.w, scr'.h = scr.h
  PROVE  Shown' = GridOf(buf')
BY DEF Shown, GridOf, Seen, Cell, Rows, Columns, At

LEMMA ShownStays ==
  ASSUME scr'.w = scr.w, scr'.h = scr.h, buf' = buf
  PROVE  Shown' = Shown
BY DEF Shown, At

LEMMA ScrolledSeen ==
  ASSUME CInv
  PROVE  /\ GridOf(ScrolledUp(buf, 1)) = Ideal!LinesUp(Shown, scr.top, scr.btm, 1)
         /\ GridOf(ScrolledDown(buf, 1)) = Ideal!LinesDown(Shown, scr.top, scr.btm, 1)
<1> DEFINE u == ScrolledUp(buf, 1)  d == ScrolledDown(buf, 1)
<1>1. /\ Fits /\ Sound(scr) /\ buf \in Bufs /\ Exact(buf, OnScreen) /\ 1 \in Nat \ {0}
      /\ scr.top \in Nat /\ scr.btm \in Rows
  BY CInvIs, SoundIs DEF Rows
<1>2. UpMoved(buf, u, scr.top, scr.btm, 1) /\ DownMoved(buf, d, scr.top, scr.btm, 1)
  BY <1>1, ScrolledCells
<1>3. Exact(u, OnScreen) /\ Exact(d, OnScreen)
  BY <1>1, ScrolledIs
<1> HIDE DEF u, d
<1>4. Held(buf) /\ Held(u) /\ Held(d)
  BY <1>1, <1>3, ExactHolds
<1>5. /\ GridOf(u) = Ideal!LinesUp(GridOf(buf), scr.top, scr.btm, 1)
      /\ GridOf(d) = Ideal!LinesDown(GridOf(buf), scr.top, scr.btm, 1)
  BY <1>1, <1>2, <1>4, UpSeen, DownSeen
<1> QED BY <1>5, ShownIs DEF u, d

LEMMA InsertedSeen ==
  ASSUME Fits, NEW b, Exact(b, OnScreen), NEW c, On(scr, c), NEW n \in Nat \ {0}
  PROVE  GridOf(CharsInserted(b, c, n)) = Ideal!CharsRight(GridOf(b), c.y, c.x, n)
<1> DEFINE e == CharsInserted(b, c, n)
<1>1. b \in Bufs /\ Held(b) /\ c.y \in Rows /\ c.x \in Columns
  BY ExactHolds DEF On, InScreen, Rows, Columns
<1>2. Exact(e, OnScreen)
  BY CharsInsertedIs
<1>3. RightMoved(b, e, c.y, c.x, n)
  BY <1>1, CharsInsertedCells
<1> HIDE DEF e
<1>4. Held(e)
  BY <1>2, ExactHolds
<1>5. GridOf(e) = Ideal!CharsRight(GridOf(b), c.y, c.x, n)
  BY <1>1, <1>3, <1>4, RightSeen
<1> QED BY <1>5 DEF e

LEMMA WrittenSeen ==
  ASSUME CInv, NEW c, On(scr, c), NEW ch \in Characters, scr' = scr, buf' = Written(c, ch)
  PROVE  Ideal!Shows(c, ch)
<1> DEFINE at == WriteAt(c)
           u == IF WrapScrolls(c) THEN ScrolledUp(buf, 1) ELSE buf
           b == IF insert /\ at.x < scr.w - 1 THEN CharsInserted(u, at, 1) ELSE u
           p == At(at.y, at.x)
           g == IF WrapScrolls(c) THEN Ideal!LinesUp(Shown, scr.top, scr.btm, 1) ELSE Shown
           h == IF insert /\ at.x < scr.w - 1 THEN Ideal!CharsRight(g, at.y, at.x, 1) ELSE g
<1>1. Fits /\ Sound(scr) /\ Exact(buf, OnScreen) /\ 1 \in Nat \ {0}
  BY CInvIs
<1>2. On(scr, at) /\ at.y \in Rows /\ at.x \in Columns
  BY <1>1, WriteAtIsOn DEF On, InScreen, Rows, Columns
<1>3. Exact(u, OnScreen)
  BY <1>1, ScrolledIs
<1>4. GridOf(u) = g
  BY ScrolledSeen, ShownIs
<1>5. Ideal!Target(c) = <<at.y, at.x>> /\ Ideal!Prepared(c) = h
  BY WriteSame DEF Ideal!Target, Ideal!Prepared
<1>6. Written(c, ch) = AddedAt(b, p, ch)
  BY DEF Written, AddedAt
<1> HIDE DEF at, u, g
<1>7. Exact(CharsInserted(u, at, 1), OnScreen)
  BY <1>1, <1>2, <1>3, CharsInsertedIs
<1>8. GridOf(CharsInserted(u, at, 1)) = Ideal!CharsRight(g, at.y, at.x, 1)
  BY <1>1, <1>2, <1>3, <1>4, InsertedSeen
<1>9. Exact(b, OnScreen) /\ GridOf(b) = h
  BY <1>3, <1>4, <1>7, <1>8
<1> HIDE DEF b, h
<1>10. Printed(b, AddedAt(b, p, ch), at.y, at.x, ch)
  BY <1>1, <1>2, <1>9, AddedSeen
<1>11. Shown' = GridOf(AddedAt(b, p, ch))
  <2>1. Shown' = GridOf(buf')
    BY ShownThen
  <2> QED BY <1>6, <2>1
<1> HIDE DEF p
<1>12. \E seen \in {ch, "?"} : Shown' = [Ideal!Prepared(c) EXCEPT ![Ideal!Target(c)] = seen]
  BY <1>5, <1>9, <1>10, <1>11 DEF Printed
<1> QED BY <1>12 DEF Ideal!Shows

LEMMA WritingSeen ==
  ASSUME CInv, Writing
  PROVE  Ideal!GNext
<1>1. ASSUME NEW ch \in Chars, CPutChar(ch) PROVE Ideal!GNext
  <2> DEFINE c == ClearInvalidHanging(cur)
  <2>1. On(scr, c)
    BY CInvIs DEF On, InScreen, CursorShape, ClearInvalidHanging
  <2>2. /\ scr' = scr /\ buf' = Written(c, ch) /\ ch \in Characters
        /\ PutChar /\ last' = ch /\ insert' = insert
    BY <1>1, CharsAre DEF CPutChar, PutChar, PutGraphic
  <2>3. c = Ideal!ClearInvalidHanging(cur)
    BY WriteSame
  <2> HIDE DEF c
  <2>4. Ideal!Shows(c, ch)
    BY <2>1, <2>2, WrittenSeen
  <2>5. Ideal!GPut(ch)
    BY <2>2, <2>3, <2>4, PrintSame DEF Ideal!GPut
  <2> QED BY <2>5 DEF Ideal!GNext
<1>2. CASE CRepeat
  <2> DEFINE ch == IF last = NoChar THEN " " ELSE last
  <2>1. ch \in Characters
    BY CInvIs, CharsAre
  <2>2. scr' = scr /\ buf' = Written(cur, ch) /\ last' = ch /\ insert' = insert /\ Repeat
    BY <1>2 DEF CRepeat, Repeat, PutGraphic
  <2>3. ch = IF last = Ideal!NoChar THEN " " ELSE last
    BY DEF NoChar, Ideal!NoChar
  <2> HIDE DEF ch
  <2>4. Ideal!Shows(cur, ch)
    BY <2>1, <2>2, CInvIs, WrittenSeen
  <2>5. Ideal!GRepeat
    BY <2>2, <2>3, <2>4, PrintSame DEF Ideal!GRepeat
  <2> QED BY <2>5 DEF Ideal!GNext
<1>3. CASE CLineFeed
  <2>1. /\ LineFeed /\ scr' = scr /\ insert' = insert /\ last' = last
        /\ buf' = IF ScrollsUp THEN ScrolledUp(buf, 1) ELSE buf
    BY <1>3 DEF CLineFeed, Contents, LineFeed
  <2>2. Shown' = GridOf(buf')
    BY <2>1, ShownThen
  <2>3. Shown' = IF ScrollsUp THEN Ideal!LinesUp(Shown, scr.top, scr.btm, 1) ELSE Shown
    BY <2>1, <2>2, ScrolledSeen, ShownIs
  <2>4. Ideal!ScrollsUp <=> ScrollsUp
    BY DEF Ideal!ScrollsUp, ScrollsUp
  <2>5. Ideal!GLineFeed
    BY <2>1, <2>3, <2>4, MotionSame DEF Ideal!GLineFeed
  <2> QED BY <2>5 DEF Ideal!GNext
<1>4. CASE CReverseIndex
  <2>1. /\ ReverseIndex /\ scr' = scr /\ insert' = insert /\ last' = last
        /\ buf' = IF ScrollsDown THEN ScrolledDown(buf, 1) ELSE buf
    BY <1>4 DEF CReverseIndex, Contents, ReverseIndex
  <2>2. Shown' = GridOf(buf')
    BY <2>1, ShownThen
  <2>3. Shown' = IF ScrollsDown THEN Ideal!LinesDown(Shown, scr.top, scr.btm, 1) ELSE Shown
    BY <2>1, <2>2, ScrolledSeen, ShownIs
  <2>4. Ideal!ScrollsDown <=> ScrollsDown
    BY DEF Ideal!ScrollsDown, ScrollsDown
  <2>5. Ideal!GReverseIndex
    BY <2>1, <2>3, <2>4, MotionSame DEF Ideal!GReverseIndex
  <2> QED BY <2>5 DEF Ideal!GNext
<1> QED BY <1>1, <1>2, <1>3, <1>4 DEF Writing

LEMMA LinesSeen ==
  ASSUME CInv, 1 \in Steps, CScrollUp(1) \/ CScrollDown(1) \/ CInsertLines(1)
  PROVE  Ideal!GNext
<1>1. ASSUME NEW b, Contents(b), scr' = scr
      PROVE  Shown' = GridOf(b) /\ insert' = insert /\ last' = last
  <2>1. Shown' = GridOf(buf') /\ buf' = b
    BY <1>1, ShownThen DEF Contents
  <2> QED BY <1>1, <2>1 DEF Contents
<1>2. CASE CScrollUp(1)
  <2>1. ScrollUp(1) /\ Contents(ScrolledUp(buf, 1)) /\ scr' = scr
    BY <1>2 DEF CScrollUp, ScrollUp
  <2> QED BY <1>1, <2>1, ScrolledSeen, LinesSame DEF Ideal!GNext, Ideal!GLines
<1>3. CASE CScrollDown(1)
  <2>1. ScrollDown(1) /\ Contents(ScrolledDown(buf, 1)) /\ scr' = scr
    BY <1>3 DEF CScrollDown, ScrollDown
  <2> QED BY <1>1, <2>1, ScrolledSeen, LinesSame DEF Ideal!GNext, Ideal!GLines
<1>4. CASE CInsertLines(1)
  <2> DEFINE e == LinesInserted(1)
  <2>1. InsertLines(1) /\ Contents(e) /\ scr' = scr /\ Inside(scr, cur)
    BY <1>4 DEF CInsertLines, InsertLines
  <2>2. /\ Fits /\ Sound(scr) /\ buf \in Bufs /\ On(scr, cur) /\ Exact(buf, OnScreen)
        /\ 1 \in Nat \ {0} /\ scr.btm \in Rows /\ cur.y \in Nat
    BY CInvIs, SoundIs DEF Rows
  <2>3. Exact(e, OnScreen)
    BY <2>1, <2>2, LinesMovedIs
  <2>4. DownMoved(buf, e, cur.y, scr.btm, 1)
    BY <2>1, <2>2, LinesInsertedCells
  <2> HIDE DEF e
  <2>5. Held(buf) /\ Held(e)
    BY <2>2, <2>3, ExactHolds
  <2>6. GridOf(e) = Ideal!LinesDown(Shown, cur.y, scr.btm, 1)
    BY <2>2, <2>4, <2>5, DownSeen, ShownIs
  <2>7. Ideal!GLines(1)
    BY <1>1, <2>1, <2>6, LinesSame DEF Ideal!GLines
  <2> QED BY <2>7 DEF Ideal!GNext
<1> QED BY <1>2, <1>3, <1>4

LEMMA CharsSeen ==
  ASSUME CInv, NEW n \in Steps, CInsertChars(n) \/ CEraseChars(n) \/ CBackIndex(n)
  PROVE  Ideal!GNext
<1>1. n \in Nat \ {0}
  BY GeometryAssumption, RowsAssumption
<1>2. /\ Fits /\ buf \in Bufs /\ Exact(buf, OnScreen) /\ On(scr, cur) /\ Held(buf)
  BY CInvIs, ExactHolds
<1>3. CASE CInsertChars(n)
  <2>1. /\ UNCHANGED <<geo, insert, last>> /\ buf' = CharsInserted(buf, cur, n)
        /\ scr' = scr
    BY <1>3 DEF CInsertChars, Contents, geo
  <2>2. Shown' = Ideal!CharsRight(Shown, cur.y, cur.x, n)
    BY <1>1, <1>2, <2>1, InsertedSeen, ShownThen, ShownIs
  <2>3. Ideal!GCharacters(n)
    BY <2>1, <2>2 DEF Ideal!GCharacters, Ideal!geo, geo
  <2> QED BY <2>3 DEF Ideal!GNext
<1>4. CASE CEraseChars(n)
  <2> DEFINE e == CharsErased(n)
             S == {p \in Rows \X Columns : p[1] = cur.y /\ p[2] \in cur.x..(cur.x + n - 1)}
  <2>1. UNCHANGED <<geo, insert, last>> /\ buf' = e /\ scr' = scr
    BY <1>4 DEF CEraseChars, Contents, geo
  <2>2. Exact(e, OnScreen) /\ Wiped(buf, e, S)
    BY <1>1, <1>2, CharsErasedIs, CharsErasedCells
  <2>3. S = {p \in DOMAIN Shown : p[1] = cur.y /\ p[2] \in cur.x..(cur.x + n - 1)}
    BY ShownIs, GridIs
  <2> HIDE DEF e, S
  <2>4. GridOf(e) = Ideal!Blanked(Shown, S)
    BY <1>2, <2>2, ExactHolds, WipedSeen, ShownIs
  <2>5. Shown' = Ideal!Blanked(Shown, S)
    BY <2>1, <2>4, ShownThen
  <2>6. Ideal!GCharacters(n)
    BY <2>1, <2>3, <2>5 DEF Ideal!GCharacters, Ideal!geo, geo
  <2> QED BY <2>6 DEF Ideal!GNext
<1>5. CASE CBackIndex(n)
  <2> DEFINE c == [cur EXCEPT !.x = 0]
             m == n - cur.x
  <2>1. /\ BackIndex(n) /\ scr' = scr /\ insert' = insert /\ last' = last
        /\ buf' = IF n <= cur.x THEN buf ELSE CharsInserted(buf, c, m)
    BY <1>5 DEF CBackIndex, BackIndex, Contents
  <2>2. On(scr, c) /\ c.y = cur.y /\ c.x = 0
    BY CInvIs DEF On, InScreen, CursorShape, Sound, ScreenShape
  <2>3. (n > cur.x <=> ~(n <= cur.x)) /\ (n > cur.x => m \in Nat \ {0})
    BY <1>1, CInvIs
  <2>7. m = n - cur.x
    OBVIOUS
  <2> HIDE DEF c, m
  <2>4. n > cur.x => GridOf(CharsInserted(buf, c, m)) = Ideal!CharsRight(Shown, cur.y, 0, m)
    BY <1>2, <2>2, <2>3, InsertedSeen, ShownIs
  <2>8. Shown' = GridOf(buf')
    BY <2>1, ShownThen
  <2>5. Shown' = IF n > cur.x THEN Ideal!CharsRight(Shown, cur.y, 0, n - cur.x) ELSE Shown
    BY <2>1, <2>3, <2>4, <2>7, <2>8, ShownIs
  <2>6. Ideal!GBackIndex(n)
    BY <2>1, <2>5, MotionSame DEF Ideal!GBackIndex
  <2> QED BY <2>6 DEF Ideal!GNext
<1> QED BY <1>3, <1>4, <1>5

(* A part of the screen that is blanked.                                   *)
LEMMA BlankedSeen ==
  ASSUME CInv, NEW e, Exact(e, OnScreen), NEW S, Wiped(buf, e, S), Contents(e), scr' = scr
  PROVE  Shown' = Ideal!Blanked(Shown, S) /\ insert' = insert /\ last' = last
<1>1. Fits /\ Held(buf) /\ Held(e)
  BY CInvIs, ExactHolds
<1>2. GridOf(e) = Ideal!Blanked(Shown, S)
  BY <1>1, WipedSeen, ShownIs
<1>3. buf' = e /\ insert' = insert /\ last' = last
  BY DEF Contents
<1> QED BY <1>2, <1>3, ShownThen

LEMMA ErasingSeen ==
  ASSUME CInv, Erasing
  PROVE  Ideal!GNext
<1> DEFINE l == ClearRowsUtf(buf, cur.y, cur.y)
           r == ClearUtf(buf, At(cur.y, cur.x), LineEnd(cur.y))
           f == ClearUtf(buf, At(cur.y, 0), At(cur.y, cur.x))
           b == ClearUtf(buf, At(cur.y, cur.x), At(scr.h, 0) - 1)
           a == ClearUtf(buf, 0, At(cur.y, cur.x))
           L == {p \in Rows \X Columns : p[1] = cur.y}
           R == {p \in Rows \X Columns : p[1] = cur.y /\ Ideal!After(p)}
           F == {p \in Rows \X Columns : p[1] = cur.y /\ Ideal!Before(p)}
           B == {p \in Rows \X Columns : Ideal!After(p)}
           A == {p \in Rows \X Columns : Ideal!Before(p)}
<1>1. Fits /\ buf \in Bufs /\ On(scr, cur) /\ Exact(buf, OnScreen)
  BY CInvIs
<1>2. /\ Wiped(buf, l, L) /\ Wiped(buf, r, R) /\ Wiped(buf, f, F)
      /\ Wiped(buf, b, B) /\ Wiped(buf, a, A)
  BY <1>1, LineErasedCells, ScreenErasedCells
<1>3. /\ Exact(l, OnScreen) /\ Exact(r, OnScreen) /\ Exact(f, OnScreen)
      /\ Exact(b, OnScreen) /\ Exact(a, OnScreen)
  <2>1. /\ cur.y \in 0..(scr.h - 1) /\ cur.x \in 0..(scr.w - 1) /\ cur.y <= cur.y
    BY CInvIs
  <2>2. At(cur.y, cur.x) \in OnScreen /\ 0 \in OnScreen
        /\ 0 <= At(cur.y, cur.x) /\ At(cur.y, cur.x) <= At(scr.h, 0) - 1
        /\ At(scr.h, 0) - 1 \in Int /\ At(cur.y, cur.x) \in Int
    <3>1. At(cur.y, cur.x) \in OnScreen
      BY <1>1, <2>1, LineIs
    <3> QED BY <1>1, <3>1 DEF OnScreen, Fits
  <2> QED BY <1>1, <2>1, <2>2, ClearRowsUtfIs, LineErasedIs, ClearUtfIs
<1>4. DOMAIN Shown = Rows \X Columns
  BY ShownIs, GridIs
<1>5. /\ L = {p \in DOMAIN Shown : p[1] = cur.y}
      /\ R = {p \in DOMAIN Shown : p[1] = cur.y /\ Ideal!After(p)}
      /\ F = {p \in DOMAIN Shown : p[1] = cur.y /\ Ideal!Before(p)}
      /\ B = {p \in DOMAIN Shown : Ideal!After(p)}
      /\ A = {p \in DOMAIN Shown : Ideal!Before(p)}
  BY <1>4
<1> HIDE DEF l, r, f, b, a, L, R, F, B, A
<1>6. CASE CEraseLine
  <2>1. /\ UNCHANGED geo /\ scr' = scr
        /\ Contents(l) \/ Contents(r) \/ Contents(f)
    BY <1>6 DEF CEraseLine, geo, l, r, f
  <2>2. /\ insert' = insert /\ last' = last
        /\ \/ Shown' = Ideal!Blanked(Shown, L)
           \/ Shown' = Ideal!Blanked(Shown, R)
           \/ Shown' = Ideal!Blanked(Shown, F)
    BY <1>2, <1>3, <2>1, BlankedSeen
  <2>3. Ideal!GEraseLine
    BY <1>5, <2>1, <2>2 DEF Ideal!GEraseLine, Ideal!geo, geo
  <2> QED BY <2>3 DEF Ideal!GNext
<1>7. CASE CEraseBelow \/ CEraseAbove
  <2>1. /\ scr' = scr
        /\ (EraseBelow /\ Contents(b)) \/ (EraseAbove /\ Contents(a))
    BY <1>7 DEF CEraseBelow, CEraseAbove, EraseBelow, EraseAbove, b, a
  <2>2. /\ insert' = insert /\ last' = last
        /\ \/ EraseBelow /\ Shown' = Ideal!Blanked(Shown, B)
           \/ EraseAbove /\ Shown' = Ideal!Blanked(Shown, A)
    BY <1>2, <1>3, <2>1, BlankedSeen
  <2>3. Ideal!GEraseScreen
    BY <1>5, <2>2, LinesSame DEF Ideal!GEraseScreen
  <2> QED BY <2>3 DEF Ideal!GNext
<1> QED BY <1>6, <1>7 DEF Erasing

-----------------------------------------------------------------------------
(* A screen that is cleared, in the size it has afterwards.                *)
LEMMA ClearedCells ==
  ASSUME NEW b \in Bufs, NEW s, <<s.w, s.h>> \in Sizes, NEW ch \in Fillers,
         NEW y \in 0..(s.h - 1), NEW x \in 0..(s.w - 1)
  PROVE  LET e == AllCleared(b, s, ch)
         IN  Retrieve(e.cache, e.cells[y * s.w + x]) = ch
<1> DEFINE w == s.w  h == s.h  t == <<w, h>>
           e == AllCleared(b, s, ch)
           p == y * w + x
<1>1. t[1] = w /\ t[2] = h /\ t \in Sizes
  OBVIOUS
<1> HIDE DEF t
<1>2. w \in Nat \ {0} /\ h \in Nat \ {0} /\ w * h \in Nat /\ w * h <= MaxCells
  BY <1>1, SizeIs
<1>3. p \in AllCells /\ p < w * h
  <2>1. y \in Nat /\ x \in Nat /\ y < h /\ x < w
    BY <1>2
  <2> DEFINE a == y * w  z == h * w
  <2>2. a \in Nat /\ z \in Nat /\ a + w <= z
    <3> HIDE DEF w, h
    <3>1. w \in Nat /\ h \in Nat
      BY <1>2
    <3> QED BY <2>1, <3>1, Times
  <2>3. z = w * h
    <3> HIDE DEF w, h
    <3> QED BY <1>2
  <2>4. p = a + x
    OBVIOUS
  <2> HIDE DEF a, z, p
  <2>5. p \in Nat /\ p < z /\ MaxCells \in Nat
    BY <1>2, <2>1, <2>2, <2>4, AllCellsIs
  <2>6. p < w * h
    BY <2>3, <2>5
  <2> HIDE DEF w, h
  <2> QED BY <1>2, <2>5, <2>6 DEF AllCells
<1>4. e.cells = [q \in DOMAIN b.cells |-> IF q < w * h THEN ch ELSE b.cells[q]]
  BY DEF AllCleared
<1>5. DOMAIN b.cells = AllCells
  BY DEF Bufs
<1>6. ch \notin Slots
  BY SlotsAre DEF Ascii, Fillers
<1> HIDE DEF e, p, w, h
<1>7. e.cells[p] = ch
  BY <1>3, <1>4, <1>5
<1> QED BY <1>6, <1>7 DEF Retrieve, IsRef, e, p, w, h

FilledWith(s, ch) == [p \in (0..(s.h - 1)) \X (0..(s.w - 1)) |-> ch]

LEMMA ClearedSeen ==
  ASSUME NEW b \in Bufs, SizesKnown', NEW ch \in Fillers, buf' = AllCleared(b, scr', ch)
  PROVE  Shown' = FilledWith(scr', ch)
<1> DEFINE s == scr'
           e == AllCleared(b, s, ch)
<1>1. <<s.w, s.h>> \in Sizes
  BY DEF SizesKnown
<1>2. Shown' = [p \in (0..(s.h - 1)) \X (0..(s.w - 1)) |->
                  Retrieve(buf'.cache, buf'.cells[p[1] * s.w + p[2]])]
  BY DEF Shown, At
<1>3. buf' = e
  OBVIOUS
<1> HIDE DEF s
<1>4. \A y \in 0..(s.h - 1), x \in 0..(s.w - 1) :
        Retrieve(e.cache, e.cells[y * s.w + x]) = ch
  BY <1>1, ClearedCells
<1> HIDE DEF e
<1>5. \A p \in (0..(s.h - 1)) \X (0..(s.w - 1)) :
        Retrieve(e.cache, e.cells[p[1] * s.w + p[2]]) = ch
  BY <1>4
<1>6. Shown' = FilledWith(s, ch)
  BY <1>2, <1>3, <1>5 DEF FilledWith
<1> QED BY <1>6 DEF s

LEMMA ClearingSeen ==
  ASSUME CInv, SizesKnown', Clearing
  PROVE  Ideal!GNext
<1>1. buf \in Bufs /\ AllCleared(buf, scr, " ") \in Bufs /\ " " \in Fillers /\ "E" \in Fillers
  BY CInvIs, ClearedTyped DEF Fillers
<1>2. Ideal!BlankGrid(scr') = FilledWith(scr', " ")
  BY DEF Ideal!BlankGrid, Ideal!Places, FilledWith
<1>3. Ideal!NoChar = NoChar
  BY DEF Ideal!NoChar, NoChar
<1>4. ClearsAll => Shown' = Ideal!BlankGrid(scr') /\ last' = Ideal!NoChar
  BY <1>1, <1>2, <1>3, ClearedSeen DEF ClearsAll
<1>5. CASE CClear \/ CResize
  <2>1. (EraseAll \/ ColumnMode \/ Resize) /\ ClearsAll /\ insert' = insert
    BY <1>5 DEF CClear, CResize
  <2>2. Ideal!GClear
    BY <1>4, <2>1, LinesSame, SizesSame DEF Ideal!GClear
  <2> QED BY <2>2 DEF Ideal!GNext
<1>6. CASE CAlternate
  <2>1. /\ AlternateIn \/ AlternateOut
        /\ buf' = AllCleared(AllCleared(buf, scr, " "), scr', " ")
        /\ last' = NoChar /\ insert' = insert
    BY <1>6 DEF CAlternate
  <2>2. Shown' = Ideal!BlankGrid(scr')
    BY <1>1, <1>2, <2>1, ClearedSeen
  <2>3. Ideal!GClear
    BY <1>3, <2>1, <2>2, SavedSame, SizesSame DEF Ideal!GClear
  <2> QED BY <2>3 DEF Ideal!GNext
<1>7. CASE CReset \/ CApplySettings
  <2>1. (Reset \/ ApplySettings) /\ ClearsAll /\ insert' = FALSE
    BY <1>7 DEF CReset, CApplySettings
  <2>2. Ideal!GReset
    BY <1>4, <2>1, SizesSame DEF Ideal!GReset
  <2> QED BY <2>2 DEF Ideal!GNext
<1>8. CASE CFillWithE
  <2>1. FillWithE /\ buf' = AllCleared(buf, scr', "E") /\ last' = NoChar /\ insert' = FALSE
    BY <1>8 DEF CFillWithE
  <2>2. Shown' = FilledWith(scr', "E")
    BY <1>1, <2>1, ClearedSeen
  <2>3. scr'.w = scr.w /\ scr'.h = scr.h
    BY <2>1 DEF FillWithE, ResetTo, WholeScreen
  <2>4. Shown' = [p \in Ideal!Places(scr) |-> "E"]
    BY <2>2, <2>3 DEF FilledWith, Ideal!Places
  <2>5. Ideal!GFillWithE
    BY <1>3, <2>1, <2>4, SizesSame DEF Ideal!GFillWithE
  <2> QED BY <2>5 DEF Ideal!GNext
<1> QED BY <1>5, <1>6, <1>7, <1>8 DEF Clearing

LEMMA SwapsSeen ==
  ASSUME CInv, SizesKnown', CSwapIn \/ CSwapOut
  PROVE  Ideal!GNext
<1>1. CASE CSwapIn
  <2>1. SwapIn /\ scr' = scr /\ buf' = buf /\ insert' = insert /\ last' = last
    BY <1>1 DEF CSwapIn, SwapIn, Contents
  <2>2. Shown' = Shown
    BY <2>1, ShownStays
  <2>3. Ideal!GStill
    BY <2>1, <2>2, SavedSame DEF Ideal!GStill
  <2> QED BY <2>3 DEF Ideal!GNext
<1>2. CASE CSwapOut /\ Resized
  <2>1. buf \in Bufs /\ " " \in Fillers
    BY CInvIs DEF Fillers
  <2>2. SwapOut /\ buf' = AllCleared(buf, scr', " ") /\ last' = NoChar /\ insert' = insert
    BY <1>2 DEF CSwapOut, ClearsAll
  <2>3. Shown' = FilledWith(scr', " ")
    BY <2>1, <2>2, ClearedSeen
  <2>4. Ideal!BlankGrid(scr') = FilledWith(scr', " ") /\ Ideal!NoChar = NoChar
    BY DEF Ideal!BlankGrid, Ideal!Places, FilledWith, Ideal!NoChar, NoChar
  <2>5. Ideal!GClear
    BY <1>2, <2>2, <2>3, <2>4, SizesSame DEF Ideal!GClear
  <2> QED BY <2>5 DEF Ideal!GNext
<1>3. CASE CSwapOut /\ ~Resized
  <2>1. /\ SwapOut /\ buf' = buf /\ insert' = insert /\ last' = last
        /\ backup.w = scr.w /\ backup.h = scr.h /\ scr' = Unswapped
    BY <1>3 DEF CSwapOut, SwapOut, Resized
  <2>2. scr \in ScreenShape
    BY CInvIs DEF Sound
  <2>3. scr'.w = scr.w /\ scr'.h = scr.h
    BY <2>1, <2>2 DEF Unswapped, ScreenShape
  <2>4. Shown' = Shown
    BY <2>1, <2>3, ShownStays
  <2>5. Ideal!GStill
    BY <1>3, <2>1, <2>4, SizesSame DEF Ideal!GStill
  <2> QED BY <2>5 DEF Ideal!GNext
<1> QED BY <1>1, <1>2, <1>3

LEMMA NothingSeen ==
  ASSUME UNCHANGED cellvars
  PROVE  UNCHANGED Ideal!view
<1>1. scr' = scr /\ buf' = buf
  BY DEF cellvars, geo
<1>2. Shown' = Shown
  BY <1>1, ShownStays
<1> QED BY <1>2 DEF cellvars, geo, Ideal!view, Ideal!geo

LEMMA StillSeen ==
  ASSUME CInv, Careful, Still(Stays) \/ InsertMode
  PROVE  [Ideal!GNext]_(Ideal!view)
<1>1. scr \in ScreenShape
  BY CInvIs DEF Sound
<1>2. buf' = buf /\ last' = last
  BY DEF Still, InsertMode
<1>3. CASE InsertMode
  <2>1. scr' = scr /\ UNCHANGED geo /\ \E on \in BOOLEAN : insert' = on
    BY <1>3 DEF InsertMode, geo
  <2>2. Shown' = Shown
    BY <1>2, <2>1, ShownStays
  <2>3. Ideal!GInsertMode
    BY <1>2, <2>1, <2>2 DEF Ideal!GInsertMode, Ideal!geo, geo
  <2> QED BY <2>3 DEF Ideal!GNext
<1>4. CASE Still(ApplySettingsNoClear)
  <2>1. /\ conf = <<scr.w, scr.h>> /\ scr' = [scr EXCEPT !.w = conf[1], !.h = conf[2]]
        /\ UNCHANGED <<cur, dbl, saved, alt, backup, conf, buf, insert, last>>
    BY <1>4 DEF Still, ApplySettingsNoClear
  <2>2. scr' = scr
    BY <1>1, <2>1 DEF ScreenShape
  <2>3. UNCHANGED cellvars
    BY <2>1, <2>2 DEF cellvars, geo
  <2> QED BY <2>3, NothingSeen
<1>5. CASE \/ Still(CarriageReturn) \/ Still(Place) \/ Still(Move) \/ Still(BackSpace)
           \/ Still(SetOriginMode) \/ Still(SaveCursor) \/ Still(SetScrollingRegion)
           \/ \E a \in BOOLEAN : Still(RestoreCursor(a))
  <2>1. /\ \/ CarriageReturn \/ Place \/ Move \/ BackSpace \/ SetOriginMode \/ SaveCursor
           \/ SetScrollingRegion \/ \E a \in BOOLEAN : RestoreCursor(a)
        /\ insert' = insert
    BY <1>5 DEF Still
  <2>2. scr'.w = scr.w /\ scr'.h = scr.h
    <3>1. CASE SetScrollingRegion
      <4>1. PICK from, to : scr' = Region(from, to)
        BY <3>1 DEF SetScrollingRegion
      <4> QED BY <1>1, <4>1 DEF Region, WholeScreen, ScreenShape
    <3>2. CASE \/ CarriageReturn \/ Place \/ Move \/ BackSpace \/ SetOriginMode \/ SaveCursor
               \/ \E a \in BOOLEAN : RestoreCursor(a)
      BY <3>2 DEF CarriageReturn, Place, Move, BackSpace, SetOriginMode, SaveCursor, RestoreCursor
    <3> QED BY <2>1, <3>1, <3>2
  <2>3. Shown' = Shown
    BY <1>2, <2>2, ShownStays
  <2>4. Ideal!GStill
    BY <1>2, <2>1, <2>3, MotionSame, RegionSame, SavedSame DEF Ideal!GStill
  <2> QED BY <2>4 DEF Ideal!GNext
<1> QED BY <1>3, <1>4, <1>5 DEF Still, Stays

-----------------------------------------------------------------------------
(* The refinement.                                                         *)
LEMMA StepSeen ==
  ASSUME Wide, Slack = 0, Careful, NoLeaks, "deletelines" \notin Ops, CInv, [CNext]_cellvars
  PROVE  [Ideal!GNext]_(Ideal!view)
<1>1. SizesKnown'
  BY CountsStep DEF CInv
<1>2. CASE UNCHANGED cellvars
  BY <1>2, NothingSeen
<1>3. CASE CNext
  <2>1. CASE \E n \in Steps : "lines" \in Ops /\ (CScrollUp(n) \/ CScrollDown(n) \/ CInsertLines(n))
    <3>1. PICK n \in Steps : "lines" \in Ops /\ (CScrollUp(n) \/ CScrollDown(n) \/ CInsertLines(n))
      BY <2>1
    <3>2. n = 1
      BY <3>1 DEF NoLeaks, LinesOneByOne
    <3> QED BY <3>1, <3>2, LinesSeen
  <2>2. CASE Writing
    BY <2>2, WritingSeen
  <2>3. CASE ByChars
    BY <2>3, CharsSeen DEF ByChars
  <2>4. CASE Erasing
    BY <2>4, ErasingSeen
  <2>5. CASE Clearing
    BY <1>1, <2>5, ClearingSeen
  <2>6. CASE CSwapIn \/ CSwapOut
    BY <1>1, <2>6, SwapsSeen
  <2>7. CASE Still(Stays) \/ InsertMode
    BY <2>7, StillSeen
  <2>8. \/ \E n \in Steps : "lines" \in Ops /\ (CScrollUp(n) \/ CScrollDown(n) \/ CInsertLines(n))
        \/ Writing \/ ByChars \/ Erasing \/ Clearing
        \/ CSwapIn \/ CSwapOut \/ Still(Stays) \/ InsertMode
    BY <1>3 DEF CNext, NoLeaks, Writing, ByChars, Erasing, Clearing, Still, Stays
  <2> QED BY <2>1, <2>2, <2>3, <2>4, <2>5, <2>6, <2>7, <2>8
<1> QED BY <1>2, <1>3

LEMMA InitSeen ==
  ASSUME Wide, CellsInit
  PROVE  Ideal!GInit
<1> DEFINE w == scr.w  h == scr.h
<1>1. CInv
  BY CountsInit
<1>2. Fits /\ Rows = 0..(h - 1) /\ Columns = 0..(w - 1)
  BY <1>1, CInvIs DEF Rows, Columns
<1>3. buf.cells = [p \in 0..(MaxCells - 1) |-> IF p < At(scr.h, 0) THEN " " ELSE Slot0]
  BY DEF CellsInit
<1>4. ASSUME NEW y \in Rows, NEW x \in Columns PROVE Seen(buf, y, x) = " "
  <2>1. At(y, x) \in OnScreen /\ At(y, x) \in AllCells
    BY <1>2, PlacesAre
  <2>2. At(y, x) < At(scr.h, 0)
    BY <1>2, <2>1 DEF OnScreen, Fits
  <2>3. Cell(buf, y, x) = " "
    BY <1>3, <2>1, <2>2 DEF Cell, AllCells
  <2>4. Cell(buf, y, x) \in Ascii
    BY <2>3 DEF Ascii
  <2> QED BY <2>3, <2>4, SeenBlank
<1>5. GridOf(buf) = [p \in Rows \X Columns |-> " "]
  <2>1. \A p \in Rows \X Columns : Seen(buf, p[1], p[2]) = " "
    BY <1>4
  <2> QED BY <2>1 DEF GridOf
<1>6. Shown = Ideal!BlankGrid(scr)
  BY <1>2, <1>5, ShownIs DEF Ideal!BlankGrid, Ideal!Places
<1>7. Ideal!Init
  BY DoublesSame DEF CellsInit, Init, Ideal!Init, WholeScreen, Ideal!WholeScreen,
     FreshCursor, Ideal!FreshCursor
<1> QED BY <1>6, <1>7 DEF CellsInit, Ideal!GInit, NoChar, Ideal!NoChar

(* The operations of user/screen.c leave the user with what Grid promises: *)
(* the loops over screen[] move and blank the characters they should, and  *)
(* no slot that a cell of the screen refers to is handed to another glyph. *)
(* Where slots leak this could only be said with room for the leaks in the *)
(* counters (NoLeaks); screen_delete_lines clears one line more than Grid  *)
(* does when a single line is left to pull up.  The sizes are those of     *)
(* CountsExact.                                                            *)
THEOREM ShowsTheGrid ==
  ASSUME Wide, Slack = 0, Careful, NoLeaks, "deletelines" \notin Ops
  PROVE  CSpec => ImplementsGrid
<1>1. CellsInit => CInv /\ Ideal!GInit
  BY CountsInit, InitSeen
<1>2. CInv /\ [CNext]_cellvars => CInv'
  BY CountsStep
<1>3. CInv /\ [CNext]_cellvars => [Ideal!GNext]_(Ideal!view)
  BY StepSeen
<1> QED BY <1>1, <1>2, <1>3, PTL DEF CSpec, ImplementsGrid, Ideal!GSpec

=============================================================================
