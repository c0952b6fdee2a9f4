---------------------------- MODULE DisplayProofs ----------------------------
(***************************************************************************)
(* A section of cells arrives as it was sent, for every rectangle,         *)
(* contents and size of the buffers, however it is cut into them; and what *)
(* browsers show, for every size, host, number of clients and order of     *)
(* timers.                                                                 *)
(***************************************************************************)
EXTENDS Display, Iteration, FiniteSetTheorems

-----------------------------------------------------------------------------
(* The functions of Serializer that are defined by recursion.              *)

(* t are the states of the loop from s on.                                 *)
TurnsBy(t, S, s, cells, r, w) ==
  t \in [Nat -> S] /\ t[0] = s /\ \A n \in Nat \ {0} : t[n] = Turn(t[n - 1], cells, r, w)

LEMMA LoopIs ==
  ASSUME NEW cells, NEW r, NEW w, NEW S, NEW s \in S,
         \A x \in S : Turn(x, cells, r, w) \in S
  PROVE  \E t : TurnsBy(t, S, s, cells, r, w)
                /\ Loop(s, cells, r, w) = t[Cardinality(DOMAIN cells)]
<1> DEFINE F == [n \in Nat |-> [x \in S |-> Turn(x, cells, r, w)]]
           t[n \in Nat] == IF n = 0 THEN s ELSE Turn(t[n - 1], cells, r, w)
<1>1. F \in [Nat -> [S -> S]]
  OBVIOUS
<1>2. PICK g : IsRun(g, S, s, F)
  <2> HIDE DEF F
  <2> QED BY <1>1, Iterates
<1>3. ASSUME NEW n \in Nat \ {0} PROVE g[n] = Turn(g[n - 1], cells, r, w)
  <2>1. g[n - 1] \in S
    BY <1>2 DEF IsRun
  <2>2. F[n] = [x \in S |-> Turn(x, cells, r, w)]
    OBVIOUS
  <2> HIDE DEF F
  <2> QED BY <1>2, <2>1, <2>2 DEF IsRun
<1>4. g = [n \in Nat |-> IF n = 0 THEN s ELSE Turn(g[n - 1], cells, r, w)]
  BY <1>2, <1>3 DEF IsRun
<1>5. t = [n \in Nat |-> IF n = 0 THEN s ELSE Turn(t[n - 1], cells, r, w)]
  BY <1>4, Zenon
<1> HIDE DEF t
<1>6. t[0] = s /\ \A n \in Nat \ {0} : t[n] = Turn(t[n - 1], cells, r, w)
  BY <1>5
<1>7. \A n \in Nat : t[n] \in S
  <2> DEFINE U == {n \in Nat : t[n] \in S}
  <2>1. 0 \in U
    BY <1>6
  <2>2. ASSUME NEW n \in U PROVE n + 1 \in U
    BY <1>6
  <2>3. U = Nat
    <3> HIDE DEF U
    <3>1. U \subseteq Nat
      BY DEF U
    <3> QED BY <2>1, <2>2, <3>1, SetInduction
  <2> QED BY <2>3
<1>8. t \in [Nat -> S]
  BY <1>5, <1>7
<1>9. Loop(s, cells, r, w) = t[Cardinality(DOMAIN cells)]
  BY DEF Loop, t
<1> QED BY <1>6, <1>8, <1>9 DEF TurnsBy

(* s are the states after the buffers.                                     *)
ChunksBy(s, S, a, cells, r, w, len) ==
  /\ s \in [1..MaxChunks -> S] /\ s[1] = a
  /\ \A n \in 2..MaxChunks : s[n] = Chunk(s[n - 1], cells, r, w, len)

LEMMA FilledIs ==
  ASSUME NEW cells, NEW r, NEW w, NEW room, NEW len, NEW S, NEW start,
         start = [i |-> w * r.y0 + r.x0, room |-> room, out |-> <<>>, last |-> NoCell,
                  live |-> [fg |-> 0, bg |-> 0]],
         Loop(start, cells, r, w) \in S,
         \A x \in S : Chunk(x, cells, r, w, len) \in S
  PROVE  \E s : ChunksBy(s, S, Loop(start, cells, r, w), cells, r, w, len)
                /\ Filled(cells, r, w, room, len) = s[MaxChunks]
<1> DEFINE a == Loop(start, cells, r, w)
           F == [n \in Nat |-> [x \in S |-> Chunk(x, cells, r, w, len)]]
           s[n \in 1..MaxChunks] == IF n = 1 THEN Loop(start, cells, r, w)
                                    ELSE Chunk(s[n - 1], cells, r, w, len)
<1>1. F \in [Nat -> [S -> S]]
  OBVIOUS
<1>2. PICK g : IsRun(g, S, a, F)
  <2> HIDE DEF F, a
  <2>1. a \in S
    BY DEF a
  <2> QED BY ONLY <1>1, <2>1, Iterates
<1>3. ASSUME NEW n \in Nat \ {0} PROVE g[n] = Chunk(g[n - 1], cells, r, w, len)
  <2>1. g[n - 1] \in S
    BY <1>2 DEF IsRun
  <2>2. F[n] = [x \in S |-> Chunk(x, cells, r, w, len)]
    OBVIOUS
  <2> HIDE DEF F
  <2> QED BY <1>2, <2>1, <2>2 DEF IsRun
<1> DEFINE f == [n \in 1..MaxChunks |-> g[n - 1]]
<1>4. f = [n \in 1..MaxChunks |-> IF n = 1 THEN a ELSE Chunk(f[n - 1], cells, r, w, len)]
  <2>1. ASSUME NEW n \in 1..MaxChunks, n # 1 PROVE f[n] = Chunk(f[n - 1], cells, r, w, len)
    <3>1. n - 1 \in Nat \ {0} /\ n - 1 \in 1..MaxChunks
      BY <2>1 DEF MaxChunks
    <3> DEFINE m == n - 1
    <3>2. g[m] = Chunk(g[m - 1], cells, r, w, len)
      BY <1>3, <3>1
    <3>3. f[n] = g[m] /\ f[m] = g[m - 1]
      BY <3>1
    <3> QED BY <3>2, <3>3
  <2>2. 1 \in 1..MaxChunks => f[1] = a
    BY <1>2 DEF IsRun
  <2> QED BY <2>1, <2>2
<1>5. s = [n \in 1..MaxChunks |-> IF n = 1 THEN Loop(start, cells, r, w)
                                  ELSE Chunk(s[n - 1], cells, r, w, len)]
  <2> HIDE DEF f
  <2> QED BY <1>4, Zenon
<1> HIDE DEF s
<1>6. /\ s[1] = Loop(start, cells, r, w)
      /\ \A n \in 2..MaxChunks : s[n] = Chunk(s[n - 1], cells, r, w, len)
  BY <1>5 DEF MaxChunks
<1>7. \A n \in 1..MaxChunks : s[n] \in S
  <2> DEFINE U == {n \in Nat : n + 1 \in 1..MaxChunks => s[n + 1] \in S}
  <2>1. 0 \in U
    BY <1>6
  <2>2. ASSUME NEW n \in U PROVE n + 1 \in U
    <3> SUFFICES ASSUME n + 1 + 1 \in 1..MaxChunks PROVE s[n + 1 + 1] \in S
      OBVIOUS
    <3>1. n + 1 \in 1..MaxChunks /\ n + 1 + 1 \in 2..MaxChunks /\ n + 1 + 1 - 1 = n + 1
      BY DEF MaxChunks
    <3> QED BY <1>6, <3>1
  <2>3. U = Nat
    <3> HIDE DEF U
    <3>1. U \subseteq Nat
      BY DEF U
    <3> QED BY <2>1, <2>2, <3>1, SetInduction
  <2>4. ASSUME NEW n \in 1..MaxChunks PROVE s[n] \in S
    <3>1. n - 1 \in Nat /\ n - 1 + 1 = n
      BY DEF MaxChunks
    <3> QED BY <2>3, <3>1
  <2> QED BY <2>4
<1>8. s \in [1..MaxChunks -> S]
  BY <1>5, <1>7
<1>9. Filled(cells, r, w, room, len) = s[MaxChunks]
  BY DEF Filled, s
<1> QED BY <1>6, <1>8, <1>9 DEF ChunksBy

(* p paints the tokens from a on.                                          *)
PaintsBy(p, tokens, S, a, r, w) ==
  /\ p \in [0..Len(tokens) -> S] /\ p[0] = a
  /\ \A n \in 1..Len(tokens) : p[n] = PaintToken(p[n - 1], tokens[n], r, w)

LEMMA PaintedIs ==
  ASSUME NEW r, NEW w, NEW T, NEW S, NEW old,
         NEW a, a = [cells |-> old, n |-> 0, pen |-> NoCell], a \in S,
         \A x \in S, t \in T : PaintToken(x, t, r, w) \in S,
         NEW tokens \in Seq(T)
  PROVE  \E p : PaintsBy(p, tokens, S, a, r, w) /\ Painted(old, tokens, r, w) = p[Len(tokens)]
<1> DEFINE L == Len(tokens)
           F == [n \in Nat |-> [x \in S |-> IF n \in 1..L THEN PaintToken(x, tokens[n], r, w)
                                            ELSE x]]
           p[n \in 0..Len(tokens)] == IF n = 0 THEN [cells |-> old, n |-> 0, pen |-> NoCell]
                                      ELSE PaintToken(p[n - 1], tokens[n], r, w)
<1>0. L \in Nat /\ \A n \in 1..L : tokens[n] \in T
  OBVIOUS
<1> HIDE DEF L
<1>1. F \in [Nat -> [S -> S]]
  BY <1>0
<1>2. PICK g : IsRun(g, S, a, F)
  <2> HIDE DEF F
  <2>1. a \in S
    OBVIOUS
  <2> QED BY ONLY <1>1, <2>1, Iterates
<1>3. ASSUME NEW n \in 1..L PROVE g[n] = PaintToken(g[n - 1], tokens[n], r, w)
  <2>1. g[n - 1] \in S /\ n \in Nat \ {0}
    BY <1>0, <1>2 DEF IsRun
  <2>2. F[n] = [x \in S |-> PaintToken(x, tokens[n], r, w)]
    BY <2>1
  <2> HIDE DEF F
  <2> QED BY <1>2, <2>1, <2>2 DEF IsRun
<1> DEFINE f == [n \in 0..L |-> g[n]]
<1>4. f = [n \in 0..L |-> IF n = 0 THEN a ELSE PaintToken(f[n - 1], tokens[n], r, w)]
  <2>1. ASSUME NEW n \in 0..L, n # 0 PROVE f[n] = PaintToken(f[n - 1], tokens[n], r, w)
    <3>1. n \in 1..L /\ n - 1 \in 0..L
      BY <1>0, <2>1
    <3>2. f[n] = g[n] /\ f[n - 1] = g[n - 1]
      BY <3>1
    <3> HIDE DEF f
    <3> QED BY <1>3, <3>1, <3>2
  <2>2. f[0] = a
    BY <1>0, <1>2 DEF IsRun
  <2> QED BY <2>1, <2>2
<1>5. p = [n \in 0..Len(tokens) |-> IF n = 0 THEN [cells |-> old, n |-> 0, pen |-> NoCell]
                                    ELSE PaintToken(p[n - 1], tokens[n], r, w)]
  <2> HIDE DEF f
  <2>1. \E q : q = [n \in 0..Len(tokens) |->
                      IF n = 0 THEN [cells |-> old, n |-> 0, pen |-> NoCell]
                      ELSE PaintToken(q[n - 1], tokens[n], r, w)]
    BY <1>4, Zenon DEF L
  <2> QED BY <2>1, Zenon
<1> HIDE DEF p
<1>6. p[0] = a /\ \A n \in 1..L : p[n] = PaintToken(p[n - 1], tokens[n], r, w)
  BY <1>0, <1>5 DEF L
<1>7. \A n \in 0..L : p[n] \in S
  <2> DEFINE U == {n \in Nat : n <= L => p[n] \in S}
  <2>1. 0 \in U
    BY <1>6
  <2>2. ASSUME NEW n \in U PROVE n + 1 \in U
    <3> SUFFICES ASSUME n + 1 <= L PROVE p[n + 1] \in S
      OBVIOUS
    <3>1. n + 1 \in 1..L /\ n + 1 - 1 = n /\ p[n] \in S
      BY <1>0
    <3> DEFINE m == n + 1
    <3>2. p[m] = PaintToken(p[m - 1], tokens[m], r, w) /\ tokens[m] \in T
      BY <1>0, <1>6, <3>1
    <3> QED BY <3>1, <3>2
  <2>3. U = Nat
    <3> HIDE DEF U
    <3>1. U \subseteq Nat
      BY DEF U
    <3> QED BY <2>1, <2>2, <3>1, SetInduction
  <2> QED BY <1>0, <2>3
<1>8. p \in [0..Len(tokens) -> S]
  BY <1>5, <1>7 DEF L
<1>9. Painted(old, tokens, r, w) = p[Len(tokens)]
  BY DEF Painted, p
<1> QED BY <1>6, <1>8, <1>9 DEF L, PaintsBy

(* A cell more, if it is the same.                                         *)
OneMore(b, last, cells, r, w) ==
  IF b.at > Final(r, w) \/ cells[b.at] # last THEN b
  ELSE [n |-> b.n + 1, at |-> After(b.at, r, w)]

LEMMA SameIn ==
  ASSUME NEW last, NEW i, NEW cells, NEW r, NEW w, NEW S,
         NEW a, a = [n |-> 0, at |-> i], a \in S,
         \A b \in S : OneMore(b, last, cells, r, w) \in S,
         Cardinality(DOMAIN cells) \in Nat
  PROVE  Same(last, i, cells, r, w) \in S
<1> DEFINE F == [n \in Nat |-> [b \in S |-> OneMore(b, last, cells, r, w)]]
           run[n \in Nat] ==
             IF n = 0 THEN [n |-> 0, at |-> i]
             ELSE LET b == run[n - 1]
                  IN  IF b.at > Final(r, w) \/ cells[b.at] # last THEN b
                      ELSE [n |-> b.n + 1, at |-> After(b.at, r, w)]
<1>1. F \in [Nat -> [S -> S]]
  OBVIOUS
<1>2. PICK g : IsRun(g, S, a, F)
  <2> HIDE DEF F
  <2>1. a \in S
    OBVIOUS
  <2> QED BY ONLY <1>1, <2>1, Iterates
<1>3. ASSUME NEW n \in Nat \ {0} PROVE g[n] = OneMore(g[n - 1], last, cells, r, w)
  <2>1. g[n - 1] \in S
    BY <1>2 DEF IsRun
  <2>2. F[n] = [b \in S |-> OneMore(b, last, cells, r, w)]
    OBVIOUS
  <2> HIDE DEF F
  <2> QED BY <1>2, <2>1, <2>2 DEF IsRun
<1>4. g = [n \in Nat |-> IF n = 0 THEN a ELSE OneMore(g[n - 1], last, cells, r, w)]
  BY <1>2, <1>3 DEF IsRun
<1>5. run = [n \in Nat |-> IF n = 0 THEN a ELSE OneMore(run[n - 1], last, cells, r, w)]
  <2>1. \E q : q = [n \in Nat |->
                      IF n = 0 THEN [n |-> 0, at |-> i]
                      ELSE IF q[n - 1].at > Final(r, w) \/ cells[q[n - 1].at] # last
                      THEN q[n - 1]
                      ELSE [n |-> q[n - 1].n + 1, at |-> After(q[n - 1].at, r, w)]]
    BY <1>4, ZenonT(60) DEF OneMore
  <2>2. run = [n \in Nat |->
                  IF n = 0 THEN [n |-> 0, at |-> i]
                  ELSE IF run[n - 1].at > Final(r, w) \/ cells[run[n - 1].at] # last
                  THEN run[n - 1]
                  ELSE [n |-> run[n - 1].n + 1, at |-> After(run[n - 1].at, r, w)]]
    BY <2>1, Zenon
  <2> HIDE DEF run
  <2> QED BY <2>2, Zenon DEF OneMore
<1> HIDE DEF run
<1>6. \A n \in Nat : run[n] \in S
  <2> DEFINE U == {n \in Nat : run[n] \in S}
  <2>1. 0 \in U
    BY <1>5
  <2>2. ASSUME NEW n \in U PROVE n + 1 \in U
    <3>1. n + 1 \in Nat /\ n + 1 # 0 /\ n + 1 - 1 = n
      OBVIOUS
    <3>2. run[n + 1] = OneMore(run[n], last, cells, r, w)
      BY <1>5, <3>1
    <3> QED BY <3>1, <3>2
  <2>3. U = Nat
    <3> HIDE DEF U
    <3>1. U \subseteq Nat
      BY DEF U
    <3> QED BY <2>1, <2>2, <3>1, SetInduction
  <2> QED BY <2>3
<1>7. Same(last, i, cells, r, w) = run[Cardinality(DOMAIN cells)]
  BY DEF Same, run
<1> QED BY <1>6, <1>7

-----------------------------------------------------------------------------
(* Cells by row and column.                                                *)

LEMMA Divides ==
  ASSUME NEW n \in Nat, NEW w \in Nat \ {0}
  PROVE  /\ n \div w \in Nat /\ n % w \in 0..(w - 1)
         /\ n = w * (n \div w) + (n % w)
OBVIOUS

LEMMA Grows ==
  ASSUME NEW a \in Int, NEW b \in Int, NEW w \in Nat, a < b
  PROVE  w * a + w <= w * b
<1>1. b - a - 1 \in Nat /\ w * (b - a - 1) >= 0
  OBVIOUS
<1> QED BY <1>1

LEMMA DividesOnce ==
  ASSUME NEW w \in Nat \ {0}, NEW q \in Nat, NEW c \in 0..(w - 1)
  PROVE  (w * q + c) \div w = q /\ (w * q + c) % w = c
<1> DEFINE n == w * q + c  d == n \div w  m == n % w
<1>1. n \in Nat
  OBVIOUS
<1>2. d \in Nat /\ m \in 0..(w - 1) /\ n = w * d + m
  BY <1>1, Divides
<1>3. ~(d < q)
  BY <1>2, Grows
<1>4. ~(q < d)
  BY <1>2, Grows
<1>5. d = q
  BY <1>2, <1>3, <1>4
<1> QED BY <1>2, <1>5

LEMMA CellAt ==
  ASSUME NEW h \in Nat, NEW w \in Nat \ {0}, NEW y \in 0..(h - 1), NEW x \in 0..(w - 1)
  PROVE  /\ w * y = y * w /\ y * w + x \in 0..(h * w - 1)
         /\ (y * w + x) \div w = y /\ (y * w + x) % w = x
<1>1. w * y = y * w /\ w * h = h * w
  OBVIOUS
<1>2. w * y + w <= w * h
  BY Grows
<1>3. w * y >= 0
  OBVIOUS
<1> QED BY <1>1, <1>2, <1>3, DividesOnce

LEMMA RowAndColumn ==
  ASSUME NEW h \in Nat, NEW w \in Nat \ {0}, NEW p \in 0..(h * w - 1)
  PROVE  /\ p \in Nat /\ p \div w \in 0..(h - 1) /\ p % w \in 0..(w - 1)
         /\ p = w * (p \div w) + (p % w) /\ p = (p \div w) * w + (p % w)
<1>1. h * w \in Nat /\ h * w = w * h
  OBVIOUS
<1>2. p \in Nat
  BY <1>1
<1>3. p \div w \in Nat /\ p % w \in 0..(w - 1) /\ p = w * (p \div w) + (p % w)
  BY <1>2, Divides
<1>4. p \div w < h
  <2> SUFFICES ASSUME h <= p \div w PROVE FALSE
    BY <1>3
  <2>1. w * h <= w * (p \div w)
    BY <1>3, Grows
  <2> QED BY <1>1, <1>3, <2>1
<1>5. w * (p \div w) = (p \div w) * w
  BY <1>3
<1> QED BY <1>2, <1>3, <1>4, <1>5

(* The cells of a row, from a to b.                                        *)
LEMMA InRow ==
  ASSUME NEW w \in Nat \ {0}, NEW p \in Nat, NEW y \in Nat, NEW a \in 0..(w - 1), NEW b \in 0..(w - 1),
         p \in (y * w + a)..(y * w + b)
  PROVE  p \div w = y /\ p % w \in a..b
<1> DEFINE c == p - y * w
<1>1. y * w \in Int /\ w * y = y * w
  OBVIOUS
<1>2. c \in a..b /\ c \in 0..(w - 1) /\ p = w * y + c
  BY <1>1
<1>3. p \div w = y /\ p % w = c
  BY <1>2, DividesOnce
<1> QED BY <1>2, <1>3

(* The cells of rows y0 to y1.                                             *)
LEMMA InRows ==
  ASSUME NEW w \in Nat \ {0}, NEW p \in Nat, NEW y0 \in Int, NEW y1 \in Int,
         p >= y0 * w, p < (y1 + 1) * w
  PROVE  p \div w \in y0..y1
<1> DEFINE d == p \div w
<1>1. d \in Nat /\ p % w \in 0..(w - 1) /\ p = w * d + (p % w)
  BY Divides
<1>2. y0 * w = w * y0 /\ (y1 + 1) * w = w * (y1 + 1) /\ w * y0 \in Int /\ w * (y1 + 1) \in Int
      /\ w * d \in Int
  BY <1>1
<1>3. ~(d < y0)
  <2> SUFFICES ASSUME d < y0 PROVE FALSE
    OBVIOUS
  <2>1. w * d + w <= w * y0
    BY <1>1, Grows
  <2> QED BY <1>1, <1>2, <2>1
<1>4. ~(y1 < d)
  <2> SUFFICES ASSUME y1 + 1 <= d PROVE FALSE
    BY <1>1
  <2>1. w * (y1 + 1) <= w * d
    BY <1>1, Grows
  <2> QED BY <1>1, <1>2, <2>1
<1> QED BY <1>1, <1>3, <1>4

-----------------------------------------------------------------------------
(* The cells of a rectangle, in the order in which they are sent.          *)

Inside(d, p, w) == p \div w \in d.y0..d.y1 /\ p % w \in d.x0..d.x1
Wide(r) == r.x1 - r.x0 + 1
Many(r) == (r.y1 - r.y0 + 1) * Wide(r)

LEMMA RectIs ==
  ASSUME NEW h \in Nat \ {0}, NEW w \in Nat \ {0}, NEW r \in RectsOn(h, w)
  PROVE  /\ r.y0 \in 0..(h - 1) /\ r.y1 \in 0..(h - 1) /\ r.y0 <= r.y1
         /\ r.x0 \in 0..(w - 1) /\ r.x1 \in 0..(w - 1) /\ r.x0 <= r.x1
         /\ Wide(r) \in 1..w /\ Many(r) \in Nat \ {0} /\ Many(r) <= h * w
<1>1. /\ r.y0 \in 0..(h - 1) /\ r.y1 \in 0..(h - 1) /\ r.y0 <= r.y1
      /\ r.x0 \in 0..(w - 1) /\ r.x1 \in 0..(w - 1) /\ r.x0 <= r.x1
  BY DEF RectsOn
<1>2. Wide(r) \in 1..w
  BY <1>1 DEF Wide
<1> DEFINE n == r.y1 - r.y0 + 1  c == Wide(r)
<1>3. n \in 1..h /\ c \in 1..w /\ Many(r) = n * c
  BY <1>1, <1>2 DEF Many
<1> HIDE DEF n, c
<1>4. n * c \in Nat /\ n * c >= c /\ n * c <= h * c /\ h * c <= h * w
  BY <1>3
<1>5. Many(r) \in Nat \ {0} /\ Many(r) <= h * w
  <2> DEFINE a == n * c  b == h * c  d == h * w
  <2>1. d \in Int /\ b \in Int
    BY <1>3
  <2> HIDE DEF a, b, d
  <2>2. a \in Nat /\ a >= c /\ a <= b /\ b <= d /\ Many(r) = a
    BY <1>3, <1>4 DEF a, b, d
  <2>3. a <= d /\ a # 0
    BY <1>3, <2>1, <2>2
  <2> QED BY <2>2, <2>3 DEF d
<1> QED BY <1>1, <1>2, <1>5

LEMMA PlaceIs ==
  ASSUME NEW h \in Nat \ {0}, NEW w \in Nat \ {0}, NEW r \in RectsOn(h, w), NEW k \in Nat
  PROVE  LET q == k \div Wide(r)  c == k % Wide(r) IN
         /\ q \in Nat /\ c \in 0..(Wide(r) - 1) /\ k = Wide(r) * q + c
         /\ r.x0 + c \in 0..r.x1
         /\ Place(r, k, w) = w * (r.y0 + q) + (r.x0 + c) /\ Place(r, k, w) \in Nat
<1> DEFINE q == k \div Wide(r)  c == k % Wide(r)
<1>1. r.y0 \in Nat /\ r.x0 \in 0..(w - 1) /\ r.x1 \in 0..(w - 1) /\ Wide(r) \in Nat \ {0}
  BY RectIs
<1>2. q \in Nat /\ c \in 0..(Wide(r) - 1) /\ k = Wide(r) * q + c
  BY <1>1, Divides
<1>3. Place(r, k, w) = ((r.y0 + q) * w + r.x0) + c
  BY DEF Place, Wide
<1> HIDE DEF q, c
<1>4. r.x0 + c \in 0..r.x1
  BY <1>1, <1>2 DEF Wide
<1>5. (r.y0 + q) * w = w * (r.y0 + q) /\ w * (r.y0 + q) \in Nat
  <2> DEFINE y == r.y0 + q
  <2>1. y \in Nat
    BY <1>1, <1>2
  <2> HIDE DEF y
  <2>2. y * w = w * y /\ w * y \in Nat
    BY <2>1
  <2> QED BY <2>2 DEF y
<1>6. Place(r, k, w) = w * (r.y0 + q) + (r.x0 + c) /\ Place(r, k, w) \in Nat
  <2> DEFINE a == w * (r.y0 + q)
  <2>1. a \in Nat /\ Place(r, k, w) = (a + r.x0) + c
    BY <1>3, <1>5
  <2> HIDE DEF a
  <2>2. Place(r, k, w) = a + (r.x0 + c) /\ Place(r, k, w) \in Nat
    BY <1>1, <1>2, <2>1
  <2> QED BY <2>2 DEF a
<1> QED BY <1>2, <1>4, <1>6 DEF q, c

LEMMA PlaceFirst ==
  ASSUME NEW h \in Nat \ {0}, NEW w \in Nat \ {0}, NEW r \in RectsOn(h, w)
  PROVE  Place(r, 0, w) = w * r.y0 + r.x0
<1> DEFINE v == Wide(r)
<1>1. v \in Nat \ {0} /\ r.y0 \in Nat /\ r.x0 \in Nat
  BY RectIs
<1> HIDE DEF v
<1>2. PICK zero \in Nat : zero = 0
  OBVIOUS
<1>3. zero \div v = 0 /\ zero % v = 0
  <2>1. (v * zero + zero) \div v = zero /\ (v * zero + zero) % v = zero
    BY <1>1, <1>2, DividesOnce
  <2>2. v * zero + zero = 0
    BY <1>1, <1>2
  <2> QED BY <1>2, <2>1, <2>2
<1>4. Place(r, zero, w) = w * (r.y0 + 0) + (r.x0 + 0)
  BY <1>3, PlaceIs DEF v
<1> QED BY <1>1, <1>2, <1>4

LEMMA PlaceNext ==
  ASSUME NEW h \in Nat \ {0}, NEW w \in Nat \ {0}, NEW r \in RectsOn(h, w), NEW k \in Nat
  PROVE  After(Place(r, k, w), r, w) = Place(r, k + 1, w)
<1> DEFINE v == Wide(r)  q == k \div v  c == k % v  y == r.y0 + q  x == r.x0 + c
           p == Place(r, k, w)  j == p + 1
<1>1. /\ q \in Nat /\ c \in 0..(v - 1) /\ k = v * q + c /\ x \in 0..r.x1
      /\ p = w * y + x /\ p \in Nat
  BY PlaceIs
<1>2. /\ v \in Nat \ {0} /\ r.y0 \in Nat /\ r.x0 \in Nat /\ r.x1 \in 0..(w - 1)
      /\ v = r.x1 - r.x0 + 1
  BY RectIs DEF Wide
<1>3. y \in Nat /\ w * y \in Nat
  <2>1. y \in Nat
    BY <1>1, <1>2, SMTT(30)
  <2> HIDE DEF y
  <2> QED BY <2>1
<1>4. x = r.x0 + c /\ y = r.y0 + q
  OBVIOUS
<1>5. After(p, r, w) = IF j % w = 0 THEN j + r.x0
                       ELSE IF j % w > r.x1 THEN j + w - r.x1 + r.x0 - 1 ELSE j
  BY DEF After
<1> HIDE DEF v, q, c, x, y, p
<1>6. CASE c + 1 < v
  <2>1. k + 1 = v * q + (c + 1) /\ c + 1 \in 0..(v - 1) /\ v * q \in Int
    BY <1>1, <1>2, <1>6
  <2> DEFINE c1 == c + 1  k1 == k + 1
  <2>2. c1 \in 0..(v - 1) /\ k1 = v * q + c1 /\ k1 \in Nat
    BY <2>1
  <2> HIDE DEF c1, k1
  <2>3. k1 \div v = q /\ k1 % v = c1
    <3>1. q \in Nat /\ v \in Nat \ {0}
      BY <1>1, <1>2
    <3>2. (v * q + c1) \div v = q /\ (v * q + c1) % v = c1
      BY <2>2, <3>1, DividesOnce
    <3> QED BY <2>2, <3>2
  <2>4. Place(r, k1, w) = w * (r.y0 + q) + (r.x0 + c1)
    BY <2>2, <2>3, PlaceIs DEF v
  <2> DEFINE x1 == x + 1
  <2>5. x1 \in 1..r.x1 /\ x1 \in 0..(w - 1) /\ j = w * y + x1 /\ r.x0 + c1 = x1
    BY <1>1, <1>2, <1>3, <1>4, <1>6 DEF c1
  <2> HIDE DEF x1, j
  <2>6. j % w = x1
    BY <1>3, <2>5, DividesOnce
  <2>7. After(p, r, w) = j
    BY <1>2, <1>5, <2>5, <2>6
  <2> QED BY <1>4, <2>4, <2>5, <2>7 DEF p, k1
<1>7. CASE c + 1 = v
  <2> DEFINE q1 == q + 1  k1 == k + 1  zero == 0
  <2>1. v * q1 = v * q + v /\ v * q \in Int
    BY <1>1, <1>2
  <2>2. k1 = v * q1 + zero /\ zero \in 0..(v - 1) /\ q1 \in Nat /\ k1 \in Nat
    BY <1>1, <1>2, <1>7, <2>1
  <2> HIDE DEF q1, k1, zero
  <2>3. k1 \div v = q1 /\ k1 % v = zero
    <3>1. (v * q1 + zero) \div v = q1 /\ (v * q1 + zero) % v = zero
      BY <1>2, <2>2, DividesOnce
    <3> QED BY <2>2, <3>1
  <2>4. Place(r, k1, w) = w * (r.y0 + q1) + (r.x0 + zero)
    BY <2>2, <2>3, PlaceIs DEF v
  <2>5. r.y0 + q1 = y + 1 /\ w * (y + 1) = w * y + w
    BY <1>1, <1>2, <1>3, <1>4 DEF q1
  <2>6. Place(r, k1, w) = w * y + w + r.x0
    <3>1. Place(r, k1, w) = w * y + w + (r.x0 + zero)
      BY <2>4, <2>5
    <3>2. r.x0 + zero = r.x0
      BY <1>2 DEF zero
    <3> QED BY <3>1, <3>2
  <2>7. x = r.x1 /\ j = w * y + (r.x1 + 1)
    BY <1>1, <1>2, <1>3, <1>4, <1>7
  <2> HIDE DEF j
  <2>8. CASE r.x1 + 1 = w
    <3>1. w * (y + 1) + zero = j /\ zero \in 0..(w - 1) /\ y + 1 \in Nat
      BY <1>2, <1>3, <2>5, <2>7, <2>8 DEF zero
    <3> DEFINE y1 == y + 1
    <3>2. w * y1 + zero = j /\ y1 \in Nat
      BY <3>1
    <3> HIDE DEF y1
    <3>3. j % w = zero
      BY <3>1, <3>2, DividesOnce
    <3>4. After(p, r, w) = j + r.x0
      BY <1>5, <3>3 DEF zero
    <3> QED BY <1>2, <1>3, <2>6, <2>7, <2>8, <3>4 DEF p, k1
  <2>9. CASE r.x1 + 1 # w
    <3> DEFINE x1 == r.x1 + 1
    <3>1. x1 \in 0..(w - 1) /\ j = w * y + x1
      BY <1>2, <2>7, <2>9
    <3> HIDE DEF x1
    <3>2. j % w = x1
      BY <1>3, <3>1, DividesOnce
    <3>3. After(p, r, w) = j + w - r.x1 + r.x0 - 1
      BY <1>2, <1>5, <3>2 DEF x1
    <3> QED BY <1>2, <1>3, <2>6, <2>7, <3>3 DEF p, k1
  <2> QED BY <2>8, <2>9
<1>8. c + 1 < v \/ c + 1 = v
  BY <1>1, <1>2
<1> QED BY <1>6, <1>7, <1>8 DEF p

LEMMA PlaceFinal ==
  ASSUME NEW h \in Nat \ {0}, NEW w \in Nat \ {0}, NEW r \in RectsOn(h, w), NEW k \in Nat
  PROVE  /\ k + 1 < Many(r) => Place(r, k, w) < Final(r, w)
         /\ k + 1 = Many(r) => Place(r, k, w) = Final(r, w)
         /\ k >= Many(r) => Place(r, k, w) > Final(r, w)
<1> DEFINE v == Wide(r)  q == k \div v  c == k % v  n == r.y1 - r.y0  y == r.y0 + q
           p == Place(r, k, w)  f == Final(r, w)  m == Many(r)
<1>1. /\ q \in Nat /\ c \in 0..(v - 1) /\ k = v * q + c /\ r.x0 + c \in 0..r.x1
      /\ p = w * y + (r.x0 + c) /\ p \in Nat
  BY PlaceIs
<1>2. /\ v \in Nat \ {0} /\ r.y0 \in Nat /\ r.y1 \in Nat /\ n \in Nat
      /\ r.x0 \in Nat /\ r.x1 \in 0..(w - 1) /\ v = r.x1 - r.x0 + 1 /\ m \in Nat
  BY RectIs DEF Wide
<1>3. f = w * r.y1 + r.x1
  BY DEF Final
<1>4. m = v * (n + 1)
  <2>1. m = (n + 1) * v
    BY DEF Many
  <2> HIDE DEF m, n, v
  <2> QED BY <1>2, <2>1
<1>5. y = r.y0 + q /\ r.y1 = r.y0 + n
  BY <1>2
<1> HIDE DEF v, q, c, n, y, p, f, m
<1>6. v * q \in Nat /\ v * (n + 1) \in Nat /\ w * y \in Int /\ w * r.y1 \in Int /\ y \in Nat
  <2>1. y \in Nat
    BY <1>1, <1>2, <1>5
  <2> QED BY <1>1, <1>2, <2>1
<1>7. CASE q < n
  <2>1. w * y + w <= w * r.y1
    BY <1>1, <1>2, <1>5, <1>7, <1>6, Grows
  <2>2. p < f
    BY <1>1, <1>2, <1>3, <1>6, <2>1
  <2>3. v * q + v <= v * n /\ v * (n + 1) = v * n + v /\ v * n \in Nat
    BY <1>1, <1>2, <1>7, Grows
  <2>4. k + 1 < m
    BY <1>1, <1>2, <1>4, <1>6, <2>3
  <2> QED BY <1>1, <1>2, <2>2, <2>4 DEF p, f, m
<1>8. CASE q = n
  <2>1. y = r.y1 /\ v * (n + 1) = v * q + v
    BY <1>1, <1>2, <1>5, <1>8
  <2>2. p = w * r.y1 + (r.x0 + c)
    BY <1>1, <2>1
  <2>3. m = v * q + v
    BY <1>4, <2>1
  <2>4. m - k = v - c /\ f - p = v - 1 - c
    BY <1>1, <1>2, <1>3, <1>6, <2>2, <2>3
  <2>5. m \in Int /\ f \in Int /\ p \in Int /\ k < m
    BY <1>1, <1>2, <1>3, <1>6, <2>4
  <2>6. f - p = m - k - 1
    BY <1>1, <1>2, <2>4, <2>5
  <2>7. (k + 1 < m => p < f) /\ (k + 1 = m => p = f)
    BY <2>5, <2>6
  <2> QED BY <2>5, <2>7 DEF p, f, m
<1>9. CASE q > n
  <2>1. w * r.y1 + w <= w * y
    BY <1>1, <1>2, <1>5, <1>6, <1>9, Grows
  <2>2. p > f
    BY <1>1, <1>2, <1>3, <1>6, <2>1
  <2>3. v * n + v <= v * q /\ v * (n + 1) = v * n + v /\ v * n \in Nat
    <3>1. v \in Nat /\ n \in Int /\ q \in Int /\ n < q /\ n \in Nat
      BY <1>1, <1>2, <1>9
    <3>2. v * n + v <= v * q
      BY <3>1, Grows
    <3> QED BY <3>1, <3>2
  <2>4. k >= m
    BY <1>1, <1>2, <1>4, <1>6, <2>3
  <2>5. k \in Int /\ m \in Int
    BY <1>2
  <2> QED BY <2>2, <2>4, <2>5 DEF p, f, m
<1>10. q < n \/ q = n \/ q > n
  BY <1>1, <1>2
<1> QED BY <1>7, <1>8, <1>9, <1>10

(* The places are the cells of the rectangle.                              *)
LEMMA PlaceInside ==
  ASSUME NEW h \in Nat \ {0}, NEW w \in Nat \ {0}, NEW r \in RectsOn(h, w), NEW k \in Nat,
         k < Many(r)
  PROVE  Place(r, k, w) \in 0..(h * w - 1) /\ Inside(r, Place(r, k, w), w)
<1> DEFINE v == Wide(r)  q == k \div v  c == k % v  n == r.y1 - r.y0  y == r.y0 + q
           p == Place(r, k, w)  m == Many(r)  x == r.x0 + c
<1>1. /\ q \in Nat /\ c \in 0..(v - 1) /\ k = v * q + c /\ x \in 0..r.x1
      /\ p = w * y + x /\ p \in Nat
  BY PlaceIs
<1>2. /\ v \in Nat \ {0} /\ r.y0 \in Nat /\ r.y1 \in 0..(h - 1) /\ n \in Nat
      /\ r.x0 \in Nat /\ r.x1 \in 0..(w - 1) /\ v = r.x1 - r.x0 + 1 /\ m \in Nat
  BY RectIs DEF Wide
<1>3. m = v * (n + 1) /\ k < m
  <2>1. m = (n + 1) * v /\ k < m
    BY DEF Many
  <2> HIDE DEF m, n, v
  <2> QED BY <1>2, <2>1
<1>4. y = r.y0 + q /\ r.y1 = r.y0 + n /\ x = r.x0 + c
  BY <1>2
<1> HIDE DEF v, q, c, n, y, p, m, x
<1>5. ~(n < q)
  <2> SUFFICES ASSUME n < q PROVE FALSE
    OBVIOUS
  <2>1. v * n + v <= v * q /\ v * (n + 1) = v * n + v /\ v * n \in Nat /\ v * q \in Nat
    BY <1>1, <1>2, Grows
  <2> QED BY <1>1, <1>2, <1>3, <2>1
<1>6. y \in r.y0..r.y1 /\ y \in 0..(h - 1) /\ x \in r.x0..r.x1 /\ x \in 0..(w - 1)
  BY <1>1, <1>2, <1>4, <1>5
<1>7. /\ w * y = y * w /\ y * w + x \in 0..(h * w - 1)
      /\ (y * w + x) \div w = y /\ (y * w + x) % w = x
  BY <1>6, CellAt
<1>8. p = y * w + x
  BY <1>1, <1>7
<1> QED BY <1>6, <1>7, <1>8 DEF Inside, p

LEMMA PlaceAll ==
  ASSUME NEW h \in Nat \ {0}, NEW w \in Nat \ {0}, NEW r \in RectsOn(h, w),
         NEW p \in 0..(h * w - 1), Inside(r, p, w)
  PROVE  \E k \in Nat : k < Many(r) /\ p = Place(r, k, w)
<1> DEFINE v == Wide(r)  n == r.y1 - r.y0  y == p \div w  x == p % w
           q == y - r.y0  c == x - r.x0  k == v * q + c  m == Many(r)
<1>1. /\ y \in 0..(h - 1) /\ x \in 0..(w - 1) /\ p = w * y + x
      /\ y \in r.y0..r.y1 /\ x \in r.x0..r.x1
  BY RowAndColumn DEF Inside
<1>2. /\ v \in Nat \ {0} /\ r.y0 \in Nat /\ r.y1 \in Nat /\ n \in Nat
      /\ r.x0 \in Nat /\ r.x1 \in 0..(w - 1) /\ v = r.x1 - r.x0 + 1 /\ m \in Nat
  BY RectIs DEF Wide
<1>3. m = v * (n + 1)
  <2>1. m = (n + 1) * v
    BY DEF Many
  <2> HIDE DEF m, n, v
  <2> QED BY <1>2, <2>1
<1>4. n = r.y1 - r.y0 /\ q = y - r.y0 /\ c = x - r.x0
  OBVIOUS
<1> HIDE DEF v, n, y, x, q, c, m
<1>5. q \in 0..n /\ c \in 0..(v - 1) /\ r.y0 + q = y /\ r.x0 + c = x
  BY <1>1, <1>2, <1>4
<1>6. v * q \in Nat /\ v * q <= v * n /\ v * (n + 1) = v * n + v /\ v * n \in Nat
  <2>1. CASE q = n
    BY <1>2, <1>5, <2>1
  <2>2. CASE q < n
    <3>1. v \in Nat /\ n \in Int /\ q \in Int /\ q < n
      BY <1>2, <1>5, <2>2
    <3>2. v * q + v <= v * n
      BY <3>1, Grows
    <3>3. v * q \in Nat /\ v * n \in Nat /\ v * (n + 1) = v * n + v
      BY <1>2, <1>5
    <3> QED BY <1>2, <3>2, <3>3
  <2>3. q = n \/ q < n
    BY <1>2, <1>5
  <2> QED BY <2>1, <2>2, <2>3
<1>7. k \in Nat /\ k < m
  BY <1>2, <1>3, <1>5, <1>6
<1>8. k \div v = q /\ k % v = c
  <2>1. q \in Nat /\ c \in 0..(v - 1) /\ v \in Nat \ {0}
    BY <1>2, <1>5
  <2> QED BY <2>1, DividesOnce
<1> HIDE DEF k
<1>9. Place(r, k, w) = w * (r.y0 + q) + (r.x0 + c)
  BY <1>7, <1>8, PlaceIs DEF v
<1>10. Place(r, k, w) = p
  BY <1>1, <1>5, <1>9
<1> QED BY <1>7, <1>10 DEF m

-----------------------------------------------------------------------------
(* What a browser has painted.                                             *)

(* The tokens T keep a painter of the screen old among S.                  *)
Fresh(old) == [cells |-> old, n |-> 0, pen |-> NoCell]
Closes(S, T, old, r, w) ==
  Fresh(old) \in S /\ \A x \in S, t \in T : PaintToken(x, t, r, w) \in S

LEMMA PaintedMore ==
  ASSUME NEW r, NEW w, NEW T, NEW S, NEW old, Closes(S, T, old, r, w),
         NEW tokens \in Seq(T), NEW t \in T
  PROVE  /\ Painted(old, tokens, r, w) \in S
         /\ Painted(old, Append(tokens, t), r, w) =
              PaintToken(Painted(old, tokens, r, w), t, r, w)
<1> DEFINE a == [cells |-> old, n |-> 0, pen |-> NoCell]
<1>0. /\ a = [cells |-> old, n |-> 0, pen |-> NoCell] /\ a \in S
      /\ \A x \in S, v \in T : PaintToken(x, v, r, w) \in S
  BY DEF Closes, Fresh
<1> HIDE DEF a
<1> DEFINE more == Append(tokens, t)  L == Len(tokens)
<1>1. /\ L \in Nat /\ more \in Seq(T) /\ Len(more) = L + 1 /\ more[L + 1] = t
      /\ \A n \in 1..L : more[n] = tokens[n]
  OBVIOUS
<1> HIDE DEF more
<1>2. PICK p : PaintsBy(p, tokens, S, a, r, w) /\ Painted(old, tokens, r, w) = p[L]
  BY <1>0, PaintedIs
<1>3. PICK m : PaintsBy(m, more, S, a, r, w) /\ Painted(old, more, r, w) = m[L + 1]
  <2>1. \E m : PaintsBy(m, more, S, a, r, w) /\ Painted(old, more, r, w) = m[Len(more)]
    BY <1>0, <1>1, PaintedIs
  <2> QED BY <1>1, <2>1
<1>p. /\ p \in [0..L -> S] /\ p[0] = a
      /\ \A n \in 1..L : p[n] = PaintToken(p[n - 1], tokens[n], r, w)
  BY <1>2 DEF PaintsBy
<1>m. /\ m \in [0..(L + 1) -> S] /\ m[0] = a
      /\ \A n \in 1..(L + 1) : m[n] = PaintToken(m[n - 1], more[n], r, w)
  BY <1>1, <1>3 DEF PaintsBy
<1> HIDE DEF L
<1>4. \A n \in Nat : n <= L => m[n] = p[n]
  <2> DEFINE U == {n \in Nat : n <= L => m[n] = p[n]}
  <2>1. 0 \in U
    BY <1>p, <1>m
  <2>2. ASSUME NEW n \in U PROVE n + 1 \in U
    <3> SUFFICES ASSUME n + 1 <= L PROVE m[n + 1] = p[n + 1]
      OBVIOUS
    <3> DEFINE k == n + 1
    <3>1. k \in 1..L /\ k \in 1..(L + 1) /\ k - 1 = n /\ m[n] = p[n]
      BY <1>1
    <3> HIDE DEF k
    <3>2. m[k] = PaintToken(m[k - 1], more[k], r, w) /\ p[k] = PaintToken(p[k - 1], tokens[k], r, w)
      BY <1>p, <1>m, <3>1
    <3>3. m[k] = p[k]
      BY <1>1, <3>1, <3>2
    <3> QED BY <3>3 DEF k
  <2>3. U = Nat
    <3> HIDE DEF U
    <3>1. U \subseteq Nat
      BY DEF U
    <3> QED BY <2>1, <2>2, <3>1, SetInduction
  <2> QED BY <2>3
<1>5. m[L] = p[L] /\ p[L] \in S
  BY <1>1, <1>4, <1>p
<1>6. m[L + 1] = PaintToken(m[L], t, r, w)
  <2> DEFINE k == L + 1
  <2>1. k \in 1..(L + 1) /\ k - 1 = L /\ more[k] = t
    BY <1>1
  <2> HIDE DEF k
  <2>2. m[k] = PaintToken(m[k - 1], more[k], r, w)
    BY <1>m, <2>1
  <2> QED BY <2>1, <2>2 DEF k
<1> QED BY <1>2, <1>3, <1>5, <1>6 DEF more

Byte == 0..255
Attrs == SUBSET DOMAIN AttrBit

Tokens ==
  {<<"colors", f, b>> : f \in Byte, b \in Byte} \cup {<<"fg", f>> : f \in Byte}
  \cup {<<"bg", b>> : b \in Byte} \cup {<<"attrs", A>> : A \in Attrs}
  \cup {<<"sym", g>> : g \in Glyphs} \cup {<<"repeat", k>> : k \in Nat}

(* The pens and screens of a browser; X holds all that a cell may show.    *)
PenSet == [sym : Glyphs \cup {NoCell.sym}, fg : Byte, bg : Byte, attrs : Attrs]
Painters(X, D) == [cells : [D -> X], n : Nat, pen : PenSet]

LEMMA WriteIs ==
  ASSUME NEW X, NEW D, NEW p \in Painters(X, D), NEW k \in Nat, NEW r, NEW w,
         Shown(p.pen) \in X, NEW u, u = Write(p, k, r, w)
  PROVE  /\ u \in Painters(X, D) /\ u.n = p.n + k /\ u.pen = p.pen
         /\ \A q \in D : u.cells[q] = IF \E j \in 0..(k - 1) : q = Place(r, p.n + j, w)
                                      THEN Shown(p.pen) ELSE p.cells[q]
<1> DEFINE to == {Place(r, p.n + j, w) : j \in 0..(k - 1)}
           c == [q \in DOMAIN p.cells |-> IF q \in to THEN Shown(p.pen) ELSE p.cells[q]]
           n == p.n + k
<1>1. p.cells \in [D -> X] /\ p.n \in Nat /\ p.pen \in PenSet
      /\ p = [cells |-> p.cells, n |-> p.n, pen |-> p.pen]
  BY DEF Painters
<1>2. c \in [D -> X] /\ n \in Nat
  BY <1>1
<1>3. \A q \in D : c[q] = IF q \in to THEN Shown(p.pen) ELSE p.cells[q]
  BY <1>1
<1>4. \A q : q \in to <=> \E j \in 0..(k - 1) : q = Place(r, p.n + j, w)
  OBVIOUS
<1>5. u = [p EXCEPT !.n = n, !.cells = c]
  BY DEF Write
<1> HIDE DEF to, c, n
<1>6. u = [cells |-> c, n |-> n, pen |-> p.pen]
  BY <1>1, <1>5
<1>7. u.cells = c /\ u.n = n /\ u.pen = p.pen /\ u \in Painters(X, D)
  BY <1>1, <1>2, <1>6 DEF Painters
<1> QED BY <1>3, <1>4, <1>7 DEF n

LEMMA PenIs ==
  ASSUME NEW X, NEW D, NEW p \in Painters(X, D)
  PROVE  /\ p.pen \in PenSet /\ p.n \in Nat /\ p.cells \in [D -> X]
         /\ p.pen.sym \in Glyphs \cup {NoCell.sym} /\ p.pen.fg \in Byte /\ p.pen.bg \in Byte
         /\ p.pen.attrs \in Attrs
BY DEF Painters, PenSet

(* X holds what the cells D of the screen old show, and all that a pen can.*)
Ready(old, X, D) ==
  /\ [cells |-> old, n |-> 0, pen |-> NoCell] \in Painters(X, D)
  /\ \A c \in PenSet : Shown(c) \in X

(* q is p with the pen made of these.                                      *)
Pen(sym, fg, bg, attrs) == [sym |-> sym, fg |-> fg, bg |-> bg, attrs |-> attrs]
PenTo(p, q, pen, X, D) ==
  q \in Painters(X, D) /\ q.pen = pen /\ q.n = p.n /\ q.cells = p.cells
WithSym(p, g) == [p EXCEPT !.pen.sym = g]

LEMMA Repen ==
  ASSUME NEW X, NEW D, NEW p \in Painters(X, D),
         NEW g \in Glyphs \cup {NoCell.sym}, NEW f \in Byte, NEW b \in Byte, NEW A \in Attrs,
         NEW q, q = [p EXCEPT !.pen = Pen(g, f, b, A)]
  PROVE  PenTo(p, q, Pen(g, f, b, A), X, D)
<1> DEFINE pen == Pen(g, f, b, A)
<1>1. pen \in PenSet
  BY DEF Pen, PenSet
<1> HIDE DEF pen
<1>2. q = [p EXCEPT !.pen = pen]
  BY DEF pen
<1>3. p.cells \in [D -> X] /\ p.n \in Nat
      /\ p = [cells |-> p.cells, n |-> p.n, pen |-> p.pen]
  BY DEF Painters
<1>4. q = [cells |-> p.cells, n |-> p.n, pen |-> pen]
  BY <1>2, <1>3
<1>5. q \in Painters(X, D) /\ q.pen = pen /\ q.n = p.n /\ q.cells = p.cells
  BY <1>1, <1>3, <1>4 DEF Painters
<1> QED BY <1>5 DEF PenTo, pen

LEMMA PenTokens ==
  ASSUME NEW X, NEW D, NEW r, NEW w, NEW p \in Painters(X, D)
  PROVE  /\ \A f \in Byte, b \in Byte :
              PenTo(p, PaintToken(p, <<"colors", f, b>>, r, w), Pen(p.pen.sym, f, b, p.pen.attrs), X, D)
         /\ \A f \in Byte :
              PenTo(p, PaintToken(p, <<"fg", f>>, r, w), Pen(p.pen.sym, f, p.pen.bg, p.pen.attrs), X, D)
         /\ \A b \in Byte :
              PenTo(p, PaintToken(p, <<"bg", b>>, r, w), Pen(p.pen.sym, p.pen.fg, b, p.pen.attrs), X, D)
         /\ \A A \in Attrs :
              PenTo(p, PaintToken(p, <<"attrs", A>>, r, w), Pen(p.pen.sym, p.pen.fg, p.pen.bg, A), X, D)
         /\ \A g \in Glyphs :
              /\ PenTo(p, WithSym(p, g), Pen(g, p.pen.fg, p.pen.bg, p.pen.attrs), X, D)
              /\ PaintToken(p, <<"sym", g>>, r, w) = Write(WithSym(p, g), 1, r, w)
         /\ \A k \in Nat : PaintToken(p, <<"repeat", k>>, r, w) = Write(p, k, r, w)
<1>1. /\ p = [cells |-> p.cells, n |-> p.n, pen |-> p.pen]
      /\ p.pen = [sym |-> p.pen.sym, fg |-> p.pen.fg, bg |-> p.pen.bg, attrs |-> p.pen.attrs]
      /\ p.pen.sym \in Glyphs \cup {NoCell.sym} /\ p.pen.fg \in Byte /\ p.pen.bg \in Byte
      /\ p.pen.attrs \in Attrs
  BY DEF Painters, PenSet
<1>2. ASSUME NEW f \in Byte, NEW b \in Byte
      PROVE  PenTo(p, PaintToken(p, <<"colors", f, b>>, r, w), Pen(p.pen.sym, f, b, p.pen.attrs), X, D)
  <2>1. PaintToken(p, <<"colors", f, b>>, r, w) = [p EXCEPT !.pen.fg = f, !.pen.bg = b]
    BY DEF PaintToken
  <2>2. PaintToken(p, <<"colors", f, b>>, r, w) = [p EXCEPT !.pen = Pen(p.pen.sym, f, b, p.pen.attrs)]
    BY <1>1, <2>1 DEF Pen
  <2> QED BY <1>1, <2>2, Repen
<1>3. ASSUME NEW f \in Byte
      PROVE  PenTo(p, PaintToken(p, <<"fg", f>>, r, w), Pen(p.pen.sym, f, p.pen.bg, p.pen.attrs), X, D)
  <2>1. PaintToken(p, <<"fg", f>>, r, w) = [p EXCEPT !.pen.fg = f]
    BY DEF PaintToken
  <2>2. PaintToken(p, <<"fg", f>>, r, w) = [p EXCEPT !.pen = Pen(p.pen.sym, f, p.pen.bg, p.pen.attrs)]
    BY <1>1, <2>1 DEF Pen
  <2> QED BY <1>1, <2>2, Repen
<1>4. ASSUME NEW b \in Byte
      PROVE  PenTo(p, PaintToken(p, <<"bg", b>>, r, w), Pen(p.pen.sym, p.pen.fg, b, p.pen.attrs), X, D)
  <2>1. PaintToken(p, <<"bg", b>>, r, w) = [p EXCEPT !.pen.bg = b]
    BY DEF PaintToken
  <2>2. PaintToken(p, <<"bg", b>>, r, w) = [p EXCEPT !.pen = Pen(p.pen.sym, p.pen.fg, b, p.pen.attrs)]
    BY <1>1, <2>1 DEF Pen
  <2> QED BY <1>1, <2>2, Repen
<1>5. ASSUME NEW A \in Attrs
      PROVE  PenTo(p, PaintToken(p, <<"attrs", A>>, r, w), Pen(p.pen.sym, p.pen.fg, p.pen.bg, A), X, D)
  <2>1. PaintToken(p, <<"attrs", A>>, r, w) = [p EXCEPT !.pen.attrs = A]
    BY DEF PaintToken
  <2>2. PaintToken(p, <<"attrs", A>>, r, w) = [p EXCEPT !.pen = Pen(p.pen.sym, p.pen.fg, p.pen.bg, A)]
    BY <1>1, <2>1 DEF Pen
  <2> QED BY <1>1, <2>2, Repen
<1>6. ASSUME NEW g \in Glyphs
      PROVE  /\ PenTo(p, WithSym(p, g), Pen(g, p.pen.fg, p.pen.bg, p.pen.attrs), X, D)
             /\ PaintToken(p, <<"sym", g>>, r, w) = Write(WithSym(p, g), 1, r, w)
  <2>1. PaintToken(p, <<"sym", g>>, r, w) = Write(WithSym(p, g), 1, r, w)
    BY DEF PaintToken, WithSym
  <2>2. WithSym(p, g) = [p EXCEPT !.pen = Pen(g, p.pen.fg, p.pen.bg, p.pen.attrs)]
    BY <1>1 DEF Pen, WithSym
  <2> QED BY <1>1, <2>1, <2>2, Repen
<1>7. ASSUME NEW k \in Nat PROVE PaintToken(p, <<"repeat", k>>, r, w) = Write(p, k, r, w)
  BY DEF PaintToken
<1> QED BY <1>2, <1>3, <1>4, <1>5, <1>6, <1>7

LEMMA PaintKeeps ==
  ASSUME NEW X, NEW D, NEW old, Ready(old, X, D), NEW r, NEW w,
         NEW p \in Painters(X, D), NEW t \in Tokens
  PROVE  PaintToken(p, t, r, w) \in Painters(X, D)
<1>1. CASE \E f \in Byte, b \in Byte : t = <<"colors", f, b>>
  BY <1>1, PenTokens DEF PenTo
<1>2. CASE \E f \in Byte : t = <<"fg", f>>
  BY <1>2, PenTokens DEF PenTo
<1>3. CASE \E b \in Byte : t = <<"bg", b>>
  BY <1>3, PenTokens DEF PenTo
<1>4. CASE \E A \in Attrs : t = <<"attrs", A>>
  BY <1>4, PenTokens DEF PenTo
<1>5. CASE \E g \in Glyphs : t = <<"sym", g>>
  <2> PICK g \in Glyphs : t = <<"sym", g>>
    BY <1>5
  <2> DEFINE q == WithSym(p, g)
  <2>1. q \in Painters(X, D)
    BY PenTokens DEF PenTo
  <2>2. PaintToken(p, t, r, w) = Write(q, 1, r, w)
    BY PenTokens
  <2> HIDE DEF q
  <2>3. Shown(q.pen) \in X
    BY <2>1, PenIs DEF Ready
  <2>4. PICK one \in Nat : one = 1
    OBVIOUS
  <2>5. Write(q, one, r, w) \in Painters(X, D)
    BY <2>1, <2>3, WriteIs
  <2> QED BY <2>2, <2>4, <2>5
<1>6. CASE \E k \in Nat : t = <<"repeat", k>>
  <2> PICK k \in Nat : t = <<"repeat", k>>
    BY <1>6
  <2>1. PaintToken(p, <<"repeat", k>>, r, w) = Write(p, k, r, w)
    BY PenTokens
  <2>2. Shown(p.pen) \in X
    BY PenIs DEF Ready
  <2> QED BY <2>1, <2>2, WriteIs
<1> QED BY <1>1, <1>2, <1>3, <1>4, <1>5, <1>6 DEF Tokens

LEMMA SizeIs ==
  ASSUME NEW x, NEW y
  PROVE  /\ Size(<<"colors", x, y>>) \in 1..5 /\ Size(<<"fg", x>>) \in 1..5
         /\ Size(<<"bg", x>>) \in 1..5 /\ Size(<<"attrs", x>>) \in 1..5
         /\ Size(<<"repeat", x>>) \in 1..5 /\ Size(<<"sym", x>>) = GlyphLen(x)
         /\ GlyphLen(x) \in 1..3
<1>1. \A n : NumLen(n) \in 1..4
  BY DEF NumLen
<1>2. Size(<<"colors", x, y>>) = 1 + NumLen(y * 256 + x)
  BY DEF Size
<1>3. Size(<<"fg", x>>) = 1 + NumLen(x)
  BY DEF Size
<1>4. Size(<<"bg", x>>) = 1 + NumLen(x)
  BY DEF Size
<1>5. Size(<<"repeat", x>>) = 1 + NumLen(x)
  BY DEF Size
<1>6. Size(<<"attrs", x>>) = IF x = {} THEN 1 ELSE 1 + NumLen(Bits(x))
  BY DEF Size
<1>7. Size(<<"sym", x>>) = GlyphLen(x)
  BY DEF Size
<1>8. GlyphLen(x) \in 1..3
  BY DEF GlyphLen
<1>9. NumLen(y * 256 + x) \in 1..4 /\ NumLen(x) \in 1..4 /\ NumLen(Bits(x)) \in 1..4
  BY <1>1
<1> QED BY <1>2, <1>3, <1>4, <1>5, <1>6, <1>7, <1>8, <1>9

Senders ==
  [i : Nat, room : Int, out : Seq(Tokens), last : Cells \cup {NoCell},
   live : [fg : Byte, bg : Byte]]

(* What a browser has seen of what was sent.                               *)
Seen(s, old, r, w) == Painted(old, s.out, r, w)

LEMMA PutTokenIs ==
  ASSUME NEW s \in Senders, NEW t \in Tokens, Size(t) \in Int, NEW u, u = PutToken(s, t)
  PROVE  /\ u \in Senders /\ u.i = s.i /\ u.last = s.last /\ u.live = s.live
         /\ u.room = s.room - Size(t) /\ u.out = Append(s.out, t)
<1> DEFINE o == Append(s.out, t)  m == s.room - Size(t)
<1>1. o \in Seq(Tokens) /\ m \in Int /\ s.out \in Seq(Tokens)
  BY DEF Senders
<1>2. u = [s EXCEPT !.out = o, !.room = m]
  BY DEF PutToken
<1> HIDE DEF o, m
<1>3. /\ u \in Senders /\ u.i = s.i /\ u.last = s.last /\ u.live = s.live
      /\ u.room = m /\ u.out = o
  BY <1>1, <1>2 DEF Senders
<1> QED BY <1>1, <1>3 DEF o, m

LEMMA SeenIs ==
  ASSUME NEW X, NEW D, NEW old, Ready(old, X, D), NEW r, NEW w,
         NEW s \in Senders, NEW t \in Tokens, Size(t) \in Int
  PROVE  /\ Seen(s, old, r, w) \in Painters(X, D)
         /\ Seen(PutToken(s, t), old, r, w) = PaintToken(Seen(s, old, r, w), t, r, w)
<1>1. s.out \in Seq(Tokens) /\ PutToken(s, t).out = Append(s.out, t)
  BY PutTokenIs DEF Senders
<1>2. Closes(Painters(X, D), Tokens, old, r, w)
  BY PaintKeeps DEF Ready, Closes, Fresh
<1>3. /\ Painted(old, s.out, r, w) \in Painters(X, D)
      /\ Painted(old, Append(s.out, t), r, w) = PaintToken(Painted(old, s.out, r, w), t, r, w)
  <2> DEFINE S == Painters(X, D)  T == Tokens  o == s.out
  <2>1. Closes(S, T, old, r, w) /\ o \in Seq(T) /\ t \in T
    BY <1>1, <1>2
  <2>2. /\ Painted(old, o, r, w) \in S
        /\ Painted(old, Append(o, t), r, w) = PaintToken(Painted(old, o, r, w), t, r, w)
    <3> HIDE DEF S, T, o
    <3> QED BY ONLY <2>1, PaintedMore
  <2> QED BY <2>2
<1> QED BY <1>1, <1>3 DEF Seen

-----------------------------------------------------------------------------
(* What the parts of a cell do to the browser's pen.                       *)

LEMMA SeenNone ==
  ASSUME NEW old, NEW r, NEW w, NEW none, none = <<>>
  PROVE  Painted(old, none, r, w) = Fresh(old)
<1> DEFINE S == {Fresh(old)}  T == {}  a == Fresh(old)
<1>1. /\ a = [cells |-> old, n |-> 0, pen |-> NoCell] /\ a \in S
      /\ \A x \in S, v \in T : PaintToken(x, v, r, w) \in S
      /\ none \in Seq(T)
  BY DEF Fresh
<1>2. Len(none) = 0
  OBVIOUS
<1> HIDE DEF S, T, a
<1>3. \E p : PaintsBy(p, none, S, a, r, w) /\ Painted(old, none, r, w) = p[Len(none)]
  BY ONLY <1>1, PaintedIs
<1>4. PICK p : PaintsBy(p, none, S, a, r, w) /\ Painted(old, none, r, w) = p[Len(none)]
  BY <1>3
<1>5. p[0] = a
  BY <1>4 DEF PaintsBy
<1> QED BY <1>2, <1>4, <1>5 DEF a

(* u is s with more tokens out, for at most len bytes.                     *)
Longer(s, u, len) ==
  /\ u \in Senders /\ u.i = s.i /\ u.last = s.last /\ u.live = s.live
  /\ u.room \in Int /\ u.room <= s.room /\ u.room >= s.room - len

LEMMA LongerIs ==
  ASSUME NEW s \in Senders, NEW t \in Tokens, NEW n \in Nat, Size(t) \in 0..n
  PROVE  Longer(s, PutToken(s, t), n)
<1> DEFINE v == PutToken(s, t)
<1>1. v = PutToken(s, t) /\ Size(t) \in Int /\ s.room \in Int
  BY DEF Senders
<1> HIDE DEF v
<1>2. /\ v \in Senders /\ v.i = s.i /\ v.last = s.last /\ v.live = s.live
      /\ v.room = s.room - Size(t)
  BY <1>1, PutTokenIs
<1> QED BY <1>1, <1>2 DEF Longer, v

LEMMA PutColorsIs ==
  ASSUME NEW X, NEW D, NEW old, Ready(old, X, D), NEW r, NEW w,
         NEW s \in Senders, NEW c \in Cells, NEW p \in Painters(X, D), p = Seen(s, old, r, w),
         p.pen.fg = s.live.fg, p.pen.bg = s.live.bg,
         s.last = NoCell => s.live.fg = 0 /\ s.live.bg = 0,
         NEW u, u = PutColors(s, c), NEW q, q = Seen(u, old, r, w)
  PROVE  /\ Longer(s, u, 5)
         /\ PenTo(p, q, Pen(p.pen.sym, Live(s.live, c).fg, Live(s.live, c).bg, p.pen.attrs), X, D)
<1> DEFINE L == Live(s.live, c)
           fg == c.fg # s.live.fg /\ "fg" \in c.attrs
           bg == c.bg # s.live.bg /\ "bg" \in c.attrs
<1>1. /\ L.fg = (IF "fg" \in c.attrs THEN c.fg ELSE s.live.fg)
      /\ L.bg = (IF "bg" \in c.attrs THEN c.bg ELSE s.live.bg)
      /\ c.fg \in Byte /\ c.bg \in Byte /\ s.live.fg \in Byte /\ s.live.bg \in Byte
      /\ s.room \in Int /\ s.i \in Nat
  BY DEF Live, Cells, Byte, Senders
<1>2. ("fg" \in c.attrs \/ c.fg = 0) /\ ("bg" \in c.attrs \/ c.bg = 0)
  BY DEF Cells
<1>3. \A t \in Tokens : Size(t) \in 0..5 =>
        /\ Longer(s, PutToken(s, t), 5)
        /\ Seen(PutToken(s, t), old, r, w) = PaintToken(p, t, r, w)
  BY LongerIs, SeenIs
<1> HIDE DEF L, fg, bg
<1>4. CASE s.last = NoCell \/ (fg /\ bg)
  <2> DEFINE t == <<"colors", c.fg, c.bg>>
  <2>1. u = PutToken(s, t)
    BY <1>4 DEF PutColors, fg, bg
  <2>2. L.fg = c.fg /\ L.bg = c.bg
    BY <1>1, <1>2, <1>4 DEF fg, bg
  <2>3. t \in Tokens /\ Size(t) \in 0..5
    <3>1. Size(t) \in 1..5
      BY SizeIs
    <3> QED BY <1>1, <3>1 DEF Tokens
  <2>4. PenTo(p, PaintToken(p, t, r, w), Pen(p.pen.sym, c.fg, c.bg, p.pen.attrs), X, D)
    BY <1>1, PenTokens
  <2> HIDE DEF t
  <2> QED BY <1>3, <2>1, <2>2, <2>3, <2>4 DEF L
<1>5. CASE ~(s.last = NoCell \/ (fg /\ bg)) /\ fg
  <2> DEFINE t == <<"fg", c.fg>>
  <2>1. u = PutToken(s, t)
    BY <1>5 DEF PutColors, fg, bg
  <2>2. L.fg = c.fg /\ L.bg = p.pen.bg
    BY <1>1, <1>2, <1>5 DEF fg, bg
  <2>3. t \in Tokens /\ Size(t) \in 0..5
    <3>1. Size(t) \in 1..5
      BY SizeIs
    <3> QED BY <1>1, <3>1 DEF Tokens
  <2>4. PenTo(p, PaintToken(p, t, r, w), Pen(p.pen.sym, c.fg, p.pen.bg, p.pen.attrs), X, D)
    BY <1>1, PenTokens
  <2> HIDE DEF t
  <2> QED BY <1>3, <2>1, <2>2, <2>3, <2>4 DEF L
<1>6. CASE ~(s.last = NoCell \/ (fg /\ bg)) /\ ~fg /\ bg
  <2> DEFINE t == <<"bg", c.bg>>
  <2>1. u = PutToken(s, t)
    BY <1>6 DEF PutColors, fg, bg
  <2>2. L.fg = p.pen.fg /\ L.bg = c.bg
    BY <1>1, <1>2, <1>6 DEF fg, bg
  <2>3. t \in Tokens /\ Size(t) \in 0..5
    <3>1. Size(t) \in 1..5
      BY SizeIs
    <3> QED BY <1>1, <3>1 DEF Tokens
  <2>4. PenTo(p, PaintToken(p, t, r, w), Pen(p.pen.sym, p.pen.fg, c.bg, p.pen.attrs), X, D)
    BY <1>1, PenTokens
  <2> HIDE DEF t
  <2> QED BY <1>3, <2>1, <2>2, <2>3, <2>4 DEF L
<1>7. CASE ~(s.last = NoCell \/ (fg /\ bg)) /\ ~fg /\ ~bg
  <2>1. u = s /\ q = p
    BY <1>7 DEF PutColors, fg, bg
  <2>2. L.fg = p.pen.fg /\ L.bg = p.pen.bg
    BY <1>1, <1>2, <1>7 DEF fg, bg
  <2>3. p.pen = Pen(p.pen.sym, p.pen.fg, p.pen.bg, p.pen.attrs)
    BY PenIs DEF PenSet, Pen
  <2>4. Longer(s, s, 5)
    BY <1>1 DEF Longer
  <2> QED BY <2>1, <2>2, <2>3, <2>4 DEF L, PenTo
<1> QED BY <1>4, <1>5, <1>6, <1>7

LEMMA PutAttrsIs ==
  ASSUME NEW X, NEW D, NEW old, Ready(old, X, D), NEW r, NEW w,
         NEW s \in Senders, NEW c \in Cells, NEW p \in Painters(X, D), p = Seen(s, old, r, w),
         s.last # NoCell => p.pen.attrs = s.last.attrs,
         NEW u, u = PutAttrs(s, c), NEW q, q = Seen(u, old, r, w)
  PROVE  /\ Longer(s, u, 5)
         /\ PenTo(p, q, Pen(p.pen.sym, p.pen.fg, p.pen.bg, c.attrs), X, D)
<1>1. c.attrs \in Attrs /\ s.room \in Int /\ s.i \in Nat
  BY DEF Cells, Attrs, Senders
<1>2. CASE s.last = NoCell \/ c.attrs # s.last.attrs
  <2> DEFINE t == <<"attrs", c.attrs>>
  <2>1. u = PutToken(s, t)
    BY <1>2 DEF PutAttrs
  <2>2. t \in Tokens /\ Size(t) \in 0..5
    <3>1. Size(t) \in 1..5
      BY SizeIs
    <3> QED BY <1>1, <3>1 DEF Tokens
  <2>3. PenTo(p, PaintToken(p, t, r, w), Pen(p.pen.sym, p.pen.fg, p.pen.bg, c.attrs), X, D)
    BY <1>1, PenTokens
  <2> HIDE DEF t
  <2>4. Longer(s, PutToken(s, t), 5) /\ Seen(PutToken(s, t), old, r, w) = PaintToken(p, t, r, w)
    BY <2>2, LongerIs, SeenIs
  <2> QED BY <2>1, <2>3, <2>4
<1>3. CASE ~(s.last = NoCell \/ c.attrs # s.last.attrs)
  <2>1. u = s /\ q = p
    BY <1>3 DEF PutAttrs
  <2>2. p.pen = Pen(p.pen.sym, p.pen.fg, p.pen.bg, c.attrs)
    BY <1>3, PenIs DEF PenSet, Pen
  <2>3. Longer(s, s, 5)
    BY <1>1 DEF Longer
  <2> QED BY <2>1, <2>2, <2>3 DEF PenTo
<1> QED BY <1>2, <1>3

(* q is p after k cells that show v.                                       *)
Fills(p, q, k, v, X, D, r, w) ==
  /\ q \in Painters(X, D) /\ q.n = p.n + k
  /\ \A x \in D : q.cells[x] = IF \E j \in 0..(k - 1) : x = Place(r, p.n + j, w)
                               THEN v ELSE p.cells[x]

LEMMA WriteFills ==
  ASSUME NEW X, NEW D, NEW p \in Painters(X, D), NEW k \in Nat, NEW r, NEW w, Shown(p.pen) \in X
  PROVE  Fills(p, Write(p, k, r, w), k, Shown(p.pen), X, D, r, w) /\ Write(p, k, r, w).pen = p.pen
<1> DEFINE u == Write(p, k, r, w)
<1>1. u = Write(p, k, r, w)
  OBVIOUS
<1> HIDE DEF u
<1>2. /\ u \in Painters(X, D) /\ u.n = p.n + k /\ u.pen = p.pen
      /\ \A x \in D : u.cells[x] = IF \E j \in 0..(k - 1) : x = Place(r, p.n + j, w)
                                   THEN Shown(p.pen) ELSE p.cells[x]
  BY <1>1, WriteIs
<1> QED BY <1>1, <1>2 DEF Fills

LEMMA PutSymIs ==
  ASSUME NEW X, NEW D, NEW old, Ready(old, X, D), NEW r, NEW w,
         NEW s \in Senders, NEW g \in Glyphs, NEW p \in Painters(X, D), p = Seen(s, old, r, w),
         NEW u, u = PutSym(s, g), NEW q, q = Seen(u, old, r, w),
         NEW pen, pen = Pen(g, p.pen.fg, p.pen.bg, p.pen.attrs)
  PROVE  /\ Longer(s, u, 3)
         /\ Fills(p, q, 1, Shown(pen), X, D, r, w) /\ q.pen = pen
<1> DEFINE t == <<"sym", g>>  o == WithSym(p, g)
<1>1. u = PutToken(s, t)
  BY DEF PutSym
<1>2. t \in Tokens /\ Size(t) \in 0..3
  <2>1. Size(t) = GlyphLen(g) /\ GlyphLen(g) \in 1..3
    BY SizeIs
  <2> QED BY <2>1 DEF Tokens
<1>3. PenTo(p, o, pen, X, D) /\ PaintToken(p, t, r, w) = Write(o, 1, r, w)
  BY PenTokens
<1> HIDE DEF t, o
<1>4. Longer(s, PutToken(s, t), 3) /\ Seen(PutToken(s, t), old, r, w) = PaintToken(p, t, r, w)
  BY <1>2, LongerIs, SeenIs
<1>5. o \in Painters(X, D) /\ o.pen = pen /\ o.n = p.n /\ o.cells = p.cells /\ pen \in PenSet
  BY <1>3, PenIs DEF PenTo
<1>6. Shown(o.pen) \in X
  BY <1>5 DEF Ready
<1> PICK one \in Nat : one = 1
  OBVIOUS
<1>7. q = Write(o, one, r, w)
  BY <1>1, <1>3, <1>4
<1>8. Fills(o, q, one, Shown(o.pen), X, D, r, w) /\ q.pen = o.pen
  BY <1>5, <1>6, <1>7, WriteFills
<1>9. Fills(p, q, one, Shown(pen), X, D, r, w)
  BY <1>5, <1>8 DEF Fills
<1> QED BY <1>1, <1>4, <1>5, <1>8, <1>9

LEMMA PutRepeatIs ==
  ASSUME NEW X, NEW D, NEW old, Ready(old, X, D), NEW r, NEW w,
         NEW s \in Senders, NEW k \in Nat, NEW p \in Painters(X, D), p = Seen(s, old, r, w),
         NEW u, u = PutToken(s, <<"repeat", k>>), NEW q, q = Seen(u, old, r, w)
  PROVE  /\ Longer(s, u, 5)
         /\ Fills(p, q, k, Shown(p.pen), X, D, r, w) /\ q.pen = p.pen
<1> DEFINE t == <<"repeat", k>>
<1>1. u = PutToken(s, t)
  OBVIOUS
<1>2. t \in Tokens /\ Size(t) \in 0..5
  <2>1. Size(t) \in 1..5
    BY SizeIs
  <2> QED BY <2>1 DEF Tokens
<1>3. PaintToken(p, t, r, w) = Write(p, k, r, w)
  BY PenTokens
<1> HIDE DEF t
<1>4. Longer(s, PutToken(s, t), 5) /\ Seen(PutToken(s, t), old, r, w) = PaintToken(p, t, r, w)
  BY <1>2, LongerIs, SeenIs
<1>5. Shown(p.pen) \in X
  BY PenIs DEF Ready
<1>6. q = Write(p, k, r, w)
  BY <1>1, <1>3, <1>4
<1>7. Fills(p, q, k, Shown(p.pen), X, D, r, w) /\ q.pen = p.pen
  BY <1>5, <1>6, WriteFills
<1> QED BY <1>1, <1>4, <1>7

(* The browser's pen p is the last cell sent.                              *)
Knows(s, p) ==
  /\ p.pen.fg = s.live.fg /\ p.pen.bg = s.live.bg
  /\ s.last = NoCell => s.live.fg = 0 /\ s.live.bg = 0
  /\ s.last # NoCell => /\ s.last \in Cells /\ p.pen.sym = s.last.sym
                        /\ p.pen.attrs = s.last.attrs /\ Shown(p.pen) = Shown(s.last)

(* From s to u the browser's screen has k cells more, which show v.        *)
Sends(s, u, k, v, X, D, old, r, w) ==
  /\ u \in Senders /\ u.room <= s.room /\ u.room >= s.room - MaxCellLen
  /\ Fills(Seen(s, old, r, w), Seen(u, old, r, w), k, v, X, D, r, w)
  /\ Knows(u, Seen(u, old, r, w))

LEMMA ShownIs ==
  ASSUME NEW g, NEW f, NEW b, NEW A, NEW c, c = [sym |-> g, fg |-> f, bg |-> b, attrs |-> A]
  PROVE  Shown(c) = [sym |-> g, fg |-> IF "fg" \in A THEN f ELSE 0,
                     bg |-> IF "bg" \in A THEN b ELSE 0, attrs |-> A]
<1> DEFINE x == IF "fg" \in c.attrs THEN c.fg ELSE 0  y == IF "bg" \in c.attrs THEN c.bg ELSE 0
<1>1. x = (IF "fg" \in A THEN f ELSE 0) /\ y = (IF "bg" \in A THEN b ELSE 0)
  OBVIOUS
<1>2. Shown(c) = [c EXCEPT !.fg = x, !.bg = y]
  BY DEF Shown
<1> HIDE DEF x, y
<1>3. Shown(c) = [sym |-> g, fg |-> x, bg |-> y, attrs |-> A]
  BY <1>2
<1> QED BY <1>1, <1>3

LEMMA DifferentIs ==
  ASSUME NEW X, NEW D, NEW old, Ready(old, X, D), NEW r, NEW w,
         NEW s \in Senders, NEW c \in Cells, NEW p \in Painters(X, D), p = Seen(s, old, r, w),
         Knows(s, p), NEW u, u = Different(s, c, r, w), NEW i \in Nat, i = After(s.i, r, w)
  PROVE  Sends(s, u, 1, Shown(c), X, D, old, r, w) /\ u.i = i
<1> DEFINE L == Live(s.live, c)
           s1 == PutColors(s, c)  s2 == PutAttrs(s1, c)  s3 == PutSym(s2, c.sym)
           p1 == Seen(s1, old, r, w)  p2 == Seen(s2, old, r, w)  p3 == Seen(s3, old, r, w)
           pen == Pen(c.sym, p2.pen.fg, p2.pen.bg, p2.pen.attrs)
<1>1. /\ u = [s3 EXCEPT !.i = After(@, r, w), !.last = c, !.live = Live(@, c)]
      /\ s1 = PutColors(s, c) /\ s2 = PutAttrs(s1, c) /\ s3 = PutSym(s2, c.sym)
      /\ p1 = Seen(s1, old, r, w) /\ p2 = Seen(s2, old, r, w) /\ p3 = Seen(s3, old, r, w)
      /\ pen = Pen(c.sym, p2.pen.fg, p2.pen.bg, p2.pen.attrs)
  BY DEF Different
<1>2. /\ L.fg = (IF "fg" \in c.attrs THEN c.fg ELSE s.live.fg)
      /\ L.bg = (IF "bg" \in c.attrs THEN c.bg ELSE s.live.bg)
      /\ L \in [fg : Byte, bg : Byte] /\ c.sym \in Glyphs /\ c.attrs \in Attrs
      /\ c = [sym |-> c.sym, fg |-> c.fg, bg |-> c.bg, attrs |-> c.attrs] /\ c # NoCell
      /\ ("fg" \in c.attrs \/ c.fg = 0) /\ ("bg" \in c.attrs \/ c.bg = 0)
      /\ s.room \in Int
  BY GlyphAssumption DEF Live, Cells, Byte, Attrs, Senders, NoCell
<1> HIDE DEF s1, s2, s3, p1, p2, p3, pen
<1>3. /\ Longer(s, s1, 5)
      /\ PenTo(p, p1, Pen(p.pen.sym, L.fg, L.bg, p.pen.attrs), X, D)
  BY <1>1, PutColorsIs DEF Knows
<1> HIDE DEF L
<1>4. /\ s1 \in Senders /\ p1 \in Painters(X, D) /\ p1.n = p.n /\ p1.cells = p.cells
      /\ p1.pen.fg = L.fg /\ p1.pen.bg = L.bg /\ p1.pen.attrs = p.pen.attrs
      /\ s1.i = s.i /\ s1.last = s.last /\ s1.live = s.live
  BY <1>3 DEF Longer, PenTo, Pen
<1>5. s1.last # NoCell => p1.pen.attrs = s1.last.attrs
  BY <1>4 DEF Knows
<1>6. /\ Longer(s1, s2, 5)
      /\ PenTo(p1, p2, Pen(p1.pen.sym, p1.pen.fg, p1.pen.bg, c.attrs), X, D)
  BY <1>1, <1>4, <1>5, PutAttrsIs
<1>7. /\ s2 \in Senders /\ p2 \in Painters(X, D) /\ p2.n = p.n /\ p2.cells = p.cells
      /\ p2.pen.fg = L.fg /\ p2.pen.bg = L.bg /\ p2.pen.attrs = c.attrs
      /\ s2.i = s.i /\ s2.last = s.last /\ s2.live = s.live
  BY <1>4, <1>6 DEF Longer, PenTo, Pen
<1>8. Longer(s2, s3, 3) /\ Fills(p2, p3, 1, Shown(pen), X, D, r, w) /\ p3.pen = pen
  BY <1>1, <1>2, <1>7, PutSymIs
<1>9. /\ s3 \in Senders /\ s3.i = s.i /\ s3.live = s.live
      /\ s3.room <= s.room /\ s3.room >= s.room - MaxCellLen
  BY <1>2, <1>3, <1>6, <1>7, <1>8 DEF Longer, MaxCellLen
<1>10. pen = [sym |-> c.sym, fg |-> L.fg, bg |-> L.bg, attrs |-> c.attrs]
  BY <1>1, <1>7 DEF Pen
<1>11. Shown(pen) = Shown(c)
  <2> DEFINE f == IF "fg" \in c.attrs THEN c.fg ELSE 0
             b == IF "bg" \in c.attrs THEN c.bg ELSE 0
  <2>1. Shown(c) = [sym |-> c.sym, fg |-> f, bg |-> b, attrs |-> c.attrs]
    BY <1>2, ShownIs
  <2>2. Shown(pen) = [sym |-> c.sym, fg |-> IF "fg" \in c.attrs THEN L.fg ELSE 0,
                      bg |-> IF "bg" \in c.attrs THEN L.bg ELSE 0, attrs |-> c.attrs]
    BY <1>10, ShownIs
  <2>3. /\ (IF "fg" \in c.attrs THEN L.fg ELSE 0) = f
        /\ (IF "bg" \in c.attrs THEN L.bg ELSE 0) = b
    BY <1>2
  <2> QED BY <2>1, <2>2, <2>3
<1>12. Fills(p, p3, 1, Shown(c), X, D, r, w)
  BY <1>7, <1>8, <1>11 DEF Fills
<1>13. u = [s3 EXCEPT !.i = i, !.last = c, !.live = L]
  BY <1>1, <1>9 DEF L, Senders
<1>14. /\ u \in Senders /\ u.i = i /\ u.last = c /\ u.live = L /\ u.room = s3.room
       /\ u.out = s3.out
  BY <1>2, <1>9, <1>13 DEF Senders, L
<1>15. Seen(u, old, r, w) = p3
  BY <1>1, <1>14 DEF Seen
<1>16. Knows(u, p3)
  BY <1>2, <1>8, <1>10, <1>11, <1>14 DEF Knows
<1> QED BY <1>9, <1>12, <1>14, <1>15, <1>16 DEF Sends

LEMMA RepeatedIs ==
  ASSUME NEW X, NEW D, NEW old, Ready(old, X, D), NEW r, NEW w,
         NEW s \in Senders, NEW p \in Painters(X, D), p = Seen(s, old, r, w),
         Knows(s, p), s.last # NoCell, NEW m \in Nat \ {0}, NEW i \in Nat,
         NEW same, same.n = m, same.at = i, NEW u, u = Repeated(s, same)
  PROVE  Sends(s, u, m, Shown(s.last), X, D, old, r, w) /\ u.i = i
<1> DEFINE g == s.last.sym  v == Shown(s.last)
           told == IF GlyphLen(g) * m > 2 THEN PutToken(s, <<"repeat", m>>)
                   ELSE IF m = 2 THEN PutSym(PutSym(s, g), g)
                   ELSE PutSym(s, g)
           q == Seen(told, old, r, w)
<1>1. u = [told EXCEPT !.i = i]
  BY DEF Repeated
<1>2. g \in Glyphs /\ p.pen = Pen(g, p.pen.fg, p.pen.bg, p.pen.attrs) /\ Shown(p.pen) = v
      /\ s.room \in Int
  BY PenIs DEF Knows, Cells, Pen, PenSet, Senders
<1>3. GlyphLen(g) \in 1..3
  BY SizeIs
<1>4. /\ told \in Senders /\ told.last = s.last /\ told.live = s.live
      /\ told.room <= s.room /\ told.room >= s.room - MaxCellLen
      /\ Fills(p, q, m, v, X, D, r, w) /\ q.pen = p.pen
  <2>1. CASE GlyphLen(g) * m > 2
    <3>1. told = PutToken(s, <<"repeat", m>>) /\ q = Seen(told, old, r, w)
      BY <2>1
    <3> HIDE DEF told, q, v
    <3>2. Longer(s, told, 5) /\ Fills(p, q, m, Shown(p.pen), X, D, r, w) /\ q.pen = p.pen
      BY <3>1, PutRepeatIs
    <3> QED BY <1>2, <3>2 DEF Longer, MaxCellLen
  <2>2. CASE ~(GlyphLen(g) * m > 2) /\ m = 2
    <3> DEFINE s1 == PutSym(s, g)  p1 == Seen(s1, old, r, w)
    <3>1. /\ s1 = PutSym(s, g) /\ p1 = Seen(s1, old, r, w)
          /\ told = PutSym(s1, g) /\ q = Seen(told, old, r, w)
      BY <2>2
    <3> HIDE DEF told, q, v, g, s1, p1
    <3>2. Longer(s, s1, 3) /\ Fills(p, p1, 1, Shown(p.pen), X, D, r, w) /\ p1.pen = p.pen
      BY <1>2, <3>1, PutSymIs
    <3>3. s1 \in Senders /\ p1 \in Painters(X, D) /\ p.pen = Pen(g, p1.pen.fg, p1.pen.bg, p1.pen.attrs)
      BY <1>2, <3>2 DEF Longer, Fills
    <3>4. Longer(s1, told, 3) /\ Fills(p1, q, 1, Shown(p.pen), X, D, r, w) /\ q.pen = p.pen
      BY <1>2, <3>1, <3>3, PutSymIs
    <3>5. Fills(p, q, 2, v, X, D, r, w)
      <4>1. p.n \in Nat /\ p1.n = p.n + 1 /\ q \in Painters(X, D) /\ q.n = p1.n + 1
        BY <3>2, <3>4, PenIs DEF Fills
      <4>2. ASSUME NEW x \in D
            PROVE  q.cells[x] = IF \E j \in 0..(2 - 1) : x = Place(r, p.n + j, w)
                                THEN v ELSE p.cells[x]
        <5>1. q.cells[x] = IF x = Place(r, p1.n + 0, w) THEN v ELSE p1.cells[x]
          BY <1>2, <3>4 DEF Fills
        <5>2. p1.cells[x] = IF x = Place(r, p.n + 0, w) THEN v ELSE p.cells[x]
          BY <1>2, <3>2 DEF Fills
        <5>3. p1.n + 0 = p.n + 1
          BY <4>1
        <5>4. \A j \in 0..(2 - 1) : j = 0 \/ j = 1
          OBVIOUS
        <5>5. 0 \in 0..(2 - 1) /\ 1 \in 0..(2 - 1)
          OBVIOUS
        <5> QED BY ONLY <5>1, <5>2, <5>3, <5>4, <5>5
      <4> QED BY <4>1, <4>2 DEF Fills
    <3>6. told.room <= s.room /\ told.room >= s.room - MaxCellLen
      BY <1>2, <3>2, <3>4 DEF Longer, MaxCellLen
    <3> QED BY <2>2, <3>2, <3>4, <3>5, <3>6 DEF Longer
  <2>3. CASE ~(GlyphLen(g) * m > 2) /\ m # 2
    <3>1. told = PutSym(s, g) /\ q = Seen(told, old, r, w)
      BY <2>3
    <3>2. m = 1
      <4>1. GlyphLen(g) = 1 \/ GlyphLen(g) = 2 \/ GlyphLen(g) = 3
        BY <1>3
      <4> QED BY <2>3, <4>1
    <3> HIDE DEF told, q, v, g
    <3>3. Longer(s, told, 3) /\ Fills(p, q, 1, Shown(p.pen), X, D, r, w) /\ q.pen = p.pen
      BY <1>2, <3>1, PutSymIs
    <3> QED BY <1>2, <3>2, <3>3 DEF Longer, MaxCellLen
  <2> QED BY <2>1, <2>2, <2>3
<1> HIDE DEF told
<1>5. /\ u \in Senders /\ u.i = i /\ u.last = s.last /\ u.live = s.live /\ u.room = told.room
      /\ u.out = told.out
  BY <1>1, <1>4 DEF Senders
<1>6. Seen(u, old, r, w) = q
  BY <1>5 DEF Seen
<1> HIDE DEF q, v, g
<1>7. Knows(u, q)
  BY <1>4, <1>5 DEF Knows
<1> QED BY <1>4, <1>5, <1>6, <1>7 DEF Sends, v

-----------------------------------------------------------------------------
(* The cells of a rectangle, one turn of the loop after the other.         *)

(* A screen of cells, a rectangle of it and the browser's old screen.      *)
Scene(h, w, r, cells, old, X, D) ==
  /\ h \in Nat \ {0} /\ w \in Nat \ {0} /\ r \in RectsOn(h, w)
  /\ D = 0..(h * w - 1) /\ cells \in [D -> Cells] /\ Ready(old, X, D)

(* The first k cells of the rectangle are sent, and nothing else.          *)
Good(s, k, cells, old, r, w, X, D) ==
  LET p == Seen(s, old, r, w) IN
  /\ k \in 0..Many(r) /\ s \in Senders /\ s.i = Place(r, k, w)
  /\ p \in Painters(X, D) /\ p.n = k /\ Knows(s, p)
  /\ \A x \in D : p.cells[x] = IF \E m \in 0..(k - 1) : x = Place(r, m, w)
                               THEN Shown(cells[x]) ELSE old[x]

LEMMA SceneIs ==
  ASSUME NEW h, NEW w, NEW r, NEW cells, NEW old, NEW X, NEW D, Scene(h, w, r, cells, old, X, D)
  PROVE  /\ h \in Nat \ {0} /\ w \in Nat \ {0} /\ r \in RectsOn(h, w)
         /\ Ready(old, X, D) /\ cells \in [D -> Cells] /\ DOMAIN cells = D
         /\ Many(r) \in Nat \ {0} /\ Many(r) <= Cardinality(D) /\ Cardinality(D) \in Nat
         /\ Cardinality(D) = h * w
         /\ \A k \in Nat : k < Many(r) =>
              Place(r, k, w) \in D /\ cells[Place(r, k, w)] \in Cells /\ Place(r, k, w) <= Final(r, w)
         /\ \A k \in Nat : Place(r, k, w) \in Nat
         /\ \A k \in Nat : After(Place(r, k, w), r, w) = Place(r, k + 1, w)
         /\ \A k \in Nat : k >= Many(r) => Place(r, k, w) > Final(r, w)
         /\ Final(r, w) \in Nat
<1>1. /\ h \in Nat \ {0} /\ w \in Nat \ {0} /\ r \in RectsOn(h, w)
      /\ D = 0..(h * w - 1) /\ cells \in [D -> Cells] /\ Ready(old, X, D)
  BY DEF Scene
<1>2. Many(r) \in Nat \ {0} /\ Many(r) <= h * w /\ r.y1 \in Nat /\ r.x1 \in Nat
  BY <1>1, RectIs
<1>3. Cardinality(D) = h * w /\ h * w \in Nat
  <2> DEFINE m == h * w
  <2>1. m \in Nat /\ D = 0..(m - 1)
    BY <1>1
  <2> HIDE DEF m
  <2>2. m - 1 \in Int /\ (0 <= m - 1 \/ m = 0)
    BY <2>1
  <2>3. Cardinality(0..(m - 1)) = m
    <3>1. Cardinality(0..(m - 1)) = IF 0 > m - 1 THEN 0 ELSE (m - 1) - 0 + 1
      BY <2>2, FS_Interval
    <3> QED BY <2>1, <3>1
  <2> QED BY <2>1, <2>3 DEF m
<1>4. \A k \in Nat : k < Many(r) => Place(r, k, w) \in D
  BY <1>1, PlaceInside
<1>5. \A k \in Nat : Place(r, k, w) \in Nat
  BY <1>1, PlaceIs
<1>6. \A k \in Nat : After(Place(r, k, w), r, w) = Place(r, k + 1, w)
  BY <1>1, PlaceNext
<1>7. Final(r, w) \in Nat
  <2>1. w * r.y1 \in Nat
    BY <1>1, <1>2
  <2> QED BY <1>2, <2>1 DEF Final
<1>8. \A k \in Nat : (k < Many(r) => Place(r, k, w) <= Final(r, w))
                     /\ (k >= Many(r) => Place(r, k, w) > Final(r, w))
  <2> TAKE k \in Nat
  <2>1. /\ k + 1 < Many(r) => Place(r, k, w) < Final(r, w)
        /\ k + 1 = Many(r) => Place(r, k, w) = Final(r, w)
        /\ k >= Many(r) => Place(r, k, w) > Final(r, w)
    BY <1>1, PlaceFinal
  <2> QED BY <1>2, <1>5, <1>7, <2>1
<1>9. \A k \in Nat : k < Many(r) => cells[Place(r, k, w)] \in Cells
  BY <1>1, <1>4
<1>10. Many(r) <= Cardinality(D) /\ Cardinality(D) \in Nat /\ DOMAIN cells = D
  BY <1>1, <1>2, <1>3
<1> QED BY <1>1, <1>2, <1>3, <1>4, <1>5, <1>6, <1>7, <1>8, <1>9, <1>10

LEMMA SameIs ==
  ASSUME NEW h, NEW w, NEW r, NEW cells, NEW old, NEW X, NEW D, Scene(h, w, r, cells, old, X, D),
         NEW last, NEW k \in 0..Many(r)
  PROVE  \E a \in Nat :
           /\ k + a <= Many(r) /\ Same(last, Place(r, k, w), cells, r, w).n = a
           /\ Same(last, Place(r, k, w), cells, r, w).at = Place(r, k + a, w)
           /\ \A m \in k..(k + a - 1) : cells[Place(r, m, w)] = last
<1> DEFINE Runs == {a \in Nat : /\ k + a <= Many(r)
                                /\ \A m \in k..(k + a - 1) : cells[Place(r, m, w)] = last}
           b0 == [n |-> 0, at |-> Place(r, k, w)]
           S == {[n |-> a, at |-> Place(r, k + a, w)] : a \in Runs}
<1>1. Many(r) \in Nat /\ Cardinality(DOMAIN cells) \in Nat /\ k \in Nat
  BY SceneIs
<1>2. b0 = [n |-> 0, at |-> Place(r, k, w)] /\ b0 \in S
  <2>1. 0 \in Runs /\ k + 0 = k
    BY <1>1
  <2> QED BY <2>1
<1>3. ASSUME NEW b \in S PROVE OneMore(b, last, cells, r, w) \in S
  <2>1. PICK a \in Runs : b = [n |-> a, at |-> Place(r, k + a, w)]
    OBVIOUS
  <2>2. a \in Nat /\ k + a <= Many(r) /\ \A m \in k..(k + a - 1) : cells[Place(r, m, w)] = last
    BY <2>1
  <2> HIDE DEF Runs
  <2>3. CASE b.at > Final(r, w) \/ cells[b.at] # last
    BY <2>3 DEF OneMore
  <2>4. CASE ~(b.at > Final(r, w)) /\ cells[b.at] = last
    <3> DEFINE j == k + a
    <3>1. j \in Nat /\ b.at = Place(r, j, w) /\ b.n = a
      BY <1>1, <2>1, <2>2
    <3>2. ~(j >= Many(r))
      BY <2>4, <3>1, SceneIs
    <3>3. After(b.at, r, w) = Place(r, j + 1, w)
      BY <3>1, SceneIs
    <3>4. a + 1 \in Runs
      <4>1. a + 1 \in Nat /\ k + (a + 1) <= Many(r)
        BY <1>1, <2>2, <3>2
      <4>2. ASSUME NEW m \in k..(k + (a + 1) - 1) PROVE cells[Place(r, m, w)] = last
        <5>1. m \in k..(k + a - 1) \/ m = j
          BY <1>1, <2>2
        <5> QED BY <2>2, <2>4, <3>1, <5>1
      <4> QED BY <4>1, <4>2 DEF Runs
    <3>5. OneMore(b, last, cells, r, w) = [n |-> a + 1, at |-> Place(r, k + (a + 1), w)]
      <4>1. j + 1 = k + (a + 1)
        BY <1>1, <2>2
      <4> QED BY <2>4, <3>1, <3>3, <4>1 DEF OneMore
    <3> QED BY <3>4, <3>5
  <2> QED BY <2>3, <2>4
<1> DEFINE i == Place(r, k, w)
<1>4. \A b \in S : OneMore(b, last, cells, r, w) \in S
  BY <1>3
<1>5. b0 = [n |-> 0, at |-> i] /\ b0 \in S
  BY <1>2
<1>6. Same(last, i, cells, r, w) \in S
  <2> HIDE DEF S, b0, i
  <2> QED BY ONLY <1>1, <1>4, <1>5, SameIn
<1>7. PICK a \in Runs : Same(last, i, cells, r, w) = [n |-> a, at |-> Place(r, k + a, w)]
  BY <1>6
<1> QED BY <1>7

LEMMA GoodNext ==
  ASSUME NEW h, NEW w, NEW r, NEW cells, NEW old, NEW X, NEW D, Scene(h, w, r, cells, old, X, D),
         NEW s, NEW k, Good(s, k, cells, old, r, w, X, D),
         NEW u, NEW n \in Nat, NEW v, Sends(s, u, n, v, X, D, old, r, w),
         k + n <= Many(r), u.i = Place(r, k + n, w),
         \A m \in k..(k + n - 1) : Shown(cells[Place(r, m, w)]) = v
  PROVE  Good(u, k + n, cells, old, r, w, X, D)
<1> DEFINE p == Seen(s, old, r, w)  q == Seen(u, old, r, w)  l == k + n
<1>1. /\ k \in 0..Many(r) /\ k \in Nat /\ p.n = k
      /\ \A x \in D : p.cells[x] = IF \E m \in 0..(k - 1) : x = Place(r, m, w)
                                   THEN Shown(cells[x]) ELSE old[x]
  BY DEF Good
<1>2. u \in Senders /\ Fills(p, q, n, v, X, D, r, w) /\ Knows(u, q)
  BY DEF Sends
<1>3. Many(r) \in Nat /\ l \in 0..Many(r)
  BY <1>1, SceneIs
<1> HIDE DEF p, q
<1>4. q \in Painters(X, D) /\ q.n = l
  BY <1>1, <1>2 DEF Fills
<1>5. ASSUME NEW x \in D
      PROVE  q.cells[x] = IF \E m \in 0..(l - 1) : x = Place(r, m, w)
                          THEN Shown(cells[x]) ELSE old[x]
  <2>1. q.cells[x] = IF \E j \in 0..(n - 1) : x = Place(r, k + j, w) THEN v ELSE p.cells[x]
    BY <1>1, <1>2 DEF Fills
  <2>2. CASE \E j \in 0..(n - 1) : x = Place(r, k + j, w)
    <3> PICK j \in 0..(n - 1) : x = Place(r, k + j, w)
      BY <2>2
    <3>1. k + j \in k..(k + n - 1) /\ k + j \in 0..(l - 1)
      BY <1>1
    <3>2. Shown(cells[x]) = v
      BY <3>1
    <3> QED BY <2>1, <2>2, <3>1, <3>2
  <2>3. CASE ~\E j \in 0..(n - 1) : x = Place(r, k + j, w)
    <3>1. (\E m \in 0..(l - 1) : x = Place(r, m, w)) <=> (\E m \in 0..(k - 1) : x = Place(r, m, w))
      <4>1. ASSUME NEW m \in 0..(l - 1), x = Place(r, m, w) PROVE m \in 0..(k - 1)
        <5> SUFFICES ASSUME m >= k PROVE FALSE
          BY <1>1
        <5> DEFINE j == m - k
        <5>1. j \in 0..(n - 1) /\ k + j = m
          BY <1>1
        <5> QED BY <2>3, <4>1, <5>1
      <4>2. \A m \in 0..(k - 1) : m \in 0..(l - 1)
        BY <1>1
      <4> QED BY <4>1, <4>2
    <3> QED BY <1>1, <2>1, <2>3, <3>1
  <2> QED BY <2>2, <2>3
<1> QED BY <1>2, <1>3, <1>4, <1>5 DEF Good, q

LEMMA TurnIs ==
  ASSUME NEW h, NEW w, NEW r, NEW cells, NEW old, NEW X, NEW D, Scene(h, w, r, cells, old, X, D),
         NEW s, NEW k, Good(s, k, cells, old, r, w, X, D),
         ~(s.i > Final(r, w) \/ s.room <= Reserve), NEW u, u = Turn(s, cells, r, w)
  PROVE  \E l \in Nat : l > k /\ Good(u, l, cells, old, r, w, X, D) /\ u.room \in Int
                        /\ u.room <= s.room /\ u.room >= s.room - MaxCellLen
<1> DEFINE same == Same(s.last, s.i, cells, r, w)  p == Seen(s, old, r, w)
<1>1. /\ k \in 0..Many(r) /\ k \in Nat /\ s \in Senders /\ s.i = Place(r, k, w)
      /\ p \in Painters(X, D) /\ Knows(s, p)
  BY DEF Good
<1>2. k < Many(r) /\ k + 1 <= Many(r)
  BY <1>1, SceneIs
<1>3. /\ s.i \in D /\ cells[s.i] \in Cells /\ After(s.i, r, w) = Place(r, k + 1, w)
      /\ Place(r, k + 1, w) \in Nat /\ Ready(old, X, D)
  BY <1>1, <1>2, SceneIs
<1>4. PICK a \in Nat : /\ k + a <= Many(r) /\ same.n = a /\ same.at = Place(r, k + a, w)
                       /\ \A m \in k..(k + a - 1) : cells[Place(r, m, w)] = s.last
  BY <1>1, SameIs
<1>5. u = IF same.n = 0 THEN Different(s, cells[s.i], r, w) ELSE Repeated(s, same)
  BY DEF Turn
<1> HIDE DEF same, p
<1>6. \A n, v : /\ Sends(s, u, n, v, X, D, old, r, w) => u.room \in Int
                /\ Sends(s, u, n, v, X, D, old, r, w) =>
                     u.room <= s.room /\ u.room >= s.room - MaxCellLen
  BY DEF Sends, Senders
<1>7. CASE a = 0
  <2> DEFINE c == cells[s.i]  i == Place(r, k + 1, w)
  <2>1. u = Different(s, c, r, w) /\ c \in Cells /\ i \in Nat /\ i = After(s.i, r, w)
    BY <1>3, <1>4, <1>5, <1>7
  <2>c. c = cells[Place(r, k, w)]
    BY <1>1
  <2> HIDE DEF c, i
  <2>2. Sends(s, u, 1, Shown(c), X, D, old, r, w) /\ u.i = i
    BY <1>1, <1>3, <2>1, DifferentIs DEF p
  <2> PICK one \in Nat : one = 1
    OBVIOUS
  <2>3. k + one <= Many(r) /\ u.i = Place(r, k + one, w) /\ k + one \in Nat /\ k + one > k
    BY <1>1, <1>2, <2>2 DEF i
  <2>4. \A m \in k..(k + one - 1) : Shown(cells[Place(r, m, w)]) = Shown(c)
    <3>1. \A m \in k..(k + one - 1) : m = k
      BY <1>1
    <3> QED BY <2>c, <3>1
  <2>5. Sends(s, u, one, Shown(c), X, D, old, r, w)
    BY <2>2
  <2>6. Good(u, k + one, cells, old, r, w, X, D)
    BY <2>3, <2>4, <2>5, GoodNext
  <2>7. u.room \in Int /\ u.room <= s.room /\ u.room >= s.room - MaxCellLen
    BY <1>6, <2>5
  <2> QED BY <2>3, <2>6, <2>7
<1>8. CASE a # 0
  <2> DEFINE i == Place(r, k + a, w)
  <2>1. k \in k..(k + a - 1) /\ k + a \in Nat /\ k + a > k
    BY <1>1, <1>8
  <2>2. cells[s.i] = s.last
    BY <1>1, <1>4, <2>1
  <2>3. s.last # NoCell
    BY <1>3, <2>2, GlyphAssumption DEF Cells, NoCell
  <2>4. u = Repeated(s, same) /\ same.at = i /\ i \in Nat
    BY <1>4, <1>5, <1>8, <2>1, SceneIs
  <2> HIDE DEF i
  <2>5. Sends(s, u, a, Shown(s.last), X, D, old, r, w) /\ u.i = i
    BY <1>1, <1>3, <1>4, <1>8, <2>3, <2>4, RepeatedIs DEF p
  <2>6. \A m \in k..(k + a - 1) : Shown(cells[Place(r, m, w)]) = Shown(s.last)
    BY <1>4
  <2>7. Good(u, k + a, cells, old, r, w, X, D)
    BY <1>4, <2>5, <2>6, GoodNext DEF i
  <2>8. u.room \in Int /\ u.room <= s.room /\ u.room >= s.room - MaxCellLen
    BY <1>6, <2>5
  <2> QED BY <2>1, <2>7, <2>8
<1> QED BY <1>7, <1>8

(* A buffer that ends after the cell k had room for more of them, n bytes   *)
(* for those before l; cells cost at most MaxCellLen.                      *)
Reaches(s, k, u, cells, old, r, w, X, D) ==
  \E l \in Nat : /\ Good(u, l, cells, old, r, w, X, D) /\ l >= k
                 /\ u.room + MaxCellLen * l >= s.room + MaxCellLen * k

Stopped(s, r, w) == s.i > Final(r, w) \/ s.room <= Reserve

LEMMA LoopEnds ==
  ASSUME NEW h, NEW w, NEW r, NEW cells, NEW old, NEW X, NEW D, Scene(h, w, r, cells, old, X, D),
         NEW s, NEW k, Good(s, k, cells, old, r, w, X, D), NEW u, u = Loop(s, cells, r, w)
  PROVE  Reaches(s, k, u, cells, old, r, w, X, D) /\ Stopped(u, r, w)
<1> DEFINE S == {x \in Senders : Reaches(s, k, x, cells, old, r, w, X, D)}
           N == Cardinality(DOMAIN cells)
<1>1. /\ k \in Nat /\ s \in Senders /\ s.room \in Int /\ N \in Nat /\ N >= Many(r)
      /\ Many(r) \in Nat
  BY SceneIs DEF Good, Senders
<1>2. s \in S
  BY <1>1 DEF Reaches, MaxCellLen
<1>3. ASSUME NEW x \in S, ~Stopped(x, r, w), NEW l \in Nat, Good(x, l, cells, old, r, w, X, D),
             NEW y, y = Turn(x, cells, r, w), l >= k,
             x.room + MaxCellLen * l >= s.room + MaxCellLen * k
      PROVE  y \in S /\ \E m \in Nat : m > l /\ Good(y, m, cells, old, r, w, X, D)
                          /\ y.room + MaxCellLen * m >= s.room + MaxCellLen * k
  <2>1. PICK m \in Nat : m > l /\ Good(y, m, cells, old, r, w, X, D) /\ y.room \in Int
                         /\ y.room <= x.room /\ y.room >= x.room - MaxCellLen
    BY <1>3, TurnIs DEF Stopped
  <2>2. x.room \in Int /\ y \in Senders
    BY <1>3, <2>1 DEF Good, Senders
  <2>3. y.room + MaxCellLen * m >= s.room + MaxCellLen * k
    BY <1>1, <1>3, <2>1, <2>2 DEF MaxCellLen
  <2>4. m >= k
    BY <1>1, <1>3, <2>1
  <2>5. Reaches(s, k, y, cells, old, r, w, X, D)
    BY <2>1, <2>3, <2>4 DEF Reaches
  <2> QED BY <2>1, <2>2, <2>3, <2>5
<1>4. ASSUME NEW x \in S, Stopped(x, r, w) PROVE Turn(x, cells, r, w) = x
  BY <1>4 DEF Turn, Stopped
<1>5. ASSUME NEW x \in S PROVE Turn(x, cells, r, w) \in S
  <2>1. CASE Stopped(x, r, w)
    BY <1>4, <2>1
  <2>2. CASE ~Stopped(x, r, w)
    <3> PICK l \in Nat : /\ Good(x, l, cells, old, r, w, X, D) /\ l >= k
                         /\ x.room + MaxCellLen * l >= s.room + MaxCellLen * k
      BY DEF Reaches
    <3> HIDE DEF S
    <3> QED BY <1>3, <2>2
  <2> QED BY <2>1, <2>2
<1>p. PICK t : TurnsBy(t, S, s, cells, r, w) /\ Loop(s, cells, r, w) = t[N]
  <2> HIDE DEF S
  <2>1. \A x \in S : Turn(x, cells, r, w) \in S
    BY <1>5
  <2> QED BY ONLY <1>2, <2>1, LoopIs
<1>6. /\ t \in [Nat -> S] /\ t[0] = s
      /\ \A n \in Nat \ {0} : t[n] = Turn(t[n - 1], cells, r, w)
  BY <1>p DEF TurnsBy
<1> DEFINE U == {n \in Nat : Stopped(t[n], r, w)
                             \/ \E l \in Nat : /\ l >= n + k /\ Good(t[n], l, cells, old, r, w, X, D)
                                               /\ t[n].room + MaxCellLen * l >= s.room + MaxCellLen * k}
<1>7. 0 \in U
  <2>1. /\ k >= 0 + k /\ Good(t[0], k, cells, old, r, w, X, D)
        /\ t[0].room + MaxCellLen * k >= s.room + MaxCellLen * k
    BY <1>1, <1>6 DEF MaxCellLen
  <2> QED BY <1>1, <2>1
<1>8. ASSUME NEW n \in U PROVE n + 1 \in U
  <2> DEFINE m == n + 1
  <2>1. m \in Nat \ {0} /\ m - 1 = n /\ n \in Nat /\ t[n] \in S
    BY <1>6
  <2>2. t[m] = Turn(t[n], cells, r, w)
    <3> HIDE DEF m, S, U
    <3>1. t[m] = Turn(t[m - 1], cells, r, w)
      BY <1>6, <2>1
    <3> QED BY <2>1, <3>1
  <2> HIDE DEF S
  <2>3. CASE Stopped(t[n], r, w)
    <3>1. t[m] = t[n]
      BY <1>4, <2>1, <2>2, <2>3
    <3> QED BY <2>1, <2>3, <3>1
  <2>4. CASE ~Stopped(t[n], r, w)
    <3>1. PICK l \in Nat : /\ l >= n + k /\ Good(t[n], l, cells, old, r, w, X, D)
                           /\ t[n].room + MaxCellLen * l >= s.room + MaxCellLen * k
      BY <2>4
    <3>2. l >= k
      BY <1>1, <2>1, <3>1
    <3>3. PICK j \in Nat : j > l /\ Good(t[m], j, cells, old, r, w, X, D)
                           /\ t[m].room + MaxCellLen * j >= s.room + MaxCellLen * k
      BY <1>3, <2>1, <2>2, <2>4, <3>1, <3>2
    <3>4. j >= m + k
      BY <1>1, <2>1, <3>1, <3>3
    <3> QED BY <2>1, <3>3, <3>4
  <2> QED BY <2>3, <2>4
<1>9. U = Nat
  <2> HIDE DEF U
  <2>1. U \subseteq Nat
    BY DEF U
  <2> QED BY <1>7, <1>8, <2>1, SetInduction
<1>10. u = t[N] /\ u \in S
  BY <1>1, <1>6, <1>p
<1>11. Stopped(u, r, w)
  <2>1. N \in U
    BY <1>1, <1>9
  <2> SUFFICES ASSUME ~Stopped(u, r, w) PROVE FALSE
    OBVIOUS
  <2>2. PICK l \in Nat : l >= N + k /\ Good(u, l, cells, old, r, w, X, D)
    BY <1>10, <2>1
  <2>3. l >= Many(r) /\ u.i = Place(r, l, w)
    BY <1>1, <2>2 DEF Good
  <2>4. u.i > Final(r, w)
    BY <2>3, SceneIs
  <2> QED BY <2>4 DEF Stopped
<1> QED BY <1>10, <1>11

-----------------------------------------------------------------------------
(* The buffers of a section.                                               *)

LEMMA StartIs ==
  ASSUME NEW h, NEW w, NEW r, NEW cells, NEW old, NEW X, NEW D, Scene(h, w, r, cells, old, X, D),
         NEW room \in Int, NEW s,
         s = [i |-> w * r.y0 + r.x0, room |-> room, out |-> <<>>, last |-> NoCell,
              live |-> [fg |-> 0, bg |-> 0]]
  PROVE  Good(s, 0, cells, old, r, w, X, D)
<1> DEFINE i == w * r.y0 + r.x0  none == <<>>  live == [fg |-> 0, bg |-> 0]
           p == Fresh(old)
<1>1. Place(r, 0, w) = i /\ i \in Nat
  <2>0. h \in Nat \ {0} /\ w \in Nat \ {0} /\ r \in RectsOn(h, w)
    BY SceneIs
  <2>1. Place(r, 0, w) = i
    BY ONLY <2>0, PlaceFirst
  <2>2. Place(r, 0, w) \in Nat
    BY SceneIs
  <2> QED BY <2>1, <2>2
<1>2. none \in Seq(Tokens) /\ live \in [fg : Byte, bg : Byte] /\ live.fg = 0 /\ live.bg = 0
      /\ none = <<>>
  BY DEF Byte
<1>3. s = [i |-> i, room |-> room, out |-> none, last |-> NoCell, live |-> live]
  OBVIOUS
<1> HIDE DEF i, none, live, p
<1>4. s \in Senders /\ s.i = i /\ s.out = none /\ s.last = NoCell /\ s.live = live
  BY <1>1, <1>2, <1>3 DEF Senders
<1>5. Seen(s, old, r, w) = p
  BY <1>2, <1>4, SeenNone DEF Seen, p
<1>6. p \in Painters(X, D) /\ p.n = 0 /\ p.cells = old /\ p.pen = NoCell
  BY SceneIs DEF p, Fresh, Ready
<1>7. Knows(s, p)
  BY <1>2, <1>4, <1>6 DEF Knows, NoCell
<1>8. 0 \in 0..Many(r)
  BY SceneIs
<1>9. \A m : m \notin 0..(0 - 1)
  OBVIOUS
<1> QED BY <1>1, <1>4, <1>5, <1>6, <1>7, <1>8, <1>9 DEF Good

LEMMA GoodRoom ==
  ASSUME NEW cells, NEW old, NEW r, NEW w, NEW X, NEW D, NEW s, NEW k,
         Good(s, k, cells, old, r, w, X, D), NEW len \in Int, NEW u, u = [s EXCEPT !.room = len]
  PROVE  Good(u, k, cells, old, r, w, X, D) /\ u.room = len /\ u.i = s.i
<1>1. s \in Senders
  BY DEF Good
<1>2. /\ u \in Senders /\ u.i = s.i /\ u.out = s.out /\ u.last = s.last /\ u.live = s.live
      /\ u.room = len
  BY <1>1 DEF Senders
<1>3. Seen(u, old, r, w) = Seen(s, old, r, w)
  BY <1>2 DEF Seen
<1>4. \A p : Knows(s, p) => Knows(u, p)
  BY <1>2 DEF Knows
<1> QED BY <1>2, <1>3, <1>4 DEF Good

LEMMA LastPlace ==
  ASSUME NEW h, NEW w, NEW r, NEW cells, NEW old, NEW X, NEW D, Scene(h, w, r, cells, old, X, D),
         NEW s, NEW k, Good(s, k, cells, old, r, w, X, D)
  PROVE  /\ k \in Nat /\ k <= Many(r) /\ Many(r) \in Nat
         /\ s.i > Final(r, w) <=> k = Many(r)
         /\ s.i >= Final(r, w) <=> k >= Many(r) - 1
<1>1. h \in Nat \ {0} /\ w \in Nat \ {0} /\ r \in RectsOn(h, w) /\ Many(r) \in Nat
      /\ Final(r, w) \in Nat
  BY SceneIs
<1>2. k \in 0..Many(r) /\ k \in Nat /\ s.i = Place(r, k, w)
  BY <1>1 DEF Good
<1>3. s.i \in Nat
  BY <1>2, SceneIs
<1>4. /\ k + 1 < Many(r) => s.i < Final(r, w)
      /\ k + 1 = Many(r) => s.i = Final(r, w)
      /\ k >= Many(r) => s.i > Final(r, w)
  BY <1>1, <1>2, PlaceFinal
<1> QED BY <1>1, <1>2, <1>3, <1>4

LEMMA ChunkEnds ==
  ASSUME NEW h, NEW w, NEW r, NEW cells, NEW old, NEW X, NEW D, Scene(h, w, r, cells, old, X, D),
         NEW s, NEW k, Good(s, k, cells, old, r, w, X, D), NEW len \in Int,
         NEW u, u = Chunk(s, cells, r, w, len)
  PROVE  \E l \in Nat : /\ Good(u, l, cells, old, r, w, X, D) /\ l >= k
                        /\ l >= Many(r) - 1 \/ MaxCellLen * l >= MaxCellLen * k + (len - Reserve)
                        /\ k = Many(r) => u = s
<1>1. k \in Nat /\ k <= Many(r) /\ Many(r) \in Nat
      /\ (s.i >= Final(r, w) <=> k >= Many(r) - 1)
  BY LastPlace
<1>2. CASE s.i >= Final(r, w)
  <2>1. u = s
    BY <1>2 DEF Chunk
  <2> QED BY <1>1, <1>2, <2>1
<1>3. CASE ~(s.i >= Final(r, w))
  <2> DEFINE t == [s EXCEPT !.room = len]
  <2>1. u = Loop(t, cells, r, w)
    BY <1>3 DEF Chunk
  <2>2. Good(t, k, cells, old, r, w, X, D) /\ t.room = len
    BY GoodRoom
  <2> HIDE DEF t
  <2>3. Reaches(t, k, u, cells, old, r, w, X, D) /\ Stopped(u, r, w)
    BY <2>1, <2>2, LoopEnds
  <2>4. PICK l \in Nat : /\ Good(u, l, cells, old, r, w, X, D) /\ l >= k
                         /\ u.room + MaxCellLen * l >= len + MaxCellLen * k
    BY <2>2, <2>3 DEF Reaches
  <2>5. u.room \in Int
    BY <2>4 DEF Good, Senders
  <2>6. (u.i > Final(r, w) <=> l = Many(r)) /\ (u.i > Final(r, w) \/ u.room <= Reserve)
    BY <2>3, <2>4, LastPlace DEF Stopped
  <2>7. l >= Many(r) - 1 \/ MaxCellLen * l >= MaxCellLen * k + (len - Reserve)
    BY <1>1, <2>4, <2>5, <2>6 DEF MaxCellLen, Reserve
  <2> QED BY <1>1, <1>3, <2>4, <2>7
<1> QED BY <1>2, <1>3

LEMMA SectionEnds ==
  ASSUME NEW h, NEW w, NEW r, NEW cells, NEW old, NEW X, NEW D, Scene(h, w, r, cells, old, X, D),
         NEW room \in Int, NEW len \in Int, NEW u, u = Filled(cells, r, w, room, len)
  PROVE  \E k \in Nat :
           /\ Good(u, k, cells, old, r, w, X, D)
           /\ k >= Many(r) - 1
              \/ MaxCellLen * k >= (room - Reserve) + (len - Reserve) * (MaxChunks - 1)
           /\ room >= MaxCellLen * Many(r) => k = Many(r)
<1> DEFINE start == [i |-> w * r.y0 + r.x0, room |-> room, out |-> <<>>, last |-> NoCell,
                     live |-> [fg |-> 0, bg |-> 0]]
           a == Loop(start, cells, r, w)
           S == {x \in Senders : \E k \in Nat : Good(x, k, cells, old, r, w, X, D)}
           d == len - Reserve  first == room - Reserve  all == Many(r)
           Far(x, n) == \E k \in Nat : /\ Good(x, k, cells, old, r, w, X, D)
                                       /\ k >= all - 1 \/ MaxCellLen * k >= first + d * n
                                       /\ room >= MaxCellLen * all => k = all
<1>1. start = [i |-> w * r.y0 + r.x0, room |-> room, out |-> <<>>, last |-> NoCell,
               live |-> [fg |-> 0, bg |-> 0]]
      /\ start.room = room
  OBVIOUS
<1>2. Good(start, 0, cells, old, r, w, X, D)
  <2> HIDE DEF start
  <2> QED BY <1>1, StartIs
<1>3. d \in Int /\ first \in Int /\ all \in Nat /\ first = room - Reserve /\ all = Many(r)
      /\ Reserve = 12 /\ MaxCellLen = 13
  BY SceneIs DEF Reserve, MaxCellLen
<1> HIDE DEF start, d, first, all
<1>4. Far(a, 0) /\ a \in S
  <2>1. Reaches(start, 0, a, cells, old, r, w, X, D) /\ Stopped(a, r, w)
    BY <1>2, LoopEnds
  <2> HIDE DEF a
  <2>2. PICK k \in Nat : /\ Good(a, k, cells, old, r, w, X, D)
                         /\ a.room + MaxCellLen * k >= room + MaxCellLen * 0
    BY <1>1, <2>1 DEF Reaches
  <2>3. a.room \in Int /\ a \in Senders
    BY <2>2 DEF Good, Senders
  <2>4. (a.i > Final(r, w) <=> k = all) /\ (a.i > Final(r, w) \/ a.room <= Reserve) /\ k <= all
    BY <1>3, <2>1, <2>2, LastPlace DEF Stopped
  <2>5. k = all \/ MaxCellLen * k >= first
    BY <1>3, <2>2, <2>3, <2>4
  <2>6. room >= MaxCellLen * all => k = all
    BY <1>3, <2>2, <2>3, <2>4
  <2>7. d * 0 = 0
    BY <1>3
  <2>8. k >= all - 1 \/ MaxCellLen * k >= first + d * 0
    BY <1>3, <2>5, <2>7
  <2> QED BY <2>2, <2>3, <2>6, <2>8
<1>5. ASSUME NEW x \in S PROVE Chunk(x, cells, r, w, len) \in S
  <2>1. PICK k \in Nat : Good(x, k, cells, old, r, w, X, D)
    OBVIOUS
  <2>2. PICK l \in Nat : Good(Chunk(x, cells, r, w, len), l, cells, old, r, w, X, D)
    BY <2>1, ChunkEnds
  <2> QED BY <2>2 DEF Good
<1>6. ASSUME NEW x, NEW n \in Nat, Far(x, n) PROVE Far(Chunk(x, cells, r, w, len), n + 1)
  <2> DEFINE y == Chunk(x, cells, r, w, len)
  <2>1. PICK k \in Nat : /\ Good(x, k, cells, old, r, w, X, D)
                         /\ k >= all - 1 \/ MaxCellLen * k >= first + d * n
                         /\ room >= MaxCellLen * all => k = all
    BY <1>6
  <2>a. Scene(h, w, r, cells, old, X, D) /\ len \in Int /\ y = Chunk(x, cells, r, w, len)
        /\ Good(x, k, cells, old, r, w, X, D)
    BY <2>1
  <2>b. \E l \in Nat : /\ Good(y, l, cells, old, r, w, X, D) /\ l >= k
                       /\ l >= Many(r) - 1 \/ MaxCellLen * l >= MaxCellLen * k + (len - Reserve)
                       /\ k = Many(r) => y = x
    <3> HIDE DEF y
    <3> QED BY ONLY <2>a, ChunkEnds
  <2>2. PICK l \in Nat : /\ Good(y, l, cells, old, r, w, X, D) /\ l >= k
                         /\ l >= all - 1 \/ MaxCellLen * l >= MaxCellLen * k + d
                         /\ k = all => y = x
    BY <1>3, <2>b DEF d
  <2> HIDE DEF y
  <2>3. d * (n + 1) = d * n + d /\ d * n \in Int
    BY <1>3
  <2>4. l >= all - 1 \/ MaxCellLen * l >= first + d * (n + 1)
    BY <1>3, <2>1, <2>2, <2>3
  <2>5. room >= MaxCellLen * all => l = all
    <3>1. l <= all
      BY <1>3, <2>2, LastPlace
    <3> QED BY <1>3, <2>1, <2>2, <3>1
  <2> QED BY <2>2, <2>4, <2>5 DEF y
<1>7. PICK s : ChunksBy(s, S, a, cells, r, w, len) /\ u = s[MaxChunks]
  <2> HIDE DEF S
  <2>1. Loop(start, cells, r, w) \in S
    BY <1>4
  <2>2. \A x \in S : Chunk(x, cells, r, w, len) \in S
    BY <1>5
  <2>3. u = Filled(cells, r, w, room, len)
    OBVIOUS
  <2> QED BY ONLY <1>1, <2>1, <2>2, <2>3, FilledIs
<1>8. s[1] = a /\ \A n \in 2..MaxChunks : s[n] = Chunk(s[n - 1], cells, r, w, len)
  BY <1>7 DEF ChunksBy
<1> HIDE DEF S, Far, a
<1>9. MaxChunks = 20
  BY DEF MaxChunks
<1> DEFINE U == {n \in Nat : n < MaxChunks => Far(s[n + 1], n)}
<1>10. 0 \in U
  BY <1>4, <1>8
<1>11. ASSUME NEW n \in U PROVE n + 1 \in U
  <2> SUFFICES ASSUME n + 1 < MaxChunks PROVE Far(s[n + 1 + 1], n + 1)
    OBVIOUS
  <2> DEFINE m == n + 1 + 1
  <2>1. n \in Nat /\ Far(s[n + 1], n) /\ m \in 2..MaxChunks /\ m - 1 = n + 1
    BY <1>9
  <2>2. s[m] = Chunk(s[n + 1], cells, r, w, len)
    <3> HIDE DEF m
    <3>1. s[m] = Chunk(s[m - 1], cells, r, w, len)
      BY <1>8, <2>1
    <3> QED BY <2>1, <3>1
  <2> QED BY <1>6, <2>1, <2>2
<1>12. U = Nat
  <2> HIDE DEF U
  <2>1. U \subseteq Nat
    BY DEF U
  <2> QED BY <1>10, <1>11, <2>1, SetInduction
<1>13. Far(u, MaxChunks - 1)
  <2>1. MaxChunks - 1 \in U /\ MaxChunks - 1 < MaxChunks /\ MaxChunks - 1 + 1 = MaxChunks
    BY <1>9, <1>12
  <2> QED BY <1>7, <2>1
<1> QED BY <1>3, <1>13 DEF Far, d, first, all

(* The screen old when cells have arrived in rectangle r.                  *)
AreCells(cells, h, w) == cells \in [0..(h * w - 1) -> Cells]
IsOver(old, h, w) == old = [p \in 0..(h * w - 1) |-> old[p]]
Over(old, cells, r, h, w) ==
  [p \in 0..(h * w - 1) |-> IF Inside(r, p, w) THEN Shown(cells[p]) ELSE old[p]]

(* The first k cells of the rectangle have arrived, k of them at least.    *)
Arrived(old, cells, r, h, w, room, len, k) ==
  LET got == Paint(old, Section(cells, r, w, room, len), w)  D == 0..(h * w - 1) IN
  /\ k \in Nat /\ k <= Many(r)
  /\ k >= Many(r) - 1
     \/ MaxCellLen * k >= (room - Reserve) + (len - Reserve) * (MaxChunks - 1)
  /\ room >= MaxCellLen * Many(r) => k = Many(r)
  /\ Filled(cells, r, w, room, len).i > Final(r, w) <=> k = Many(r)
  /\ got = [x \in D |-> got[x]]
  /\ \A x \in D : got[x] = IF \E m \in 0..(k - 1) : x = Place(r, m, w)
                           THEN Shown(cells[x]) ELSE old[x]

LEMMA SectionPaints ==
  ASSUME NEW h \in Nat \ {0}, NEW w \in Nat \ {0}, NEW cells, AreCells(cells, h, w),
         NEW r \in RectsOn(h, w), NEW room \in Int, NEW len \in Int, NEW old, IsOver(old, h, w)
  PROVE  \E k : Arrived(old, cells, r, h, w, room, len, k)
<1> DEFINE u == Filled(cells, r, w, room, len)  D == 0..(h * w - 1)
           got == Paint(old, Section(cells, r, w, room, len), w)
<1>0. /\ u = Filled(cells, r, w, room, len) /\ D = 0..(h * w - 1)
      /\ got = Paint(old, Section(cells, r, w, room, len), w)
  OBVIOUS
<1> HIDE DEF u, got, D
<1> DEFINE X == {old[q] : q \in D} \cup {Shown(c) : c \in PenSet}
<1>1. old \in [D -> X]
  BY <1>0 DEF IsOver
<1>2. NoCell \in PenSet
  BY DEF NoCell, PenSet, Byte, Attrs
<1>3. \A c \in PenSet : Shown(c) \in X
  OBVIOUS
<1> HIDE DEF X
<1>4. Ready(old, X, D)
  BY <1>1, <1>2, <1>3 DEF Ready, Painters
<1>5. Scene(h, w, r, cells, old, X, D)
  BY <1>0, <1>4 DEF Scene, AreCells
<1>6. PICK k \in Nat :
        /\ Good(u, k, cells, old, r, w, X, D)
        /\ k >= Many(r) - 1
           \/ MaxCellLen * k >= (room - Reserve) + (len - Reserve) * (MaxChunks - 1)
        /\ room >= MaxCellLen * Many(r) => k = Many(r)
  BY <1>0, <1>5, SectionEnds
<1>7. got = Seen(u, old, r, w).cells
  <2> DEFINE section == Section(cells, r, w, room, len)
  <2>1. section.tokens = u.out /\ section.rect = r
    BY <1>0 DEF Section
  <2> HIDE DEF section
  <2>2. got = Painted(old, section.tokens, section.rect, w).cells
    BY <1>0 DEF Paint, section
  <2> QED BY <2>1, <2>2 DEF Seen
<1>8. /\ got \in [D -> X]
      /\ \A x \in D : got[x] = IF \E m \in 0..(k - 1) : x = Place(r, m, w)
                               THEN Shown(cells[x]) ELSE old[x]
  BY <1>6, <1>7 DEF Good, Painters
<1>9. k <= Many(r) /\ (u.i > Final(r, w) <=> k = Many(r))
  BY <1>5, <1>6, LastPlace
<1>10. got = [x \in D |-> got[x]]
  BY <1>8
<1> QED BY <1>6, <1>8, <1>9, <1>10 DEF Arrived, u, got, D

(* A section that reached its last cell shows the cells of the rectangle.  *)
LEMMA SectionShows ==
  ASSUME NEW h \in Nat \ {0}, NEW w \in Nat \ {0}, NEW cells, AreCells(cells, h, w),
         NEW r \in RectsOn(h, w), NEW room \in Nat, NEW len \in Nat,
         NEW old, IsOver(old, h, w), Filled(cells, r, w, room, len).i > Final(r, w)
  PROVE  Paint(old, Section(cells, r, w, room, len), w) = Over(old, cells, r, h, w)
<1> DEFINE u == Filled(cells, r, w, room, len)  D == 0..(h * w - 1)
           got == Paint(old, Section(cells, r, w, room, len), w)
<1>1. /\ u = Filled(cells, r, w, room, len) /\ D = 0..(h * w - 1) /\ room \in Int /\ len \in Int
      /\ got = Paint(old, Section(cells, r, w, room, len), w) /\ u.i > Final(r, w)
  OBVIOUS
<1> HIDE DEF u, got, D
<1>2. PICK k : Arrived(old, cells, r, h, w, room, len, k)
  BY <1>1, SectionPaints
<1>3. /\ k \in Nat /\ (u.i > Final(r, w) <=> k = Many(r)) /\ got = [x \in D |-> got[x]]
      /\ \A x \in D : got[x] = IF \E m \in 0..(k - 1) : x = Place(r, m, w)
                               THEN Shown(cells[x]) ELSE old[x]
  BY <1>2 DEF Arrived, u, got, D
<1>4. k = Many(r)
  BY <1>1, <1>3
<1>5. ASSUME NEW x \in D PROVE Inside(r, x, w) <=> \E m \in 0..(k - 1) : x = Place(r, m, w)
  <2>1. ASSUME Inside(r, x, w) PROVE \E m \in 0..(k - 1) : x = Place(r, m, w)
    <3>1. x \in 0..(h * w - 1)
      BY <1>1
    <3>2. PICK m \in Nat : m < Many(r) /\ x = Place(r, m, w)
      BY <2>1, <3>1, PlaceAll
    <3> QED BY <1>3, <1>4, <3>2
  <2>2. ASSUME NEW m \in 0..(k - 1), x = Place(r, m, w) PROVE Inside(r, x, w)
    <3>1. m \in Nat /\ m < Many(r)
      BY <1>3, <1>4
    <3> QED BY <2>2, <3>1, PlaceInside
  <2> QED BY <2>1, <2>2
<1>6. got = [x \in D |-> IF Inside(r, x, w) THEN Shown(cells[x]) ELSE old[x]]
  BY <1>3, <1>5
<1> QED BY <1>1, <1>6 DEF Over, got

(* Buffers with room for a rectangle of the largest cells hold all cells   *)
(* but perhaps the last one; a first one with that room, all of them.      *)
LEMMA SectionKeeps ==
  ASSUME NEW h \in Nat \ {0}, NEW w \in Nat \ {0}, NEW cells, AreCells(cells, h, w),
         NEW r \in RectsOn(h, w), NEW len \in Int,
         MaxCellLen * (h * w) <= MaxChunks * (len - Reserve),
         NEW old, IsOver(old, h, w),
         NEW p \in 0..(h * w - 1), p # Final(r, w)
  PROVE  Paint(old, Section(cells, r, w, len, len), w)[p] =
           IF Inside(r, p, w) THEN Shown(cells[p]) ELSE old[p]
<1> DEFINE u == Filled(cells, r, w, len, len)  D == 0..(h * w - 1)  d == len - Reserve
           got == Paint(old, Section(cells, r, w, len, len), w)  n == h * w
<1>1. /\ u = Filled(cells, r, w, len, len) /\ D = 0..(h * w - 1)
      /\ got = Paint(old, Section(cells, r, w, len, len), w)
  OBVIOUS
<1> HIDE DEF u, got, D
<1>a. PICK k : Arrived(old, cells, r, h, w, len, len, k)
  BY <1>1, SectionPaints
<1>2. /\ k >= Many(r) - 1
         \/ MaxCellLen * k >= (len - Reserve) + (len - Reserve) * (MaxChunks - 1)
      /\ k <= Many(r) /\ k \in Nat
      /\ \A x \in D : got[x] = IF \E m \in 0..(k - 1) : x = Place(r, m, w)
                               THEN Shown(cells[x]) ELSE old[x]
  BY <1>a DEF Arrived, got, D
<1>3. Many(r) \in Nat /\ Many(r) <= n /\ n \in Nat /\ d \in Int /\ MaxCellLen * n <= MaxChunks * d
  BY RectIs DEF Reserve
<1>4. k >= Many(r) - 1
  <2>1. k >= Many(r) - 1 \/ MaxCellLen * k >= d + d * (MaxChunks - 1)
    BY <1>2
  <2> HIDE DEF n, d
  <2>2. d + d * (MaxChunks - 1) = MaxChunks * d
    BY <1>3 DEF MaxChunks
  <2> QED BY <1>2, <1>3, <2>1, <2>2 DEF MaxCellLen, MaxChunks
<1> HIDE DEF n, d
<1>5. Inside(r, p, w) <=> \E m \in 0..(k - 1) : p = Place(r, m, w)
  <2>1. ASSUME Inside(r, p, w) PROVE \E m \in 0..(k - 1) : p = Place(r, m, w)
    <3>1. PICK m \in Nat : m < Many(r) /\ p = Place(r, m, w)
      BY <2>1, PlaceAll
    <3>2. m + 1 # Many(r)
      BY <3>1, PlaceFinal
    <3> QED BY <1>2, <1>3, <1>4, <3>1, <3>2
  <2>2. ASSUME NEW m \in 0..(k - 1), p = Place(r, m, w) PROVE Inside(r, p, w)
    <3>1. m \in Nat /\ m < Many(r)
      BY <1>2, <1>3
    <3> QED BY <2>2, <3>1, PlaceInside
  <2> QED BY <2>1, <2>2
<1>6. p \in D
  BY <1>1
<1> QED BY <1>2, <1>5, <1>6 DEF got

-----------------------------------------------------------------------------
(* Screens, changed in one of their parts.                                 *)

Line == [0..(Rows - 1) -> {0, 1}]
Cursors(s) == [y : 0..(s.h - 1), x : 0..(s.w - 1), hang : BOOLEAN]

LEMMA ScreenIs ==
  ASSUME NEW s, IsScreen(s)
  PROVE  /\ s.h \in Nat \ {0} /\ s.w \in Nat \ {0} /\ s.h <= Rows /\ Rows \in Nat
         /\ s.cells \in [0..(s.h * s.w - 1) -> Cells] /\ s.cur \in Cursors(s)
         /\ s.text \in [Fields -> {0, 1}] /\ s.line \in Line
         /\ s.top \in 0..(s.h - 1) /\ s.btm \in 0..(s.h - 1) /\ s.top <= s.btm
         /\ s.cur.y \in 0..(s.h - 1) /\ s.cur.x \in 0..(s.w - 1) /\ s.cur.hang \in BOOLEAN
BY DisplayAssumption, RowsReachDown DEF IsScreen, Line, Cursors

LEMMA CellOn ==
  ASSUME NEW s, IsScreen(s), NEW y \in 0..(s.h - 1), NEW x \in 0..(s.w - 1),
         NEW p, p = At(s, y, x)
  PROVE  p \in 0..(s.h * s.w - 1) /\ p \div s.w = y /\ p % s.w = x
<1> DEFINE h == s.h  w == s.w
<1>1. h \in Nat \ {0} /\ w \in Nat \ {0} /\ y \in 0..(h - 1) /\ x \in 0..(w - 1)
  BY ScreenIs
<1>2. p = y * w + x
  BY DEF At
<1> HIDE DEF h, w
<1>3. p \in 0..(h * w - 1) /\ p \div w = y /\ p % w = x
  BY <1>1, <1>2, CellAt
<1> QED BY <1>3 DEF h, w

LEMMA WithCells ==
  ASSUME NEW s, IsScreen(s), NEW c \in [0..(s.h * s.w - 1) -> Cells]
  PROVE  LET u == [s EXCEPT !.cells = c] IN
         /\ IsScreen(u) /\ u.h = s.h /\ u.w = s.w /\ u.cells = c /\ u.cur = s.cur
         /\ u.text = s.text /\ u.line = s.line /\ u.top = s.top /\ u.btm = s.btm
BY DEF IsScreen

LEMMA WithLine ==
  ASSUME NEW s, IsScreen(s), NEW l \in Line
  PROVE  LET u == [s EXCEPT !.line = l] IN
         /\ IsScreen(u) /\ u.h = s.h /\ u.w = s.w /\ u.cells = s.cells /\ u.cur = s.cur
         /\ u.text = s.text /\ u.line = l /\ u.top = s.top /\ u.btm = s.btm
BY DEF IsScreen, Line

LEMMA WithCursor ==
  ASSUME NEW s, IsScreen(s), NEW c \in Cursors(s)
  PROVE  LET u == [s EXCEPT !.cur = c] IN
         /\ IsScreen(u) /\ u.h = s.h /\ u.w = s.w /\ u.cells = s.cells /\ u.cur = c
         /\ u.text = s.text /\ u.line = s.line /\ u.top = s.top /\ u.btm = s.btm
BY DEF IsScreen, Cursors

LEMMA SampleIsCell == ASSUME NEW pen \in Cells PROVE Sample(pen) \in Cells
<1>1. Blank.sym = "space" /\ "space" \in Glyphs
  BY GlyphAssumption DEF Blank, NoCell, Ascii
<1>2. Sample(pen) = [pen EXCEPT !.sym = "space", !.attrs = pen.attrs \cap {"fg", "bg"}]
  BY <1>1 DEF Sample
<1>3. pen \in [sym : Glyphs, fg : 0..255, bg : 0..255, attrs : SUBSET DOMAIN AttrBit]
  BY DEF Cells
<1> DEFINE u == [pen EXCEPT !.sym = "space", !.attrs = pen.attrs \cap {"fg", "bg"}]
<1>4. u \in [sym : Glyphs, fg : 0..255, bg : 0..255, attrs : SUBSET DOMAIN AttrBit]
  BY <1>1, <1>3
<1>5. u.fg = pen.fg /\ u.bg = pen.bg /\ u.attrs = pen.attrs \cap {"fg", "bg"}
  BY <1>3
<1> QED BY <1>2, <1>4, <1>5, ZenonT(60) DEF Cells

(* What the operations leave alone.                                        *)
Around(u, s) ==
  /\ IsScreen(u) /\ u.h = s.h /\ u.w = s.w /\ u.cur = s.cur /\ u.text = s.text
  /\ u.top = s.top /\ u.btm = s.btm

LEMMA FillIs ==
  ASSUME NEW s, IsScreen(s), NEW pen \in Cells, NEW from, NEW to,
         NEW u, u = Fill(s, from, to, pen)
  PROVE  /\ Around(u, s) /\ u.line = s.line
         /\ \A p \in 0..(s.h * s.w - 1) : p \notin from..to => u.cells[p] = s.cells[p]
<1> DEFINE c == [p \in DOMAIN s.cells |-> IF p \in from..to THEN Sample(pen) ELSE s.cells[p]]
<1>1. s.cells \in [0..(s.h * s.w - 1) -> Cells] /\ Sample(pen) \in Cells
  BY ScreenIs, SampleIsCell
<1>2. c \in [0..(s.h * s.w - 1) -> Cells]
  BY <1>1
<1>3. u = [s EXCEPT !.cells = c]
  BY DEF Fill
<1>4. Around(u, s) /\ u.line = s.line /\ u.cells = c
  <2> HIDE DEF c
  <2> QED BY <1>2, <1>3, WithCells DEF Around
<1> QED BY <1>1, <1>4

LEMMA NoAttrsIs ==
  ASSUME NEW s, IsScreen(s), NEW y0, NEW y1, NEW u, u = NoAttrs(s, y0, y1)
  PROVE  Around(u, s) /\ u.cells = s.cells
<1> DEFINE l == [y \in DOMAIN s.line |-> IF y \in y0..y1 THEN 0 ELSE s.line[y]]
<1>1. s.line \in Line
  BY ScreenIs
<1>2. l \in Line
  BY <1>1 DEF Line
<1>3. u = [s EXCEPT !.line = l]
  BY DEF NoAttrs
<1>4. Around(u, s) /\ u.cells = s.cells
  <2> HIDE DEF l
  <2> QED BY <1>2, <1>3, WithLine DEF Around
<1> QED BY <1>4

LEMMA RowsMovedIs ==
  ASSUME NEW s, IsScreen(s), NEW pen \in Cells, NEW y0 \in 0..(s.h - 1),
         NEW y1 \in 0..(s.h - 1), NEW n \in Int, NEW u, u = RowsMoved(s, y0, y1, n, pen)
  PROVE  /\ Around(u, s)
         /\ \A p \in 0..(s.h * s.w - 1) : p \div s.w \notin y0..y1 => u.cells[p] = s.cells[p]
<1> DEFINE in(y) == y + n \in y0..y1
           c == [p \in DOMAIN s.cells |->
                   IF p \div s.w \notin y0..y1 THEN s.cells[p]
                   ELSE IF in(p \div s.w) THEN s.cells[p + n * s.w] ELSE Sample(pen)]
           l == [y \in DOMAIN s.line |->
                   IF y \notin y0..y1 THEN s.line[y] ELSE IF in(y) THEN s.line[y + n] ELSE 0]
<1>0. s.h \in Nat \ {0} /\ s.w \in Nat \ {0} /\ s.h <= Rows /\ Rows \in Nat
  BY ScreenIs
<1>1. s.cells \in [0..(s.h * s.w - 1) -> Cells] /\ Sample(pen) \in Cells /\ s.line \in Line
  BY ScreenIs, SampleIsCell
<1>2. ASSUME NEW p \in 0..(s.h * s.w - 1), in(p \div s.w)
      PROVE  p + n * s.w \in 0..(s.h * s.w - 1)
  <2> DEFINE y == p \div s.w  x == p % s.w
  <2>1. y \in 0..(s.h - 1) /\ x \in 0..(s.w - 1) /\ p = y * s.w + x
    BY <1>0, RowAndColumn
  <2>2. y + n \in 0..(s.h - 1)
    BY <1>2, <1>0
  <2>3. (y + n) * s.w + x \in 0..(s.h * s.w - 1)
    BY <1>0, <2>1, <2>2, CellAt
  <2>4. (y + n) * s.w = y * s.w + n * s.w
    BY <1>0, <2>1
  <2>5. p + n * s.w = (y + n) * s.w + x
    BY <1>0, <2>1, <2>4
  <2> QED BY <2>3, <2>5
<1>3. c \in [0..(s.h * s.w - 1) -> Cells]
  <2>1. ASSUME NEW p \in 0..(s.h * s.w - 1) PROVE c[p] \in Cells
    BY <1>1, <1>2
  <2> QED BY <1>1, <2>1
<1>4. l \in Line
  <2>1. \A y \in y0..y1 : in(y) => y + n \in 0..(Rows - 1)
    BY <1>0
  <2> QED BY <1>1, <2>1 DEF Line
<1>5. u = [[s EXCEPT !.cells = c] EXCEPT !.line = l]
  BY DEF RowsMoved
<1>6. Around(u, s) /\ u.cells = c
  <2> HIDE DEF c, l
  <2> DEFINE t == [s EXCEPT !.cells = c]
  <2>1. IsScreen(t) /\ Around(t, s) /\ t.cells = c
    BY <1>3, WithCells DEF Around
  <2> HIDE DEF t
  <2>2. u = [t EXCEPT !.line = l]
    BY <1>5 DEF t
  <2>3. Around(u, t) /\ u.cells = t.cells
    BY <1>4, <2>1, <2>2, WithLine DEF Around
  <2> QED BY <2>1, <2>3 DEF Around
<1> QED BY <1>1, <1>6

LEMMA CharsMovedIs ==
  ASSUME NEW s, IsScreen(s), NEW pen \in Cells, NEW n \in Int,
         NEW u, u = CharsMoved(s, n, pen)
  PROVE  /\ Around(u, s) /\ u.line = s.line
         /\ \A p \in 0..(s.h * s.w - 1) :
              p \notin At(s, s.cur.y, s.cur.x)..At(s, s.cur.y, s.w - 1) =>
                u.cells[p] = s.cells[p]
<1> DEFINE from == At(s, s.cur.y, s.cur.x)  to == At(s, s.cur.y, s.w - 1)
           c == [p \in DOMAIN s.cells |->
                   IF p \notin from..to THEN s.cells[p]
                   ELSE IF p + n \in from..to THEN s.cells[p + n] ELSE Sample(pen)]
<1>0. /\ s.h \in Nat \ {0} /\ s.w \in Nat \ {0}
      /\ s.cur.y \in 0..(s.h - 1) /\ s.cur.x \in 0..(s.w - 1) /\ s.w - 1 \in 0..(s.w - 1)
  BY ScreenIs
<1>1. s.cells \in [0..(s.h * s.w - 1) -> Cells] /\ Sample(pen) \in Cells
  BY ScreenIs, SampleIsCell
<1>2. from \in 0..(s.h * s.w - 1) /\ to \in 0..(s.h * s.w - 1)
  BY <1>0, CellAt DEF At
<1>3. u = [s EXCEPT !.cells = c]
  BY DEF CharsMoved
<1> HIDE DEF from, to
<1>4. c \in [0..(s.h * s.w - 1) -> Cells]
  <2>1. ASSUME NEW p \in 0..(s.h * s.w - 1) PROVE c[p] \in Cells
    <3> DEFINE m == s.h * s.w - 1
    <3>1. m \in Int /\ from \in 0..m /\ to \in 0..m /\ p \in 0..m
      BY <1>0, <1>2
    <3> HIDE DEF m
    <3>2. p + n \in from..to => p + n \in 0..m
      BY <3>1
    <3> QED BY <1>1, <3>2 DEF m
  <2> QED BY <1>1, <2>1
<1>5. Around(u, s) /\ u.line = s.line /\ u.cells = c
  <2> HIDE DEF c
  <2> QED BY <1>3, <1>4, WithCells DEF Around
<1>6. \A p \in 0..(s.h * s.w - 1) : p \notin from..to => u.cells[p] = s.cells[p]
  BY <1>1, <1>5
<1> QED BY <1>5, <1>6 DEF from, to

-----------------------------------------------------------------------------
(* What a browser is told.                                                 *)

Rectangle == [y0 : Int, y1 : Int, x0 : Int, x1 : Int]
Fits(d, s) == d.y0 >= 0 /\ d.x0 >= 0 /\ d.y1 <= s.h - 1 /\ d.x1 <= s.w - 1

(* The last cell of the section is sent as well, if there is a section: it  *)
(* is not when the last buffer is full just before that cell.              *)
SectionArrives(s, d, ts) ==
  ts \cap Content # {} =>
    Filled(s.cells, Rect(s, d, ts), s.w, Room(s, ts), BufLen).i > Final(Rect(s, d, ts), s.w)

Loading == TOPIC_INITIAL \cup {"noclean"}
SectionsArrive == SectionArrives(scr, dirty, pending) /\ SectionArrives(scr, dirty, Loading)

IsView(v) ==
  /\ v = [h |-> v.h, w |-> v.w, cells |-> v.cells, text |-> v.text, line |-> v.line,
          cur |-> v.cur]
  /\ v.cells = [p \in 0..(v.h * v.w - 1) |-> v.cells[p]]
  /\ v.text = [f \in Fields |-> v.text[f]]

(* What view v does not show of screen s is to be told, in topics ts and   *)
(* rectangle d.                                                            *)
Follows(v, s, d, ts) ==
  /\ IsView(v)
  /\ <<v.h, v.w>> = <<s.h, s.w>> \/ {"opts", "all"} \subseteq ts
  /\ \A f \in Fields : f \in ts \/ v.text[f] = s.text[f]
  /\ "double" \in ts \/ v.line = s.line
  /\ "cursor" \in ts \/ v.cur = s.cur
  /\ \/ "all" \in ts
     \/ \A p \in 0..(s.h * s.w - 1) :
          v.cells[p] = Shown(s.cells[p]) \/ ("part" \in ts /\ Inside(d, p, s.w))

LEMMA RectIsOn ==
  ASSUME NEW s, IsScreen(s), NEW d \in Rectangle, NEW ts, Fits(d, s) \/ "all" \in ts
  PROVE  /\ Rect(s, d, ts) \in RectsOn(s.h, s.w)
         /\ \A p \in 0..(s.h * s.w - 1) :
              Inside(d, p, s.w) \/ "all" \in ts => Inside(Rect(s, d, ts), p, s.w)
<1>1. s.h \in Nat \ {0} /\ s.w \in Nat \ {0}
  BY ScreenIs
<1>2. /\ WholeScreen(s.h, s.w) \in RectsOn(s.h, s.w)
      /\ \A p \in 0..(s.h * s.w - 1) : Inside(WholeScreen(s.h, s.w), p, s.w)
  <2>1. WholeScreen(s.h, s.w) = [y0 |-> 0, y1 |-> s.h - 1, x0 |-> 0, x1 |-> s.w - 1]
    BY DEF WholeScreen
  <2>2. \A p \in 0..(s.h * s.w - 1) : Inside(WholeScreen(s.h, s.w), p, s.w)
    <3> SUFFICES ASSUME NEW p \in 0..(s.h * s.w - 1)
                 PROVE  Inside(WholeScreen(s.h, s.w), p, s.w)
      OBVIOUS
    <3>1. p \div s.w \in 0..(s.h - 1) /\ p % s.w \in 0..(s.w - 1)
      BY <1>1, RowAndColumn
    <3> QED BY <2>1, <3>1 DEF Inside
  <2>3. WholeScreen(s.h, s.w) \in RectsOn(s.h, s.w)
    BY <1>1, <2>1 DEF RectsOn, BadBounds
  <2> QED BY <2>2, <2>3
<1>3. ASSUME ~BadBounds(d), Fits(d, s) PROVE d \in RectsOn(s.h, s.w)
  BY <1>1, <1>3 DEF RectsOn, BadBounds, Fits, Rectangle
<1> QED BY <1>2, <1>3 DEF Rect

LEMMA RoomIs ==
  ASSUME NEW s, IsScreen(s), NEW ts
  PROVE  Room(s, ts) \in Nat
<1> DEFINE k == <<s.text, s.line, ts \cap HeadTopics>>
<1>1. k \in HeadKinds
  BY ScreenIs DEF HeadKinds, Line
<1> HIDE DEF k
<1>2. Before[k] \in 0..BufLen /\ BufLen \in Nat
  BY <1>1, DisplayAssumption
<1> QED BY <1>2 DEF Room, k

LEMMA ResizedIs ==
  ASSUME NEW v, NEW s, NEW d, NEW ts, Follows(v, s, d, ts), IsScreen(s),
         NEW u, u = Resized(v, Message(s, d, ts))
  PROVE  /\ IsView(u) /\ u.h = s.h /\ u.w = s.w /\ Follows(u, s, d, ts)
<1> DEFINE m == Message(s, d, ts)
           c == [p \in 0..(s.h * s.w - 1) |-> Blank]
<1>1. m.topics = ts /\ m.h = s.h /\ m.w = s.w
  BY DEF Message
<1> HIDE DEF m
<1>2. CASE <<v.h, v.w>> = <<s.h, s.w>>
  BY <1>1, <1>2 DEF Follows, Resized, m
<1>3. CASE <<v.h, v.w>> # <<s.h, s.w>>
  <2>1. {"opts", "all"} \subseteq ts
    BY <1>3 DEF Follows
  <2>2. u = [v EXCEPT !.h = s.h, !.w = s.w, !.cells = c]
    BY <1>1, <1>3, <2>1 DEF Resized, m
  <2>3. /\ v = [h |-> v.h, w |-> v.w, cells |-> v.cells, text |-> v.text, line |-> v.line,
                cur |-> v.cur]
        /\ v.text = [f \in Fields |-> v.text[f]]
    BY DEF Follows, IsView
  <2>4. u = [h |-> s.h, w |-> s.w, cells |-> c, text |-> v.text, line |-> v.line,
             cur |-> v.cur]
    <3> HIDE DEF c
    <3> QED BY <2>2, <2>3
  <2>5. /\ u.h = s.h /\ u.w = s.w /\ u.text = v.text /\ u.line = v.line /\ u.cur = v.cur
        /\ u.cells = c
    <3> HIDE DEF c
    <3> QED BY <2>4
  <2>6. u.cells = [p \in 0..(u.h * u.w - 1) |-> u.cells[p]]
    BY <2>5
  <2>7. IsView(u)
    <3> HIDE DEF c
    <3> QED BY <2>3, <2>4, <2>5, <2>6 DEF IsView
  <2> QED BY <2>1, <2>5, <2>7 DEF Follows
<1> QED BY <1>2, <1>3

LEMMA Shows ==
  ASSUME NEW s, IsScreen(s), NEW d \in Rectangle, NEW ts, SectionArrives(s, d, ts), NEW v,
         Follows(v, s, d, ts), Fits(d, s) \/ "all" \in ts
  PROVE  Received(v, Message(s, d, ts)) = Picture(s)
<1> DEFINE m == Message(s, d, ts)  u == Resized(v, m)  r == Rect(s, d, ts)
           n == Received(v, m)
<1>0. s.h \in Nat \ {0} /\ s.w \in Nat \ {0} /\ s.cells \in [0..(s.h * s.w - 1) -> Cells]
      /\ s.text \in [Fields -> {0, 1}] /\ <<s.h, s.w>> \in Sizes
  BY ScreenIs DEF IsScreen
<1>1. IsView(u) /\ u.h = s.h /\ u.w = s.w /\ Follows(u, s, d, ts)
  BY ResizedIs
<1>2. /\ m.topics = ts /\ m.text = s.text /\ m.line = s.line /\ m.cur = s.cur
      /\ m.section = Section(s.cells, r, s.w, Room(s, ts), BufLen)
  BY DEF Message
<1> HIDE DEF m, u
<1> DEFINE text == [f \in Fields |-> IF f \in ts THEN s.text[f] ELSE u.text[f]]
           line == IF "double" \in ts THEN s.line ELSE u.line
           cur == IF "cursor" \in ts THEN s.cur ELSE u.cur
           cells == IF ts \cap Content # {} THEN Paint(u.cells, m.section, u.w) ELSE u.cells
           shown == [p \in 0..(s.h * s.w - 1) |-> Shown(s.cells[p])]
<1>3. n = [u EXCEPT !.text = text, !.line = line, !.cur = cur, !.cells = cells]
  BY <1>2 DEF Received, u
<1>4. text = s.text /\ line = s.line /\ cur = s.cur
  BY <1>0, <1>1 DEF Follows
<1>5. cells = shown
  <2>1. u.cells = [p \in 0..(s.h * s.w - 1) |-> u.cells[p]]
    BY <1>1 DEF IsView
  <2>2. CASE ts \cap Content = {}
    <3>1. \A p \in 0..(s.h * s.w - 1) : u.cells[p] = Shown(s.cells[p])
      BY <1>1, <2>2 DEF Follows, Content
    <3> QED BY <2>1, <2>2, <3>1
  <2>3. CASE ts \cap Content # {}
    <3>1. r \in RectsOn(s.h, s.w)
          /\ \A p \in 0..(s.h * s.w - 1) : Inside(d, p, s.w) \/ "all" \in ts => Inside(r, p, s.w)
      BY RectIsOn
    <3>2. Filled(s.cells, r, s.w, Room(s, ts), BufLen).i > Final(r, s.w)
      BY <2>3 DEF SectionArrives
    <3>3. Room(s, ts) \in Nat /\ BufLen \in Nat
      BY RoomIs, DisplayAssumption
    <3> HIDE DEF r
    <3>4. cells = [p \in 0..(s.h * s.w - 1) |->
                     IF Inside(r, p, s.w) THEN Shown(s.cells[p]) ELSE u.cells[p]]
      <4> DEFINE room == Room(s, ts)
      <4>1. IsOver(u.cells, s.h, s.w) /\ room \in Nat
            /\ Filled(s.cells, r, s.w, room, BufLen).i > Final(r, s.w)
        BY <2>1, <3>2, <3>3 DEF IsOver
      <4> HIDE DEF room
      <4>2. Paint(u.cells, Section(s.cells, r, s.w, room, BufLen), s.w) =
              Over(u.cells, s.cells, r, s.h, s.w)
        <5>1. AreCells(s.cells, s.h, s.w)
          BY <1>0 DEF AreCells
        <5> QED BY <1>0, <3>1, <3>3, <4>1, <5>1, SectionShows
      <4> QED BY <1>1, <1>2, <2>3, <4>2 DEF room, Over
    <3>5. \A p \in 0..(s.h * s.w - 1) : Inside(r, p, s.w) \/ u.cells[p] = Shown(s.cells[p])
      BY <1>1, <3>1 DEF Follows
    <3> QED BY <3>4, <3>5
  <2> QED BY <2>2, <2>3
<1>6. Picture(s) = [h |-> s.h, w |-> s.w, cells |-> shown, text |-> s.text, line |-> s.line,
                    cur |-> s.cur]
  BY <1>0 DEF Picture
<1>7. u = [h |-> s.h, w |-> s.w, cells |-> u.cells, text |-> u.text, line |-> u.line,
           cur |-> u.cur]
  BY <1>1 DEF IsView
<1> HIDE DEF text, line, cur, cells, shown, n
<1> DEFINE u1 == [u EXCEPT !.text = text]  u2 == [u1 EXCEPT !.line = line]
           u3 == [u2 EXCEPT !.cur = cur]
<1>8. u1 = [h |-> s.h, w |-> s.w, cells |-> u.cells, text |-> text, line |-> u.line,
            cur |-> u.cur]
  BY <1>7
<1>9. u2 = [h |-> s.h, w |-> s.w, cells |-> u.cells, text |-> text, line |-> line,
            cur |-> u.cur]
  <2> HIDE DEF u1
  <2> QED BY <1>8
<1>10. u3 = [h |-> s.h, w |-> s.w, cells |-> u.cells, text |-> text, line |-> line,
             cur |-> cur]
  <2> HIDE DEF u2
  <2> QED BY <1>9
<1>11. n = [u3 EXCEPT !.cells = cells]
  BY <1>3
<1>12. n = Picture(s)
  <2> HIDE DEF u3
  <2> QED BY <1>4, <1>5, <1>6, <1>10, <1>11
<1> QED BY <1>12 DEF n, m

-----------------------------------------------------------------------------
(* The operations of the host raise what they change.                      *)

Typed ==
  /\ IsScreen(scr) /\ dirty \in Rectangle
  /\ view = [c \in Clients |-> view[c]]
  /\ client \in [Clients -> [is : {"off", "open", "loaded"}, came : Nat]]

Inv ==
  /\ Typed
  /\ Fits(dirty, scr) \/ "all" \in pending
  /\ "noclean" \notin pending
  /\ \A c \in Loaded : Follows(view[c], scr, dirty, pending)

(* That the screen becomes s is told, if d is dirty then and ts raised.    *)
Tells(s, d, ts) ==
  /\ IsScreen(s) /\ d \in Rectangle
  /\ \/ <<s.h, s.w>> = <<scr.h, scr.w>>
     \/ {"opts", "all"} \subseteq ts /\ Active # {}
  /\ \A f \in Fields : f \in ts \/ s.text[f] = scr.text[f]
  /\ "double" \in ts \/ s.line = scr.line
  /\ "cursor" \in ts \/ s.cur = scr.cur
  /\ \/ "all" \in ts
     \/ \A p \in 0..(scr.h * scr.w - 1) :
          s.cells[p] = scr.cells[p] \/ ("part" \in ts /\ Inside(d, p, scr.w))
  /\ \A p : Inside(dirty, p, scr.w) => Inside(d, p, scr.w)
  /\ Fits(dirty, scr) => Fits(d, s) \/ ("all" \in ts /\ Active # {})
  /\ "noclean" \notin ts

Told == \E s, d, ts : Done(s, d, ts) /\ Tells(s, d, ts)

LEMMA FollowsOn ==
  ASSUME NEW v, NEW s, NEW d, NEW ts, Tells(s, d, ts), Follows(v, scr, dirty, pending)
  PROVE  Follows(v, s, d, pending \cup ts)
<1> DEFINE n == pending \cup ts
<1>1. IsView(v)
  BY DEF Follows
<1>2. <<v.h, v.w>> = <<s.h, s.w>> \/ {"opts", "all"} \subseteq n
  BY DEF Follows, Tells
<1>3. \A f \in Fields : f \in n \/ v.text[f] = s.text[f]
  BY DEF Follows, Tells
<1>4. ("double" \in n \/ v.line = s.line) /\ ("cursor" \in n \/ v.cur = s.cur)
  BY DEF Follows, Tells
<1>5. ASSUME "all" \notin n
      PROVE  \A p \in 0..(s.h * s.w - 1) :
               v.cells[p] = Shown(s.cells[p]) \/ ("part" \in n /\ Inside(d, p, s.w))
  <2>1. s.h = scr.h /\ s.w = scr.w
    BY <1>5 DEF Tells
  <2>2. \A p \in 0..(scr.h * scr.w - 1) :
          /\ v.cells[p] = Shown(scr.cells[p]) \/ ("part" \in pending /\ Inside(dirty, p, scr.w))
          /\ s.cells[p] = scr.cells[p] \/ ("part" \in ts /\ Inside(d, p, scr.w))
          /\ Inside(dirty, p, scr.w) => Inside(d, p, scr.w)
    BY <1>5 DEF Follows, Tells
  <2> QED BY <2>1, <2>2
<1> QED BY <1>1, <1>2, <1>3, <1>4, <1>5 DEF Follows

LEMMA ToldKeeps == ASSUME Inv, Told PROVE Inv'
<1> PICK s, d, ts : Done(s, d, ts) /\ Tells(s, d, ts)
  BY DEF Told
<1>1. scr' = s /\ dirty' = d /\ client' = client /\ view' = view
  BY DEF Done, clientvars
<1>2. Typed'
  BY <1>1 DEF Inv, Typed, Tells
<1>3. CASE Active = {}
  <2>1. pending' = pending /\ Loaded = {} /\ Loaded' = {}
    BY <1>1, <1>3 DEF Done, Notify, Active, Loaded, Inv, Typed
  <2>2. Fits(dirty, scr) => Fits(d, s)
    BY <1>3 DEF Tells
  <2>3. Fits(dirty, scr)' <=> Fits(d, s)
    BY <1>1 DEF Fits
  <2> QED BY <1>2, <2>1, <2>2, <2>3 DEF Inv
<1>4. CASE Active # {}
  <2>1. pending' = pending \cup ts
    BY <1>4 DEF Done, Notify
  <2>2. Loaded' = Loaded
    BY <1>1 DEF Loaded
  <2>3. ASSUME NEW c \in Loaded PROVE Follows(view[c], s, d, pending \cup ts)
    BY <2>3, FollowsOn DEF Inv
  <2>4. (Fits(d, s) \/ "all" \in pending \cup ts) /\ "noclean" \notin pending \cup ts
    BY DEF Inv, Tells
  <2>5. \A c \in Loaded' : Follows(view[c], scr, dirty, pending)'
    BY <1>1, <2>1, <2>2, <2>3 DEF Follows, Inside, IsView
  <2>6. (Fits(dirty, scr) \/ "all" \in pending)' /\ "noclean" \notin pending'
    BY <1>1, <2>1, <2>4 DEF Fits
  <2> QED BY <1>2, <2>5, <2>6 DEF Inv
<1> QED BY <1>3, <1>4

(* A rectangle e with all of d and rows y0..y1, columns x0..x1 in it.      *)
Covers(e, d, s, y0, y1, x0, x1) ==
  /\ e \in Rectangle
  /\ Fits(d, s) => Fits(e, s)
  /\ \A p : Inside(d, p, s.w) => Inside(e, p, s.w)
  /\ \A p \in 0..(s.h * s.w - 1) :
       p \div s.w \in y0..y1 /\ p % s.w \in x0..x1 => Inside(e, p, s.w)

LEMMA ExpandIs ==
  ASSUME NEW s, IsScreen(s), NEW d \in Rectangle, NEW y0 \in 0..(s.h - 1),
         NEW y1 \in 0..(s.h - 1), NEW x0 \in 0..(s.w - 1), NEW x1 \in 0..(s.w - 1),
         NEW e, e = Expand(d, y0, y1, x0, x1)
  PROVE  Covers(e, d, s, y0, y1, x0, x1)
<1>1. s.h \in Nat \ {0} /\ s.w \in Nat \ {0}
  BY ScreenIs
<1>2. e \in Rectangle
  BY <1>1 DEF Expand, Lower, Upper, Rectangle
<1>3. /\ e.y0 <= d.y0 /\ e.y0 <= y0 /\ (e.y0 = d.y0 \/ e.y0 = y0)
      /\ e.x0 <= d.x0 /\ e.x0 <= x0 /\ (e.x0 = d.x0 \/ e.x0 = x0)
      /\ e.y1 >= d.y1 /\ e.y1 >= y1 /\ (e.y1 = d.y1 \/ e.y1 = y1)
      /\ e.x1 >= d.x1 /\ e.x1 >= x1 /\ (e.x1 = d.x1 \/ e.x1 = x1)
  BY <1>1 DEF Expand, Lower, Upper, Rectangle
<1>4. d.y0 \in Int /\ d.y1 \in Int /\ d.x0 \in Int /\ d.x1 \in Int
      /\ e.y0 \in Int /\ e.y1 \in Int /\ e.x0 \in Int /\ e.x1 \in Int
  BY <1>2 DEF Rectangle
<1>5. Fits(d, s) => Fits(e, s)
  BY <1>1, <1>3, <1>4 DEF Fits
<1>6. \A p : Inside(d, p, s.w) => Inside(e, p, s.w)
  <2>1. d.y0..d.y1 \subseteq e.y0..e.y1 /\ d.x0..d.x1 \subseteq e.x0..e.x1
    BY <1>3, <1>4
  <2> QED BY <2>1 DEF Inside
<1>7. \A p : p \div s.w \in y0..y1 /\ p % s.w \in x0..x1 => Inside(e, p, s.w)
  <2>1. y0..y1 \subseteq e.y0..e.y1 /\ x0..x1 \subseteq e.x0..e.x1
    BY <1>1, <1>3, <1>4
  <2> QED BY <2>1 DEF Inside
<1> QED BY <1>2, <1>5, <1>6, <1>7 DEF Covers

(* Cells are changed in a rectangle that gets dirty.                       *)
LEMMA ExpandTells ==
  ASSUME Typed, NEW s, IsScreen(s), s.h = scr.h, s.w = scr.w, s.text = scr.text,
         NEW ts, "part" \in ts, "noclean" \notin ts, "double" \in ts \/ s.line = scr.line,
         "cursor" \in ts \/ s.cur = scr.cur,
         NEW y0 \in 0..(scr.h - 1), NEW y1 \in 0..(scr.h - 1),
         NEW x0 \in 0..(scr.w - 1), NEW x1 \in 0..(scr.w - 1),
         \A p \in 0..(scr.h * scr.w - 1) :
           s.cells[p] = scr.cells[p] \/ (p \div scr.w \in y0..y1 /\ p % scr.w \in x0..x1)
  PROVE  Tells(s, Expand(dirty, y0, y1, x0, x1), ts)
<1> DEFINE e == Expand(dirty, y0, y1, x0, x1)
<1>0. e = Expand(dirty, y0, y1, x0, x1) /\ IsScreen(scr) /\ dirty \in Rectangle
  BY DEF Typed
<1> HIDE DEF e
<1>1. Covers(e, dirty, scr, y0, y1, x0, x1)
  BY <1>0, ExpandIs
<1>2. Fits(e, scr) => Fits(e, s)
  BY DEF Fits
<1>3. Tells(s, e, ts)
  BY <1>1, <1>2 DEF Tells, Covers
<1> QED BY <1>3 DEF e

(* Nothing gets dirty, as no cell changes or all are sent.                 *)
LEMMA SameTells ==
  ASSUME Typed, NEW s, IsScreen(s), s.h = scr.h, s.w = scr.w,
         NEW ts, "noclean" \notin ts, "double" \in ts \/ s.line = scr.line,
         "cursor" \in ts \/ s.cur = scr.cur,
         \A f \in Fields : f \in ts \/ s.text[f] = scr.text[f],
         "all" \in ts \/ s.cells = scr.cells
  PROVE  Tells(s, dirty, ts)
<1>1. Fits(dirty, scr) => Fits(dirty, s)
  BY DEF Fits
<1> QED BY <1>1 DEF Tells, Typed

LEMMA EditTold ==
  ASSUME NEW s, NEW ts, NEW y0, NEW y1, NEW x0, NEW x1, Edit(s, ts, y0, y1, x0, x1),
         Tells(s, Expand(dirty, y0, y1, x0, x1), ts)
  PROVE  Told
BY DEF Edit, Told

(* Rows are moved or cleared.                                              *)
LEMMA EditRowsTold ==
  ASSUME Typed, NEW s, NEW ts, NEW y0 \in 0..(scr.h - 1), NEW y1 \in 0..(scr.h - 1),
         EditRows(s, ts, y0, y1), {"part", "double"} \subseteq ts, "noclean" \notin ts,
         IsScreen(s), s.h = scr.h, s.w = scr.w, s.text = scr.text,
         "cursor" \in ts \/ s.cur = scr.cur,
         \A p \in 0..(scr.h * scr.w - 1) :
           s.cells[p] = scr.cells[p] \/ p \div scr.w \in y0..y1
  PROVE  Told
<1>1. scr.h \in Nat \ {0} /\ scr.w \in Nat \ {0}
  BY ScreenIs DEF Typed
<1>2. 0 \in 0..(scr.w - 1) /\ scr.w - 1 \in 0..(scr.w - 1)
  BY <1>1
<1>3. \A p \in 0..(scr.h * scr.w - 1) :
        s.cells[p] = scr.cells[p] \/ (p \div scr.w \in y0..y1 /\ p % scr.w \in 0..(scr.w - 1))
  BY <1>1, RowAndColumn
<1>4. Tells(s, Expand(dirty, y0, y1, 0, scr.w - 1), ts)
  BY <1>2, <1>3, ExpandTells
<1> QED BY <1>4, EditTold DEF EditRows

LEMMA ScrollTold ==
  ASSUME Typed, NEW n \in Int, NEW pen \in Cells, Scroll(n, pen) \/ DeleteLines(n, pen)
  PROVE  Told
<1>1. /\ scr.top \in 0..(scr.h - 1) /\ scr.btm \in 0..(scr.h - 1)
      /\ scr.cur.y \in 0..(scr.h - 1) /\ IsScreen(scr)
  BY ScreenIs DEF Typed
<1>2. ASSUME NEW y0 \in 0..(scr.h - 1), NEW y1 \in 0..(scr.h - 1), NEW by \in Int,
             EditRows(RowsMoved(scr, y0, y1, by, pen), {"part", "double"}, y0, y1)
      PROVE  Told
  <2> DEFINE s == RowsMoved(scr, y0, y1, by, pen)
  <2>1. /\ Around(s, scr)
        /\ \A p \in 0..(scr.h * scr.w - 1) :
             p \div scr.w \notin y0..y1 => s.cells[p] = scr.cells[p]
    BY <1>1, RowsMovedIs
  <2> HIDE DEF s
  <2> QED BY <1>2, <2>1, EditRowsTold DEF Around, s
<1>3. CASE Scroll(n, pen)
  BY <1>1, <1>2, <1>3 DEF Scroll
<1>4. CASE DeleteLines(n, pen)
  <2> DEFINE by == IF scr.btm - n <= scr.cur.y THEN scr.btm - scr.cur.y + 1 ELSE n
  <2>1. by \in Int
    BY <1>1
  <2>2. EditRows(RowsMoved(scr, scr.cur.y, scr.btm, by, pen), {"part", "double"},
                 scr.cur.y, scr.btm)
    BY <1>4 DEF DeleteLines
  <2> HIDE DEF by
  <2> QED BY <1>1, <1>2, <2>1, <2>2
<1> QED BY <1>3, <1>4

LEMMA InsertLinesTold ==
  ASSUME Typed, NEW n \in Nat, NEW pen \in Cells, InsertLines(n, pen)
  PROVE  Told
<1> DEFINE y0 == scr.cur.y  y1 == scr.btm
           kept == IF y0 + n > y1 THEN {} ELSE y0..(y0 + n - 1)
           u == RowsMoved(scr, y0, y1, -n, pen)
           l == [y \in DOMAIN u.line |-> IF y \in kept THEN scr.line[y] ELSE u.line[y]]
           s == [u EXCEPT !.line = l]
<1>1. y0 \in 0..(scr.h - 1) /\ y1 \in 0..(scr.h - 1) /\ IsScreen(scr) /\ -n \in Int
  BY ScreenIs DEF Typed
<1>2. EditRows(s, {"part", "double"}, y0, y1)
  BY Zenon DEF InsertLines
<1>3. /\ Around(u, scr)
      /\ \A p \in 0..(scr.h * scr.w - 1) :
           p \div scr.w \notin y0..y1 => u.cells[p] = scr.cells[p]
  BY <1>1, RowsMovedIs
<1> HIDE DEF u, kept
<1>4. scr.line \in Line /\ u.line \in Line
  BY <1>1, <1>3, ScreenIs DEF Around
<1>5. l \in Line
  BY <1>4 DEF Line
<1> HIDE DEF l
<1>6. Around(s, scr) /\ s.cells = u.cells
  BY <1>3, <1>5, WithLine DEF Around
<1> HIDE DEF s
<1> QED BY <1>1, <1>2, <1>3, <1>6, EditRowsTold DEF Around

LEMMA CharsTold ==
  ASSUME Typed, NEW n \in Int, NEW pen \in Cells, Chars(n, pen)
  PROVE  Told
<1> DEFINE s == CharsMoved(scr, n, pen)  y == scr.cur.y  x == scr.cur.x
<1>1. /\ scr.h \in Nat \ {0} /\ scr.w \in Nat \ {0} /\ IsScreen(scr)
      /\ y \in 0..(scr.h - 1) /\ x \in 0..(scr.w - 1) /\ scr.w - 1 \in 0..(scr.w - 1)
  BY ScreenIs DEF Typed
<1>2. /\ Around(s, scr) /\ s.line = scr.line
      /\ \A p \in 0..(scr.h * scr.w - 1) :
           p \notin At(scr, y, x)..At(scr, y, scr.w - 1) => s.cells[p] = scr.cells[p]
  BY <1>1, CharsMovedIs
<1> HIDE DEF s
<1>3. ASSUME NEW p \in 0..(scr.h * scr.w - 1), p \in At(scr, y, x)..At(scr, y, scr.w - 1)
      PROVE  p \div scr.w \in y..y /\ p % scr.w \in x..(scr.w - 1)
  <2>1. p \in Nat
    BY <1>1, RowAndColumn
  <2> QED BY <1>1, <1>3, <2>1, InRow DEF At
<1>4. Tells(s, Expand(dirty, y, y, x, scr.w - 1), {"part"})
  BY <1>1, <1>2, <1>3, ExpandTells DEF Around
<1> QED BY <1>4, EditTold DEF Chars, s

LEMMA PutCharTold ==
  ASSUME Typed, SlotsTakenOver = FALSE, NEW pen \in Cells, PutChar(pen)
  PROVE  Told
<1> DEFINE s == IF WrapScrolls THEN RowsMoved(scr, scr.top, scr.btm, 1, pen) ELSE scr
           d == IF WrapScrolls THEN ExpandRows(dirty, scr, scr.top, scr.btm) ELSE dirty
           y == PutAt.y  x == PutAt.x
           cur == [y |-> y, x |-> Lower(x + 1, scr.w - 1), hang |-> x + 1 >= scr.w]
           p == At(scr, y, x)
           new == [s EXCEPT !.cells[p] = pen, !.cur = cur]
           scrolled == IF WrapScrolls THEN {"part", "double"} ELSE {}
<1>1. /\ scr.h \in Nat \ {0} /\ scr.w \in Nat \ {0} /\ IsScreen(scr)
      /\ scr.cur.y \in 0..(scr.h - 1) /\ scr.cur.x \in 0..(scr.w - 1)
      /\ scr.top \in 0..(scr.h - 1) /\ scr.btm \in 0..(scr.h - 1)
      /\ dirty \in Rectangle
  BY ScreenIs DEF Typed
<1>2. y \in 0..(scr.h - 1) /\ x \in 0..(scr.w - 1)
  BY <1>1 DEF PutAt, WrapScrolls, Wraps
<1>3. p \in 0..(scr.h * scr.w - 1) /\ p \div scr.w = y /\ p % scr.w = x
  <2> HIDE DEF y, x
  <2> QED BY <1>1, <1>2, CellOn
<1>4. cur \in Cursors(scr)
  BY <1>1, <1>2 DEF Cursors, Lower
<1>5. /\ IsScreen(s) /\ s.h = scr.h /\ s.w = scr.w /\ s.text = scr.text
      /\ "double" \in scrolled \/ s.line = scr.line
      /\ \A q \in 0..(scr.h * scr.w - 1) :
           s.cells[q] = scr.cells[q] \/ ("part" \in scrolled /\ Inside(d, q, scr.w))
      /\ d \in Rectangle /\ (Fits(dirty, scr) => Fits(d, scr))
      /\ \A q : Inside(dirty, q, scr.w) => Inside(d, q, scr.w)
      /\ "noclean" \notin scrolled
  <2>1. CASE ~WrapScrolls
    BY <1>1, <2>1
  <2>2. CASE WrapScrolls
    <3> DEFINE u == RowsMoved(scr, scr.top, scr.btm, 1, pen)
    <3>1. PICK one \in Int : one = 1
      OBVIOUS
    <3>2. /\ Around(u, scr)
          /\ \A q \in 0..(scr.h * scr.w - 1) :
               q \div scr.w \notin scr.top..scr.btm => u.cells[q] = scr.cells[q]
      <4> DEFINE moved == RowsMoved(scr, scr.top, scr.btm, one, pen)
      <4>1. /\ Around(moved, scr)
            /\ \A q \in 0..(scr.h * scr.w - 1) :
                 q \div scr.w \notin scr.top..scr.btm => moved.cells[q] = scr.cells[q]
        BY <1>1, RowsMovedIs
      <4> QED BY <3>1, <4>1
    <3>3. 0 \in 0..(scr.w - 1) /\ scr.w - 1 \in 0..(scr.w - 1)
      BY <1>1
    <3>4. d = Expand(dirty, scr.top, scr.btm, 0, scr.w - 1)
      BY <2>2 DEF ExpandRows
    <3>5. Covers(d, dirty, scr, scr.top, scr.btm, 0, scr.w - 1)
      BY <1>1, <3>3, <3>4, ExpandIs
    <3>6. \A q \in 0..(scr.h * scr.w - 1) : q % scr.w \in 0..(scr.w - 1)
      BY <1>1, RowAndColumn
    <3>7. s = u /\ scrolled = {"part", "double"} /\ "noclean" \notin scrolled
      BY <2>2
    <3> HIDE DEF u, d, s, scrolled
    <3> QED BY <3>2, <3>5, <3>6, <3>7 DEF Around, Covers
  <2> QED BY <2>1, <2>2
<1>6. PICK same \in SameSymbol(s, p, pen.sym) :
        IF Stay(s, p, pen, same) THEN Done(new, d, {"cursor"} \cup scrolled)
        ELSE Done(new, Expand(d, y, y, x, x), {"cursor", "part"} \cup scrolled)
  BY DEF PutChar
<1>7. Uses("put") /\ (same => s.cells[p].sym = pen.sym)
  BY <1>6 DEF PutChar, SameSymbol
<1> HIDE DEF s, d, cur, p, scrolled, x, y
<1>8. /\ IsScreen(new) /\ new.h = scr.h /\ new.w = scr.w /\ new.text = scr.text
      /\ new.line = s.line /\ new.cells = [s.cells EXCEPT ![p] = pen]
  <2> DEFINE c == [s.cells EXCEPT ![p] = pen]  t == [s EXCEPT !.cells = c]
  <2>1. s.cells \in [0..(s.h * s.w - 1) -> Cells]
    BY <1>5, ScreenIs
  <2>2. c \in [0..(s.h * s.w - 1) -> Cells]
    BY <2>1
  <2> HIDE DEF c
  <2>3. IsScreen(t) /\ t.h = s.h /\ t.w = s.w /\ t.text = s.text /\ t.line = s.line /\ t.cells = c
    BY <1>5, <2>2, WithCells
  <2> HIDE DEF t
  <2>4. cur \in Cursors(t)
    BY <1>4, <1>5, <2>3 DEF Cursors
  <2>5. new = [t EXCEPT !.cur = cur]
    BY DEF t, c
  <2> HIDE DEF new
  <2>6. IsScreen(new) /\ new.h = t.h /\ new.w = t.w /\ new.text = t.text /\ new.line = t.line
        /\ new.cells = t.cells
    BY <2>3, <2>4, <2>5, WithCursor
  <2> QED BY <1>5, <2>3, <2>6 DEF c
<1> HIDE DEF new
<1>9. s.cells \in [0..(scr.h * scr.w - 1) -> Cells]
  BY <1>5, ScreenIs
<1>10. CASE Stay(s, p, pen, same)
  <2> DEFINE ts == {"cursor"} \cup scrolled
  <2>1. s.cells[p].sym = pen.sym /\ [s.cells[p] EXCEPT !.sym = pen.sym] = pen
    BY <1>7, <1>10 DEF Stay
  <2>2. s.cells[p] \in Cells
    BY <1>3, <1>9
  <2>3. pen = s.cells[p]
    BY <2>1, <2>2, SMTT(30) DEF Cells
  <2>4. \A q \in 0..(scr.h * scr.w - 1) : new.cells[q] = s.cells[q]
    BY <1>8, <1>9, <2>3
  <2>5. Tells(new, d, ts)
    <3>1. Fits(d, scr) => Fits(d, new)
      BY <1>8 DEF Fits
    <3>2. \A q \in 0..(scr.h * scr.w - 1) :
            new.cells[q] = scr.cells[q] \/ ("part" \in ts /\ Inside(d, q, scr.w))
      BY <1>5, <2>4
    <3> QED BY <1>5, <1>8, <3>1, <3>2 DEF Tells
  <2>6. Done(new, d, ts)
    BY <1>6, <1>10
  <2> QED BY <2>5, <2>6 DEF Told
<1>11. CASE ~Stay(s, p, pen, same)
  <2> DEFINE ts == {"cursor", "part"} \cup scrolled  e == Expand(d, y, y, x, x)
  <2>1. Covers(e, d, scr, y, y, x, x)
    BY <1>1, <1>2, <1>5, ExpandIs
  <2>2. Inside(e, p, scr.w)
    BY <1>1, <1>2, <1>3, <2>1 DEF Covers
  <2>3. \A q \in 0..(scr.h * scr.w - 1) : q = p \/ new.cells[q] = s.cells[q]
    BY <1>8, <1>9
  <2>4. Done(new, e, ts)
    BY <1>6, <1>11
  <2> HIDE DEF e
  <2>5. Tells(new, e, ts)
    <3>1. Fits(e, scr) => Fits(e, new)
      BY <1>8 DEF Fits
    <3>2. \A q \in 0..(scr.h * scr.w - 1) :
            new.cells[q] = scr.cells[q] \/ ("part" \in ts /\ Inside(e, q, scr.w))
      BY <1>5, <2>1, <2>2, <2>3 DEF Covers
    <3> QED BY <1>5, <1>8, <2>1, <3>1, <3>2 DEF Tells, Covers
  <2> QED BY <2>4, <2>5 DEF Told
<1> QED BY <1>10, <1>11

LEMMA GoTold ==
  ASSUME Typed, NEW y \in 0..(scr.h - 1), NEW x \in 0..(scr.w - 1), Go(y, x)
  PROVE  Told
<1> DEFINE cur == [y |-> y, x |-> x, hang |-> FALSE]  s == [scr EXCEPT !.cur = cur]
<1>1. IsScreen(scr)
  BY DEF Typed
<1>2. cur \in Cursors(scr)
  BY DEF Cursors
<1>3. IsScreen(s) /\ s.h = scr.h /\ s.w = scr.w /\ s.cells = scr.cells /\ s.text = scr.text
      /\ s.line = scr.line
  <2> HIDE DEF cur
  <2> QED BY <1>1, <1>2, WithCursor
<1>4. Done(s, dirty, {"cursor"})
  BY DEF Go
<1> HIDE DEF s
<1>5. Tells(s, dirty, {"cursor"})
  BY <1>3, SameTells
<1> QED BY <1>4, <1>5 DEF Told

LEMMA IndexTold ==
  ASSUME Typed, NEW n \in {-1, 1}, Index(n)
  PROVE  Told
<1> DEFINE y == scr.cur.y + n
           to == Upper(0, Lower(y, scr.h - 1))
           scrolls == scr.cur.y \in scr.top..scr.btm /\ y \notin scr.top..scr.btm
           hang == scr.cur.hang /\ scr.cur.x = scr.w - 1
<1>1. /\ scr.h \in Nat \ {0} /\ scr.w \in Nat \ {0} /\ IsScreen(scr)
      /\ scr.top \in 0..(scr.h - 1) /\ scr.btm \in 0..(scr.h - 1)
      /\ scr.cur.y \in 0..(scr.h - 1) /\ scr.cur.x \in 0..(scr.w - 1)
      /\ scr.cur \in Cursors(scr)
  BY ScreenIs DEF Typed
<1>2. hang \in BOOLEAN
  OBVIOUS
<1> n \in Int
  OBVIOUS
<1>3. to \in 0..(scr.h - 1)
  BY <1>1 DEF Upper, Lower
<1> HIDE DEF hang, to
<1>4. CASE scrolls
  <2>1. PICK pen \in Pens :
          EditRows([RowsMoved(scr, scr.top, scr.btm, n, pen) EXCEPT !.cur.hang = hang],
                   {"cursor", "part", "double"}, scr.top, scr.btm)
    BY <1>4 DEF Index, hang, to
  <2> DEFINE u == RowsMoved(scr, scr.top, scr.btm, n, pen)
             cur == [u.cur EXCEPT !.hang = hang]
             s == [u EXCEPT !.cur = cur]
  <2>2. pen \in Cells
    BY DisplayAssumption
  <2>3. /\ Around(u, scr)
        /\ \A q \in 0..(scr.h * scr.w - 1) :
             q \div scr.w \notin scr.top..scr.btm => u.cells[q] = scr.cells[q]
    BY <1>1, <1>2, <2>2, RowsMovedIs
  <2> HIDE DEF u
  <2>4. cur \in Cursors(u)
    BY <1>1, <1>2, <2>3 DEF Cursors, Around
  <2> HIDE DEF cur
  <2>5. /\ IsScreen(s) /\ s.h = scr.h /\ s.w = scr.w /\ s.text = scr.text
        /\ s.cells = u.cells
    BY <2>3, <2>4, WithCursor DEF Around
  <2>6. EditRows(s, {"cursor", "part", "double"}, scr.top, scr.btm)
    BY <2>1 DEF s, cur, u
  <2> HIDE DEF s
  <2>7. \A q \in 0..(scr.h * scr.w - 1) :
          s.cells[q] = scr.cells[q] \/ q \div scr.w \in scr.top..scr.btm
    BY <2>3, <2>5
  <2> DEFINE ts == {"cursor", "part", "double"}
  <2>8. {"part", "double"} \subseteq ts /\ "noclean" \notin ts /\ "cursor" \in ts /\ EditRows(s, ts, scr.top, scr.btm)
    BY <2>6
  <2> HIDE DEF ts
  <2> QED BY <1>1, <2>5, <2>7, <2>8, EditRowsTold
<1>5. CASE ~scrolls
  <2> DEFINE cur == [scr.cur EXCEPT !.y = to, !.hang = hang]  s == [scr EXCEPT !.cur = cur]
  <2>1. Done([scr EXCEPT !.cur.y = to, !.cur.hang = hang], dirty, {"cursor"})
    BY <1>5 DEF Index, hang, to
  <2>2. cur \in Cursors(scr)
    BY <1>1, <1>2, <1>3 DEF Cursors
  <2>3. IsScreen(s) /\ s.h = scr.h /\ s.w = scr.w /\ s.cells = scr.cells /\ s.text = scr.text
        /\ s.line = scr.line
    <3> HIDE DEF cur
    <3> QED BY <1>1, <2>2, WithCursor
  <2>4. Done(s, dirty, {"cursor"})
    <3>1. scr = [scr EXCEPT !.cur = scr.cur]
      BY <1>1 DEF IsScreen
    <3>2. s = [scr EXCEPT !.cur.y = to, !.cur.hang = hang]
      BY <1>1 DEF IsScreen
    <3> QED BY <2>1, <3>2
  <2> HIDE DEF s
  <2>5. Tells(s, dirty, {"cursor"})
    BY <2>3, SameTells
  <2> QED BY <2>4, <2>5 DEF Told
<1> QED BY <1>4, <1>5

LEMMA ClearAllTold ==
  ASSUME Typed, NEW pen \in Cells, ClearAll(pen)
  PROVE  Told
<1> DEFINE t == NoAttrs(scr, 0, Rows - 1)
           u == Fill(t, At(t, 0, 0), At(t, scr.h - 1 + 1, 0) - 1, pen)
           s == NoAttrs(u, 0, scr.h - 1)
<1>1. IsScreen(scr)
  BY DEF Typed
<1>2. Around(t, scr)
  BY <1>1, NoAttrsIs
<1> HIDE DEF t
<1>3. Around(u, t)
  <2> DEFINE from == At(t, 0, 0)  to == At(t, scr.h - 1 + 1, 0) - 1
  <2> HIDE DEF from, to
  <2>1. u = Fill(t, from, to, pen)
    BY DEF from, to
  <2> HIDE DEF u
  <2> QED BY <1>2, <2>1, FillIs DEF Around
<1> HIDE DEF u
<1>4. Around(s, u)
  BY <1>3, NoAttrsIs DEF Around
<1>5. Done(s, dirty, {"all", "double"})
  BY DEF ClearAll, FillRows, s, u, t
<1> HIDE DEF s
<1>6. Tells(s, dirty, {"all", "double"})
  BY <1>2, <1>3, <1>4, SameTells DEF Around
<1> QED BY <1>5, <1>6 DEF Told

(* Cells are cleared, and the attributes of lines.                         *)
LEMMA ClearedIs ==
  ASSUME NEW s, IsScreen(s), NEW pen \in Cells, NEW from, NEW to, NEW y0, NEW y1,
         NEW u, u = NoAttrs(Fill(s, from, to, pen), y0, y1)
  PROVE  /\ Around(u, s)
         /\ \A p \in 0..(s.h * s.w - 1) : p \notin from..to => u.cells[p] = s.cells[p]
<1> DEFINE t == Fill(s, from, to, pen)
<1>1. /\ Around(t, s)
      /\ \A p \in 0..(s.h * s.w - 1) : p \notin from..to => t.cells[p] = s.cells[p]
  BY FillIs
<1> HIDE DEF t
<1>2. Around(u, t) /\ u.cells = t.cells
  <2>1. u = NoAttrs(t, y0, y1)
    BY DEF t
  <2> QED BY <1>1, <2>1, NoAttrsIs DEF Around
<1> QED BY <1>1, <1>2 DEF Around

LEMMA ClearFromTold ==
  ASSUME Typed, NEW pen \in Cells, ClearFromCursor(pen)
  PROVE  Told
<1> DEFINE h == scr.h  w == scr.w  y == scr.cur.y  x == scr.cur.x
           from == At(scr, y, x)  end == At(scr, h, 0)  to == end - 1
           s == NoAttrs(Fill(scr, from, to, pen), y, Rows - 1)
<1>1. /\ IsScreen(scr) /\ h \in Nat \ {0} /\ w \in Nat \ {0}
      /\ y \in 0..(h - 1) /\ x \in 0..(w - 1)
  BY ScreenIs DEF Typed
<1>2. EditRows(s, {"part", "double"}, y, h - 1)
  BY DEF ClearFromCursor
<1>3. ASSUME NEW p \in from..to PROVE p \div w \in y..(h - 1)
  <2>1. from = y * w + x /\ end = h * w + 0
    BY <1>1 DEF At
  <2> HIDE DEF h, w, y, x, from, end
  <2>2. y * w \in Nat /\ h * w \in Nat
    BY <1>1
  <2>3. p \in Nat /\ p >= y * w /\ p < h * w
    BY <1>1, <2>1, <2>2
  <2> DEFINE y1 == h - 1
  <2>4. y1 \in Int /\ p < (y1 + 1) * w
    BY <1>1, <2>3
  <2> HIDE DEF y1
  <2>5. p \div w \in y..y1
    BY <1>1, <2>3, <2>4, InRows
  <2> QED BY <2>5 DEF y1
<1> HIDE DEF from, to
<1>4. /\ Around(s, scr)
      /\ \A p \in 0..(scr.h * scr.w - 1) : p \notin from..to => s.cells[p] = scr.cells[p]
  <2> DEFINE last == Rows - 1  row == y
  <2> HIDE DEF last, row
  <2>1. s = NoAttrs(Fill(scr, from, to, pen), row, last)
    BY DEF last, row
  <2> HIDE DEF s
  <2> QED BY <1>1, <2>1, ClearedIs
<1> HIDE DEF s
<1>5. \A p \in 0..(scr.h * scr.w - 1) :
        s.cells[p] = scr.cells[p] \/ p \div scr.w \in y..(h - 1)
  BY <1>3, <1>4
<1>6. h - 1 \in 0..(h - 1)
  BY <1>1
<1> DEFINE ts == {"part", "double"}  low == h - 1
<1>7. /\ {"part", "double"} \subseteq ts /\ "noclean" \notin ts /\ low \in 0..(scr.h - 1)
      /\ EditRows(s, ts, y, low)
      /\ \A p \in 0..(scr.h * scr.w - 1) :
           s.cells[p] = scr.cells[p] \/ p \div scr.w \in y..low
  BY <1>2, <1>5, <1>6
<1> HIDE DEF ts, low
<1> QED BY <1>1, <1>4, <1>7, EditRowsTold DEF Around

LEMMA ClearToTold ==
  ASSUME Typed, NEW pen \in Cells, ClearToCursor(pen)
  PROVE  Told
<1> DEFINE h == scr.h  w == scr.w  y == scr.cur.y  x == scr.cur.x
           from == 0  to == At(scr, y, x)
           s == NoAttrs(Fill(scr, from, to, pen), 0, y)
<1>1. /\ IsScreen(scr) /\ h \in Nat \ {0} /\ w \in Nat \ {0}
      /\ y \in 0..(h - 1) /\ x \in 0..(w - 1)
  BY ScreenIs DEF Typed
<1>2. EditRows(s, {"part", "double"}, 0, y)
  BY DEF ClearToCursor
<1>3. ASSUME NEW p \in from..to PROVE p \div w \in 0..y
  <2>1. to = y * w + x
    BY DEF At
  <2> HIDE DEF h, w, y, x, to
  <2>2. y * w \in Nat /\ (y + 1) * w = y * w + w
    BY <1>1
  <2>3. p \in Nat /\ p < (y + 1) * w
    BY <1>1, <2>1, <2>2
  <2> DEFINE y0 == 0
  <2>4. y0 \in Int /\ p >= y0 * w
    BY <1>1, <2>3
  <2> HIDE DEF y0
  <2>5. p \div w \in y0..y
    BY <1>1, <2>3, <2>4, InRows
  <2> QED BY <2>5 DEF y0
<1> DEFINE row == 0
<1> HIDE DEF from, to
<1>4. /\ Around(s, scr)
      /\ \A p \in 0..(scr.h * scr.w - 1) : p \notin from..to => s.cells[p] = scr.cells[p]
  <2>1. s = NoAttrs(Fill(scr, from, to, pen), row, y)
    OBVIOUS
  <2> HIDE DEF s, row
  <2> QED BY <1>1, <2>1, ClearedIs
<1> HIDE DEF s
<1> DEFINE ts == {"part", "double"}
<1>5. /\ {"part", "double"} \subseteq ts /\ "noclean" \notin ts
      /\ row \in 0..(scr.h - 1) /\ y \in 0..(scr.h - 1)
      /\ EditRows(s, ts, row, y)
      /\ \A p \in 0..(scr.h * scr.w - 1) :
           s.cells[p] = scr.cells[p] \/ p \div scr.w \in row..y
  BY <1>1, <1>2, <1>3, <1>4
<1> HIDE DEF ts, row
<1> QED BY <1>1, <1>4, <1>5, EditRowsTold DEF Around

LEMMA ClearInLineTold ==
  ASSUME Typed, NEW pen \in Cells, NEW a \in 0..(scr.w - 1), NEW b \in 0..(scr.w - 1),
         ClearInLine(a, b, pen)
  PROVE  Told
<1> DEFINE y == scr.cur.y  from == At(scr, y, a)  to == At(scr, y, b)
           s == Fill(scr, from, to, pen)
<1>1. /\ IsScreen(scr) /\ scr.w \in Nat \ {0} /\ y \in 0..(scr.h - 1) /\ y \in Nat
      /\ scr.h \in Nat \ {0}
  BY ScreenIs DEF Typed
<1>2. ASSUME NEW p \in 0..(scr.h * scr.w - 1), p \in from..to
      PROVE  p \div scr.w \in y..y /\ p % scr.w \in a..b
  <2>1. p \in Nat
    BY <1>1, RowAndColumn
  <2>2. p \in (y * scr.w + a)..(y * scr.w + b)
    BY <1>2 DEF At
  <2> DEFINE w == scr.w
  <2>3. /\ w \in Nat \ {0} /\ a \in 0..(w - 1) /\ b \in 0..(w - 1)
        /\ p \in (y * w + a)..(y * w + b)
    BY <1>1, <2>2
  <2> HIDE DEF y, w
  <2>4. p \div w = y /\ p % w \in a..b
    BY ONLY <1>1, <2>1, <2>3, InRow
  <2> QED BY <1>1, <2>4 DEF w
<1>3. Edit(s, {"part"}, y, y, a, b)
  BY DEF ClearInLine
<1> HIDE DEF from, to
<1>4. /\ Around(s, scr) /\ s.line = scr.line
      /\ \A p \in 0..(scr.h * scr.w - 1) : p \notin from..to => s.cells[p] = scr.cells[p]
  BY <1>1, FillIs
<1> HIDE DEF s
<1>5. Tells(s, Expand(dirty, y, y, a, b), {"part"})
  BY <1>1, <1>2, <1>4, ExpandTells DEF Around
<1> QED BY <1>3, <1>5, EditTold

LEMMA ClearLineTold ==
  ASSUME Typed, NEW pen \in Cells, ClearLine(pen)
  PROVE  Told
<1>1. scr.w \in Nat \ {0} /\ scr.cur.x \in 0..(scr.w - 1)
  BY ScreenIs DEF Typed
<1>2. 0 \in 0..(scr.w - 1) /\ scr.w - 1 \in 0..(scr.w - 1)
  BY <1>1
<1>3. CASE \E n \in Counts : ClearInLine(scr.cur.x, Lower(scr.cur.x + n - 1, scr.w - 1), pen)
  <2> PICK n \in Counts : ClearInLine(scr.cur.x, Lower(scr.cur.x + n - 1, scr.w - 1), pen)
    BY <1>3
  <2> DEFINE b == Lower(scr.cur.x + n - 1, scr.w - 1)
  <2>1. b \in 0..(scr.w - 1)
    BY <1>1, DisplayAssumption DEF Lower
  <2> HIDE DEF b
  <2>2. ClearInLine(scr.cur.x, b, pen)
    BY DEF b
  <2> QED BY <1>1, <2>1, <2>2, ClearInLineTold
<1> QED BY <1>1, <1>2, <1>3, ClearInLineTold DEF ClearLine

LEMMA BlankIsCell == Blank \in Cells
BY GlyphAssumption DEF Blank, NoCell, Cells, Ascii

LEMMA FillWithETold == ASSUME Typed, FillWithE PROVE Told
<1> DEFINE t == NoAttrs(scr, 0, Rows - 1)
           e == [Blank EXCEPT !.sym = "E"]
           c == [p \in DOMAIN t.cells |-> e]
           ts == {"all", "opts", "cursor", "double"}
           s1 == [t EXCEPT !.cells = c]
           s2 == [s1 EXCEPT !.cur = Home]
           s == [s2 EXCEPT !.top = 0, !.btm = scr.h - 1]
<1>1. IsScreen(scr) /\ scr.h \in Nat \ {0} /\ scr.w \in Nat \ {0}
  BY ScreenIs DEF Typed
<1>2. Around(t, scr)
  BY <1>1, NoAttrsIs
<1>3. e \in Cells
  <2>1. "E" \in Glyphs
    BY GlyphAssumption DEF Ascii
  <2> QED BY <2>1, BlankIsCell DEF Cells
<1>4. Done(s, dirty, ts)
  BY DEF FillWithE
<1> HIDE DEF t, e
<1>5. t.cells \in [0..(t.h * t.w - 1) -> Cells]
  BY <1>2, ScreenIs DEF Around
<1>6. c \in [0..(t.h * t.w - 1) -> Cells]
  BY <1>3, <1>5
<1> HIDE DEF c
<1>7. IsScreen(s1) /\ s1.h = scr.h /\ s1.w = scr.w /\ s1.text = scr.text
  BY <1>2, <1>6, WithCells DEF Around
<1> HIDE DEF s1
<1>8. Home \in Cursors(s1)
  BY <1>1, <1>7 DEF Home, Cursors
<1>9. IsScreen(s2) /\ s2.h = scr.h /\ s2.w = scr.w /\ s2.text = scr.text
  BY <1>7, <1>8, WithCursor
<1> HIDE DEF s2
<1>10. IsScreen(s) /\ s.h = scr.h /\ s.w = scr.w /\ s.text = scr.text
  <2>1. 0 \in 0..(s2.h - 1) /\ scr.h - 1 \in 0..(s2.h - 1) /\ 0 <= scr.h - 1
    BY <1>1, <1>9
  <2> DEFINE b == scr.h - 1
  <2> HIDE DEF b
  <2>2. 0 \in 0..(s2.h - 1) /\ b \in 0..(s2.h - 1) /\ 0 <= b
    BY <2>1 DEF b
  <2>3. s = [s2 EXCEPT !.top = 0, !.btm = b]
    BY DEF b
  <2> HIDE DEF s
  <2>4. s.top = 0 /\ s.btm = b /\ s.h = s2.h /\ s.w = s2.w /\ s.text = s2.text
    BY <1>9, <2>3 DEF IsScreen
  <2>5. IsScreen(s)
    BY <1>9, <2>2, <2>3 DEF IsScreen
  <2> QED BY <1>9, <2>4, <2>5
<1> HIDE DEF s, ts
<1>11. "all" \in ts /\ "double" \in ts /\ "cursor" \in ts /\ "noclean" \notin ts
  BY DEF ts
<1>12. Tells(s, dirty, ts)
  BY <1>10, <1>11, SameTells
<1> QED BY <1>4, <1>12 DEF Told

(* The screen of another size: it has to be watched.                       *)
LEMMA ResizeTold ==
  ASSUME Typed, ResizesUnwatched = FALSE, NEW size \in Sizes, Resize(size)
  PROVE  Told
<1> DEFINE s == Screen(size, scr.text)  ts == {"opts", "all", "cursor", "double"}
           c == [p \in 0..(size[1] * size[2] - 1) |-> Blank]
<1>1. Active # {} /\ Done(s, dirty, ts)
  BY DEF Resize
<1>2. /\ size[1] \in Nat \ {0} /\ size[2] \in Nat \ {0} /\ size = <<size[1], size[2]>>
      /\ size[1] <= Rows /\ Rows \in Nat
  BY DisplayAssumption, RowsReachDown
<1>3. scr.text \in [Fields -> {0, 1}] /\ dirty \in Rectangle
  BY ScreenIs DEF Typed
<1>4. s = [h |-> size[1], w |-> size[2], cells |-> c, cur |-> Home, text |-> scr.text,
           line |-> NoLines, top |-> 0, btm |-> size[1] - 1]
  BY DEF Screen
<1>5. /\ s.h = size[1] /\ s.w = size[2] /\ s.cells = c /\ s.cur = Home /\ s.text = scr.text
      /\ s.line = NoLines /\ s.top = 0 /\ s.btm = size[1] - 1
  <2> HIDE DEF c
  <2> QED BY <1>4
<1>6. c \in [0..(s.h * s.w - 1) -> Cells]
  BY <1>5, BlankIsCell
<1> HIDE DEF c
<1>7. Home \in [y : 0..(s.h - 1), x : 0..(s.w - 1), hang : BOOLEAN]
  <2> HIDE DEF s
  <2> QED BY <1>2, <1>5 DEF Home
<1>8. NoLines \in [0..(Rows - 1) -> {0, 1}]
  BY <1>2 DEF NoLines
<1>9. 0 \in 0..(s.h - 1) /\ size[1] - 1 \in 0..(s.h - 1) /\ 0 <= size[1] - 1
  <2> HIDE DEF s
  <2> QED BY <1>2, <1>5
<1>10. IsScreen(s)
  <2>1. s \in [h : Nat, w : Nat, cells : [0..(s.h * s.w - 1) -> Cells],
               cur : [y : 0..(s.h - 1), x : 0..(s.w - 1), hang : BOOLEAN],
               text : [Fields -> {0, 1}], line : [0..(Rows - 1) -> {0, 1}],
               top : 0..(s.h - 1), btm : 0..(s.h - 1)]
    <3> DEFINE b == size[1] - 1  ys == 0..(s.h - 1)
               cells == [0..(s.h * s.w - 1) -> Cells]
               curs == [y : 0..(s.h - 1), x : 0..(s.w - 1), hang : BOOLEAN]
               lines == [0..(Rows - 1) -> {0, 1}]
    <3>1. /\ c \in cells /\ Home \in curs /\ scr.text \in [Fields -> {0, 1}]
          /\ NoLines \in lines /\ 0 \in ys /\ b \in ys /\ size[1] \in Nat /\ size[2] \in Nat
      BY <1>2, <1>3, <1>6, <1>7, <1>8, <1>9
    <3>2. s = [h |-> size[1], w |-> size[2], cells |-> c, cur |-> Home, text |-> scr.text,
               line |-> NoLines, top |-> 0, btm |-> b]
      BY <1>4
    <3> HIDE DEF s, b, ys, cells, curs, lines
    <3>3. s \in [h : Nat, w : Nat, cells : cells, cur : curs, text : [Fields -> {0, 1}],
                 line : lines, top : ys, btm : ys]
      BY <3>1, <3>2
    <3> QED BY <3>3 DEF ys, cells, curs, lines
  <2> HIDE DEF s
  <2> QED BY <1>2, <1>5, <1>9, <2>1 DEF IsScreen
<1> HIDE DEF s
<1>11. Tells(s, dirty, ts)
  BY <1>1, <1>3, <1>5, <1>10 DEF Tells
<1> QED BY <1>1, <1>11 DEF Told

LEMMA SetTold ==
  ASSUME Typed, NEW f \in Fields, Set(f)
  PROVE  Told
<1> PICK ts \in {{f}, TOPIC_INITIAL} : Done([scr EXCEPT !.text[f] = 1 - @], dirty, ts)
  BY Zenon DEF Set
<1> DEFINE text == [scr.text EXCEPT ![f] = 1 - @]  s == [scr EXCEPT !.text = text]
<1>1. IsScreen(scr) /\ scr.text \in [Fields -> {0, 1}]
  BY ScreenIs DEF Typed
<1>2. Done(s, dirty, ts) /\ f \in ts /\ "noclean" \notin ts
  BY DisplayAssumption DEF TOPIC_INITIAL
<1>3. text \in [Fields -> {0, 1}]
  BY <1>1
<1>4. \A g \in Fields : g = f \/ text[g] = scr.text[g]
  BY <1>1
<1> HIDE DEF text
<1>5. /\ IsScreen(s) /\ s.h = scr.h /\ s.w = scr.w /\ s.text = text /\ s.line = scr.line
      /\ s.cur = scr.cur /\ s.cells = scr.cells
  BY <1>1, <1>3 DEF IsScreen
<1> HIDE DEF s
<1>6. Tells(s, dirty, ts)
  BY <1>2, <1>4, <1>5, SameTells
<1> QED BY <1>2, <1>6 DEF Told

LEMMA SetLineAttrTold == ASSUME Typed, SetLineAttr PROVE Told
<1> DEFINE y == scr.cur.y  line == [scr.line EXCEPT ![y] = 1 - @]
           s == [scr EXCEPT !.line = line]
<1>1. Done(s, dirty, {"double"})
  BY DEF SetLineAttr
<1>2. IsScreen(scr) /\ scr.line \in Line
  BY ScreenIs DEF Typed
<1>3. line \in Line
  <2> DEFINE rows == 0..(Rows - 1)
  <2>1. y \in rows
    BY <1>2, ScreenIs
  <2> HIDE DEF y, rows
  <2>2. scr.line \in [rows -> {0, 1}]
    BY <1>2 DEF Line, rows
  <2>3. line \in [rows -> {0, 1}]
    BY <2>1, <2>2
  <2> QED BY <2>3 DEF Line, rows
<1> HIDE DEF line
<1>4. /\ IsScreen(s) /\ s.h = scr.h /\ s.w = scr.w /\ s.text = scr.text
      /\ s.cur = scr.cur /\ s.cells = scr.cells
  BY <1>2, <1>3, WithLine
<1> HIDE DEF s
<1>5. Tells(s, dirty, {"double"})
  BY <1>4, SameTells
<1> QED BY <1>1, <1>5 DEF Told

LEMMA BeepTold == ASSUME Typed, Beep PROVE Told
<1> PICK t \in {"bell", "internal"} : Done(scr, dirty, {t})
  BY DEF Beep
<1>1. Tells(scr, dirty, {t})
  BY SameTells DEF Typed
<1> QED BY <1>1 DEF Told

LEMMA HostTold ==
  ASSUME Typed, ResizesUnwatched = FALSE, SlotsTakenOver = FALSE, HostStep
  PROVE  Told
<1> Pens \subseteq Cells /\ Counts \subseteq Nat
  BY DisplayAssumption
<1>1. CASE \E pen \in Pens : PutChar(pen)
  BY <1>1, PutCharTold
<1>2. CASE \E y \in 0..(scr.h - 1), x \in 0..(scr.w - 1) : Go(y, x)
  BY <1>2, GoTold
<1>3. CASE \E n \in {-1, 1} : Index(n)
  BY <1>3, IndexTold
<1>4. CASE \E n \in Counts, way \in {-1, 1}, pen \in Pens :
             Scroll(way * n, pen) \/ Chars(way * n, pen)
  <2> PICK n \in Counts, way \in {-1, 1}, pen \in Pens :
             Scroll(way * n, pen) \/ Chars(way * n, pen)
    BY <1>4
  <2> DEFINE m == way * n
  <2>1. m \in Int /\ pen \in Cells
    OBVIOUS
  <2> HIDE DEF m
  <2>2. Scroll(m, pen) \/ Chars(m, pen)
    BY DEF m
  <2> QED BY <2>1, <2>2, ScrollTold, CharsTold
<1>5. CASE \E pen \in Pens :
             ClearAll(pen) \/ ClearFromCursor(pen) \/ ClearToCursor(pen) \/ ClearLine(pen)
  BY <1>5, ClearAllTold, ClearFromTold, ClearToTold, ClearLineTold
<1>6. CASE FillWithE \/ SetLineAttr \/ Beep
  BY <1>6, FillWithETold, SetLineAttrTold, BeepTold
<1>7. CASE \E size \in Sizes : Resize(size)
  BY <1>7, ResizeTold
<1>8. CASE \E f \in Fields : Set(f)
  BY <1>8, SetTold
<1>9. CASE \E n \in Counts, pen \in Pens : InsertLines(n, pen) \/ DeleteLines(n, pen)
  BY <1>9, InsertLinesTold, ScrollTold
<1> QED BY <1>1, <1>2, <1>3, <1>4, <1>5, <1>6, <1>7, <1>8, <1>9 DEF HostStep

-----------------------------------------------------------------------------
(* Updates and clients.                                                    *)

LEMMA PictureIs ==
  ASSUME NEW s, IsScreen(s), NEW d, NEW ts
  PROVE  Follows(Picture(s), s, d, ts)
<1> DEFINE v == Picture(s)  shown == [p \in 0..(s.h * s.w - 1) |-> Shown(s.cells[p])]
<1>1. s.cells \in [0..(s.h * s.w - 1) -> Cells] /\ s.text \in [Fields -> {0, 1}]
  BY ScreenIs
<1>2. v = [h |-> s.h, w |-> s.w, cells |-> shown, text |-> s.text, line |-> s.line,
           cur |-> s.cur]
  BY <1>1 DEF Picture
<1> HIDE DEF v
<1>3. /\ v.h = s.h /\ v.w = s.w /\ v.cells = shown /\ v.text = s.text /\ v.line = s.line
      /\ v.cur = s.cur
  <2> HIDE DEF shown
  <2> QED BY <1>2
<1>4. v.text = [f \in Fields |-> v.text[f]] /\ v.cells = [p \in 0..(v.h * v.w - 1) |-> v.cells[p]]
  BY <1>1, <1>3
<1>5. IsView(v)
  <2> HIDE DEF shown
  <2> QED BY <1>2, <1>3, <1>4 DEF IsView
<1>6. \A p \in 0..(s.h * s.w - 1) : v.cells[p] = Shown(s.cells[p])
  BY <1>3
<1>7. Follows(v, s, d, ts)
  <2> HIDE DEF shown
  <2> QED BY <1>3, <1>5, <1>6 DEF Follows
<1> QED BY <1>7 DEF v

LEMMA NothingIs == IsView(Nothing)
<1>1. Nothing = [h |-> 0, w |-> 0, cells |-> <<>>, text |-> [f \in Fields |-> 0],
                 line |-> NoLines, cur |-> Home]
  BY DEF Nothing
<1>2. <<>> = [p \in 0..(0 * 0 - 1) |-> <<>>[p]]
  OBVIOUS
<1> QED BY <1>1, <1>2 DEF IsView

LEMMA CleanIs ==
  ASSUME NEW s, IsScreen(s)
  PROVE  Clean(s) \in Rectangle /\ Fits(Clean(s), s)
BY ScreenIs DEF Clean, Rectangle, Fits

(* A page that loads the whole screen shows it.                            *)
LEMMA LoadShows ==
  ASSUME NEW s, IsScreen(s), NEW d \in Rectangle, SectionArrives(s, d, Loading)
  PROVE  Received(Nothing, Message(s, d, Loading)) = Picture(s)
<1> DEFINE ts == Loading
<1>1. Fields \subseteq ts /\ {"opts", "all"} \subseteq ts /\ "all" \in ts /\ "cursor" \in ts
      /\ "double" \in ts
  BY DEF Loading, TOPIC_INITIAL
<1> HIDE DEF ts
<1>2. Follows(Nothing, s, d, ts)
  BY <1>1, NothingIs DEF Follows
<1>3. Received(Nothing, Message(s, d, ts)) = Picture(s)
  BY <1>1, <1>2, Shows DEF ts
<1> QED BY <1>3 DEF ts

LEMMA UpdateKeeps == ASSUME SectionsArrive, Inv, Update PROVE Inv'
<1> DEFINE m == Message(scr, dirty, pending)
<1>1. IsScreen(scr) /\ dirty \in Rectangle
  BY DEF Inv, Typed
<1>2. /\ scr' = scr /\ client' = client /\ pending' = {}
      /\ dirty' = CleanedBy(scr, dirty, pending)
      /\ view' = [c \in Clients |-> IF c \in Loaded THEN Received(view[c], m) ELSE view[c]]
  BY DEF Update, Broadcast
<1>3. dirty' \in Rectangle /\ Fits(dirty', scr)
  <2>1. CASE pending \cap Content = {}
    BY <1>1, <1>2, <2>1 DEF CleanedBy, Content, Inv
  <2>2. CASE pending \cap Content # {}
    BY <1>1, <1>2, <2>2, CleanIs DEF CleanedBy, Inv
  <2> QED BY <2>1, <2>2
<1>4. Loaded' = Loaded /\ Loaded \subseteq Clients
  BY <1>2 DEF Loaded
<1>5. ASSUME NEW c \in Loaded PROVE view'[c] = Picture(scr)
  <2>1. Received(view[c], m) = Picture(scr)
    BY <1>1, Shows DEF Inv, SectionsArrive
  <2> HIDE DEF m
  <2> QED BY <1>2, <1>4, <2>1
<1> HIDE DEF m
<1>6. Typed'
  BY <1>1, <1>2, <1>3 DEF Inv, Typed
<1>7. \A c \in Loaded' : Follows(view'[c], scr', dirty', pending')
  BY <1>1, <1>2, <1>4, <1>5, PictureIs
<1>8. (\A c \in Loaded : Follows(view[c], scr, dirty, pending))'
  BY <1>7 DEF Follows, IsView, Inside
<1>9. Fits(dirty, scr)'
  BY <1>2, <1>3 DEF Fits
<1>10. "noclean" \notin pending'
  BY <1>2
<1> QED BY <1>6, <1>8, <1>9, <1>10 DEF Inv

LEMMA LoadKeeps == ASSUME SectionsArrive, Inv, NEW c \in Clients, Load(c) PROVE Inv'
<1> DEFINE ts == TOPIC_INITIAL \cup {"noclean"}  m == Message(scr, dirty, ts)
<1>1. IsScreen(scr) /\ dirty \in Rectangle
  BY DEF Inv, Typed
<1>2. /\ scr' = scr /\ dirty' = dirty /\ pending' = pending
      /\ client' = [client EXCEPT ![c].is = "loaded"]
      /\ view' = [view EXCEPT ![c] = Received(Nothing, m)]
  BY DEF Load, CleanedBy
<1>3. Received(Nothing, m) = Picture(scr)
  BY <1>1, LoadShows DEF SectionsArrive, Loading
<1> HIDE DEF m, ts
<1>4. Typed'
  BY <1>1, <1>2 DEF Inv, Typed
<1>5. /\ Loaded' \subseteq Loaded \cup {c}
      /\ \A b \in Loaded' : view'[b] = IF b = c THEN Picture(scr) ELSE view[b]
  BY <1>2, <1>3 DEF Inv, Typed, Loaded
<1>6. \A b \in Loaded' : Follows(view'[b], scr, dirty, pending)
  BY <1>1, <1>5, PictureIs DEF Inv
<1>7. (\A b \in Loaded : Follows(view[b], scr, dirty, pending))'
  BY <1>2, <1>6 DEF Follows, IsView, Inside
<1>8. (Fits(dirty, scr) \/ "all" \in pending)' /\ "noclean" \notin pending'
  BY <1>2 DEF Inv, Fits
<1> QED BY <1>4, <1>7, <1>8 DEF Inv

(* Nobody else sees a new screen.                                          *)
LEMMA OthersKeep ==
  ASSUME Inv, UNCHANGED <<scr, dirty, pending>>, Typed',
         \A c \in Loaded' : c \in Loaded /\ view'[c] = view[c]
  PROVE  Inv'
<1>1. \A c \in Loaded' : Follows(view'[c], scr, dirty, pending)
  BY DEF Inv
<1>2. (\A c \in Loaded : Follows(view[c], scr, dirty, pending))'
  BY <1>1 DEF Follows, IsView, Inside
<1>3. (Fits(dirty, scr) \/ "all" \in pending)' /\ "noclean" \notin pending'
  BY DEF Inv, Fits
<1> QED BY <1>2, <1>3 DEF Inv

LEMMA StepKeeps ==
  ASSUME SectionsArrive, ResizesUnwatched = FALSE, SlotsTakenOver = FALSE,
         Inv, [Next]_vars
  PROVE  Inv'
<1> Typed
  BY DEF Inv
<1>1. CASE HostStep
  BY <1>1, HostTold, ToldKeeps
<1>2. CASE Update
  BY <1>2, UpdateKeeps
<1>3. CASE CooldownOver \/ Heartbeat \/ UNCHANGED vars
  <2>1. UNCHANGED <<scr, dirty, pending>> /\ UNCHANGED <<client, view>>
    BY <1>3 DEF CooldownOver, Heartbeat, vars, screenvars, clientvars
  <2>2. Typed' /\ Loaded' = Loaded
    BY <2>1 DEF Typed, Loaded
  <2> QED BY <2>1, <2>2, OthersKeep
<1>4. ASSUME NEW c \in Clients, Connect(c) PROVE Inv'
  <2>1. /\ UNCHANGED <<scr, dirty, pending>> /\ view' = view
        /\ client' = [client EXCEPT ![c] = [is |-> "open", came |-> @.came + 1]]
    BY <1>4 DEF Connect, screenvars
  <2>2. Typed'
    BY <2>1 DEF Typed
  <2>3. \A b \in Loaded' : b \in Loaded
    BY <2>1 DEF Typed, Loaded
  <2> QED BY <2>1, <2>2, <2>3, OthersKeep
<1>5. ASSUME NEW c \in Clients, Close(c) PROVE Inv'
  <2>1. /\ UNCHANGED <<scr, dirty, pending>> /\ view' = [view EXCEPT ![c] = Nothing]
        /\ client' = [client EXCEPT ![c].is = "off"]
    BY <1>5 DEF Close, screenvars
  <2>2. Typed'
    BY <2>1 DEF Typed
  <2>3. \A b \in Loaded' : b \in Loaded /\ view'[b] = view[b]
    BY <2>1 DEF Typed, Loaded
  <2> QED BY <2>1, <2>2, <2>3, OthersKeep
<1>6. ASSUME NEW c \in Clients, Deliver(c) PROVE Inv'
  <2>1. UNCHANGED <<scr, dirty, pending>> /\ UNCHANGED <<client, view>>
    BY <1>6 DEF Deliver, screenvars
  <2>2. Typed' /\ Loaded' = Loaded
    BY <2>1 DEF Typed, Loaded
  <2> QED BY <2>1, <2>2, OthersKeep
<1>7. ASSUME NEW c \in Clients, Load(c) PROVE Inv'
  BY <1>7, LoadKeeps
<1> QED BY <1>1, <1>2, <1>3, <1>4, <1>5, <1>6, <1>7 DEF Next

LEMMA InitIs == ASSUME Init PROVE Inv
<1> DEFINE zero == [y0 |-> 0, y1 |-> 0, x0 |-> 0, x1 |-> 0]
<1>1. IsScreen(scr) /\ dirty = zero /\ pending = {}
  BY DisplayAssumption DEF Init
<1>2. scr.h \in Nat \ {0} /\ scr.w \in Nat \ {0}
  BY <1>1, ScreenIs
<1>3. Fits(dirty, scr) /\ dirty \in Rectangle
  BY <1>1, <1>2 DEF Fits, Rectangle
<1>4. Typed /\ Loaded = {}
  BY <1>1, <1>3 DEF Init, Typed, Loaded
<1> QED BY <1>1, <1>3, <1>4 DEF Inv

LEMMA InvSuffices == ASSUME SectionsArrive, Inv PROVE UpdateSuffices
BY Shows DEF Inv, Typed, UpdateSuffices, SectionsArrive

(* Whatever the host does, however the updates are postponed and browsers  *)
(* come and go, the pending update is enough for each of them: the dirty   *)
(* rectangle and the topics hold all that it does not show.  Only the last *)
(* cell of a section can be missing, when the last buffer was full.        *)
THEOREM WholeUpdatesSuffice ==
  ASSUME ResizesUnwatched = FALSE, SlotsTakenOver = FALSE
  PROVE  Spec /\ []SectionsArrive => []UpdateSuffices
<1>1. Init => Inv
  BY InitIs
<1>2. Inv /\ SectionsArrive /\ [Next]_vars => Inv'
  BY StepKeeps
<1>3. Inv /\ SectionsArrive => UpdateSuffices
  BY InvSuffices
<1> QED BY <1>1, <1>2, <1>3, PTL DEF Spec

-----------------------------------------------------------------------------
(* Cells, cut into buffers.                                                *)

LEMMA CutsKeepOn ==
  ASSUME CutsFit, IsScreen(scr), NEW len \in CutAt, NEW r \in RectsOn(scr.h, scr.w),
         NEW old, old = [p \in DOMAIN scr.cells |-> NoCell],
         NEW p \in DOMAIN scr.cells \ {Final(r, scr.w)}
  PROVE  Paint(old, Section(scr.cells, r, scr.w, len, len), scr.w)[p] =
           IF Inside(r, p, scr.w) THEN Shown(scr.cells[p]) ELSE old[p]
<1> DEFINE h == scr.h  w == scr.w  cells == scr.cells  D == 0..(scr.h * scr.w - 1)
<1>1. /\ h \in Nat \ {0} /\ w \in Nat \ {0} /\ AreCells(cells, h, w) /\ DOMAIN scr.cells = D
      /\ r \in RectsOn(h, w) /\ len \in Int
  BY DisplayAssumption, ScreenIs DEF AreCells
<1>2. MaxCellLen * (h * w) <= MaxChunks * (len - Reserve)
  <2>1. \A t \in Sizes : t = <<scr.h, scr.w>> =>
          MaxCellLen * (scr.h * scr.w) <= MaxChunks * (len - Reserve)
    BY DEF CutsFit
  <2> QED BY <2>1 DEF IsScreen
<1>3. IsOver(old, h, w) /\ p \in 0..(h * w - 1) /\ p # Final(r, w)
  BY <1>1 DEF IsOver
<1> HIDE DEF h, w, cells, D
<1>4. Paint(old, Section(cells, r, w, len, len), w)[p] =
        IF Inside(r, p, w) THEN Shown(cells[p]) ELSE old[p]
  BY ONLY <1>1, <1>2, <1>3, SectionKeeps
<1> QED BY <1>4 DEF h, w, cells

LEMMA StepTyped ==
  ASSUME ResizesUnwatched = FALSE, SlotsTakenOver = FALSE, Typed, [Next]_vars
  PROVE  Typed'
<1>1. CASE HostStep
  <2> PICK s, d, ts : Done(s, d, ts) /\ Tells(s, d, ts)
    BY <1>1, HostTold DEF Told
  <2>1. scr' = s /\ dirty' = d /\ client' = client /\ view' = view
    BY DEF Done, clientvars
  <2> QED BY <2>1 DEF Typed, Tells
<1>2. CASE Update
  <2>1. /\ scr' = scr /\ client' = client
        /\ dirty' = CleanedBy(scr, dirty, pending) /\ view' = [c \in Clients |-> view'[c]]
    BY <1>2 DEF Update, Broadcast
  <2>2. dirty' \in Rectangle
    BY <2>1, CleanIs DEF CleanedBy, Typed
  <2> QED BY <2>1, <2>2 DEF Typed
<1>3. CASE CooldownOver \/ Heartbeat \/ UNCHANGED vars \/ \E c \in Clients : Deliver(c)
  BY <1>3 DEF CooldownOver, Heartbeat, Deliver, vars, screenvars, clientvars, Typed
<1>4. ASSUME NEW c \in Clients, Connect(c) \/ Close(c) PROVE Typed'
  <2>1. scr' = scr /\ dirty' = dirty
    BY <1>4 DEF Connect, Close, screenvars
  <2>2. /\ view' = view \/ view' = [view EXCEPT ![c] = Nothing]
        /\ \/ client' = [client EXCEPT ![c] = [is |-> "open", came |-> @.came + 1]]
           \/ client' = [client EXCEPT ![c].is = "off"]
    BY <1>4 DEF Connect, Close
  <2> QED BY <2>1, <2>2 DEF Typed
<1>5. ASSUME NEW c \in Clients, Load(c) PROVE Typed'
  <2> DEFINE seen == Received(Nothing, Message(scr, dirty, TOPIC_INITIAL \cup {"noclean"}))
  <2>1. /\ scr' = scr /\ dirty' = dirty
        /\ client' = [client EXCEPT ![c].is = "loaded"] /\ view' = [view EXCEPT ![c] = seen]
    BY <1>5 DEF Load, CleanedBy
  <2> HIDE DEF seen
  <2> QED BY <2>1 DEF Typed
<1> QED BY <1>1, <1>2, <1>3, <1>4, <1>5 DEF Next

(* However small the buffers an update is cut into, if they have room for  *)
(* the largest cells, every cell of the rectangle but the last arrives and *)
(* no other changes (screenSerializeToBuffer, updateNotify_do).            *)
THEOREM CutsKeep ==
  ASSUME ResizesUnwatched = FALSE, SlotsTakenOver = FALSE, CutsFit
  PROVE  Spec => []CutsKeepCells
<1>1. Init => Typed
  BY InitIs DEF Inv
<1>2. Typed /\ [Next]_vars => Typed'
  BY StepTyped
<1>3. Typed => CutsKeepCells
  BY CutsKeepOn DEF Typed, CutsKeepCells, Inside
<1> QED BY <1>1, <1>2, <1>3, PTL DEF Spec
=============================================================================
