--------------------------- MODULE TermModesProofs ---------------------------
(***************************************************************************)
(* Proofs about TermModes, for every set of hosts and arguments: tab stops *)
(* are found, options and the alternate screen give back what they were    *)
(* given, mouse reports can be decoded, and the browser is told.           *)
(***************************************************************************)
EXTENDS TermModes, Iteration

-----------------------------------------------------------------------------
(* The structs.                                                            *)

Attributes == {"bold", "faint", "italic", "underline", "blink", "fraktur",
               "strike", "inverse", "overline", "fg", "bg"}
Encodings == {"simple", "utf8", "sgr", "urxvt"}
Charsets94 == {"A", "B", "0", "1", "2", "3"}
Topics == {"internal", "part"} \cup TOPIC_INITIAL
Cursors ==
  [x : Nat, n : {0, 1}, g0 : Charsets94, g1 : Charsets94, fg : 0..255, bg : 0..255,
   attrs : SUBSET Attributes, conceal : BOOLEAN, origin : BOOLEAN,
   wrap : BOOLEAN, rev : BOOLEAN]
(* Shape 1 stands for the one in the settings.                             *)
Shapes == {s \in 0..6 : s = 1 => conf.shape = 1}
Opts ==
  [visible : BOOLEAN, insert : BOOLEAN, shape : Shapes, numpad : BOOLEAN,
   cursors : BOOLEAN, crlf : BOOLEAN, reverse : BOOLEAN, enc : Encodings,
   focus : BOOLEAN, mode : 0..4, buttons : BOOLEAN, links : BOOLEAN,
   paste : BOOLEAN, loopback : BOOLEAN]
Kepts ==
  [cursors : BOOLEAN, reverse : BOOLEAN, origin : BOOLEAN, wrap : BOOLEAN,
   mode : 0..4, enc : Encodings, focus : BOOLEAN, blink : BOOLEAN,
   visible : BOOLEAN, rev : BOOLEAN, paste : BOOLEAN, buttons : BOOLEAN,
   links : BOOLEAN]
Labels == Texts \cup {"conf", ""}
Labelled == [Buttons -> Labels]
Txts ==
  [title : Labels, backdrop : Labels, btn : Labelled, msg : Labelled,
   color : [Buttons -> Nat], count : 0..5]
Alts == [active : BOOLEAN, title : Labels, tabs : SUBSET Nat, btn : Labelled,
         msg : Labelled]
Lasts == [glyph : Charsets94 \X Nat, cs : Charsets94]
LineAttrs == SUBSET {"top", "bottom", "wide"}
Terms ==
  [cur : Cursors, saved : SUBSET Cursors, opt : Opts, kept : Kepts, txt : Txts,
   alt : Alts, tabs : SUBSET Nat, line : LineAttrs, last : SUBSET Lasts,
   topics : SUBSET Topics]
Confs == [shape : 0..6, decopt12 : BOOLEAN]

LEMMA TellTyped ==
  ASSUME NEW t \in Terms, NEW S \in SUBSET Topics
  PROVE  Tell(t, S) \in Terms
BY DEF Tell, Terms

LEMMA WithCur ==
  ASSUME NEW t \in Terms, NEW c \in Cursors
  PROVE  [t EXCEPT !.cur = c] \in Terms
BY DEF Terms

LEMMA WithX ==
  ASSUME NEW t \in Terms, NEW x \in Nat
  PROVE  [t EXCEPT !.cur.x = x] \in Terms
<1>1. [t.cur EXCEPT !.x = x] \in Cursors
  BY DEF Terms, Cursors
<1> QED BY <1>1 DEF Terms

Switches == {"visible", "insert", "numpad", "cursors", "crlf", "reverse", "focus",
             "buttons", "links", "paste", "loopback"}
LEMMA WithSwitch ==
  ASSUME NEW t \in Terms, NEW f \in Switches, NEW v \in BOOLEAN
  PROVE  [t EXCEPT !.opt[f] = v] \in Terms
<1>1. [t.opt EXCEPT ![f] = v] \in Opts
  BY DEF Terms, Opts, Switches
<1> QED BY <1>1 DEF Terms

LEMMA SetSwitchTyped ==
  ASSUME NEW t \in Terms, NEW f \in Switches, NEW v \in BOOLEAN, NEW S \in SUBSET Topics
  PROVE  SetOpt(t, f, v, S) \in Terms
BY WithSwitch, TellTyped DEF SetOpt

LEMMA SetShapeTyped ==
  ASSUME NEW t \in Terms, NEW v \in Shapes, NEW S \in SUBSET Topics
  PROVE  SetOpt(t, "shape", v, S) \in Terms
<1>1. [t.opt EXCEPT !.shape = v] \in Opts
  BY DEF Terms, Opts
<1>2. [t EXCEPT !.opt["shape"] = v] \in Terms
  BY <1>1 DEF Terms
<1> QED BY <1>2, TellTyped DEF SetOpt

LEMMA SetModeTyped ==
  ASSUME NEW t \in Terms, NEW v \in 0..4, NEW S \in SUBSET Topics
  PROVE  SetOpt(t, "mode", v, S) \in Terms
<1>1. [t.opt EXCEPT !.mode = v] \in Opts
  BY DEF Terms, Opts
<1>2. [t EXCEPT !.opt["mode"] = v] \in Terms
  BY <1>1 DEF Terms
<1> QED BY <1>2, TellTyped DEF SetOpt

LEMMA SetEncTyped ==
  ASSUME NEW t \in Terms, NEW v \in Encodings, NEW S \in SUBSET Topics
  PROVE  SetOpt(t, "enc", v, S) \in Terms
<1>1. [t.opt EXCEPT !.enc = v] \in Opts
  BY DEF Terms, Opts
<1>2. [t EXCEPT !.opt["enc"] = v] \in Terms
  BY <1>1 DEF Terms
<1> QED BY <1>2, TellTyped DEF SetOpt

CurSwitches == {"origin", "wrap", "rev"}
LEMMA SetCurTyped ==
  ASSUME NEW t \in Terms, NEW f, NEW v,
         \/ f \in CurSwitches /\ v \in BOOLEAN
         \/ f \in {"g0", "g1"} /\ v \in Charsets94
         \/ f = "n" /\ v \in {0, 1}
  PROVE  SetCur(t, f, v) \in Terms
<1>1. [t.cur EXCEPT ![f] = v] \in Cursors
  BY DEF Terms, Cursors, CurSwitches
<1>2. [t EXCEPT !.cur[f] = v] \in Terms
  BY <1>1 DEF Terms
<1>3. Tell([t EXCEPT !.cur[f] = v], {"internal"}) \in Terms
  <2>1. {"internal"} \in SUBSET Topics
    BY DEF Topics
  <2> QED BY <1>2, <2>1, TellTyped
<1> QED BY <1>3 DEF SetCur

-----------------------------------------------------------------------------
(* The rendition.                                                          *)

LEMMA SetByIs == \A n \in DOMAIN SetBy : SetBy[n] \in Attributes
BY DEF SetBy, Attributes

LEMMA FgTyped ==
  ASSUME NEW c \in Cursors, NEW v \in 0..255
  PROVE  Fg(c, v) \in Cursors /\ Bg(c, v) \in Cursors
BY DEF Fg, Bg, Cursors, Attributes

LEMMA ResetSgrTyped ==
  ASSUME NEW c \in Cursors PROVE ResetSgr(c) \in Cursors
<1>1. {} \in SUBSET Attributes /\ FALSE \in BOOLEAN /\ 0 \in 0..255
  OBVIOUS
<1> QED BY <1>1 DEF ResetSgr, Cursors

LEMMA SgrOneTyped ==
  ASSUME NEW c \in Cursors, NEW n \in Nat
  PROVE  SgrOne(c, n) \in Cursors
<1> DEFINE r == ResetSgr(c)
           f1 == Fg(c, n - 30)
           f2 == Bg(c, n - 40)
           f3 == Fg(c, n - 90 + 8)
           f4 == Bg(c, n - 100 + 8)
           D == DOMAIN SetBy
           E == DOMAIN ClearedBy
           c1 == [c EXCEPT !.fg = 0, !.attrs = @ \ {"fg"}]
           c2 == [c EXCEPT !.bg = 0, !.attrs = @ \ {"bg"}]
           c3 == [c EXCEPT !.attrs = @ \cup {SetBy[n]}]
           c4 == [c EXCEPT !.attrs = @ \ ClearedBy[n]]
           c5 == [c EXCEPT !.conceal = (n = 8)]
           s == CASE n = 0 -> r [] n \in 30..37 -> f1 [] n \in 40..47 -> f2
                  [] n \in 90..97 -> f3 [] n \in 100..107 -> f4
                  [] n = 39 -> c1 [] n = 49 -> c2 [] n \in D -> c3 [] n \in E -> c4
                  [] n \in {8, 28} -> c5 [] OTHER -> c
<1>1. SgrOne(c, n) = s
  BY Zenon DEF SgrOne
<1>2. r \in Cursors
  BY ResetSgrTyped
<1>3. /\ n \in 30..37 => f1 \in Cursors
      /\ n \in 40..47 => f2 \in Cursors
      /\ n \in 90..97 => f3 \in Cursors
      /\ n \in 100..107 => f4 \in Cursors
  <2>1. /\ n \in 30..37 => n - 30 \in 0..255
        /\ n \in 40..47 => n - 40 \in 0..255
        /\ n \in 90..97 => n - 90 + 8 \in 0..255
        /\ n \in 100..107 => n - 100 + 8 \in 0..255
    OBVIOUS
  <2> QED BY <2>1, FgTyped
<1>4. c.attrs \in SUBSET Attributes
  BY DEF Cursors
<1>5. ASSUME NEW d \in Cursors, NEW A \in SUBSET Attributes
      PROVE  [d EXCEPT !.attrs = A] \in Cursors
  BY DEF Cursors
<1>6. c1 \in Cursors /\ c2 \in Cursors
  <2> DEFINE d1 == [c EXCEPT !.fg = 0]
             d2 == [c EXCEPT !.bg = 0]
  <2>1. d1 \in Cursors /\ d2 \in Cursors
    BY DEF Cursors
  <2>2. c1 = [d1 EXCEPT !.attrs = c.attrs \ {"fg"}]
        /\ c2 = [d2 EXCEPT !.attrs = c.attrs \ {"bg"}]
    BY DEF Cursors
  <2>3. c.attrs \ {"fg"} \in SUBSET Attributes /\ c.attrs \ {"bg"} \in SUBSET Attributes
    BY <1>4
  <2> HIDE DEF d1, d2
  <2> QED BY <1>5, <2>1, <2>2, <2>3
<1>7. n \in D => c3 \in Cursors
  BY <1>4, <1>5, SetByIs
<1>8. c4 \in Cursors
  BY <1>4, <1>5
<1>9. c5 \in Cursors
  <2>1. ASSUME NEW b \in BOOLEAN PROVE [c EXCEPT !.conceal = b] \in Cursors
    BY DEF Cursors
  <2>2. (n = 8) \in BOOLEAN
    OBVIOUS
  <2> QED BY <2>1, <2>2
<1> HIDE DEF r, f1, f2, f3, f4, D, E, c1, c2, c3, c4, c5
<1>10. s \in Cursors
  BY <1>2, <1>3, <1>6, <1>7, <1>8, <1>9
<1> QED BY <1>1, <1>10

(* The arguments of SGR, and how f gets from one to the next.              *)
Given(ns) == IF ns = <<>> THEN <<0>> ELSE ns
SgrRun(f, c, args) ==
  /\ f[0] = [cur |-> c, next |-> 1]
  /\ \A i \in 1..Len(args) : f[i] = SgrTurn(f[i - 1], args, i)
  /\ \A i \in 0..Len(args) : f[i].cur \in Cursors

LEMMA SgrRuns ==
  ASSUME NEW c \in Cursors, NEW ns \in Seq(Nat)
  PROVE  \E f : SgrRun(f, c, Given(ns)) /\ Sgr(c, ns) = f[Len(Given(ns))].cur
<1> DEFINE args == Given(ns)
           n == Len(args)
           S == [cur : Cursors, next : Nat \ {0}]
           b == [cur |-> c, next |-> 1]
           F == [k \in Nat |-> [a \in S |-> IF k \in 1..n THEN SgrTurn(a, args, k) ELSE a]]
           f[i \in 0..n] == IF i = 0 THEN b ELSE SgrTurn(f[i - 1], args, i)
<1>1. args \in Seq(Nat) /\ n \in Nat
  BY DEF Given
<1>2. ASSUME NEW a \in S, NEW k \in 1..n PROVE SgrTurn(a, args, k) \in S
  <2> HIDE DEF args
  <2> DEFINE e == args[k]
             a1 == [cur |-> SgrOne(a.cur, e), next |-> k + 1]
             a2 == [a EXCEPT !.next = n + 1]
             v == args[k + 2] % 256
             a3 == [cur |-> IF e = 38 THEN Fg(a.cur, v) ELSE Bg(a.cur, v), next |-> k + 3]
  <2>1. e \in Nat /\ k + 1 \in Nat \ {0} /\ k + 3 \in Nat \ {0} /\ n + 1 \in Nat \ {0}
    BY <1>1
  <2>2. a1 \in S /\ a2 \in S
    <3>1. SgrOne(a.cur, e) \in Cursors
      BY <2>1, SgrOneTyped
    <3> QED BY <2>1, <3>1
  <2>3. k <= n - 2 => a3 \in S
    <3> SUFFICES ASSUME k <= n - 2 PROVE a3 \in S
      OBVIOUS
    <3>1. args[k + 2] \in Nat
      BY <1>1
    <3>2. v \in 0..255
      <4>1. \A w \in Nat : w % 256 \in 0..255
        OBVIOUS
      <4> QED BY ONLY <3>1, <4>1
    <3>3. Fg(a.cur, v) \in Cursors /\ Bg(a.cur, v) \in Cursors
      BY <3>2, FgTyped
    <3> HIDE DEF e, v
    <3> QED BY <3>3, <2>1
  <2>4. SgrTurn(a, args, k) =
          IF k < a.next THEN a
          ELSE IF e \notin {38, 48} THEN a1
          ELSE IF k > n - 2 \/ args[k + 1] # 5 THEN a2 ELSE a3
    BY Zenon DEF SgrTurn
  <2> HIDE DEF a1, a2, a3, e, v
  <2> QED BY <2>1, <2>2, <2>3, <2>4, <1>1
<1>3. b \in S
  OBVIOUS
<1> HIDE DEF args, S, b
<1>4. F \in [Nat -> [S -> S]]
  BY <1>2
<1> HIDE DEF F, n
<1>5. PICK h : IsRunTo(h, n, S, b, F)
  BY <1>1, <1>3, <1>4, Recursion
<1>6. h = [i \in 0..n |-> IF i = 0 THEN b ELSE SgrTurn(h[i - 1], args, i)]
  <2>1. ASSUME NEW i \in 1..n PROVE h[i] = SgrTurn(h[i - 1], args, i)
    <3>1. h[i] = F[i][h[i - 1]] /\ h[i - 1] \in S /\ i \in Nat
      BY <1>1, <1>5 DEF IsRunTo
    <3> QED BY <3>1 DEF F
  <2> QED BY <1>1, <1>5, <2>1 DEF IsRunTo
<1>7. f = [i \in 0..n |-> IF i = 0 THEN b ELSE SgrTurn(f[i - 1], args, i)]
  BY <1>6, Zenon
<1>8. Sgr(c, ns) = f[n].cur
  BY Zenon DEF Sgr, Given, args, n, b
<1> HIDE DEF f
<1>9. \A i \in 0..n : f[i] \in S
  <2> DEFINE T == {i \in 0..n : f[i] \in S}
  <2>1. 0 \in T
    BY <1>1, <1>3, <1>7
  <2>2. ASSUME NEW i \in 1..n, i - 1 \in T PROVE i \in T
    <3>1. i \in 0..n /\ i # 0 /\ f[i - 1] \in S
      BY <1>1, <2>2
    <3>2. f[i] = SgrTurn(f[i - 1], args, i)
      BY <1>7, <3>1
    <3> QED BY <1>2, <3>1, <3>2 DEF n
  <2>3. \A i \in 0..n : i \in T
    <3> HIDE DEF T
    <3> QED BY <1>1, <2>1, <2>2, TurnByTurn
  <2> QED BY <2>3
<1>10. f[0] = b /\ \A i \in 1..n : f[i] = SgrTurn(f[i - 1], args, i)
  BY <1>1, <1>7
<1>11. \A i \in 0..n : f[i].cur \in Cursors
  BY <1>9 DEF S
<1>12. SgrRun(f, c, args)
  BY <1>10, <1>11 DEF SgrRun, b, n
<1> QED BY <1>8, <1>12 DEF n, args

LEMMA SgrTyped ==
  ASSUME NEW c \in Cursors, NEW ns \in Seq(Nat)
  PROVE  Sgr(c, ns) \in Cursors
<1>1. PICK f : SgrRun(f, c, Given(ns)) /\ Sgr(c, ns) = f[Len(Given(ns))].cur
  BY SgrRuns
<1>2. Given(ns) \in Seq(Nat)
  BY DEF Given
<1>3. Len(Given(ns)) \in 0..Len(Given(ns))
  BY <1>2
<1> QED BY <1>1, <1>3 DEF SgrRun

-----------------------------------------------------------------------------
(* What the browser is told.                                               *)

(* From t to u, what changes for the browser is among the topics raised.   *)
Told(t, u) ==
  /\ t.topics \subseteq u.topics
  /\ OptsShown(u) # OptsShown(t) => "opts" \in u.topics
  /\ ButtonsShown(u) # ButtonsShown(t) => "buttons" \in u.topics
  /\ u.txt.title # t.txt.title => "title" \in u.topics
  /\ u.txt.backdrop # t.txt.backdrop => "backdrop" \in u.topics
  /\ u.line # t.line => "double" \in u.topics

LEMMA ToldTwice ==
  ASSUME NEW t, NEW u, NEW v, Told(t, u), Told(u, v)
  PROVE  Told(t, v)
BY DEF Told

LEMMA ToldSame ==
  ASSUME NEW t, NEW u, t.topics \subseteq u.topics,
         OptsShown(u) = OptsShown(t) \/ "opts" \in u.topics,
         u.txt = t.txt, u.line = t.line
  PROVE  Told(t, u)
BY DEF Told, ButtonsShown

LEMMA TellKeeps ==
  ASSUME NEW t \in Terms, NEW S
  PROVE  LET u == Tell(t, S)
         IN  /\ u.cur = t.cur /\ u.saved = t.saved /\ u.opt = t.opt /\ u.kept = t.kept
             /\ u.txt = t.txt /\ u.alt = t.alt /\ u.tabs = t.tabs /\ u.line = t.line
             /\ u.last = t.last /\ u.topics = t.topics \cup S
BY DEF Tell, Terms

LEMMA TellTold ==
  ASSUME NEW t \in Terms, NEW S
  PROVE  Told(t, Tell(t, S))
<1> DEFINE u == Tell(t, S)
<1>1. t.topics \subseteq u.topics /\ u.opt = t.opt /\ u.txt = t.txt /\ u.line = t.line
  BY TellKeeps
<1> HIDE DEF u
<1>2. OptsShown(u) = OptsShown(t)
  BY <1>1 DEF OptsShown
<1>3. Told(t, u)
  BY <1>1, <1>2, ToldSame
<1> QED BY <1>3 DEF u

(* All topics raised, nothing can be missed.                               *)
LEMMA AllTold ==
  ASSUME NEW t, NEW u, t.topics \subseteq u.topics,
         {"opts", "buttons", "title", "backdrop", "double"} \subseteq u.topics
  PROVE  Told(t, u)
BY DEF Told

LEMMA WithXTold ==
  ASSUME NEW t \in Terms, NEW x
  PROVE  LET u == [t EXCEPT !.cur.x = x]
         IN  /\ Told(t, u) /\ u.saved = t.saved /\ u.opt = t.opt /\ u.kept = t.kept
             /\ u.txt = t.txt /\ u.alt = t.alt /\ u.tabs = t.tabs /\ u.line = t.line
             /\ u.topics = t.topics /\ u.cur = [t.cur EXCEPT !.x = x]
<1> DEFINE u == [t EXCEPT !.cur.x = x]
<1>1. /\ u.saved = t.saved /\ u.opt = t.opt /\ u.kept = t.kept
      /\ u.txt = t.txt /\ u.alt = t.alt /\ u.tabs = t.tabs /\ u.line = t.line
      /\ u.topics = t.topics /\ u.cur = [t.cur EXCEPT !.x = x]
  BY DEF Terms
<1> HIDE DEF u
<1>2. OptsShown(u) = OptsShown(t)
  BY <1>1 DEF OptsShown
<1>3. Told(t, u)
  BY <1>1, <1>2, ToldSame
<1> QED BY <1>1, <1>3 DEF u

LEMMA SetCurIs ==
  ASSUME NEW t \in Terms, NEW f, NEW v
  PROVE  LET u == SetCur(t, f, v)
         IN  /\ Told(t, u) /\ u.saved = t.saved /\ u.opt = t.opt /\ u.kept = t.kept
             /\ u.txt = t.txt /\ u.alt = t.alt /\ u.tabs = t.tabs /\ u.line = t.line
             /\ u.cur = [t.cur EXCEPT ![f] = v]
<1> DEFINE w == [t EXCEPT !.cur[f] = v]
           u == Tell(w, {"internal"})
<1>1. /\ u.saved = t.saved /\ u.opt = t.opt /\ u.kept = t.kept
      /\ u.txt = t.txt /\ u.alt = t.alt /\ u.tabs = t.tabs /\ u.line = t.line
      /\ t.topics \subseteq u.topics /\ u.cur = [t.cur EXCEPT ![f] = v]
  BY DEF Terms, Tell
<1>2. SetCur(t, f, v) = u
  BY DEF SetCur
<1> HIDE DEF u, w
<1>3. OptsShown(u) = OptsShown(t)
  BY <1>1 DEF OptsShown
<1>4. Told(t, u)
  BY <1>1, <1>3, ToldSame
<1> QED BY <1>1, <1>2, <1>4

LEMMA SetOptIs ==
  ASSUME NEW t \in Terms, NEW f, NEW v, NEW S
  PROVE  LET u == SetOpt(t, f, v, S)
         IN  /\ u.cur = t.cur /\ u.saved = t.saved /\ u.kept = t.kept
             /\ u.txt = t.txt /\ u.alt = t.alt /\ u.tabs = t.tabs /\ u.line = t.line
             /\ u.opt = [t.opt EXCEPT ![f] = v] /\ u.topics = t.topics \cup S
BY DEF Terms, Tell, SetOpt

LEMMA SetOptTold ==
  ASSUME NEW t \in Terms, NEW f, NEW v, NEW S,
         "opts" \in S \/ f \in {"insert", "loopback"}
  PROVE  Told(t, SetOpt(t, f, v, S))
<1> DEFINE u == SetOpt(t, f, v, S)
<1>1. /\ u.txt = t.txt /\ u.line = t.line /\ u.topics = t.topics \cup S
      /\ u.opt = [t.opt EXCEPT ![f] = v]
  BY DEF Terms, Tell, SetOpt
<1> HIDE DEF u
<1>2. ASSUME f \in {"insert", "loopback"} PROVE OptsShown(u) = OptsShown(t)
  <2>1. u.opt.mode = t.opt.mode
    BY <1>1, <1>2 DEF Terms, Opts
  <2>2. ASSUME NEW g \in {"visible", "cursors", "numpad", "buttons", "links", "shape",
                          "crlf", "paste", "reverse"}
        PROVE  u.opt[g] = t.opt[g]
    BY <1>1, <1>2 DEF Terms, Opts
  <2> QED BY <2>1, <2>2 DEF OptsShown
<1>3. Told(t, u)
  BY <1>1, <1>2, ToldSame
<1> QED BY <1>3 DEF u

-----------------------------------------------------------------------------
(* Each operator yields structs of the right types and tells what it does. *)

Fine(t, u) == u \in Terms /\ Told(t, u)

LEMMA FineTwice ==
  ASSUME NEW t, NEW u, NEW v, Fine(t, u), Fine(u, v)
  PROVE  Fine(t, v)
BY ToldTwice DEF Fine

LEMMA TellFine ==
  ASSUME NEW t \in Terms, NEW S \in SUBSET Topics
  PROVE  Fine(t, Tell(t, S))
BY TellTyped, TellTold DEF Fine

LEMMA WithXFine ==
  ASSUME NEW t \in Terms, NEW x \in Nat
  PROVE  Fine(t, [t EXCEPT !.cur.x = x])
BY WithX, WithXTold DEF Fine

LEMMA SetCurFine ==
  ASSUME NEW t \in Terms, NEW f, NEW v,
         \/ f \in CurSwitches /\ v \in BOOLEAN
         \/ f \in {"g0", "g1"} /\ v \in Charsets94
         \/ f = "n" /\ v \in {0, 1}
  PROVE  Fine(t, SetCur(t, f, v))
BY SetCurTyped, SetCurIs DEF Fine

LEMMA SetOptFine ==
  ASSUME NEW t \in Terms, NEW f, NEW v, NEW S \in SUBSET Topics,
         "opts" \in S \/ f \in {"insert", "loopback"},
         \/ f \in Switches /\ v \in BOOLEAN
         \/ f = "shape" /\ v \in Shapes
         \/ f = "mode" /\ v \in 0..4
         \/ f = "enc" /\ v \in Encodings
  PROVE  Fine(t, SetOpt(t, f, v, S))
<1>1. Told(t, SetOpt(t, f, v, S))
  BY SetOptTold
<1>2. SetOpt(t, f, v, S) \in Terms
  BY SetSwitchTyped, SetShapeTyped, SetModeTyped, SetEncTyped
<1> QED BY <1>1, <1>2 DEF Fine

LEMMA ClearedFine ==
  ASSUME NEW t \in Terms
  PROVE  /\ Fine(t, Cleared(t)) /\ Cleared(t).cur = t.cur /\ Cleared(t).opt = t.opt
         /\ Cleared(t).alt = t.alt /\ Cleared(t).txt = t.txt /\ Cleared(t).tabs = t.tabs
         /\ Cleared(t).kept = t.kept
<1> DEFINE u == [t EXCEPT !.last = {}, !.line = {}]
           S == {"all", "double"}
<1>1. Cleared(t) = Tell(u, S)
  BY Zenon DEF Cleared
<1>2. u \in Terms /\ u.topics = t.topics /\ u.opt = t.opt /\ u.txt = t.txt /\ u.cur = t.cur
      /\ u.alt = t.alt /\ u.tabs = t.tabs /\ u.kept = t.kept
  <2>1. {} \in SUBSET Lasts /\ {} \in LineAttrs
    BY DEF LineAttrs
  <2> QED BY <2>1 DEF Terms
<1>3. S \in SUBSET Topics
  BY DEF Topics, TOPIC_INITIAL
<1> HIDE DEF u
<1> DEFINE w == Tell(u, S)
<1>4. w \in Terms /\ w.topics = t.topics \cup S /\ w.opt = t.opt /\ w.txt = t.txt
      /\ w.cur = t.cur /\ w.alt = t.alt /\ w.tabs = t.tabs /\ w.kept = t.kept
  BY <1>2, <1>3, TellTyped, TellKeeps
<1>5. t.topics \subseteq w.topics /\ "double" \in w.topics
  BY <1>4
<1> HIDE DEF S, w
<1>6. OptsShown(w) = OptsShown(t) /\ ButtonsShown(w) = ButtonsShown(t)
  BY <1>4 DEF OptsShown, ButtonsShown
<1>7. Told(t, w)
  BY <1>4, <1>5, <1>6 DEF Told
<1>8. Cleared(t) = w
  BY <1>1 DEF w
<1> QED BY <1>4, <1>7, <1>8 DEF Fine

LEMMA ClampFine ==
  ASSUME NEW t \in Terms, 2 <= Width
  PROVE  Fine(t, Clamp(t)) /\ Clamp(t).opt = t.opt /\ Clamp(t).kept = t.kept
         /\ Clamp(t).txt = t.txt /\ Clamp(t).tabs = t.tabs /\ Clamp(t).alt = t.alt
<1>1. CASE Clamp(t) = t
  BY <1>1 DEF Fine, Told
<1>2. CASE Clamp(t) = [t EXCEPT !.cur.x = Width \div 2 - 1]
  <2>1. Width \div 2 - 1 \in Nat
    BY ModesAssumption
  <2> DEFINE x == Width \div 2 - 1
  <2> HIDE DEF x
  <2> QED BY <1>2, <2>1, WithXFine, WithXTold DEF x
<1> QED BY <1>1, <1>2 DEF Clamp

LEMMA ResetCursorTyped ==
  ASSUME NEW c, c.origin \in BOOLEAN, c.wrap \in BOOLEAN, c.rev \in BOOLEAN
  PROVE  CursorReset(c) \in Cursors
BY DEF CursorReset, Cursors, Charsets94

LEMMA SaveFine ==
  ASSUME NEW t \in Terms
  PROVE  Fine(t, SaveCursor(t)) /\ SaveCursor(t).opt = t.opt /\ SaveCursor(t).alt = t.alt
         /\ SaveCursor(t).cur = t.cur /\ SaveCursor(t).kept = t.kept
<1> DEFINE u == SaveCursor(t)
<1>1. u \in Terms
  <2>1. {t.cur} \in SUBSET Cursors
    BY DEF Terms
  <2> QED BY <2>1 DEF SaveCursor, Terms
<1>2. u.topics = t.topics /\ u.opt = t.opt /\ u.txt = t.txt /\ u.line = t.line
      /\ u.alt = t.alt /\ u.cur = t.cur /\ u.kept = t.kept
  BY DEF SaveCursor, Terms
<1> HIDE DEF u
<1>3. OptsShown(u) = OptsShown(t)
  BY <1>2 DEF OptsShown
<1>4. Told(t, u)
  BY <1>2, <1>3, ToldSame
<1> QED BY <1>1, <1>2, <1>4 DEF Fine, u

LEMMA RestoreFine ==
  ASSUME NEW t \in Terms, NEW all \in BOOLEAN, 2 <= Width
  PROVE  Fine(t, RestoreCursor(t, all))
<1> DEFINE s == CHOOSE c \in t.saved : TRUE
           d == IF t.saved = {} THEN CursorReset(t.cur)
                ELSE IF all THEN s ELSE [t.cur EXCEPT !.x = s.x]
           u == [t EXCEPT !.cur = d]
           S == {"cursor"}
<1>1. RestoreCursor(t, all) = Tell(Clamp(u), S)
  BY DEF RestoreCursor, Terms
<1>2. t.cur \in Cursors /\ t.saved \in SUBSET Cursors
  BY DEF Terms
<1>3. d \in Cursors
  <2>1. CursorReset(t.cur) \in Cursors
    BY <1>2, ResetCursorTyped DEF Cursors
  <2>2. t.saved # {} => s \in Cursors
    BY <1>2
  <2>3. ASSUME s \in Cursors PROVE [t.cur EXCEPT !.x = s.x] \in Cursors
    BY <1>2, <2>3 DEF Cursors
  <2> HIDE DEF s
  <2> QED BY <2>1, <2>2, <2>3
<1> HIDE DEF d
<1>4. u \in Terms /\ u.topics = t.topics /\ u.opt = t.opt /\ u.txt = t.txt
      /\ u.line = t.line
  BY <1>3 DEF Terms
<1> HIDE DEF u
<1>5. Told(t, u)
  <2>1. OptsShown(u) = OptsShown(t)
    BY <1>4 DEF OptsShown
  <2> QED BY <1>4, <2>1, ToldSame
<1>6. Fine(u, Clamp(u))
  BY <1>4, ClampFine
<1>7. S \in SUBSET Topics
  BY DEF Topics, TOPIC_INITIAL
<1>8. Fine(Clamp(u), Tell(Clamp(u), S))
  BY <1>6, <1>7, TellFine DEF Fine
<1> QED BY <1>1, <1>4, <1>5, <1>6, <1>8, FineTwice DEF Fine

LEMMA OptResetTyped ==
  ASSUME NEW o, o.paste \in BOOLEAN, o.loopback \in BOOLEAN, conf \in Confs
  PROVE  OptReset(o) \in Opts
BY DEF OptReset, Opts, Encodings, Confs, Shapes

LEMMA KeptOfTyped ==
  ASSUME NEW c \in Cursors, NEW o \in Opts
  PROVE  KeptOf(c, o) \in Kepts
<1>1. Blinks(o.shape) \in BOOLEAN
  BY DEF Blinks
<1> DEFINE b == Blinks(o.shape)
<1> HIDE DEF b
<1> QED BY <1>1 DEF KeptOf, Kepts, Opts, Cursors, b

LEMMA TabsTyped == InitialTabs \in SUBSET Nat
BY TabAssumption DEF InitialTabs, Columns

LEMMA TextsTyped == FreshTexts \in Txts
BY DEF FreshTexts, Txts, Labelled, Labels

LEMMA ResetFine ==
  ASSUME NEW t \in Terms, conf \in Confs
  PROVE  LET u == ResetScreen(t)
             c == CursorReset(ResetModes)
             o == OptReset(t.opt)
         IN  /\ Fine(t, u) /\ u.cur = c /\ u.opt = o /\ u.kept = KeptOf(c, o)
             /\ c \in Cursors /\ o \in Opts
<1> DEFINE c == CursorReset(ResetModes)
           o == OptReset(t.opt)
           k == KeptOf(c, o)
           T == InitialTabs
           B == FreshTexts.btn
           r == [t EXCEPT !.cur = c, !.opt = o, !.kept = k, !.alt.active = FALSE,
                          !.tabs = T, !.txt.title = "conf", !.txt.backdrop = "conf",
                          !.txt.btn = B]
           S == {"opts", "cursor", "title", "buttons", "backdrop"}
           w == Cleared(r)
           u == Tell(w, S)
<1>1. ResetScreen(t) = u
  BY Zenon DEF ResetScreen
<1>2. c \in Cursors
  <2>1. ResetModes.origin \in BOOLEAN /\ ResetModes.wrap \in BOOLEAN
        /\ ResetModes.rev \in BOOLEAN
    BY DEF ResetModes
  <2> QED BY ONLY <2>1, ResetCursorTyped
<1>3. o \in Opts
  BY OptResetTyped DEF Terms, Opts
<1>4. k \in Kepts
  BY <1>2, <1>3, KeptOfTyped
<1>5. B \in Labelled /\ "conf" \in Labels
  BY DEF FreshTexts, Labelled, Labels
<1>6. T \in SUBSET Nat
  BY TabsTyped
<1> HIDE DEF c, o, k, T, B
<1>7. r \in Terms /\ r.cur = c /\ r.opt = o /\ r.kept = k /\ r.topics = t.topics
  <2> DEFINE a == [t.alt EXCEPT !.active = FALSE]
             x == [t.txt EXCEPT !.title = "conf", !.backdrop = "conf", !.btn = B]
             q == [t EXCEPT !.cur = c, !.opt = o, !.kept = k, !.alt = a, !.tabs = T, !.txt = x]
  <2>1. a \in Alts
    BY DEF Terms, Alts
  <2>2. x \in Txts
    BY <1>5 DEF Terms, Txts
  <2>3. r = q
    BY DEF Terms, Txts
  <2> HIDE DEF a, x, r
  <2> QED BY <1>2, <1>3, <1>4, <1>6, <2>1, <2>2, <2>3 DEF Terms
<1> HIDE DEF r
<1>8. w \in Terms /\ w.cur = c /\ w.opt = o /\ w.kept = k /\ Fine(r, w)
  BY <1>7, ClearedFine DEF Fine
<1>9. "double" \in w.topics /\ t.topics \subseteq w.topics
  <2>1. r.topics \subseteq w.topics
    BY <1>8 DEF Fine, Told
  <2>2. "double" \in w.topics
    BY <1>7 DEF Cleared, Tell, Terms
  <2> QED BY <1>7, <2>1, <2>2
<1> HIDE DEF w
<1>10. S \in SUBSET Topics
  BY DEF Topics, TOPIC_INITIAL
<1>11. u \in Terms /\ u.cur = c /\ u.opt = o /\ u.kept = k /\ u.topics = w.topics \cup S
  BY <1>8, <1>10, TellTyped, TellKeeps
<1>12. Told(t, u)
  <2>1. t.topics \subseteq u.topics /\ {"opts", "buttons", "title", "backdrop", "double"} \subseteq u.topics
    BY <1>9, <1>11
  <2> HIDE DEF u
  <2> QED BY <2>1, AllTold
<1> HIDE DEF u
<1>13. /\ Fine(t, u) /\ u.cur = c /\ u.opt = o /\ u.kept = KeptOf(c, o)
       /\ c \in Cursors /\ o \in Opts
  BY <1>2, <1>3, <1>11, <1>12 DEF Fine, k
<1> QED BY <1>1, <1>13, Zenon DEF c, o

LEMMA SwapFine ==
  ASSUME NEW t \in Terms, NEW on \in BOOLEAN
  PROVE  Fine(t, SwapState(t, on)) /\ SwapState(t, on).opt = t.opt
         /\ SwapState(t, on).cur = t.cur /\ SwapState(t, on).kept = t.kept
<1>1. CASE on = t.alt.active
  BY <1>1 DEF SwapState, Fine, Told
<1>2. CASE on # t.alt.active
  <2> DEFINE a == [active |-> TRUE, title |-> t.txt.title, btn |-> t.txt.btn,
                   msg |-> t.txt.msg, tabs |-> t.tabs]
             u1 == [t EXCEPT !.alt = a]
             u2 == [t EXCEPT !.alt.active = FALSE, !.txt.title = t.alt.title,
                             !.txt.btn = t.alt.btn, !.txt.msg = t.alt.msg,
                             !.tabs = t.alt.tabs]
             v == IF on THEN u1 ELSE u2
             u == Tell(v, TOPIC_INITIAL)
  <2>1. SwapState(t, on) = u
    BY <1>2 DEF SwapState
  <2>2. u1 \in Terms /\ u1.topics = t.topics /\ u1.opt = t.opt /\ u1.cur = t.cur
        /\ u1.kept = t.kept
    <3>1. a \in Alts
      BY DEF Terms, Alts, Txts
    <3> HIDE DEF a
    <3> QED BY <3>1 DEF Terms
  <2>3. u2 \in Terms /\ u2.topics = t.topics /\ u2.opt = t.opt /\ u2.cur = t.cur
        /\ u2.kept = t.kept
    <3> DEFINE b == [t.alt EXCEPT !.active = FALSE]
               x == [t.txt EXCEPT !.title = t.alt.title, !.btn = t.alt.btn,
                                  !.msg = t.alt.msg]
    <3>1. b \in Alts
      BY DEF Terms, Alts
    <3>2. x \in Txts
      BY DEF Terms, Txts, Alts
    <3>3. t.alt.tabs \in SUBSET Nat
      BY DEF Terms, Alts
    <3>4. u2 = [t EXCEPT !.alt = b, !.txt = x, !.tabs = t.alt.tabs]
      BY DEF Terms
    <3> HIDE DEF b, x, u2
    <3> QED BY <3>1, <3>2, <3>3, <3>4 DEF Terms
  <2> HIDE DEF u1, u2
  <2>4. v \in Terms /\ v.topics = t.topics /\ v.opt = t.opt /\ v.cur = t.cur
        /\ v.kept = t.kept
    BY <2>2, <2>3
  <2> HIDE DEF v
  <2>5. TOPIC_INITIAL \in SUBSET Topics
    BY DEF Topics
  <2>6. u \in Terms /\ u.topics = t.topics \cup TOPIC_INITIAL /\ u.opt = t.opt
        /\ u.cur = t.cur /\ u.kept = t.kept
    BY <2>4, <2>5, TellTyped, TellKeeps
  <2> HIDE DEF u
  <2>7. Told(t, u)
    BY <2>6, AllTold DEF TOPIC_INITIAL
  <2> QED BY <2>1, <2>6, <2>7 DEF Fine
<1> QED BY <1>1, <1>2

LEMMA WithTxt ==
  ASSUME NEW t \in Terms, NEW x \in Txts, NEW S \in SUBSET Topics,
         x.title = t.txt.title \/ "title" \in S,
         x.backdrop = t.txt.backdrop \/ "backdrop" \in S,
         (x.btn = t.txt.btn /\ x.color = t.txt.color /\ x.count = t.txt.count)
           \/ "buttons" \in S
  PROVE  Fine(t, Tell([t EXCEPT !.txt = x], S))
<1> DEFINE w == [t EXCEPT !.txt = x]
           u == Tell(w, S)
<1>1. w \in Terms /\ w.topics = t.topics /\ w.opt = t.opt /\ w.txt = x /\ w.line = t.line
  BY DEF Terms
<1> HIDE DEF w
<1>2. u \in Terms /\ u.topics = t.topics \cup S /\ u.opt = t.opt /\ u.txt = x
      /\ u.line = t.line
  BY <1>1, TellTyped, TellKeeps
<1> HIDE DEF u
<1>3. OptsShown(u) = OptsShown(t)
  BY <1>2 DEF OptsShown
<1>4. x.btn = t.txt.btn /\ x.color = t.txt.color /\ x.count = t.txt.count
        => ButtonsShown(u) = ButtonsShown(t)
  BY <1>2 DEF ButtonsShown
<1>5. Told(t, u)
  BY <1>2, <1>3, <1>4 DEF Told
<1> QED BY <1>2, <1>5 DEF Fine, u, w

LEMMA TitleFine ==
  ASSUME NEW t \in Terms, NEW s \in Labels
  PROVE  Fine(t, SetTitle(t, s)) /\ Fine(t, SetBackdrop(t, s))
<1> DEFINE x == [t.txt EXCEPT !.title = s]
           y == [t.txt EXCEPT !.backdrop = s]
<1>1. x \in Txts /\ y \in Txts
  BY DEF Terms, Txts
<1>2. /\ x.backdrop = t.txt.backdrop /\ x.btn = t.txt.btn
      /\ x.color = t.txt.color /\ x.count = t.txt.count
  BY DEF Terms, Txts
<1>3. /\ y.title = t.txt.title /\ y.btn = t.txt.btn
      /\ y.color = t.txt.color /\ y.count = t.txt.count
  BY DEF Terms, Txts
<1>4. SetTitle(t, s) = Tell([t EXCEPT !.txt = x], {"title"})
  BY Zenon DEF SetTitle
<1>5. SetBackdrop(t, s) = Tell([t EXCEPT !.txt = y], {"backdrop"})
  BY Zenon DEF SetBackdrop
<1> HIDE DEF x, y
<1>6. {"title"} \in SUBSET Topics /\ {"backdrop"} \in SUBSET Topics
  BY DEF Topics, TOPIC_INITIAL
<1>7. Fine(t, Tell([t EXCEPT !.txt = x], {"title"}))
  BY <1>1, <1>2, <1>6, WithTxt
<1>8. Fine(t, Tell([t EXCEPT !.txt = y], {"backdrop"}))
  BY <1>1, <1>3, <1>6, WithTxt
<1> QED BY <1>4, <1>5, <1>7, <1>8

LEMMA CountFine ==
  ASSUME NEW t \in Terms, NEW n
  PROVE  Fine(t, SetCount(t, n))
<1> DEFINE m == IF n \in 0..5 THEN n ELSE t.txt.count
           x == [t.txt EXCEPT !.count = m]
<1>1. m \in 0..5
  BY DEF Terms, Txts
<1>2. SetCount(t, n) = Tell([t EXCEPT !.txt = x], {"buttons"})
  BY Zenon DEF SetCount
<1> HIDE DEF m
<1>3. x \in Txts /\ x.title = t.txt.title /\ x.backdrop = t.txt.backdrop
  BY <1>1 DEF Terms, Txts
<1> HIDE DEF x
<1>4. {"buttons"} \in SUBSET Topics
  BY DEF Topics, TOPIC_INITIAL
<1> QED BY <1>2, <1>3, <1>4, WithTxt

LEMMA ButtonFine ==
  ASSUME NEW t \in Terms, NEW f, NEW b, NEW v,
         (f \in {"btn", "msg"} /\ v \in Labels) \/ (f = "color" /\ v \in Nat)
  PROVE  Fine(t, SetButton(t, f, b, v))
<1>1. {"buttons"} \in SUBSET Topics
  BY DEF Topics, TOPIC_INITIAL
<1>2. CASE b \in Buttons
  <2> DEFINE y == [t.txt[f] EXCEPT ![b] = v]
             x == [t.txt EXCEPT ![f] = y]
  <2>1. SetButton(t, f, b, v) = Tell([t EXCEPT !.txt = x], {"buttons"})
    BY <1>2, Zenon DEF SetButton
  <2>2. f = "color" => y \in [Buttons -> Nat]
    BY DEF Terms, Txts
  <2>3. f \in {"btn", "msg"} => y \in Labelled
    BY DEF Terms, Txts, Labelled
  <2> HIDE DEF y
  <2>4. x \in Txts /\ x.title = t.txt.title /\ x.backdrop = t.txt.backdrop
    BY <2>2, <2>3 DEF Terms, Txts
  <2> HIDE DEF x
  <2> QED BY <1>1, <2>1, <2>4, WithTxt
<1>3. CASE b \notin Buttons
  BY <1>1, <1>3, TellFine DEF SetButton
<1> QED BY <1>2, <1>3

OscArgs(n, m, s) ==
  \/ n \in {0, 2, 4, 28, 29, 70} \cup 81..85 \cup 91..95 /\ s \in Texts
  \/ n = 27 /\ m = 1 /\ s \in Texts
  \/ n = 27 /\ m = 2
  \/ n = 30 /\ s \in Nat

LEMMA OscArgsIs ==
  ASSUME NEW c \in OscCommands PROVE OscArgs(c[1], c[2], c[3])
<1>1. CASE c \in {0, 2, 4, 70} \X {0} \X Texts
  BY <1>1 DEF OscArgs
<1>2. CASE c \in {27} \X {1} \X Texts
  BY <1>2 DEF OscArgs
<1>3. CASE c \in {27} \X {2} \X Counts
  BY <1>3 DEF OscArgs
<1>4. CASE c \in {28, 29} \X Buttons \X Texts
  BY <1>4 DEF OscArgs
<1>5. CASE c \in {30} \X Buttons \X Colors
  <2>1. \A x \in Colors : x \in Nat
    <3>1. Colors \subseteq 0..255
      BY ModesAssumption, Zenon
    <3> QED BY ONLY <3>1
  <2> QED BY ONLY <1>5, <2>1 DEF OscArgs
<1>6. CASE c \in (81..85) \X {0} \X Texts
  BY <1>6 DEF OscArgs
<1>7. CASE c \in (91..95) \X {0} \X Texts
  BY <1>7 DEF OscArgs
<1> QED BY <1>1, <1>2, <1>3, <1>4, <1>5, <1>6, <1>7, Zenon DEF OscCommands

LEMMA OscFine ==
  ASSUME NEW t \in Terms, NEW n, NEW m, NEW s, OscArgs(n, m, s)
  PROVE  Fine(t, Osc(t, n, m, s))
<1>1. Fine(t, t)
  BY DEF Fine, Told
<1>2. \A x \in Texts : x \in Labels
  BY DEF Labels
<1>3. CASE n \in {0, 2}
  BY <1>2, <1>3, TitleFine DEF Osc, OscArgs
<1>4. CASE n = 70 \/ (n = 27 /\ m = 1)
  BY <1>2, <1>4, TitleFine DEF Osc, OscArgs
<1>5. CASE n = 27 /\ m = 2
  BY <1>5, CountFine DEF Osc
<1>6. CASE n \in {28, 29, 30}
  BY <1>2, <1>6, ButtonFine DEF Osc, OscArgs
<1>7. CASE n \in 81..85 \cup 91..95
  BY <1>2, <1>7, ButtonFine DEF Osc, OscArgs
<1>8. CASE n = 4
  BY <1>1, <1>8 DEF Osc
<1> QED BY <1>3, <1>4, <1>5, <1>6, <1>7, <1>8 DEF OscArgs

LEMMA ShapeFine ==
  ASSUME NEW t \in Terms, NEW n \in 0..6, conf \in Confs
  PROVE  Fine(t, CursorShape(t, n))
<1>1. {"opts"} \in SUBSET Topics
  BY DEF Topics, TOPIC_INITIAL
<1> DEFINE v == IF n = 1 THEN conf.shape ELSE n
<1>2. v \in Shapes
  BY DEF Confs, Shapes
<1>3. CursorShape(t, n) = SetOpt(t, "shape", v, {"opts"})
  BY DEF CursorShape
<1> HIDE DEF v
<1> QED BY <1>1, <1>2, <1>3, SetOptFine

Blinked(s, yn) ==
  LET map == IF yn THEN Blinking ELSE Steady
  IN  IF s \in DOMAIN map THEN map[s] ELSE s

LEMMA BlinkedIs ==
  ASSUME NEW s \in 0..6, NEW yn \in BOOLEAN
  PROVE  Blinked(s, yn) =
           IF yn THEN (IF s = 2 THEN 0 ELSE IF s = 4 THEN 3 ELSE IF s = 6 THEN 5 ELSE s)
           ELSE (IF s = 0 THEN 2 ELSE IF s = 3 THEN 4 ELSE IF s = 5 THEN 6 ELSE s)
BY DEF Blinked, Blinking, Steady

LEMMA BlinkIs ==
  ASSUME NEW t, NEW yn
  PROVE  CursorBlink(t, yn) =
           IF ~conf.decopt12 THEN t ELSE SetOpt(t, "shape", Blinked(t.opt.shape, yn), {"opts"})
BY Zenon DEF CursorBlink, Blinked

LEMMA BlinkFine ==
  ASSUME NEW t \in Terms, NEW yn \in BOOLEAN
  PROVE  Fine(t, CursorBlink(t, yn))
<1> DEFINE v == Blinked(t.opt.shape, yn)
<1>1. {"opts"} \in SUBSET Topics
  BY DEF Topics, TOPIC_INITIAL
<1>2. v \in Shapes
  <2>1. t.opt.shape \in Shapes
    BY DEF Terms, Opts
  <2> QED BY <2>1, BlinkedIs DEF Shapes
<1>3. Fine(t, t)
  BY DEF Fine, Told
<1>4. CursorBlink(t, yn) = t \/ CursorBlink(t, yn) = SetOpt(t, "shape", v, {"opts"})
  BY BlinkIs
<1> HIDE DEF v
<1> QED BY <1>1, <1>2, <1>3, <1>4, SetOptFine

LEMMA OptionFine ==
  ASSUME NEW t \in Terms, NEW n \in {4, 12, 20}, NEW yn \in BOOLEAN
  PROVE  Fine(t, SetOption(t, n, yn))
<1>1. {"opts"} \in SUBSET Topics /\ {"internal"} \in SUBSET Topics /\ {} \in SUBSET Topics
  BY DEF Topics, TOPIC_INITIAL
<1>2. CASE n = 4
  BY <1>1, <1>2, SetOptFine DEF SetOption, Switches
<1>3. CASE n = 12
  <2> DEFINE v == ~yn
  <2>1. v \in BOOLEAN /\ SetOption(t, n, yn) = SetOpt(t, "loopback", v, {})
    BY <1>3 DEF SetOption
  <2> HIDE DEF v
  <2> QED BY <1>1, <2>1, SetOptFine DEF Switches
<1>4. CASE n = 20
  BY <1>1, <1>4, SetOptFine DEF SetOption, Switches
<1> QED BY <1>2, <1>3, <1>4

LEMMA FlagIs == DOMAIN Flag = {1, 5, 25, 800, 801, 1004, 2004}
                /\ \A n \in DOMAIN Flag : Flag[n] \in Switches
BY DEF Flag, Switches
LEMMA ModeIs == DOMAIN Mode = {9, 1000, 1002, 1003}
                /\ \A n \in DOMAIN Mode : Mode[n] \in 1..4
BY DEF Mode
LEMMA EncodingIs == DOMAIN Encoding = {1005, 1006, 1015}
                    /\ \A n \in DOMAIN Encoding : Encoding[n] \in Encodings
BY DEF Encoding, Encodings

Homed(t) == [t EXCEPT !.cur.x = 0]

AtMode(t, n, yn) ==
  n \in DOMAIN Mode => SetPrivate(t, n, yn) = SetOpt(t, "mode", IF yn THEN Mode[n] ELSE 0, {"opts"})
AtEncoding(t, n, yn) ==
  n \in DOMAIN Encoding =>
    SetPrivate(t, n, yn) = SetOpt(t, "enc", IF yn THEN Encoding[n] ELSE "simple", {"opts"})
At1001(t, n, yn) == n = 1001 => SetPrivate(t, n, yn) = Tell(t, {"opts"})
At12(t, n, yn) == n = 12 => SetPrivate(t, n, yn) = CursorBlink(t, yn)
At47(t, n, yn) == n \in {47, 1047} => SetPrivate(t, n, yn) = SwapState(t, yn)
At1048(t, n, yn) == n = 1048 => SetPrivate(t, n, yn) = SaveCursor(t)
At1049On(t, n, yn) == n = 1049 /\ yn => SetPrivate(t, n, yn) = Cleared(SwapState(SaveCursor(t), TRUE))
At1049Off(t, n, yn) == n = 1049 /\ ~yn => SetPrivate(t, n, yn) = RestoreCursor(SwapState(Cleared(t), FALSE), TRUE)
AtOther(t, n, yn) ==
  n \notin DOMAIN Flag \cup DOMAIN Mode \cup DOMAIN Encoding
          \cup {2, 3, 6, 7, 45, 1001, 12, 47, 1047, 1048, 1049} => SetPrivate(t, n, yn) = t

(* What SetPrivate makes of each option.                                   *)
LEMMA PrivateIs ==
  ASSUME NEW t, NEW n \in Nat, NEW yn \in BOOLEAN
  PROVE  LET u == SetPrivate(t, n, yn)
         IN  /\ n \in DOMAIN Flag => u = SetOpt(t, Flag[n], yn, {"opts"})
             /\ n = 2 => u = SetCur(SetCur(t, "g0", "B"), "g1", "B")
             /\ n = 3 => u = Tell(Homed(Cleared(t)), {"cursor"})
             /\ n = 6 => u = Tell(Homed(SetCur(t, "origin", yn)), {"cursor"})
             /\ n = 7 => u = SetCur(t, "wrap", yn)
             /\ n = 45 => u = SetCur(t, "rev", yn)
             /\ AtMode(t, n, yn)
             /\ At1001(t, n, yn)
             /\ AtEncoding(t, n, yn)
             /\ At12(t, n, yn)
             /\ At47(t, n, yn)
             /\ At1048(t, n, yn)
             /\ At1049On(t, n, yn)
             /\ At1049Off(t, n, yn)
             /\ AtOther(t, n, yn)
<1> DEFINE D == DOMAIN Flag
           M == DOMAIN Mode
           E == DOMAIN Encoding
           a1 == SetOpt(t, Flag[n], yn, {"opts"})
           a2 == SetCur(SetCur(t, "g0", "B"), "g1", "B")
           a3 == Tell(Homed(Cleared(t)), {"cursor"})
           a4 == Tell(Homed(SetCur(t, "origin", yn)), {"cursor"})
           a5 == SetCur(t, "wrap", yn)
           a6 == SetCur(t, "rev", yn)
           a7 == SetOpt(t, "mode", IF yn THEN Mode[n] ELSE 0, {"opts"})
           a8 == Tell(t, {"opts"})
           a9 == SetOpt(t, "enc", IF yn THEN Encoding[n] ELSE "simple", {"opts"})
           a10 == CursorBlink(t, yn)
           a11 == SwapState(t, yn)
           a12 == SaveCursor(t)
           a13 == Cleared(SwapState(SaveCursor(t), TRUE))
           a14 == RestoreCursor(SwapState(Cleared(t), FALSE), TRUE)
           u == SetPrivate(t, n, yn)
           v == CASE n \in D -> a1 [] n = 2 -> a2 [] n = 3 -> a3 [] n = 6 -> a4 [] n = 7 -> a5
                  [] n = 45 -> a6 [] n \in M -> a7 [] n = 1001 -> a8 [] n \in E -> a9
                  [] n = 12 -> a10 [] n \in {47, 1047} -> a11 [] n = 1048 -> a12
                  [] n = 1049 /\ yn -> a13 [] n = 1049 /\ ~yn -> a14 [] OTHER -> t
<1>1. u = v
  BY Zenon DEF SetPrivate, Homed
<1>2. D = {1, 5, 25, 800, 801, 1004, 2004} /\ M = {9, 1000, 1002, 1003}
      /\ E = {1005, 1006, 1015}
  BY FlagIs, ModeIs, EncodingIs
<1> HIDE DEF u, D, M, E, a1, a2, a3, a4, a5, a6, a7, a8, a9, a10, a11, a12, a13, a14
<1>3. /\ n \in D => u = a1
      /\ n = 2 => u = a2
      /\ n = 3 => u = a3
      /\ n = 6 => u = a4
      /\ n = 7 => u = a5
      /\ n = 45 => u = a6
      /\ n \in M => u = a7
      /\ n = 1001 => u = a8
      /\ n \in E => u = a9
      /\ n = 12 => u = a10
      /\ n \in {47, 1047} => u = a11
      /\ n = 1048 => u = a12
      /\ n = 1049 /\ yn => u = a13
      /\ n = 1049 /\ ~yn => u = a14
      /\ n \notin D \cup M \cup E \cup {2, 3, 6, 7, 45, 1001, 12, 47, 1047, 1048, 1049} => u = t
  BY <1>1, <1>2
<1> QED BY <1>3, Zenon DEF u, AtMode, AtEncoding, At1001, At12, At47, At1048, At1049On,
           At1049Off, AtOther, D, M, E, a1, a2, a3, a4, a5, a6, a7, a8, a9, a10, a11, a12, a13, a14

LEMMA PrivateFine ==
  ASSUME NEW t \in Terms, NEW n \in Nat, NEW yn \in BOOLEAN, 2 <= Width
  PROVE  Fine(t, SetPrivate(t, n, yn))
<1> DEFINE u == SetPrivate(t, n, yn)
<1>0. Fine(t, t) /\ {"opts"} \in SUBSET Topics /\ {"cursor"} \in SUBSET Topics
      /\ {"internal"} \in SUBSET Topics
  BY DEF Fine, Told, Topics, TOPIC_INITIAL
<1>1. CASE n \in DOMAIN Flag
  <2>1. Fine(t, SetOpt(t, Flag[n], yn, {"opts"}))
    BY <1>0, <1>1, FlagIs, SetOptFine
  <2> QED BY <1>1, <2>1, PrivateIs
<1>2. CASE n = 2
  <2> DEFINE v == SetCur(t, "g0", "B")
  <2>1. Fine(t, v) /\ Fine(v, SetCur(v, "g1", "B"))
    <3>1. "B" \in Charsets94
      BY DEF Charsets94
    <3>2. Fine(t, v)
      BY <3>1, SetCurFine
    <3> HIDE DEF v
    <3> QED BY <3>1, <3>2, SetCurFine DEF Fine
  <2>2. Fine(t, SetCur(v, "g1", "B"))
    <3> HIDE DEF v
    <3> QED BY <2>1, FineTwice
  <2>3. SetPrivate(t, n, yn) = SetCur(v, "g1", "B")
    BY <1>2, PrivateIs, Zenon
  <2> QED BY <2>2, <2>3
<1>3. CASE n = 3
  <2> DEFINE v == Cleared(t)
             w == Homed(v)
  <2>1. Fine(t, v)
    BY ClearedFine
  <2>2. Fine(v, w)
    <3> HIDE DEF v
    <3> QED BY <2>1, WithXFine DEF Fine, Homed
  <2>3. Fine(w, Tell(w, {"cursor"}))
    <3> HIDE DEF w
    <3> QED BY <1>0, <2>2, TellFine DEF Fine
  <2>4. u = Tell(w, {"cursor"})
    BY <1>3, PrivateIs
  <2> HIDE DEF u, v, w
  <2>5. Fine(t, u)
    BY <2>1, <2>2, <2>3, <2>4, FineTwice
  <2> QED BY <2>5 DEF u
<1>4. CASE n = 6
  <2> DEFINE v == SetCur(t, "origin", yn)
             w == Homed(v)
  <2>1. Fine(t, v)
    BY SetCurFine DEF CurSwitches
  <2>2. Fine(v, w)
    <3> HIDE DEF v
    <3> QED BY <2>1, WithXFine DEF Fine, Homed
  <2>3. Fine(w, Tell(w, {"cursor"}))
    <3> HIDE DEF w
    <3> QED BY <1>0, <2>2, TellFine DEF Fine
  <2>4. u = Tell(w, {"cursor"})
    BY <1>4, PrivateIs
  <2> HIDE DEF u, v, w
  <2>5. Fine(t, u)
    BY <2>1, <2>2, <2>3, <2>4, FineTwice
  <2> QED BY <2>5 DEF u
<1>5. CASE n \in {7, 45}
  <2>1. n = 7 => SetPrivate(t, n, yn) = SetCur(t, "wrap", yn)
    BY PrivateIs, Zenon
  <2>2. n = 45 => SetPrivate(t, n, yn) = SetCur(t, "rev", yn)
    BY PrivateIs, Zenon
  <2>3. Fine(t, SetCur(t, "wrap", yn)) /\ Fine(t, SetCur(t, "rev", yn))
    BY SetCurFine DEF CurSwitches
  <2> QED BY <1>5, <2>1, <2>2, <2>3
<1>6. CASE n \in DOMAIN Mode
  <2> DEFINE v == IF yn THEN Mode[n] ELSE 0
  <2>1. v \in 0..4
    BY <1>6, ModeIs
  <2>3. u = SetOpt(t, "mode", v, {"opts"})
    <3>1. AtMode(t, n, yn)
      BY PrivateIs, Zenon
    <3> QED BY <1>6, <3>1, Zenon DEF AtMode
  <2> HIDE DEF v, u
  <2>4. Fine(t, u)
    BY <1>0, <2>1, <2>3, SetOptFine
  <2> QED BY <2>4 DEF u
<1>7. CASE n = 1001
  <2>1. SetPrivate(t, n, yn) = Tell(t, {"opts"})
    <3>1. At1001(t, n, yn)
      BY PrivateIs, Zenon
    <3> QED BY <1>7, <3>1 DEF At1001
  <2> QED BY <1>0, TellFine, <2>1
<1>8. CASE n \in DOMAIN Encoding
  <2> DEFINE v == IF yn THEN Encoding[n] ELSE "simple"
  <2>1. v \in Encodings
    BY <1>8, EncodingIs DEF Encodings
  <2>3. u = SetOpt(t, "enc", v, {"opts"})
    <3>1. AtEncoding(t, n, yn)
      BY PrivateIs, Zenon
    <3> QED BY <1>8, <3>1, Zenon DEF AtEncoding
  <2> HIDE DEF v, u
  <2>4. Fine(t, u)
    BY <1>0, <2>1, <2>3, SetOptFine
  <2> QED BY <2>4 DEF u
<1>9. CASE n = 12
  <2>1. SetPrivate(t, n, yn) = CursorBlink(t, yn)
    <3>1. At12(t, n, yn)
      BY PrivateIs, Zenon
    <3> QED BY <1>9, <3>1 DEF At12
  <2> QED BY BlinkFine, <2>1
<1>10. CASE n \in {47, 1047}
  <2>1. SetPrivate(t, n, yn) = SwapState(t, yn)
    <3>1. At47(t, n, yn)
      BY PrivateIs, Zenon
    <3> QED BY <1>10, <3>1 DEF At47
  <2> QED BY SwapFine, <2>1
<1>11. CASE n = 1048
  <2>1. SetPrivate(t, n, yn) = SaveCursor(t)
    <3>1. At1048(t, n, yn)
      BY PrivateIs, Zenon
    <3> QED BY <1>11, <3>1 DEF At1048
  <2> QED BY SaveFine, <2>1
<1>12. CASE n = 1049 /\ yn
  <2> DEFINE v == SaveCursor(t)
             w == SwapState(v, TRUE)
  <2>1. Fine(t, v)
    BY SaveFine
  <2>2. Fine(v, w)
    <3> HIDE DEF v
    <3> QED BY <2>1, SwapFine DEF Fine
  <2>3. Fine(w, Cleared(w))
    <3> HIDE DEF w
    <3> QED BY <2>2, ClearedFine DEF Fine
  <2>4. u = Cleared(w)
    <3>1. At1049On(t, n, yn)
      BY PrivateIs, Zenon
    <3> QED BY <1>12, <3>1 DEF At1049On
  <2> HIDE DEF u, v, w
  <2>5. Fine(t, u)
    BY <2>1, <2>2, <2>3, <2>4, FineTwice
  <2> QED BY <2>5 DEF u
<1>13. CASE n = 1049 /\ ~yn
  <2> DEFINE v == Cleared(t)
             w == SwapState(v, FALSE)
  <2>1. Fine(t, v)
    BY ClearedFine
  <2>2. Fine(v, w)
    <3> HIDE DEF v
    <3> QED BY <2>1, SwapFine DEF Fine
  <2>3. Fine(w, RestoreCursor(w, TRUE))
    <3> HIDE DEF w
    <3> QED BY <2>2, RestoreFine DEF Fine
  <2>4. u = RestoreCursor(w, TRUE)
    <3>1. At1049Off(t, n, yn)
      BY PrivateIs, Zenon
    <3> QED BY <1>13, <3>1 DEF At1049Off
  <2> HIDE DEF u, v, w
  <2>5. Fine(t, u)
    BY <2>1, <2>2, <2>3, <2>4, FineTwice
  <2> QED BY <2>5 DEF u
<1>14. CASE n \notin DOMAIN Flag \cup DOMAIN Mode \cup DOMAIN Encoding
                     \cup {2, 3, 6, 7, 45, 1001, 12, 47, 1047, 1048, 1049}
  <2>1. SetPrivate(t, n, yn) = t
    <3>1. AtOther(t, n, yn)
      BY PrivateIs, Zenon
    <3> QED BY <1>14, <3>1 DEF AtOther
  <2> QED BY <1>0, <2>1
<1> QED BY <1>1, <1>2, <1>3, <1>4, <1>5, <1>6, <1>7, <1>8, <1>9, <1>10, <1>11, <1>12,
           <1>13, <1>14

LEMMA PrivatesFine ==
  ASSUME NEW t \in Terms, NEW ns \in Seq(Nat), NEW yn \in BOOLEAN, 2 <= Width
  PROVE  Fine(t, SetPrivates(t, ns, yn))
<1> DEFINE n == Len(ns)
           F == [k \in Nat |-> [a \in Terms |->
                  IF k \in 1..n THEN SetPrivate(a, ns[k], yn) ELSE a]]
           f[i \in 0..n] == IF i = 0 THEN t ELSE SetPrivate(f[i - 1], ns[i], yn)
<1>1. n \in Nat /\ \A k \in 1..n : ns[k] \in Nat
  OBVIOUS
<1>2. \A a \in Terms, k \in 1..n : Fine(a, SetPrivate(a, ns[k], yn))
  BY <1>1, PrivateFine
<1> HIDE DEF n
<1>3. F \in [Nat -> [Terms -> Terms]]
  BY <1>2 DEF Fine
<1> HIDE DEF F
<1>4. PICK h : IsRunTo(h, n, Terms, t, F)
  BY <1>1, <1>3, Recursion
<1>5. h = [i \in 0..n |-> IF i = 0 THEN t ELSE SetPrivate(h[i - 1], ns[i], yn)]
  <2>1. ASSUME NEW i \in 1..n PROVE h[i] = SetPrivate(h[i - 1], ns[i], yn)
    <3>1. h[i] = F[i][h[i - 1]] /\ h[i - 1] \in Terms /\ i \in Nat
      BY <1>1, <1>4 DEF IsRunTo
    <3> QED BY <3>1 DEF F
  <2> QED BY <1>1, <1>4, <2>1 DEF IsRunTo
<1>6. f = [i \in 0..n |-> IF i = 0 THEN t ELSE SetPrivate(f[i - 1], ns[i], yn)]
  BY <1>5, Zenon
<1>7. SetPrivates(t, ns, yn) = f[n]
  BY Zenon DEF SetPrivates, n
<1> HIDE DEF f
<1>8. \A i \in 0..n : Fine(t, f[i])
  <2> DEFINE T == {i \in 0..n : Fine(t, f[i])}
  <2>1. 0 \in T
    <3>1. f[0] = t
      BY <1>1, <1>6
    <3> QED BY <1>1, <3>1 DEF Fine, Told
  <2>2. ASSUME NEW i \in 1..n, i - 1 \in T PROVE i \in T
    <3>1. i \in 0..n /\ i # 0 /\ Fine(t, f[i - 1]) /\ f[i - 1] \in Terms
      BY <1>1, <2>2 DEF Fine
    <3>2. f[i] = SetPrivate(f[i - 1], ns[i], yn)
      BY <1>6, <3>1
    <3>3. Fine(f[i - 1], f[i])
      BY <1>2, <3>1, <3>2
    <3>4. Fine(t, f[i])
      BY <3>1, <3>3, FineTwice
    <3> QED BY <3>1, <3>4
  <2>3. \A i \in 0..n : i \in T
    <3> HIDE DEF T
    <3> QED BY <1>1, <2>1, <2>2, TurnByTurn
  <2> QED BY <2>3
<1> QED BY <1>1, <1>7, <1>8

-----------------------------------------------------------------------------
(* Saving and restoring options.                                           *)

CurOptions == {6, 7, 45}
OptFields == {"cursors", "reverse", "visible", "buttons", "links", "focus", "paste",
              "mode", "enc"}

LEMMA FieldIs ==
  /\ Field(6) = "origin" /\ Field(7) = "wrap" /\ Field(45) = "rev"
  /\ \A n \in DOMAIN Flag : Field(n) = Flag[n] /\ Flag[n] \in OptFields \ {"mode", "enc"}
  /\ \A n \in DOMAIN Mode \cup {1001} : Field(n) = "mode"
  /\ \A n \in DOMAIN Encoding : Field(n) = "enc"
  /\ PrivateOptions = DOMAIN Flag \cup DOMAIN Mode \cup DOMAIN Encoding
                      \cup {1001, 12} \cup CurOptions
<1>1. \A n \in DOMAIN Flag : Flag[n] \in OptFields \ {"mode", "enc"}
  BY DEF Flag, OptFields
<1>2. DOMAIN Flag = {1, 5, 25, 800, 801, 1004, 2004} /\ DOMAIN Mode = {9, 1000, 1002, 1003}
      /\ DOMAIN Encoding = {1005, 1006, 1015}
  BY FlagIs, ModeIs, EncodingIs
<1> DEFINE D == DOMAIN Flag
           M == DOMAIN Mode
           E == DOMAIN Encoding
<1> HIDE DEF D, M, E
<1>3. \A n : Field(n) =
        CASE n \in D -> Flag[n] [] n \in M \cup {1001} -> "mode" [] n \in E -> "enc"
          [] n = 6 -> "origin" [] n = 7 -> "wrap" [] n = 45 -> "rev" [] n = 12 -> "blink"
  BY Zenon DEF Field, D, M, E
<1>4. D = {1, 5, 25, 800, 801, 1004, 2004} /\ M = {9, 1000, 1002, 1003}
      /\ E = {1005, 1006, 1015}
  BY <1>2 DEF D, M, E
<1>5. /\ Field(6) = "origin" /\ Field(7) = "wrap" /\ Field(45) = "rev"
      /\ \A n \in D : Field(n) = Flag[n]
      /\ \A n \in M \cup {1001} : Field(n) = "mode"
      /\ \A n \in E : Field(n) = "enc"
      /\ PrivateOptions = D \cup M \cup E \cup {1001, 12} \cup CurOptions
  BY <1>3, <1>4 DEF PrivateOptions, CurOptions
<1> QED BY <1>1, <1>5 DEF D, M, E

(* The field of a struct of options, and of what is kept of them.          *)
LEMMA SaveIs ==
  ASSUME NEW t, NEW n \in PrivateOptions
  PROVE  /\ n \in CurOptions => Save(t, n) = [t EXCEPT !.kept[Field(n)] = t.cur[Field(n)]]
         /\ n = 12 => Save(t, n) = [t EXCEPT !.kept.blink = Blinks(t.opt.shape)]
         /\ n \notin CurOptions \cup {12} =>
              Save(t, n) = [t EXCEPT !.kept[Field(n)] = t.opt[Field(n)]]
BY DEF Save, CurOptions

LEMMA SaveDoes ==
  ASSUME NEW t \in Terms, NEW n \in PrivateOptions
  PROVE  LET u == Save(t, n)
             f == Field(n)
         IN  /\ u \in Terms /\ u.opt = t.opt /\ u.cur = t.cur /\ u.txt = t.txt
             /\ u.line = t.line /\ u.topics = t.topics
             /\ n \in CurOptions => u.kept[f] = t.cur[f]
             /\ n = 12 => u.kept.blink = Blinks(t.opt.shape)
             /\ n \notin CurOptions \cup {12} => u.kept[f] = t.opt[f]
<1> DEFINE f == Field(n)
           u == Save(t, n)
<1>1. ASSUME NEW k \in Kepts, u = [t EXCEPT !.kept = k]
      PROVE  /\ u \in Terms /\ u.opt = t.opt /\ u.cur = t.cur /\ u.txt = t.txt
             /\ u.line = t.line /\ u.topics = t.topics /\ u.kept = k
  <2> HIDE DEF u
  <2> QED BY <1>1 DEF Terms
<1>2. t.kept \in Kepts /\ t.cur \in Cursors /\ t.opt \in Opts
  BY DEF Terms
<1>3. CASE n \in CurOptions
  <2> DEFINE v == t.cur[f]
             k == [t.kept EXCEPT ![f] = v]
  <2>1. f \in {"origin", "wrap", "rev"}
    BY <1>3, FieldIs DEF CurOptions
  <2>2. v \in BOOLEAN
    BY <1>2, <2>1 DEF Cursors
  <2>3. u = [t EXCEPT !.kept = k]
    BY <1>3, SaveIs
  <2> HIDE DEF f, v
  <2>4. k \in Kepts /\ k[f] = v
    BY <1>2, <2>1, <2>2 DEF Kepts
  <2>5. n \in CurOptions /\ n # 12
    BY <1>3 DEF CurOptions
  <2> HIDE DEF k, u
  <2>6. u \in Terms /\ u.opt = t.opt /\ u.cur = t.cur /\ u.txt = t.txt
        /\ u.line = t.line /\ u.topics = t.topics /\ u.kept = k
    BY <1>1, <2>3, <2>4
  <2> QED BY <2>4, <2>5, <2>6 DEF u, f, v
<1>4. CASE n = 12
  <2> DEFINE b == Blinks(t.opt.shape)
             k == [t.kept EXCEPT !.blink = b]
  <2>1. b \in BOOLEAN
    BY DEF Blinks
  <2>2. u = [t EXCEPT !.kept = k]
    BY <1>4, SaveIs
  <2> HIDE DEF b
  <2>3. k \in Kepts /\ k.blink = b
    BY <1>2, <2>1 DEF Kepts
  <2>4. n \notin CurOptions
    BY <1>4 DEF CurOptions
  <2> HIDE DEF k, u
  <2>5. u \in Terms /\ u.opt = t.opt /\ u.cur = t.cur /\ u.txt = t.txt
        /\ u.line = t.line /\ u.topics = t.topics /\ u.kept = k
    BY <1>1, <2>2, <2>3
  <2> QED BY <1>4, <2>3, <2>4, <2>5 DEF u, b
<1>5. CASE n \notin CurOptions \cup {12}
  <2> DEFINE v == t.opt[f]
             k == [t.kept EXCEPT ![f] = v]
  <2>1. f \in OptFields
    BY <1>5, FieldIs DEF OptFields
  <2>2. u = [t EXCEPT !.kept = k]
    BY <1>5, SaveIs
  <2>3. k \in Kepts /\ k[f] = v
    <3>1. CASE f = "mode"
      BY <1>2, <3>1 DEF Kepts, Opts
    <3>2. CASE f = "enc"
      BY <1>2, <3>2 DEF Kepts, Opts
    <3>3. CASE f \in OptFields \ {"mode", "enc"}
      BY <1>2, <3>3 DEF Kepts, Opts, OptFields
    <3> QED BY <2>1, <3>1, <3>2, <3>3
  <2> HIDE DEF f, v, k, u
  <2>4. u \in Terms /\ u.opt = t.opt /\ u.cur = t.cur /\ u.txt = t.txt
        /\ u.line = t.line /\ u.topics = t.topics /\ u.kept = k
    BY <1>1, <2>2, <2>3
  <2> QED BY <1>5, <2>3, <2>4 DEF u, f, v
<1> QED BY <1>3, <1>4, <1>5

LEMMA RestoreIs ==
  ASSUME NEW t, NEW n \in PrivateOptions
  PROVE  LET f == Field(n)
             S == IF n \in {5, 2004} THEN {"internal"} ELSE {"opts"}
         IN  /\ n \in CurOptions => Restore(t, n) = SetCur(t, f, t.kept[f])
             /\ n = 12 => Restore(t, n) = Tell(CursorBlink(t, t.kept.blink), {"opts"})
             /\ n \notin CurOptions \cup {12} =>
                  Restore(t, n) = SetOpt(t, f, t.kept[f], S)
BY DEF Restore, CurOptions

LEMMA RestoreTyped ==
  ASSUME NEW t \in Terms, NEW n \in PrivateOptions
  PROVE  /\ Restore(t, n) \in Terms
         /\ n \notin {5, 2004} => Fine(t, Restore(t, n))
<1> DEFINE f == Field(n)
           S == IF n \in {5, 2004} THEN {"internal"} ELSE {"opts"}
           u == Restore(t, n)
<1>1. t.kept \in Kepts
  BY DEF Terms
<1>2. CASE n \in CurOptions
  <2> DEFINE v == t.kept[f]
  <2>1. f \in CurSwitches
    BY <1>2, FieldIs DEF CurOptions, CurSwitches
  <2>2. v \in BOOLEAN
    BY <1>1, <2>1 DEF Kepts, CurSwitches
  <2>3. u = SetCur(t, f, v)
    BY <1>2, RestoreIs
  <2> HIDE DEF f, v, u
  <2>4. Fine(t, u)
    BY <2>1, <2>2, <2>3, SetCurFine
  <2> QED BY <2>4 DEF Fine, u
<1>3. CASE n = 12
  <2> DEFINE b == t.kept.blink
             w == CursorBlink(t, b)
  <2>1. b \in BOOLEAN
    BY <1>1 DEF Kepts
  <2>2. u = Tell(w, {"opts"})
    BY <1>3, RestoreIs
  <2> HIDE DEF b, u
  <2>3. Fine(t, w)
    BY <2>1, BlinkFine
  <2> HIDE DEF w
  <2>4. {"opts"} \in SUBSET Topics
    BY DEF Topics, TOPIC_INITIAL
  <2>5. Fine(w, Tell(w, {"opts"}))
    BY <2>3, <2>4, TellFine DEF Fine
  <2>6. Fine(t, u)
    BY <2>2, <2>3, <2>5, FineTwice
  <2> QED BY <2>6 DEF Fine, u
<1>4. CASE n \notin CurOptions \cup {12}
  <2> DEFINE v == t.kept[f]
  <2>1. f \in OptFields
    BY <1>4, FieldIs DEF OptFields
  <2>2. u = SetOpt(t, f, v, S)
    BY <1>4, RestoreIs
  <2>3. \/ f \in Switches /\ v \in BOOLEAN
        \/ f = "mode" /\ v \in 0..4
        \/ f = "enc" /\ v \in Encodings
    <3>1. CASE f = "mode"
      BY <1>1, <3>1 DEF Kepts
    <3>2. CASE f = "enc"
      BY <1>1, <3>2 DEF Kepts
    <3>3. CASE f \in OptFields \ {"mode", "enc"}
      BY <1>1, <3>3 DEF Kepts, OptFields, Switches
    <3> QED BY <2>1, <3>1, <3>2, <3>3
  <2>4. S \in SUBSET Topics /\ (n \notin {5, 2004} => "opts" \in S)
    BY DEF Topics, TOPIC_INITIAL
  <2> HIDE DEF f, v, S, u
  <2>5. u \in Terms
    BY <2>2, <2>3, <2>4, SetSwitchTyped, SetModeTyped, SetEncTyped
  <2>6. n \notin {5, 2004} => Fine(t, u)
    BY <2>2, <2>3, <2>4, SetOptFine
  <2> QED BY <2>5, <2>6 DEF u
<1> QED BY <1>2, <1>3, <1>4

-----------------------------------------------------------------------------
(* Tab stops.                                                              *)

LEMMA LeastIs ==
  ASSUME NEW S \in SUBSET Nat, S # {}
  PROVE  \E m \in S : \A y \in S : m <= y
<1>1. IsWellFoundedOn(Lesser, Nat)
  BY NatLessThanWellFounded DEF Lesser, OpToRel
<1>2. PICK m \in S : \A y \in S : <<y, m>> \notin Lesser
  BY <1>1, WFMin
<1>3. ASSUME NEW y \in S PROVE m <= y
  <2>1. y \in Nat /\ m \in Nat /\ <<y, m>> \notin Lesser
    BY <1>2
  <2>2. ~(y < m)
    BY <2>1, LesserIs
  <2> QED BY <2>1, <2>2
<1> QED BY <1>3

LEMMA MinIs ==
  ASSUME NEW S \in SUBSET Nat, S # {}
  PROVE  Min(S) \in S /\ \A y \in S : Min(S) <= y
BY LeastIs DEF Min

LEMMA MaxIs ==
  ASSUME NEW S \in SUBSET Nat, S # {}, NEW b \in Nat, \A y \in S : y <= b
  PROVE  Max(S) \in S /\ \A y \in S : y <= Max(S)
<1> DEFINE B == {c \in Nat : \A y \in S : y <= c}
<1>1. B \in SUBSET Nat /\ B # {}
  OBVIOUS
<1> HIDE DEF B
<1>2. PICK m \in B : \A c \in B : m <= c
  BY <1>1, LeastIs
<1>3. m \in Nat /\ \A y \in S : y <= m
  BY <1>2 DEF B
<1>4. m \in S
  <2> SUFFICES ASSUME m \notin S PROVE FALSE
    OBVIOUS
  <2>1. PICK y \in S : TRUE
    OBVIOUS
  <2>2. y < m /\ m - 1 \in Nat
    BY <1>3, <2>1
  <2>3. m - 1 \in B
    BY <1>3, <2>2 DEF B
  <2> QED BY <1>2, <1>3, <2>3
<1> QED BY <1>3, <1>4 DEF Max

LEMMA Division ==
  ASSUME NEW n \in Nat, NEW w \in Nat \ {0}
  PROVE  /\ n \div w \in Nat /\ n % w \in 0..(w - 1)
         /\ n = w * (n \div w) + (n % w)
OBVIOUS

LEMMA DivisionGrows ==
  ASSUME NEW m \in Nat, NEW n \in Nat, NEW w \in Nat \ {0}, m <= n
  PROVE  m \div w <= n \div w
<1> DEFINE a == m \div w
           b == n \div w
           c == n % w
           d == m % w
<1>1. a \in Nat /\ b \in Nat /\ c \in 0..(w - 1) /\ d \in 0..(w - 1)
      /\ m = w * a + d /\ n = w * b + c
  BY Division
<1> HIDE DEF a, b, c, d
<1>2. a <= b
  <2> SUFFICES ASSUME b + 1 <= a PROVE FALSE
    BY <1>1
  <2>1. w * (b + 1) <= w * a
    BY <1>1
  <2>2. w * (b + 1) = w * b + w
    BY <1>1
  <2>3. w * a \in Nat /\ w * b \in Nat
    BY <1>1
  <2> DEFINE p == w * a
             q == w * b
             e == w * (b + 1)
  <2> HIDE DEF p, q, e
  <2>4. e <= p /\ e = q + w /\ p \in Nat /\ q \in Nat /\ m = p + d /\ n = q + c
    BY <1>1, <2>1, <2>2, <2>3 DEF p, q, e
  <2> QED BY <1>1, <2>4
<1> QED BY <1>2 DEF a, b

LEMMA ForwardIs ==
  ASSUME NEW T \in SUBSET Nat, NEW x \in Nat, NEW wide \in BOOLEAN, 2 <= Width
  PROVE  LET f == TabForward(T, x, Width, wide)
             l == LastColumn(Width, wide)
         IN  /\ l \in Nat /\ f \in Nat /\ f <= l /\ f \in T \cup {l}
             /\ \A c \in T : c > x => f <= c
<1> DEFINE l == LastColumn(Width, wide)
           ahead == {c \in T \cap Columns : c > x /\ c <= l}
           f == TabForward(T, x, Width, wide)
<1>1. l \in Nat /\ l < Width
  BY ModesAssumption DEF LastColumn
<1> HIDE DEF l
<1>2. f = IF ahead = {} THEN l ELSE IF Min(ahead) = -1 THEN l ELSE Min(ahead)
  BY DEF TabForward, NextTab, l
<1>3. ASSUME NEW c \in T, c <= l PROVE c \in Columns
  <2> DEFINE b == WordBits * TABSTOP_WORDS
  <2>1. b \in Int /\ Width <= b /\ Columns = 0..(b - 1)
    BY TabAssumption, TabsReachAcross DEF Columns
  <2> HIDE DEF b
  <2> QED BY <1>1, <1>3, <2>1, ModesAssumption
<1>4. ahead \in SUBSET Nat
  OBVIOUS
<1> HIDE DEF f
<1>5. CASE ahead = {}
  <2>1. f = l
    BY <1>2, <1>5
  <2>2. ASSUME NEW c \in T, c > x PROVE l <= c
    <3>1. ~(c <= l)
      BY <1>5, <1>3, <2>2
    <3> QED BY <1>1, <3>1
  <2> QED BY <1>1, <2>1, <2>2 DEF f, l
<1>6. CASE ahead # {}
  <2> DEFINE m == Min(ahead)
  <2>1. m \in ahead /\ \A y \in ahead : m <= y
    BY <1>4, <1>6, MinIs
  <2>2. f = m
    BY <1>2, <1>4, <1>6, <2>1
  <2> HIDE DEF m
  <2>3. m \in Nat /\ m \in T /\ m <= l
    BY <2>1
  <2>4. ASSUME NEW c \in T, c > x PROVE m <= c
    <3>1. CASE c <= l
      <4>1. c \in ahead
        BY <1>3, <2>4, <3>1
      <4> QED BY <2>1, <4>1
    <3>2. CASE ~(c <= l)
      BY <1>1, <2>3, <3>2
    <3> QED BY <3>1, <3>2
  <2> QED BY <1>1, <2>2, <2>3, <2>4 DEF f, l
<1> QED BY <1>5, <1>6

LEMMA ReverseIs ==
  ASSUME NEW T \in SUBSET Nat, NEW x \in Nat
  PROVE  /\ TabReverse(T, x) \in Nat
         /\ ~PassesEmptyWord(T, x) =>
              TabReverse(T, x) = IF {c \in T : c < x} = {} THEN 0 ELSE Max({c \in T : c < x})
<1> DEFINE left == {c \in T : c < x}
           stop == Max(left)
           w == WordBits
           p == (x - (x % w)) - w + (stop % w)
           r == TabReverse(T, x)
<1>1. CASE left = {}
  BY <1>1 DEF TabReverse, PrevTab
<1>2. CASE left # {}
  <2> DEFINE v == IF stop \div w = (x - 1) \div w THEN stop ELSE p
  <2>1. r = IF v = -1 THEN 0 ELSE v
    BY <1>2 DEF TabReverse, PrevTab
  <2>2. left \in SUBSET Nat /\ \A y \in left : y <= x
    <3>1. \A y \in T : y \in Nat /\ (y < x => y <= x)
      OBVIOUS
    <3> QED BY <3>1
  <2>3. stop \in left /\ \A y \in left : y <= stop
    BY <1>2, <2>2, MaxIs
  <2>4. w \in Nat \ {0}
    BY TabAssumption
  <2> HIDE DEF w, r, stop
  <2>5. stop \in Nat /\ stop \in T /\ stop < x /\ x - 1 \in Nat /\ stop <= x - 1
    BY <2>3
  <2> DEFINE d == stop \div w
             e == (x - 1) \div w
             g == x \div w
             ms == stop % w
             me == (x - 1) % w
             mg == x % w
  <2>6. /\ d \in Nat /\ ms \in 0..(w - 1) /\ stop = w * d + ms
        /\ e \in Nat /\ me \in 0..(w - 1) /\ x - 1 = w * e + me
        /\ g \in Nat /\ mg \in 0..(w - 1) /\ x = w * g + mg
    BY <2>4, <2>5, Division
  <2>7. d <= e /\ e <= g
    BY <2>4, <2>5, DivisionGrows
  <2>8. p = w * g - w + ms
    <3> DEFINE q == w * g
    <3>1. q \in Nat /\ x = q + mg
      BY <2>4, <2>6
    <3> HIDE DEF q, ms, mg, g
    <3>2. p = (x - mg) - w + ms
      BY DEF ms, mg
    <3>3. (x - mg) - w + ms = q - w + ms
      BY <2>4, <2>6, <3>1
    <3> QED BY <3>2, <3>3 DEF q
  <2>9. ASSUME d # e PROVE p \in Nat
    <3>1. 1 <= g
      BY <2>6, <2>7, <2>9
    <3>2. w * 1 <= w * g
      BY <2>4, <2>6, <3>1
    <3> DEFINE q == w * g
    <3>3. q \in Nat /\ w <= q
      BY <2>4, <2>6, <3>2
    <3> HIDE DEF q, p, ms
    <3>4. p = q - w + ms
      BY <2>8 DEF q, ms
    <3> QED BY <2>4, <2>6, <3>3, <3>4
  <2>10. ASSUME d # e, ~PassesEmptyWord(T, x) PROVE p = stop
    <3>1. PICK c \in T : c < x /\ ~(c \div w < g - 1)
      <4>1. x >= w
        <5>1. 1 <= e
          BY <2>6, <2>7, <2>10
        <5>2. w * 1 <= w * e
          BY <2>4, <2>6, <5>1
        <5> DEFINE q == w * e
        <5>3. q \in Nat /\ w <= q /\ x - 1 = q + me
          BY <2>4, <2>6, <5>2
        <5> HIDE DEF q, me
        <5> QED BY <2>4, <2>6, <5>3
      <4> QED BY <2>10, <4>1 DEF PassesEmptyWord, w
    <3>2. c \in left /\ c \in Nat /\ c <= stop
      BY <2>3, <3>1
    <3>3. c \div w <= d /\ c \div w \in Nat
      BY <2>4, <2>5, <3>2, Division, DivisionGrows
    <3>4. g - 1 <= d
      BY <2>6, <3>1, <3>3
    <3>5. d = g - 1
      BY <2>6, <2>7, <2>10, <3>4
    <3>6. w * d = w * g - w
      BY <2>4, <2>6, <3>5
    <3> DEFINE q == w * g
               o == w * d
    <3>7. q \in Nat /\ o \in Nat
      BY <2>4, <2>6
    <3>8. o = q - w /\ stop = o + ms
      BY <2>6, <3>6
    <3>9. p = q - w + ms
      BY <2>8
    <3> HIDE DEF q, o, p, ms
    <3> QED BY <2>4, <2>5, <2>6, <3>7, <3>8, <3>9
  <2> HIDE DEF d, e, p
  <2>11. v \in Nat /\ (~PassesEmptyWord(T, x) => v = stop)
    BY <2>5, <2>9, <2>10 DEF d, e
  <2> HIDE DEF v
  <2>12. r \in Nat /\ (~PassesEmptyWord(T, x) => r = stop)
    BY <2>1, <2>11
  <2> QED BY <1>2, <2>12 DEF r, stop
<1> QED BY <1>1, <1>2

-----------------------------------------------------------------------------
(* The steps.                                                              *)

Events == [evt : {"p", "r", "m"}, button : 0..5, mods : Mods, x : Nat, y : Nat]
(* What has just been said of the mouse is the report of an event.         *)
MouseRight(s, o) ==
  s[1] = "mouse" =>
    \E e \in Events : /\ e.evt = "m" \/ e.button # 0
                      /\ ~Unreported(e, o) /\ s = <<"mouse", e, MouseReport(e, o)>>
ModesInv ==
  /\ host \in Hosts /\ conf \in Confs /\ term \in Terms
  /\ MouseRight(said, term.opt)

(* From term to term', and what is said by the way.                        *)
StepRight ==
  /\ host' = host /\ conf' = conf /\ term' \in Terms /\ MouseRight(said', term'.opt)
  /\ Restores \cap {5, 2004} = {} => Told(Fresh, term')

LEMMA FreshTyped ==
  ASSUME term \in Terms
  PROVE  Fresh \in Terms /\ Fresh.cur = term.cur /\ Fresh.opt = term.opt
         /\ Fresh.txt = term.txt /\ Fresh.line = term.line /\ Fresh.last = term.last
         /\ Fresh.tabs = term.tabs
BY DEF Fresh, Terms

LEMMA DoRight ==
  ASSUME NEW t, NEW g, Do(g, t), Fine(Fresh, t)
  PROVE  StepRight
<1>1. host' = host /\ conf' = conf /\ term' = t /\ said' = <<"none">>
  BY DEF Do
<1>2. MouseRight(said', term'.opt)
  BY <1>1 DEF MouseRight
<1> QED BY <1>1, <1>2 DEF StepRight, Fine

LEMMA AnswerRight ==
  ASSUME NEW a, NEW g, Answer(g, a), MouseRight(a, Fresh.opt), term \in Terms
  PROVE  StepRight
<1>1. host' = host /\ conf' = conf /\ term' = Fresh /\ said' = a
  BY DEF Answer
<1>2. Fresh \in Terms
  BY FreshTyped
<1>3. Told(Fresh, Fresh)
  BY DEF Told
<1> QED BY <1>1, <1>2, <1>3 DEF StepRight

LEMMA HostTyped ==
  ASSUME NEW h \in Hosts
  PROVE  h.private \subseteq Seq(Nat) /\ h.confs \subseteq Confs
BY ModesAssumption, Zenon DEF Confs

LEMMA RenditionRight ==
  ASSUME ModesInv, SGR PROVE StepRight
<1>1. PICK ns \in SgrArgs : Do("sgr", [Fresh EXCEPT !.cur = Sgr(@, ns)])
  BY Zenon DEF SGR
<1> DEFINE c == Sgr(Fresh.cur, ns)
           u == [Fresh EXCEPT !.cur = c]
<1>2. Fresh \in Terms
  BY FreshTyped DEF ModesInv
<1>3. ns \in Seq(Nat)
  <2>1. SgrArgs \subseteq Seq(Nat)
    BY ModesAssumption, Zenon
  <2> QED BY ONLY <2>1, ns \in SgrArgs
<1>4. c \in Cursors
  <2>1. Fresh.cur \in Cursors
    BY <1>2 DEF Terms
  <2> QED BY <1>3, <2>1, SgrTyped
<1>5. Do("sgr", u)
  BY <1>1, Zenon
<1> HIDE DEF c
<1>6. u \in Terms /\ u.topics = Fresh.topics /\ u.opt = Fresh.opt /\ u.txt = Fresh.txt
      /\ u.line = Fresh.line
  BY <1>2, <1>4 DEF Terms
<1> HIDE DEF u
<1>7. OptsShown(u) = OptsShown(Fresh)
  BY <1>6 DEF OptsShown
<1>8. Fine(Fresh, u)
  BY <1>6, <1>7, ToldSame DEF Fine
<1> QED BY <1>5, <1>8, DoRight

LEMMA OptionsRight ==
  ASSUME ModesInv, Options, 2 <= Width PROVE StepRight
<1>1. Fresh \in Terms /\ host \in Hosts
  BY FreshTyped DEF ModesInv
<1>2. PICK yn \in BOOLEAN :
        \/ \E n \in {4, 12, 20} : Do("ansi", SetOption(Fresh, n, yn))
        \/ \E ns \in host.private : Do("options", SetPrivates(Fresh, ns, yn))
        \/ Do("ansi", SetOpt(Fresh, "numpad", yn, {"opts"}))
  BY DEF Options
<1>3. CASE \E n \in {4, 12, 20} : Do("ansi", SetOption(Fresh, n, yn))
  BY <1>1, <1>3, OptionFine, DoRight
<1>4. CASE \E ns \in host.private : Do("options", SetPrivates(Fresh, ns, yn))
  <2>1. PICK ns \in host.private : Do("options", SetPrivates(Fresh, ns, yn))
    BY <1>4
  <2>2. ns \in Seq(Nat)
    BY <1>1, HostTyped
  <2> QED BY <1>1, <2>1, <2>2, PrivatesFine, DoRight
<1>5. CASE Do("ansi", SetOpt(Fresh, "numpad", yn, {"opts"}))
  <2>1. {"opts"} \in SUBSET Topics
    BY DEF Topics, TOPIC_INITIAL
  <2>2. Fine(Fresh, SetOpt(Fresh, "numpad", yn, {"opts"}))
    BY <1>1, <2>1, SetOptFine DEF Switches
  <2> QED BY <1>5, <2>2, DoRight
<1> QED BY <1>2, <1>3, <1>4, <1>5

LEMMA SavesRight ==
  ASSUME ModesInv, SaveOption PROVE StepRight
<1>1. PICK n \in Restores : Do("keep", Save(Fresh, n))
  BY DEF SaveOption
<1>2. n \in PrivateOptions
  BY ModesAssumption
<1>3. Fresh \in Terms
  BY FreshTyped DEF ModesInv
<1> DEFINE u == Save(Fresh, n)
<1>4. u \in Terms /\ u.opt = Fresh.opt /\ u.txt = Fresh.txt /\ u.line = Fresh.line
      /\ u.topics = Fresh.topics
  BY <1>2, <1>3, SaveDoes
<1> HIDE DEF u
<1>5. OptsShown(u) = OptsShown(Fresh)
  BY <1>4 DEF OptsShown
<1>6. Fine(Fresh, u)
  BY <1>4, <1>5, ToldSame DEF Fine
<1> QED BY <1>1, <1>6, DoRight DEF u

LEMMA RestoresRight ==
  ASSUME ModesInv, RestoreOption PROVE StepRight
<1>1. PICK n \in Restores : Do("keep", Restore(Fresh, n))
  BY DEF RestoreOption
<1>2. n \in PrivateOptions
  BY ModesAssumption
<1>3. Fresh \in Terms
  BY FreshTyped DEF ModesInv
<1> DEFINE u == Restore(Fresh, n)
<1>4. u \in Terms /\ (n \notin {5, 2004} => Fine(Fresh, u))
  BY <1>2, <1>3, RestoreTyped
<1>5. host' = host /\ conf' = conf /\ term' = u /\ said' = <<"none">>
  BY <1>1 DEF Do
<1> HIDE DEF u
<1>6. MouseRight(said', term'.opt)
  BY <1>5 DEF MouseRight
<1>7. Restores \cap {5, 2004} = {} => Told(Fresh, u)
  BY <1>4 DEF Fine
<1> QED BY <1>4, <1>5, <1>6, <1>7 DEF StepRight

LEMMA ShapeRight ==
  ASSUME ModesInv, Shape PROVE StepRight
<1>1. PICK n \in 0..7 : Do("shape", CursorShape(Fresh, IF n > 6 THEN 1 ELSE n))
  BY DEF Shape
<1> DEFINE m == IF n > 6 THEN 1 ELSE n
<1>2. m \in 0..6 /\ Do("shape", CursorShape(Fresh, m))
  BY <1>1
<1> HIDE DEF m
<1>3. Fine(Fresh, CursorShape(Fresh, m))
  BY <1>2, FreshTyped, ShapeFine DEF ModesInv
<1> QED BY <1>2, <1>3, DoRight

LEMMA CharsetsRight ==
  ASSUME ModesInv, Charsets PROVE StepRight
<1>1. Fresh \in Terms
  BY FreshTyped DEF ModesInv
<1>2. CASE \E slot \in {"(", ")"}, cs \in {"A", "B", "0", "1", "2", "3"} :
             Do("charset", Designate(Fresh, slot, cs))
  <2>1. PICK slot \in {"(", ")"}, cs \in Charsets94 : Do("charset", Designate(Fresh, slot, cs))
    BY <1>2 DEF Charsets94
  <2> DEFINE f == IF slot = "(" THEN "g0" ELSE "g1"
  <2>2. Designate(Fresh, slot, cs) = SetCur(Fresh, f, cs)
    BY DEF Designate
  <2>3. f \in {"g0", "g1"}
    OBVIOUS
  <2> HIDE DEF f
  <2>4. Fine(Fresh, SetCur(Fresh, f, cs))
    BY <1>1, <2>3, SetCurFine
  <2> QED BY <2>1, <2>2, <2>4, DoRight
<1>3. CASE \E n \in {0, 1} : Do("charset", Shift(Fresh, n))
  BY <1>1, <1>3, SetCurFine, DoRight DEF Shift
<1> QED BY <1>2, <1>3 DEF Charsets

LEMMA WithLast ==
  ASSUME NEW t \in Terms, NEW l \in SUBSET Lasts
  PROVE  Fine(t, Tell([t EXCEPT !.last = l], {"cursor", "part"}))
<1> DEFINE w == [t EXCEPT !.last = l]
           S == {"cursor", "part"}
           u == Tell(w, S)
<1>1. w \in Terms /\ w.topics = t.topics /\ w.opt = t.opt /\ w.txt = t.txt /\ w.line = t.line
  BY DEF Terms
<1>2. S \in SUBSET Topics
  BY DEF Topics, TOPIC_INITIAL
<1> HIDE DEF w, S
<1>3. u \in Terms /\ u.topics = t.topics \cup S /\ u.opt = t.opt /\ u.txt = t.txt
      /\ u.line = t.line
  BY <1>1, <1>2, TellTyped, TellKeeps
<1> HIDE DEF u
<1>4. OptsShown(u) = OptsShown(t)
  BY <1>3 DEF OptsShown
<1>5. Fine(t, u)
  BY <1>3, <1>4, ToldSame DEF Fine
<1> QED BY <1>5 DEF u, w, S

Glyphs == Charsets94 \X Nat
LEMMA ShownTyped ==
  ASSUME NEW t \in Terms, NEW g \in Glyphs
  PROVE  Shown(t, g) \in Glyphs /\ Charset(t) \in Charsets94
<1>1. Charset(t) \in Charsets94
  BY DEF Charset, Terms, Cursors
<1> DEFINE cs == Charset(t)
<1> HIDE DEF cs
<1>2. Remap(g, cs) \in Glyphs
  <2>1. Remap(g, cs) = g \/ Remap(g, cs) = <<cs, g[2]>>
    BY DEF Remap
  <2>2. g[2] \in Nat
    BY DEF Glyphs
  <2> QED BY <1>1, <2>1, <2>2 DEF Glyphs, cs
<1> QED BY <1>1, <1>2 DEF Shown, cs

LEMMA LastTyped ==
  ASSUME NEW t \in Terms, NEW g \in Glyphs
  PROVE  {[glyph |-> g, cs |-> Charset(t)]} \in SUBSET Lasts
<1>1. Charset(t) \in Charsets94
  BY ShownTyped
<1> DEFINE cs == Charset(t)
<1> HIDE DEF cs
<1>2. [glyph |-> g, cs |-> cs] \in Lasts
  BY <1>1 DEF Lasts, Glyphs, cs
<1> QED BY <1>2 DEF cs

LEMMA PutCharRight ==
  ASSUME ModesInv, PutChar PROVE StepRight
<1>1. Fresh \in Terms
  BY FreshTyped DEF ModesInv
<1>2. PICK c \in {35, 48, 65, 113} :
        Do("charset", Put(Fresh, Concealed(term, <<"B", c>>)))
  BY DEF PutChar
<1> DEFINE g == Concealed(term, <<"B", c>>)
           h == Shown(Fresh, g)
           l == {[glyph |-> h, cs |-> Charset(Fresh)]}
<1>3. g \in Glyphs
  BY DEF Concealed, Space, Glyphs, Charsets94
<1> HIDE DEF g
<1>4. h \in Glyphs
  BY <1>1, <1>3, ShownTyped
<1>5. l \in SUBSET Lasts
  <2> HIDE DEF h
  <2> QED BY <1>1, <1>4, LastTyped
<1>6. Put(Fresh, g) = Tell([Fresh EXCEPT !.last = l], {"cursor", "part"})
  BY Zenon DEF Put
<1> HIDE DEF l
<1>7. Fine(Fresh, Put(Fresh, g))
  BY <1>1, <1>5, <1>6, WithLast
<1> QED BY <1>2, <1>7, DoRight DEF g

LEMMA RepeatRight ==
  ASSUME ModesInv, Repeat PROVE StepRight
<1>1. Fresh \in Terms /\ term \in Terms
  BY FreshTyped DEF ModesInv
<1> DEFINE l == IF term.last = {} THEN {[glyph |-> Space, cs |-> Charset(term)]}
                ELSE term.last
           g == (CHOOSE x \in l : TRUE).glyph
           u == Tell([Fresh EXCEPT !.last = l], {"cursor", "part"})
<1>2. term' = u /\ said' = <<"glyph", Shown(term, g)>> /\ host' = host /\ conf' = conf
  BY DEF Repeat
<1>3. l \in SUBSET Lasts
  <2>1. Space \in Glyphs
    BY DEF Space, Glyphs, Charsets94
  <2>2. {[glyph |-> Space, cs |-> Charset(term)]} \in SUBSET Lasts
    BY <1>1, <2>1, LastTyped
  <2>3. term.last \in SUBSET Lasts
    BY <1>1 DEF Terms
  <2> QED BY <2>2, <2>3
<1> HIDE DEF l
<1>4. Fine(Fresh, u)
  BY <1>1, <1>3, WithLast
<1>5. MouseRight(said', term'.opt)
  BY <1>2 DEF MouseRight
<1> HIDE DEF u
<1> QED BY <1>2, <1>4, <1>5 DEF StepRight, Fine

LEMMA ResetsRight ==
  ASSUME ModesInv, Reset PROVE StepRight
<1>1. Fine(Fresh, ResetScreen(Fresh))
  BY FreshTyped, ResetFine DEF ModesInv
<1> QED BY <1>1, DoRight DEF Reset

LEMMA SaveRestoreRight ==
  ASSUME ModesInv, SaveRestore, 2 <= Width PROVE StepRight
<1>1. Fresh \in Terms
  BY FreshTyped DEF ModesInv
<1>2. CASE Do("cursor", SaveCursor(Fresh))
  BY <1>1, <1>2, SaveFine, DoRight
<1>3. CASE \E all \in BOOLEAN : Do("cursor", RestoreCursor(Fresh, all))
  BY <1>1, <1>3, RestoreFine, DoRight
<1> QED BY <1>2, <1>3 DEF SaveRestore

LEMMA TextsRight ==
  ASSUME ModesInv, OSC PROVE StepRight
<1>1. Fresh \in Terms
  BY FreshTyped DEF ModesInv
<1>2. PICK c \in OscCommands : Do("texts", Osc(Fresh, c[1], c[2], c[3]))
  BY DEF OSC
<1>3. OscArgs(c[1], c[2], c[3])
  BY OscArgsIs
<1> QED BY <1>1, <1>2, <1>3, OscFine, DoRight

LEMMA MovedFine ==
  ASSUME NEW t \in Terms, NEW x \in Nat
  PROVE  Fine(t, Tell([t EXCEPT !.cur.x = x], {"cursor"}))
<1> DEFINE w == [t EXCEPT !.cur.x = x]
<1>1. Fine(t, w)
  BY WithXFine
<1>2. {"cursor"} \in SUBSET Topics
  BY DEF Topics, TOPIC_INITIAL
<1> HIDE DEF w
<1>3. Fine(w, Tell(w, {"cursor"}))
  BY <1>1, <1>2, TellFine DEF Fine
<1>4. Fine(t, Tell(w, {"cursor"}))
  BY <1>1, <1>3, FineTwice
<1> QED BY <1>4 DEF w

LEMMA PlaceRight ==
  ASSUME ModesInv, Place, 2 <= Width PROVE StepRight
<1>1. Fresh \in Terms
  BY FreshTyped DEF ModesInv
<1>2. PICK x \in 0..LastColumn(Width, "wide" \in term.line) :
        Do("tabs", Tell([Fresh EXCEPT !.cur.x = x], {"cursor"}))
  BY DEF Place
<1>3. x \in Nat
  <2>1. LastColumn(Width, "wide" \in term.line) \in Int
    BY ModesAssumption DEF LastColumn
  <2> QED BY <2>1
<1>4. Fine(Fresh, Tell([Fresh EXCEPT !.cur.x = x], {"cursor"}))
  BY <1>1, <1>3, MovedFine
<1> QED BY <1>2, <1>4, DoRight

LEMMA WithTabs ==
  ASSUME NEW t \in Terms, NEW T \in SUBSET Nat
  PROVE  Fine(t, [t EXCEPT !.tabs = T])
<1> DEFINE u == [t EXCEPT !.tabs = T]
<1>1. u \in Terms /\ u.topics = t.topics /\ u.opt = t.opt /\ u.txt = t.txt /\ u.line = t.line
  BY DEF Terms
<1> HIDE DEF u
<1>2. OptsShown(u) = OptsShown(t)
  BY <1>1 DEF OptsShown
<1>3. Fine(t, u)
  BY <1>1, <1>2, ToldSame DEF Fine
<1> QED BY <1>3 DEF u

LEMMA TabsRight ==
  ASSUME ModesInv, Tabs, 2 <= Width PROVE StepRight
<1>1. Fresh \in Terms /\ Fresh.tabs \in SUBSET Nat /\ term.tabs \in SUBSET Nat
      /\ term.cur.x \in Nat /\ Fresh.cur.x \in Nat /\ ("wide" \in term.line) \in BOOLEAN
  BY FreshTyped DEF ModesInv, Terms, Cursors
<1> DEFINE T1 == Fresh.tabs \cup {term.cur.x}
           T2 == Fresh.tabs \ {term.cur.x}
           x1 == TabForward(term.tabs, Fresh.cur.x, Width, "wide" \in term.line)
           x2 == TabReverse(term.tabs, Fresh.cur.x)
<1>2. T1 \in SUBSET Nat /\ T2 \in SUBSET Nat
  BY <1>1
<1>3. x1 \in Nat /\ x2 \in Nat
  BY <1>1, ForwardIs, ReverseIs
<1>4. \/ Do("tabs", [Fresh EXCEPT !.tabs = T1])
      \/ Do("tabs", [Fresh EXCEPT !.tabs = T2])
      \/ Do("tabs", [Fresh EXCEPT !.tabs = {}])
      \/ Do("tabs", Tell([Fresh EXCEPT !.cur.x = x1], {"cursor"}))
      \/ Do("tabs", Tell([Fresh EXCEPT !.cur.x = x2], {"cursor"}))
  BY Zenon DEF Tabs
<1> HIDE DEF T1, T2, x1, x2
<1>5. ASSUME NEW T \in SUBSET Nat, Do("tabs", [Fresh EXCEPT !.tabs = T])
      PROVE  StepRight
  BY <1>1, <1>5, WithTabs, DoRight
<1>6. ASSUME NEW x \in Nat, Do("tabs", Tell([Fresh EXCEPT !.cur.x = x], {"cursor"}))
      PROVE  StepRight
  BY <1>1, <1>6, MovedFine, DoRight
<1>7. {} \in SUBSET Nat
  OBVIOUS
<1> QED BY <1>2, <1>3, <1>4, <1>5, <1>6, <1>7, Zenon

LEMMA LinesRight ==
  ASSUME ModesInv, SetLineAttr, 2 <= Width PROVE StepRight
<1>1. Fresh \in Terms /\ Fresh.cur.x \in Nat
  BY FreshTyped DEF ModesInv, Terms, Cursors
<1>2. PICK n \in DOMAIN LineAttr :
        Do("lines", Tell([Fresh EXCEPT !.line = LineAttr[n],
             !.cur.x = IF "wide" \in LineAttr[n] /\ @ >= Width \div 2
                       THEN Width \div 2 ELSE @], {"double"}))
  BY Zenon DEF SetLineAttr
<1> DEFINE a == LineAttr[n]
           x == IF "wide" \in a /\ Fresh.cur.x >= Width \div 2
                THEN Width \div 2 ELSE Fresh.cur.x
           w == [Fresh EXCEPT !.line = a, !.cur.x = x]
           S == {"double"}
           u == Tell(w, S)
<1>3. a \in LineAttrs
  <2>1. n \in 1..6
    BY DEF LineAttr
  <2> QED BY <2>1 DEF LineAttr, LineAttrs
<1>4. x \in Nat
  BY <1>1, ModesAssumption
<1>5. Do("lines", u)
  BY <1>2, Zenon
<1> HIDE DEF a, x
<1>6. w \in Terms /\ w.topics = Fresh.topics /\ w.opt = Fresh.opt /\ w.txt = Fresh.txt
  <2> DEFINE c == [Fresh.cur EXCEPT !.x = x]
  <2>1. c \in Cursors
    BY <1>1, <1>4 DEF Terms, Cursors
  <2>2. w = [Fresh EXCEPT !.line = a, !.cur = c]
    BY <1>1 DEF Terms
  <2> HIDE DEF c, w
  <2> QED BY <1>1, <1>3, <2>1, <2>2 DEF Terms
<1>7. S \in SUBSET Topics
  BY DEF Topics, TOPIC_INITIAL
<1> HIDE DEF w
<1>8. u \in Terms /\ u.topics = Fresh.topics \cup S /\ u.opt = Fresh.opt
      /\ u.txt = Fresh.txt
  BY <1>6, <1>7, TellTyped, TellKeeps
<1> HIDE DEF u
<1>9. OptsShown(u) = OptsShown(Fresh) /\ ButtonsShown(u) = ButtonsShown(Fresh)
  BY <1>8 DEF OptsShown, ButtonsShown
<1>10. Fine(Fresh, u)
  BY <1>8, <1>9 DEF Fine, Told
<1> QED BY <1>5, <1>10, DoRight

LEMMA MouseStepRight ==
  ASSUME ModesInv, Mouse PROVE StepRight
<1>1. PICK evt \in {"p", "r", "m"}, b \in 0..5, m \in Mods, p \in MousePlaces :
        LET e == [evt |-> evt, button |-> b, mods |-> m, x |-> p[1], y |-> p[2]]
        IN  /\ evt = "m" \/ b # 0
            /\ ~Unreported(e, term.opt)
            /\ Answer("mouse", <<"mouse", e, MouseReport(e, term.opt)>>)
  BY DEF Mouse
<1> DEFINE e == [evt |-> evt, button |-> b, mods |-> m, x |-> p[1], y |-> p[2]]
           a == <<"mouse", e, MouseReport(e, term.opt)>>
<1>2. e \in Events /\ (e.evt = "m" \/ e.button # 0)
  <2>1. p[1] \in Nat /\ p[2] \in Nat
    BY ModesAssumption
  <2> QED BY <1>1, <2>1 DEF Events
<1>3. ~Unreported(e, term.opt) /\ Answer("mouse", a)
  BY <1>1
<1> HIDE DEF e
<1>4. term \in Terms /\ Fresh.opt = term.opt
  BY FreshTyped DEF ModesInv
<1>5. MouseRight(a, Fresh.opt)
  BY <1>2, <1>3, <1>4 DEF MouseRight
<1> HIDE DEF a
<1> QED BY <1>3, <1>4, <1>5, AnswerRight

LEMMA QueriesRight ==
  ASSUME ModesInv, Query PROVE StepRight
<1>1. term \in Terms
  BY DEF ModesInv
<1>2. ASSUME NEW a, NEW g, Answer(g, a), a[1] # "mouse" PROVE StepRight
  BY <1>1, <1>2, AnswerRight DEF MouseRight
<1>3. ASSUME NEW a, NEW g, NEW s, NEW b, Answer(g, a), a = <<s, b>>, s # "mouse"
      PROVE  StepRight
  BY <1>2, <1>3
<1>4. CASE Answer("query", <<"sgr", ReportSgr(term.cur)>>)
  BY <1>3, <1>4
<1>5. CASE Answer("query", <<"shape", term.opt.shape>>)
  BY <1>3, <1>5
<1>6. CASE Answer("query", <<"title", term.txt.title>>)
  BY <1>3, <1>6
<1>7. CASE \E n \in {0, 1}, p \in DOMAIN ParityCode, i \in 1..16 :
             Answer("parameters", <<"parameters", 2 + n, ParityCode[p], BaudCode(i)>>)
  <2>1. PICK n, p, i :
          Answer("parameters", <<"parameters", 2 + n, ParityCode[p], BaudCode(i)>>)
    BY <1>7
  <2> DEFINE a == <<"parameters", 2 + n, ParityCode[p], BaudCode(i)>>
  <2>2. a[1] # "mouse"
    OBVIOUS
  <2> HIDE DEF a
  <2>3. Answer("parameters", a)
    BY <2>1 DEF a
  <2> QED BY <1>2, <2>2, <2>3
<1> QED BY <1>4, <1>5, <1>6, <1>7 DEF Query

LEMMA StepsRight ==
  ASSUME ModesInv, Next, 2 <= Width PROVE StepRight
BY RenditionRight, OptionsRight, SavesRight, RestoresRight, ShapeRight, CharsetsRight,
   PutCharRight, RepeatRight, ResetsRight, SaveRestoreRight, TextsRight, PlaceRight,
   TabsRight, LinesRight, MouseStepRight, QueriesRight
   DEF Next

LEMMA ModesInit ==
  ASSUME Init PROVE ModesInv
<1> DEFINE c == CursorReset(ResetModes)
           o == OptReset([paste |-> FALSE, loopback |-> FALSE])
           k == KeptOf(c, o)
           B == FreshTexts.btn
           M == FreshTexts.msg
           X == FreshTexts
           T == InitialTabs
           a == [active |-> FALSE, title |-> "", tabs |-> {}, btn |-> B, msg |-> M]
           t == [cur |-> c, saved |-> {}, opt |-> o, kept |-> k, txt |-> X, alt |-> a,
                 tabs |-> T, line |-> {}, last |-> {}, topics |-> {}]
<1>1. host \in Hosts /\ conf \in Confs /\ said = <<"none">> /\ term = PowerOn
  BY HostTyped DEF Init
<1>2. c \in Cursors
  <2>1. ResetModes.origin \in BOOLEAN /\ ResetModes.wrap \in BOOLEAN
        /\ ResetModes.rev \in BOOLEAN
    BY DEF ResetModes
  <2> QED BY ONLY <2>1, ResetCursorTyped
<1>3. o \in Opts
  <2> DEFINE z == [paste |-> FALSE, loopback |-> FALSE]
  <2>1. z.paste \in BOOLEAN /\ z.loopback \in BOOLEAN
    OBVIOUS
  <2> HIDE DEF z
  <2>2. OptReset(z) \in Opts
    BY <1>1, <2>1, OptResetTyped
  <2> QED BY <2>2 DEF z
<1>4. k \in Kepts
  BY <1>2, <1>3, KeptOfTyped
<1>5. B \in Labelled /\ M \in Labelled /\ "" \in Labels
  BY DEF FreshTexts, Labelled, Labels
<1>6. X \in Txts /\ T \in SUBSET Nat
  BY TextsTyped, TabsTyped
<1>7. PowerOn = t
  BY Zenon DEF PowerOn
<1> HIDE DEF c, o, k, B, M, X, T
<1>8. a \in Alts
  BY <1>5 DEF Alts
<1> HIDE DEF a
<1>9. t \in Terms
  BY <1>2, <1>3, <1>4, <1>6, <1>8 DEF Terms, LineAttrs
<1>10. MouseRight(said, term.opt)
  BY <1>1 DEF MouseRight
<1> HIDE DEF t
<1> QED BY <1>1, <1>7, <1>9, <1>10 DEF ModesInv

LEMMA ModesNext ==
  ASSUME ModesInv, [Next]_vars, 2 <= Width PROVE ModesInv'
<1>1. /\ host' = host /\ conf' = conf /\ term' \in Terms /\ MouseRight(said', term'.opt)
      /\ host \in Hosts /\ conf \in Confs
  <2>1. CASE Next
    BY <2>1, StepsRight DEF StepRight, ModesInv
  <2>2. CASE UNCHANGED vars
    BY <2>2 DEF vars, ModesInv
  <2> QED BY <2>1, <2>2 DEF ModesInv
<1>2. Shapes' = Shapes
  BY <1>1 DEF Shapes
<1>3. Opts' = Opts
  BY <1>2 DEF Opts
<1>4. Terms' = Terms
  BY <1>3 DEF Terms
<1> QED BY <1>1, <1>4 DEF ModesInv

(* The structs of screen.c hold what their types allow in every state, and *)
(* the last report of the mouse is one of an event in the modes there are. *)
LEMMA ModesKept ==
  ASSUME 2 <= Width PROVE Spec => []ModesInv
<1>1. Init => ModesInv
  BY ModesInit
<1>2. ModesInv /\ [Next]_vars => ModesInv'
  BY ModesNext
<1> QED BY <1>1, <1>2, PTL DEF Spec

(* Whatever sequences the host sends, what a message shows never changes   *)
(* without the browser being told (the NOTIFY_DONEs of screen.c), if the   *)
(* host does not restore the two options that are restored silently.       *)
THEOREM BrowserIsTold ==
  ASSUME 2 <= Width, Restores \cap {5, 2004} = {}
  PROVE  Spec => ChangesTold
<1>1. ASSUME ModesInv, Next PROVE ChangeTold
  <2>1. Told(Fresh, term')
    BY <1>1, StepsRight DEF StepRight
  <2>2. Fresh.opt = term.opt /\ Fresh.txt = term.txt /\ Fresh.line = term.line
    BY <1>1, FreshTyped DEF ModesInv
  <2>3. OptsShown(Fresh) = OptsShown(term) /\ ButtonsShown(Fresh) = ButtonsShown(term)
    BY <2>2 DEF OptsShown, ButtonsShown
  <2> QED BY <2>1, <2>2, <2>3 DEF Told, ChangeTold
<1>2. ModesInv /\ [Next]_vars => [ChangeTold]_vars
  BY <1>1
<1> QED BY <1>2, ModesKept, PTL DEF Spec, ChangesTold

(* CHT goes to the next stop or to the end of the line, CBT to the nearest *)
(* stop on the left (next_tab_stop, prev_tab_stop), for every set of stops,*)
(* bits in a word and words of the bitmap, on screens it reaches across.   *)
THEOREM TabsFindStops ==
  ASSUME 2 <= Width PROVE Spec => []TabsNearest
<1>1. ASSUME ModesInv PROVE TabsNearest
  <2>1. term.tabs \in SUBSET Nat /\ term.cur.x \in Nat /\ ("wide" \in term.line) \in BOOLEAN
    BY <1>1 DEF ModesInv, Terms, Cursors
  <2> DEFINE T == term.tabs
             x == term.cur.x
             wide == "wide" \in term.line
             f == TabForward(T, x, Width, wide)
             l == LastColumn(Width, wide)
  <2>2. ~PassesEmptyWord(T, x) =>
          TabReverse(T, x) = IF {c \in T : c < x} = {} THEN 0 ELSE Max({c \in T : c < x})
    BY <2>1, ReverseIs
  <2>3. f <= l /\ f \in T \cup {l} /\ \A c \in T : c > x => f <= c
    BY <2>1, ForwardIs
  <2> QED BY <2>2, <2>3, Zenon DEF TabsNearest
<1> QED BY <1>1, ModesKept, PTL

-----------------------------------------------------------------------------
(* The backups.                                                            *)

OptNames == {"visible", "insert", "shape", "numpad", "cursors", "crlf", "reverse", "enc",
             "focus", "mode", "buttons", "links", "paste", "loopback"}

(* From t to u, of the options only f is changed, or of the modes of the   *)
(* cursor only f.                                                          *)
OnlyOpt(t, u, f) ==
  u.kept = t.kept /\ u.cur = t.cur /\ \A g \in OptNames \ {f} : u.opt[g] = t.opt[g]
OnlyCur(t, u, f) ==
  u.kept = t.kept /\ u.opt = t.opt /\ \A g \in CurSwitches \ {f} : u.cur[g] = t.cur[g]

LEMMA OptSet ==
  ASSUME NEW t \in Terms, NEW f, NEW v, NEW S, NEW u, u = SetOpt(t, f, v, S)
  PROVE  OnlyOpt(t, u, f) /\ (f \in OptNames => u.opt[f] = v)
<1>1. u.kept = t.kept /\ u.cur = t.cur /\ u.opt = [t.opt EXCEPT ![f] = v]
  BY DEF SetOpt, Tell, Terms
<1>2. t.opt \in Opts
  BY DEF Terms
<1>3. \A g \in OptNames \ {f} : u.opt[g] = t.opt[g]
  BY <1>1, <1>2 DEF Opts, OptNames
<1>4. f \in OptNames => u.opt[f] = v
  BY <1>1, <1>2 DEF Opts, OptNames
<1> QED BY <1>1, <1>3, <1>4 DEF OnlyOpt

LEMMA CurSet ==
  ASSUME NEW t \in Terms, NEW f \in CurSwitches, NEW v, NEW u, u = SetCur(t, f, v)
  PROVE  OnlyCur(t, u, f) /\ u.cur[f] = v
<1>1. u.kept = t.kept /\ u.opt = t.opt /\ u.cur = [t.cur EXCEPT ![f] = v]
  BY DEF SetCur, Tell, Terms
<1>2. t.cur \in Cursors
  BY DEF Terms
<1>3. \A g \in CurSwitches \ {f} : u.cur[g] = t.cur[g]
  BY <1>1, <1>2 DEF Cursors, CurSwitches
<1>4. u.cur[f] = v
  BY <1>1, <1>2 DEF Cursors, CurSwitches
<1> QED BY <1>1, <1>3, <1>4 DEF OnlyCur

LEMMA SameOpts ==
  ASSUME NEW o \in Opts, NEW p \in Opts, \A f \in OptNames : o[f] = p[f]
  PROVE  o = p
BY DEF Opts, OptNames

(* Setting option n changes the field it stands for, and where that one is *)
(* origin mode, the place of the cursor.                                   *)
LEMMA PrivateOnly ==
  ASSUME NEW t \in Terms, NEW n \in PrivateOptions, n # 12, NEW yn \in BOOLEAN
  PROVE  /\ n \in CurOptions => OnlyCur(t, SetPrivate(t, n, yn), Field(n))
         /\ n \notin CurOptions => OnlyOpt(t, SetPrivate(t, n, yn), Field(n))
<1> DEFINE f == Field(n)
           u == SetPrivate(t, n, yn)
<1>0. n \in Nat
  BY DEF PrivateOptions
<1>1. CASE n \in DOMAIN Flag
  <2>1. u = SetOpt(t, Flag[n], yn, {"opts"})
    BY <1>0, <1>1, PrivateIs, Zenon
  <2>2. f = Flag[n]
    BY <1>1, FieldIs
  <2>3. n \notin CurOptions
    BY <1>1, FlagIs DEF CurOptions
  <2> HIDE DEF u, f
  <2>4. OnlyOpt(t, u, f)
    BY <2>1, <2>2, OptSet
  <2> QED BY <2>3, <2>4 DEF u, f
<1>2. CASE n \in DOMAIN Mode
  <2> DEFINE v == IF yn THEN Mode[n] ELSE 0
  <2>1. u = SetOpt(t, "mode", v, {"opts"})
    <3>1. AtMode(t, n, yn)
      BY <1>0, PrivateIs, Zenon
    <3> QED BY <1>2, <3>1, Zenon DEF AtMode
  <2>2. f = "mode"
    BY <1>2, FieldIs
  <2>3. n \notin CurOptions
    BY <1>2, ModeIs DEF CurOptions
  <2> HIDE DEF u, f, v
  <2>4. OnlyOpt(t, u, f)
    BY <2>1, <2>2, OptSet
  <2> QED BY <2>3, <2>4 DEF u, f
<1>3. CASE n \in DOMAIN Encoding
  <2> DEFINE v == IF yn THEN Encoding[n] ELSE "simple"
  <2>1. u = SetOpt(t, "enc", v, {"opts"})
    <3>1. AtEncoding(t, n, yn)
      BY <1>0, PrivateIs, Zenon
    <3> QED BY <1>3, <3>1, Zenon DEF AtEncoding
  <2>2. f = "enc"
    BY <1>3, FieldIs
  <2>3. n \notin CurOptions
    BY <1>3, EncodingIs DEF CurOptions
  <2> HIDE DEF u, f, v
  <2>4. OnlyOpt(t, u, f)
    BY <2>1, <2>2, OptSet
  <2> QED BY <2>3, <2>4 DEF u, f
<1>4. CASE n = 1001
  <2>1. At1001(t, n, yn)
    BY <1>0, PrivateIs, Zenon
  <2>2. u = Tell(t, {"opts"}) /\ n \notin CurOptions
    BY <1>4, <2>1 DEF At1001, CurOptions
  <2> HIDE DEF u, f
  <2>3. u.kept = t.kept /\ u.cur = t.cur /\ u.opt = t.opt
    BY <2>2, TellKeeps
  <2> QED BY <2>2, <2>3 DEF u, f, OnlyOpt
<1>5. CASE n = 7
  <2>1. u = SetCur(t, "wrap", yn)
    BY <1>0, <1>5, PrivateIs, Zenon
  <2>2. f = "wrap" /\ n \in CurOptions
    BY <1>5, FieldIs DEF CurOptions
  <2> HIDE DEF u, f
  <2>3. OnlyCur(t, u, f)
    BY <2>1, <2>2, CurSet DEF CurSwitches
  <2> QED BY <2>2, <2>3 DEF u, f
<1>6. CASE n = 45
  <2>1. u = SetCur(t, "rev", yn)
    BY <1>0, <1>6, PrivateIs, Zenon
  <2>2. f = "rev" /\ n \in CurOptions
    BY <1>6, FieldIs DEF CurOptions
  <2> HIDE DEF u, f
  <2>3. OnlyCur(t, u, f)
    BY <2>1, <2>2, CurSet DEF CurSwitches
  <2> QED BY <2>2, <2>3 DEF u, f
<1>7. CASE n = 6
  <2> DEFINE v == SetCur(t, "origin", yn)
             w == Homed(v)
  <2>1. u = Tell(w, {"cursor"})
    BY <1>0, <1>7, PrivateIs, Zenon
  <2>2. f = "origin" /\ n \in CurOptions
    BY <1>7, FieldIs DEF CurOptions
  <2>3. v \in Terms
    BY SetCurTyped DEF CurSwitches
  <2>4. "origin" \in CurSwitches
    BY DEF CurSwitches
  <2> HIDE DEF u, f
  <2>5. OnlyCur(t, v, "origin")
    <3> DEFINE vv == SetCur(t, "origin", yn)
    <3> HIDE DEF vv
    <3>1. OnlyCur(t, vv, "origin")
      BY <2>4, CurSet DEF vv
    <3> QED BY <3>1 DEF vv
  <2> HIDE DEF v
  <2>6. w \in Terms /\ w.kept = v.kept /\ w.opt = v.opt
        /\ \A g \in CurSwitches : w.cur[g] = v.cur[g]
    <3>1. w \in Terms
      BY <2>3, WithX DEF Homed
    <3>2. w.kept = v.kept /\ w.opt = v.opt /\ w.cur = [v.cur EXCEPT !.x = 0]
      BY <2>3 DEF Homed, Terms
    <3>3. v.cur \in Cursors
      BY <2>3 DEF Terms
    <3> HIDE DEF w
    <3> QED BY <3>1, <3>2, <3>3 DEF Cursors, CurSwitches
  <2> HIDE DEF w
  <2>7. u.kept = w.kept /\ u.opt = w.opt /\ u.cur = w.cur
    BY <2>1, <2>6, TellKeeps
  <2>8. OnlyCur(t, u, f)
    BY <2>2, <2>5, <2>6, <2>7 DEF OnlyCur
  <2> QED BY <2>2, <2>8 DEF u, f
<1>8. \/ n \in DOMAIN Flag \/ n \in DOMAIN Mode \/ n \in DOMAIN Encoding
      \/ n = 1001 \/ n = 7 \/ n = 45 \/ n = 6
  <2> DEFINE D == DOMAIN Flag
             M == DOMAIN Mode
             E == DOMAIN Encoding
  <2>1. PrivateOptions = D \cup M \cup E \cup {1001, 12} \cup CurOptions
    BY FieldIs
  <2> HIDE DEF D, M, E
  <2>2. n \in D \/ n \in M \/ n \in E \/ n = 1001 \/ n = 7 \/ n = 45 \/ n = 6
    BY <2>1 DEF CurOptions
  <2> QED BY <2>2 DEF D, M, E
<1> QED BY <1>1, <1>2, <1>3, <1>4, <1>5, <1>6, <1>7, <1>8

(* Restoring option n brings back what is kept in its field.               *)
LEMMA RestoreDoes ==
  ASSUME NEW t \in Terms, NEW n \in PrivateOptions, n # 12
  PROVE  /\ n \in CurOptions => /\ OnlyCur(t, Restore(t, n), Field(n))
                                /\ Restore(t, n).cur[Field(n)] = t.kept[Field(n)]
         /\ n \notin CurOptions => /\ OnlyOpt(t, Restore(t, n), Field(n))
                                   /\ Restore(t, n).opt[Field(n)] = t.kept[Field(n)]
<1> DEFINE f == Field(n)
           v == t.kept[f]
           u == Restore(t, n)
<1>1. CASE n \in CurOptions
  <2>1. f \in CurSwitches
    BY <1>1, FieldIs DEF CurOptions, CurSwitches
  <2>2. u = SetCur(t, f, v)
    BY <1>1, RestoreIs
  <2> HIDE DEF f, v, u
  <2>3. OnlyCur(t, u, f) /\ u.cur[f] = v
    BY <2>1, <2>2, CurSet
  <2> QED BY <1>1, <2>3 DEF u, f, v
<1>2. CASE n \notin CurOptions
  <2> DEFINE S == IF n \in {5, 2004} THEN {"internal"} ELSE {"opts"}
  <2>1. f \in OptNames
    BY <1>2, FieldIs DEF OptFields, OptNames
  <2>2. u = SetOpt(t, f, v, S)
    BY <1>2, RestoreIs
  <2> HIDE DEF f, v, u, S
  <2>3. OnlyOpt(t, u, f) /\ u.opt[f] = v
    BY <2>1, <2>2, OptSet
  <2> QED BY <1>2, <2>3 DEF u, f, v
<1> QED BY <1>1, <1>2

(* The blinking and the steady form of a shape are each other's.           *)
LEMMA BlinksBack ==
  ASSUME NEW s \in 0..6, NEW yn \in BOOLEAN
  PROVE  /\ Blinked(s, yn) \in 0..6
         /\ Blinked(Blinked(s, yn), Blinks(s)) = s
         /\ Blinked(s, Blinks(s)) = s
<1> DEFINE b == Blinks(s)
           w == Blinked(s, yn)
<1>1. b \in BOOLEAN /\ (b <=> s \in {0, 3, 5})
  BY DEF Blinks
<1> HIDE DEF b
<1>2. w = IF yn THEN (IF s = 2 THEN 0 ELSE IF s = 4 THEN 3 ELSE IF s = 6 THEN 5 ELSE s)
          ELSE (IF s = 0 THEN 2 ELSE IF s = 3 THEN 4 ELSE IF s = 5 THEN 6 ELSE s)
  BY BlinkedIs
<1> HIDE DEF w
<1>3. w \in 0..6
  BY <1>2
<1>4. Blinked(w, b) =
        IF b THEN (IF w = 2 THEN 0 ELSE IF w = 4 THEN 3 ELSE IF w = 6 THEN 5 ELSE w)
        ELSE (IF w = 0 THEN 2 ELSE IF w = 3 THEN 4 ELSE IF w = 5 THEN 6 ELSE w)
  BY <1>1, <1>3, BlinkedIs
<1>5. Blinked(s, b) =
        IF b THEN (IF s = 2 THEN 0 ELSE IF s = 4 THEN 3 ELSE IF s = 6 THEN 5 ELSE s)
        ELSE (IF s = 0 THEN 2 ELSE IF s = 3 THEN 4 ELSE IF s = 5 THEN 6 ELSE s)
  BY <1>1, BlinkedIs
<1> DEFINE x == Blinked(w, b)
           y == Blinked(s, b)
<1> HIDE DEF x, y
<1>6. x = s /\ y = s
  <2>1. b <=> s \in {0, 3, 5}
    BY <1>1
  <2>2. y = s
    <3>1. CASE b
      BY <1>5, <2>1, <3>1 DEF y
    <3>2. CASE ~b
      BY <1>5, <2>1, <3>2 DEF y
    <3> QED BY <3>1, <3>2
  <2>3. x = s
    <3>1. CASE b
      <4>1. x = IF w = 2 THEN 0 ELSE IF w = 4 THEN 3 ELSE IF w = 6 THEN 5 ELSE w
        BY <1>4, <3>1 DEF x
      <4>2. s \in {0, 3, 5}
        BY <2>1, <3>1
      <4> QED BY <1>2, <4>1, <4>2
    <3>2. CASE ~b
      <4>1. x = IF w = 0 THEN 2 ELSE IF w = 3 THEN 4 ELSE IF w = 5 THEN 6 ELSE w
        BY <1>4, <3>2 DEF x
      <4>2. s \in {1, 2, 4, 6}
        BY <2>1, <3>2
      <4> QED BY <1>2, <4>1, <4>2
    <3> QED BY <3>1, <3>2
  <2> QED BY <2>2, <2>3
<1> QED BY <1>3, <1>6 DEF x, y, w, b

LEMMA BlinkDoes ==
  ASSUME NEW t \in Terms, NEW yn \in BOOLEAN
  PROVE  /\ CursorBlink(t, yn) \in Terms
         /\ OnlyOpt(t, CursorBlink(t, yn), "shape")
         /\ conf.decopt12 => CursorBlink(t, yn).opt.shape = Blinked(t.opt.shape, yn)
         /\ ~conf.decopt12 => CursorBlink(t, yn).opt = t.opt
<1> DEFINE u == CursorBlink(t, yn)
           v == Blinked(t.opt.shape, yn)
<1>1. u \in Terms
  BY BlinkFine DEF Fine
<1>2. CASE conf.decopt12
  <2>1. u = SetOpt(t, "shape", v, {"opts"})
    BY <1>2, BlinkIs
  <2> HIDE DEF u, v
  <2>2. OnlyOpt(t, u, "shape") /\ u.opt["shape"] = v
    BY <2>1, OptSet DEF OptNames
  <2> QED BY <1>1, <1>2, <2>2 DEF u, v
<1>3. CASE ~conf.decopt12
  BY <1>1, <1>3, BlinkIs DEF OnlyOpt
<1> QED BY <1>2, <1>3

LEMMA SavedBack ==
  ASSUME NEW t \in Terms, NEW n \in PrivateOptions, NEW yn \in BOOLEAN, 2 <= Width
  PROVE  SameModes(Restore(SetPrivate(Save(t, n), n, yn), n), t)
<1> DEFINE f == Field(n)
           s == Save(t, n)
           u == SetPrivate(s, n, yn)
           r == Restore(u, n)
<1>1. /\ s \in Terms /\ s.opt = t.opt /\ s.cur = t.cur
      /\ n \in CurOptions => s.kept[f] = t.cur[f]
      /\ n = 12 => s.kept.blink = Blinks(t.opt.shape)
      /\ n \notin CurOptions \cup {12} => s.kept[f] = t.opt[f]
  BY SaveDoes
<1> HIDE DEF s
<1>2. n \in Nat
  BY DEF PrivateOptions
<1>3. u \in Terms
  BY <1>1, <1>2, PrivateFine DEF Fine
<1>4. ASSUME n # 12 PROVE SameModes(r, t)
  <2>1. /\ n \in CurOptions => OnlyCur(s, u, f)
        /\ n \notin CurOptions => OnlyOpt(s, u, f)
    BY <1>1, <1>4, PrivateOnly
  <2> HIDE DEF u
  <2>2. /\ n \in CurOptions => OnlyCur(u, r, f) /\ r.cur[f] = u.kept[f]
        /\ n \notin CurOptions => OnlyOpt(u, r, f) /\ r.opt[f] = u.kept[f]
    BY <1>3, <1>4, RestoreDoes
  <2>3. r \in Terms
    BY <1>3, RestoreTyped
  <2> HIDE DEF r, f
  <2>4. ASSUME n \in CurOptions PROVE SameModes(r, t)
    <3>1. r.opt = t.opt
      BY <1>1, <2>1, <2>2, <2>4 DEF OnlyCur
    <3>2. r.cur[f] = t.cur[f]
      BY <1>1, <2>1, <2>2, <2>4 DEF OnlyCur
    <3>3. \A g \in CurSwitches : r.cur[g] = t.cur[g]
      BY <1>1, <2>1, <2>2, <2>4, <3>2 DEF OnlyCur
    <3> QED BY <3>1, <3>3 DEF SameModes, CurSwitches
  <2>5. ASSUME n \notin CurOptions PROVE SameModes(r, t)
    <3>1. r.cur = t.cur
      BY <1>1, <2>1, <2>2, <2>5 DEF OnlyOpt
    <3>2. r.opt[f] = t.opt[f]
      BY <1>1, <1>4, <2>1, <2>2, <2>5 DEF OnlyOpt
    <3>3. \A g \in OptNames : r.opt[g] = t.opt[g]
      BY <1>1, <2>1, <2>2, <2>5, <3>2 DEF OnlyOpt
    <3>4. r.opt \in Opts /\ t.opt \in Opts
      BY <2>3 DEF Terms
    <3>5. r.opt = t.opt
      BY <3>3, <3>4, SameOpts
    <3> QED BY <3>1, <3>5 DEF SameModes
  <2>6. SameModes(r, t)
    BY <2>4, <2>5
  <2> QED BY <2>6 DEF r, u
<1>5. ASSUME n = 12 PROVE SameModes(r, t)
  <2> DEFINE b == u.kept.blink
             w == CursorBlink(u, b)
  <2>1. u = CursorBlink(s, yn)
    <3>1. At12(s, n, yn)
      BY <1>2, PrivateIs, Zenon
    <3> QED BY <1>5, <3>1 DEF At12
  <2>2. r = Tell(w, {"opts"})
    BY <1>5, RestoreIs
  <2> HIDE DEF u
  <2>3. b \in BOOLEAN
    BY <1>3 DEF Terms, Kepts
  <2>4. t.opt.shape \in 0..6 /\ t.opt \in Opts
    BY DEF Terms, Opts, Shapes
  <2>5. OnlyOpt(s, u, "shape")
        /\ (conf.decopt12 => u.opt.shape = Blinked(s.opt.shape, yn))
        /\ (~conf.decopt12 => u.opt = s.opt)
    BY <1>1, <2>1, BlinkDoes
  <2>6. b = Blinks(t.opt.shape)
    BY <1>1, <1>5, <2>5 DEF OnlyOpt
  <2> HIDE DEF b
  <2>7. w \in Terms /\ OnlyOpt(u, w, "shape")
        /\ (conf.decopt12 => w.opt.shape = Blinked(u.opt.shape, b))
        /\ (~conf.decopt12 => w.opt = u.opt)
    BY <1>3, <2>3, BlinkDoes
  <2> HIDE DEF w
  <2>8. w.opt = t.opt
    <3>1. CASE conf.decopt12
      <4>1. w.opt.shape = t.opt.shape
        BY <1>1, <2>4, <2>5, <2>6, <2>7, <3>1, BlinksBack
      <4>2. \A g \in OptNames : w.opt[g] = t.opt[g]
        BY <1>1, <2>5, <2>7, <4>1 DEF OnlyOpt
      <4>3. w.opt \in Opts
        BY <2>7 DEF Terms
      <4> QED BY <2>4, <4>2, <4>3, SameOpts
    <3>2. CASE ~conf.decopt12
      BY <1>1, <2>5, <2>7, <3>2
    <3> QED BY <3>1, <3>2
  <2>9. w.cur = t.cur
    BY <1>1, <2>5, <2>7 DEF OnlyOpt
  <2> HIDE DEF r
  <2>10. r.opt = w.opt /\ r.cur = w.cur
    BY <2>2, <2>7, TellKeeps
  <2>11. SameModes(r, t)
    BY <2>8, <2>9, <2>10 DEF SameModes
  <2> QED BY <2>11 DEF r, u
<1>6. SameModes(r, t)
  BY <1>4, <1>5
<1> QED BY <1>6 DEF s

(* A reset keeps of each option what it sets it to.                        *)
LEMMA KeptIs ==
  ASSUME NEW c \in Cursors, NEW o \in Opts, NEW n \in PrivateOptions
  PROVE  /\ n \in CurOptions => KeptOf(c, o)[Field(n)] = c[Field(n)]
         /\ n = 12 => KeptOf(c, o).blink = Blinks(o.shape)
         /\ n \notin CurOptions \cup {12} => KeptOf(c, o)[Field(n)] = o[Field(n)]
<1> DEFINE f == Field(n)
           k == KeptOf(c, o)
<1>1. n \in CurOptions => f \in {"origin", "wrap", "rev"}
  BY FieldIs DEF CurOptions
<1>2. n \notin CurOptions \cup {12} => f \in OptFields
  BY FieldIs DEF OptFields
<1> HIDE DEF f
<1>3. \A g \in {"origin", "wrap", "rev"} : k[g] = c[g]
  BY DEF KeptOf
<1>4. \A g \in OptFields : k[g] = o[g]
  BY DEF KeptOf, OptFields
<1>5. k.blink = Blinks(o.shape)
  BY DEF KeptOf
<1> HIDE DEF k
<1> QED BY <1>1, <1>2, <1>3, <1>4, <1>5 DEF f, k

LEMMA ResetHarmless ==
  ASSUME NEW t \in Terms, NEW n \in PrivateOptions, conf \in Confs
  PROVE  SameModes(Restore(ResetScreen(t), n), ResetScreen(t))
<1> DEFINE u == ResetScreen(t)
           r == Restore(u, n)
           f == Field(n)
           o == OptReset(t.opt)
           c == CursorReset(ResetModes)
<1>1. /\ Fine(t, u) /\ u.cur = c /\ u.opt = o /\ u.kept = KeptOf(c, o)
      /\ c \in Cursors /\ o \in Opts
  BY ResetFine
<1>2. /\ n \in CurOptions => KeptOf(c, o)[f] = c[f]
      /\ n = 12 => KeptOf(c, o).blink = Blinks(o.shape)
      /\ n \notin CurOptions \cup {12} => KeptOf(c, o)[f] = o[f]
  BY <1>1, KeptIs
<1> HIDE DEF u, o, c
<1>3. /\ u \in Terms /\ u.opt \in Opts
      /\ n \in CurOptions => u.kept[f] = u.cur[f]
      /\ n = 12 => u.kept.blink = Blinks(u.opt.shape)
      /\ n \notin CurOptions \cup {12} => u.kept[f] = u.opt[f]
  BY <1>1, <1>2 DEF Fine
<1>4. r \in Terms
  BY <1>3, RestoreTyped
<1>5. ASSUME n # 12 PROVE SameModes(r, u)
  <2>1. /\ n \in CurOptions => OnlyCur(u, r, f) /\ r.cur[f] = u.kept[f]
        /\ n \notin CurOptions => OnlyOpt(u, r, f) /\ r.opt[f] = u.kept[f]
    BY <1>3, <1>5, RestoreDoes
  <2> HIDE DEF r, f
  <2>2. ASSUME n \in CurOptions PROVE SameModes(r, u)
    <3>1. r.opt = u.opt
      BY <2>1, <2>2 DEF OnlyCur
    <3>2. \A g \in CurSwitches : r.cur[g] = u.cur[g]
      BY <1>3, <2>1, <2>2 DEF OnlyCur
    <3> QED BY <3>1, <3>2 DEF SameModes, CurSwitches
  <2>3. ASSUME n \notin CurOptions PROVE SameModes(r, u)
    <3>1. \A g \in OptNames : r.opt[g] = u.opt[g]
      BY <1>3, <1>5, <2>1, <2>3 DEF OnlyOpt
    <3>2. r.opt \in Opts
      BY <1>4 DEF Terms
    <3>3. r.opt = u.opt
      BY <1>3, <3>1, <3>2, SameOpts
    <3>4. r.cur = u.cur
      BY <2>1, <2>3 DEF OnlyOpt
    <3> QED BY <3>3, <3>4 DEF SameModes
  <2> QED BY <2>2, <2>3
<1>6. ASSUME n = 12 PROVE SameModes(r, u)
  <2> DEFINE b == u.kept.blink
             w == CursorBlink(u, b)
  <2>1. r = Tell(w, {"opts"})
    BY <1>6, RestoreIs
  <2>2. b \in BOOLEAN /\ b = Blinks(u.opt.shape) /\ u.opt.shape \in 0..6
    BY <1>3, <1>6 DEF Terms, Kepts, Opts, Shapes
  <2> HIDE DEF b
  <2>3. w \in Terms /\ OnlyOpt(u, w, "shape")
        /\ (conf.decopt12 => w.opt.shape = Blinked(u.opt.shape, b))
        /\ (~conf.decopt12 => w.opt = u.opt)
    BY <1>3, <2>2, BlinkDoes
  <2> HIDE DEF w
  <2>4. w.opt = u.opt
    <3>1. CASE conf.decopt12
      <4>1. Blinked(u.opt.shape, Blinks(u.opt.shape)) = u.opt.shape
        BY <2>2, BlinksBack
      <4>2. w.opt.shape = u.opt.shape
        BY <2>2, <2>3, <3>1, <4>1
      <4>3. \A g \in OptNames : w.opt[g] = u.opt[g]
        BY <2>3, <4>2 DEF OnlyOpt
      <4>4. w.opt \in Opts
        BY <2>3 DEF Terms
      <4> QED BY <1>3, <4>3, <4>4, SameOpts
    <3>2. CASE ~conf.decopt12
      BY <2>3, <3>2
    <3> QED BY <3>1, <3>2
  <2>5. w.cur = u.cur
    BY <2>3 DEF OnlyOpt
  <2> HIDE DEF r
  <2>6. r.opt = w.opt /\ r.cur = w.cur
    BY <2>1, <2>3, TellKeeps
  <2> QED BY <2>4, <2>5, <2>6 DEF SameModes
<1>7. SameModes(r, u)
  BY <1>5, <1>6
<1> QED BY <1>7 DEF u

(* The texts an application sets do not touch what is kept for the other   *)
(* screen.                                                                 *)
LEMMA OscKeepsAlt ==
  ASSUME NEW t \in Terms, NEW n, NEW m, NEW s
  PROVE  Osc(t, n, m, s).alt = t.alt
<1> DEFINE Keeps(u) == u.alt = t.alt
<1>1. Keeps(SetTitle(t, s)) /\ Keeps(SetBackdrop(t, s)) /\ Keeps(SetCount(t, s))
  BY DEF SetTitle, SetBackdrop, SetCount, Tell, Terms
<1>2. \A f, b : Keeps(SetButton(t, f, b, s))
  BY DEF SetButton, Tell, Terms
<1>3. Keeps(t)
  OBVIOUS
<1> DEFINE u == Osc(t, n, m, s)
           a1 == SetTitle(t, s)
           a2 == SetBackdrop(t, s)
           a3 == SetCount(t, s)
           a4 == SetButton(t, "btn", m, s)
           a5 == SetButton(t, "msg", m, s)
           a6 == SetButton(t, "color", m, s)
           a7 == SetButton(t, "btn", n - 80, s)
           a8 == SetButton(t, "msg", n - 90, s)
<1>4. u = CASE n \in {0, 2} -> a1 [] n = 70 \/ (n = 27 /\ m = 1) -> a2
            [] n = 27 /\ m = 2 -> a3 [] n = 28 -> a4 [] n = 29 -> a5 [] n = 30 -> a6
            [] n \in 81..85 -> a7 [] n \in 91..95 -> a8 [] OTHER -> t
  BY Zenon DEF Osc
<1>5. Keeps(a4) /\ Keeps(a5) /\ Keeps(a6) /\ Keeps(a7) /\ Keeps(a8)
  BY <1>2
<1> HIDE DEF u, a1, a2, a3, a4, a5, a6, a7, a8
<1>6. u \in {a1, a2, a3, a4, a5, a6, a7, a8, t}
  BY <1>4
<1>7. Keeps(a1) /\ Keeps(a2) /\ Keeps(a3)
  BY <1>1 DEF a1, a2, a3
<1> HIDE DEF Keeps
<1>8. Keeps(u)
  BY <1>3, <1>5, <1>6, <1>7
<1> QED BY <1>8 DEF Keeps, u

LEMMA AltBack ==
  ASSUME NEW t \in Terms, ~t.alt.active, NEW c \in OscCommands
  PROVE  LET u == SwapState(Osc([SwapState(t, TRUE) EXCEPT !.tabs = {}],
                                c[1], c[2], c[3]), FALSE)
         IN  /\ u.txt.title = t.txt.title /\ u.txt.btn = t.txt.btn
             /\ u.txt.msg = t.txt.msg /\ u.tabs = t.tabs
<1> DEFINE s == SwapState(t, TRUE)
           p == [s EXCEPT !.tabs = {}]
           q == Osc(p, c[1], c[2], c[3])
           u == SwapState(q, FALSE)
           a == [active |-> TRUE, title |-> t.txt.title, btn |-> t.txt.btn,
                 msg |-> t.txt.msg, tabs |-> t.tabs]
<1>1. s \in Terms
  BY SwapFine DEF Fine
<1>2. s.alt = a
  <2>1. s = Tell([t EXCEPT !.alt = a], TOPIC_INITIAL)
    BY DEF SwapState, Terms, Alts
  <2> HIDE DEF a, s
  <2> QED BY <2>1 DEF Tell, Terms
<1> HIDE DEF s
<1>3. p \in Terms /\ p.alt = a
  <2> HIDE DEF a
  <2> QED BY <1>1, <1>2 DEF Terms
<1> HIDE DEF p
<1>4. q \in Terms
  BY <1>3, OscArgsIs, OscFine DEF Fine
<1>5. q.alt = a
  BY <1>3, OscKeepsAlt
<1> HIDE DEF q
<1>6. a.active = TRUE /\ a.title = t.txt.title /\ a.btn = t.txt.btn /\ a.msg = t.txt.msg
      /\ a.tabs = t.tabs
  OBVIOUS
<1> HIDE DEF a
<1> DEFINE v == [q EXCEPT !.alt.active = FALSE, !.txt.title = q.alt.title,
                          !.txt.btn = q.alt.btn, !.txt.msg = q.alt.msg,
                          !.tabs = q.alt.tabs]
<1>7. u = Tell(v, TOPIC_INITIAL)
  <2>1. FALSE # q.alt.active
    BY <1>5, <1>6
  <2> HIDE DEF v
  <2> QED BY <2>1, Zenon DEF SwapState, v
<1>8. v.txt.title = t.txt.title /\ v.txt.btn = t.txt.btn /\ v.txt.msg = t.txt.msg
      /\ v.tabs = t.tabs
  <2> DEFINE x == [q.txt EXCEPT !.title = q.alt.title, !.btn = q.alt.btn,
                                !.msg = q.alt.msg]
             y == [q.alt EXCEPT !.active = FALSE]
  <2>1. v = [q EXCEPT !.alt = y, !.txt = x, !.tabs = q.alt.tabs]
    BY <1>4 DEF Terms
  <2>2. x.title = t.txt.title /\ x.btn = t.txt.btn /\ x.msg = t.txt.msg
    BY <1>4, <1>5, <1>6 DEF Terms, Txts
  <2> HIDE DEF x, y, v
  <2>3. v.txt = x /\ v.tabs = q.alt.tabs
    BY <1>4, <2>1 DEF Terms
  <2> QED BY <1>5, <1>6, <2>2, <2>3
<1>9. u.txt = v.txt /\ u.tabs = v.tabs
  <2>1. DOMAIN v = DOMAIN q
    OBVIOUS
  <2>2. "topics" \in DOMAIN q /\ q = [i \in DOMAIN q |-> q[i]]
    BY <1>4 DEF Terms
  <2> HIDE DEF v, u
  <2> QED BY <1>7, <2>1, <2>2 DEF Tell
<1> HIDE DEF v, u
<1>10. /\ u.txt.title = t.txt.title /\ u.txt.btn = t.txt.btn
       /\ u.txt.msg = t.txt.msg /\ u.tabs = t.tabs
  BY <1>8, <1>9
<1> QED BY <1>10, Zenon DEF u, q, p, s

(* What opt_backup and state_backup hold is what they are to bring back,   *)
(* in every state: an option saved, set and restored is as it was, right   *)
(* after a reset restoring changes nothing, and the alternate screen gives *)
(* the title, the buttons and the tab stops back.                          *)
THEOREM BackupsBringBack ==
  ASSUME 2 <= Width PROVE Spec => []BackupsHold
<1>1. ASSUME ModesInv PROVE BackupsHold
  <2>1. term \in Terms /\ conf \in Confs
    BY <1>1 DEF ModesInv
  <2>2. SavedComesBack
    BY <2>1, SavedBack DEF SavedComesBack
  <2>3. ResetForgets
    BY <2>1, ResetHarmless, Zenon DEF ResetForgets
  <2>4. AltRestores
    BY <2>1, AltBack, Zenon DEF AltRestores
  <2> QED BY <2>2, <2>3, <2>4 DEF BackupsHold
<1> QED BY <1>1, ModesKept, PTL

-----------------------------------------------------------------------------
(* Reports of the mouse.                                                   *)

HasBit(c, k) == (c \div k) % 2 = 1

(* The code of a report is put together from bits and taken apart again.   *)
LEMMA BitsOf ==
  ASSUME NEW b \in {0, 1, 2, 3, 64, 65}, NEW s \in {0, 1}, NEW a \in {0, 1},
         NEW k \in {0, 1}, NEW j \in {0, 1}, NEW c \in Nat,
         c = b + 4 * s + 8 * a + 16 * k + 32 * j
  PROVE  /\ (HasBit(c, 4) <=> s = 1) /\ (HasBit(c, 8) <=> a = 1)
         /\ (HasBit(c, 16) <=> k = 1) /\ (HasBit(c, 32) <=> j = 1)
         /\ (HasBit(c, 64) <=> b \in {64, 65})
         /\ c % 4 = (IF b \in {64, 65} THEN b - 64 ELSE b)
         /\ c \in 0..125
<1>1. c \in 0..125
  OBVIOUS
<1>2. HasBit(c, 4) <=> s = 1
  BY SMT DEF HasBit
<1>3. HasBit(c, 8) <=> a = 1
  BY SMT DEF HasBit
<1>4. HasBit(c, 16) <=> k = 1
  BY SMT DEF HasBit
<1>5. HasBit(c, 32) <=> j = 1
  BY SMT DEF HasBit
<1>6. HasBit(c, 64) <=> b \in {64, 65}
  BY SMT DEF HasBit
<1>7. c % 4 = (IF b \in {64, 65} THEN b - 64 ELSE b)
  BY SMT
<1> QED BY <1>1, <1>2, <1>3, <1>4, <1>5, <1>6, <1>7

(* What a program makes of report r of event e.                            *)
Decodes(e, r, o) ==
  LET c == r.code - IF o.enc = "sgr" THEN 0 ELSE 32
      at == IF o.enc \in {"simple", "utf8"} THEN 32 ELSE 0
      button == IF HasBit(c, 64) THEN 4 + (c % 4) ELSE (c % 4) + 1
      released == IF o.enc = "sgr" THEN r.final = "m" ELSE button = 4 /\ ~HasBit(c, 64)
  IN  /\ o.enc = "utf8" => {r.code, r.x, r.y} \subseteq 0..127
      /\ r.x - at = e.x + 1 /\ r.y - at = e.y + 1
      /\ IF o.mode = 1 THEN e.evt = "p" /\ c + 1 = e.button
         ELSE /\ HasBit(c, 32) = (e.evt = "m")
              /\ HasBit(c, 4) = ("shift" \in e.mods) /\ HasBit(c, 16) = ("ctrl" \in e.mods)
              /\ HasBit(c, 8) = (e.mods \cap {"alt", "meta"} # {})
              /\ released = (e.evt = "r" \/ e.button = 0)
              /\ ~released => button = e.button

Pressed(e, o) ==
  IF e.button = 0 \/ (e.evt = "r" /\ o.enc # "sgr") THEN 3
  ELSE IF e.button <= 3 THEN e.button - 1 ELSE 60 + e.button

LEMMA CodeIs ==
  ASSUME NEW e \in Events, NEW o \in Opts, o.mode # 1, ~Unreported(e, o)
  PROVE  LET c == Code(e, o)
             b == Pressed(e, o)
         IN  /\ c \in 0..125
             /\ HasBit(c, 32) <=> e.evt = "m"
             /\ HasBit(c, 4) <=> "shift" \in e.mods
             /\ HasBit(c, 16) <=> "ctrl" \in e.mods
             /\ HasBit(c, 8) <=> e.mods \cap {"alt", "meta"} # {}
             /\ HasBit(c, 64) <=> b \in {64, 65}
             /\ c % 4 = (IF b \in {64, 65} THEN b - 64 ELSE b)
             /\ b \in {0, 1, 2, 3, 64, 65}
<1> DEFINE b == Pressed(e, o)
           c == Code(e, o)
           p == "shift" \in e.mods
           q == e.mods \cap {"alt", "meta"} # {}
           r == "ctrl" \in e.mods
           m == o.mode \in {3, 4} /\ e.evt = "m"
           s == IF p THEN 1 ELSE 0
           a == IF q THEN 1 ELSE 0
           k == IF r THEN 1 ELSE 0
           j == IF m THEN 1 ELSE 0
<1>1. b \in {0, 1, 2, 3, 64, 65}
  <2>1. e.button \in 0..5
    BY DEF Events
  <2> QED BY <2>1 DEF Pressed
<1>2. m <=> e.evt = "m"
  BY DEF Unreported, Opts
<1>3. c = b + ((IF p THEN 4 ELSE 0) + (IF q THEN 8 ELSE 0) + (IF r THEN 16 ELSE 0))
          + IF m THEN 32 ELSE 0
  BY Zenon DEF Code, Pressed
<1> HIDE DEF c, b, p, q, r, m
<1>4. /\ s \in {0, 1} /\ (s = 1 <=> p) /\ (IF p THEN 4 ELSE 0) = 4 * s
      /\ a \in {0, 1} /\ (a = 1 <=> q) /\ (IF q THEN 8 ELSE 0) = 8 * a
      /\ k \in {0, 1} /\ (k = 1 <=> r) /\ (IF r THEN 16 ELSE 0) = 16 * k
      /\ j \in {0, 1} /\ (j = 1 <=> m) /\ (IF m THEN 32 ELSE 0) = 32 * j
  OBVIOUS
<1> HIDE DEF s, a, k, j
<1>5. c = b + 4 * s + 8 * a + 16 * k + 32 * j /\ c \in Nat
  BY <1>1, <1>3, <1>4
<1>6. /\ (HasBit(c, 4) <=> s = 1) /\ (HasBit(c, 8) <=> a = 1)
      /\ (HasBit(c, 16) <=> k = 1) /\ (HasBit(c, 32) <=> j = 1)
      /\ (HasBit(c, 64) <=> b \in {64, 65})
      /\ c % 4 = (IF b \in {64, 65} THEN b - 64 ELSE b)
      /\ c \in 0..125
  BY <1>1, <1>4, <1>5, BitsOf
<1>7. /\ HasBit(c, 32) <=> e.evt = "m"
      /\ HasBit(c, 4) <=> p
      /\ HasBit(c, 16) <=> r
      /\ HasBit(c, 8) <=> q
  BY <1>2, <1>4, <1>6
<1> QED BY <1>1, <1>6, <1>7 DEF c, b, p, q, r

(* The three forms of a report.                                            *)
LEMMA ReportIs ==
  ASSUME NEW e, NEW o \in Opts
  PROVE  LET r == MouseReport(e, o)
             c == Code(e, o)
         IN  /\ o.enc \in {"simple", "utf8"} =>
                  /\ r.code = (32 + c) % 256 /\ r.x = (32 + (e.x + 1)) % 256
                  /\ r.y = (32 + (e.y + 1)) % 256
             /\ o.enc = "sgr" =>
                  /\ r.code = c /\ r.x = e.x + 1 /\ r.y = e.y + 1
                  /\ r.final = IF e.evt = "p" \/ (e.evt = "m" /\ e.button > 0)
                               THEN "M" ELSE "m"
             /\ o.enc = "urxvt" =>
                  /\ r.code = (32 + c) % 256 /\ r.x = (e.x + 1) % 256
                  /\ r.y = (e.y + 1) % 256
<1> DEFINE c == Code(e, o)
           p == [code |-> c, x |-> e.x + 1, y |-> e.y + 1, final |-> "M"]
           f == IF e.evt = "p" \/ (e.evt = "m" /\ e.button > 0) THEN "M" ELSE "m"
           r == MouseReport(e, o)
<1>1. o.enc \in Encodings
  BY DEF Opts
<1>2. p = Report(c, e, "M")
  BY DEF Report
<1>3. r = CASE o.enc \in {"simple", "utf8"} ->
                 [code |-> (32 + p.code) % 256, x |-> (32 + p.x) % 256,
                  y |-> (32 + p.y) % 256, final |-> "M"]
            [] o.enc = "sgr" -> [p EXCEPT !.final = f]
            [] o.enc = "urxvt" ->
                 [code |-> (32 + p.code) % 256, x |-> p.x % 256,
                  y |-> p.y % 256, final |-> "M"]
  <2> HIDE DEF p
  <2> QED BY <1>2, Zenon DEF MouseReport
<1> HIDE DEF f, c, r
<1>4. o.enc \in {"simple", "utf8"} =>
        r.code = (32 + c) % 256 /\ r.x = (32 + (e.x + 1)) % 256 /\ r.y = (32 + (e.y + 1)) % 256
  BY <1>3
<1>5. o.enc = "sgr" => r.code = c /\ r.x = e.x + 1 /\ r.y = e.y + 1 /\ r.final = f
  BY <1>3
<1>6. o.enc = "urxvt" => r.code = (32 + c) % 256 /\ r.x = (e.x + 1) % 256 /\ r.y = (e.y + 1) % 256
  BY <1>3
<1> QED BY <1>4, <1>5, <1>6, Zenon DEF r, f, c

(* If the encoding has room for an event, the numbers of its report are    *)
(* those of the event.                                                     *)
Fits(e, r, o, c) ==
  LET at == IF o.enc \in {"simple", "utf8"} THEN 32 ELSE 0
  IN  /\ r.code - (IF o.enc = "sgr" THEN 0 ELSE 32) = c
      /\ r.x - at = e.x + 1 /\ r.y - at = e.y + 1
      /\ o.enc = "sgr" =>
           r.final = IF e.evt = "p" \/ (e.evt = "m" /\ e.button > 0) THEN "M" ELSE "m"

LEMMA ReportFits ==
  ASSUME NEW e \in Events, NEW o \in Opts, NEW c \in 0..125, c = Code(e, o),
         Expressible(e, o)
  PROVE  Fits(e, MouseReport(e, o), o, c)
<1> DEFINE r == MouseReport(e, o)
<1>1. e.x \in Nat /\ e.y \in Nat
  BY DEF Events
<1>2. o.enc \in {"simple", "utf8", "sgr", "urxvt"}
  BY DEF Opts, Encodings
<1>3. \A v \in 0..255 : v % 256 = v
  OBVIOUS
<1>4. /\ 32 + c \in 0..255
      /\ o.enc \in {"simple", "utf8"} =>
           32 + (e.x + 1) \in 0..255 /\ 32 + (e.y + 1) \in 0..255
      /\ o.enc = "urxvt" => e.x + 1 \in 0..255 /\ e.y + 1 \in 0..255
  BY <1>1 DEF Expressible
<1>5. /\ o.enc \in {"simple", "utf8"} =>
           r.code = (32 + c) % 256 /\ r.x = (32 + (e.x + 1)) % 256 /\ r.y = (32 + (e.y + 1)) % 256
      /\ o.enc = "sgr" =>
           /\ r.code = c /\ r.x = e.x + 1 /\ r.y = e.y + 1
           /\ r.final = IF e.evt = "p" \/ (e.evt = "m" /\ e.button > 0) THEN "M" ELSE "m"
      /\ o.enc = "urxvt" =>
           r.code = (32 + c) % 256 /\ r.x = (e.x + 1) % 256 /\ r.y = (e.y + 1) % 256
  BY ReportIs
<1> HIDE DEF r
<1>6. CASE o.enc \in {"simple", "utf8"}
  <2>1. (32 + c) % 256 = 32 + c /\ (32 + (e.x + 1)) % 256 = 32 + (e.x + 1)
        /\ (32 + (e.y + 1)) % 256 = 32 + (e.y + 1)
    BY ONLY <1>3, <1>4, <1>6
  <2>2. r.code = 32 + c /\ r.x = 32 + (e.x + 1) /\ r.y = 32 + (e.y + 1)
    BY ONLY <1>5, <1>6, <2>1
  <2> QED BY <1>1, <1>6, <2>2 DEF r, Fits
<1>7. CASE o.enc = "sgr"
  BY <1>1, <1>5, <1>7 DEF r, Fits
<1>8. CASE o.enc = "urxvt"
  <2>1. r.code = 32 + c /\ r.x = e.x + 1 /\ r.y = e.y + 1
    BY <1>3, <1>4, <1>5, <1>8
  <2> QED BY <1>1, <1>8, <2>1 DEF r, Fits
<1> QED BY <1>2, <1>6, <1>7, <1>8

(* A report in the encoding for UTF-8 is three characters below 128.       *)
LEMMA AllCharacters ==
  ASSUME NEW e \in Events, NEW o \in Opts, e.evt = "m" \/ e.button # 0,
         ~Unreported(e, o), Expressible(e, o), o.enc = "utf8"
  PROVE  LET r == MouseReport(e, o) IN {r.code, r.x, r.y} \subseteq 0..127
<1> DEFINE r == MouseReport(e, o)
           d == Code(e, o)
<1>1. e.button \in 0..5 /\ e.evt \in {"p", "r", "m"} /\ e.x \in Nat /\ e.y \in Nat
  BY DEF Events
<1>2. d \in 0..95
  <2>1. CASE o.mode = 1
    <3>1. e.button \in 1..5
      BY <1>1, <2>1 DEF Unreported
    <3> QED BY <2>1, <3>1 DEF Code
  <2>2. CASE o.mode # 1
    <3> DEFINE b == Pressed(e, o)
    <3>1. /\ d \in 0..125 /\ (HasBit(d, 32) <=> e.evt = "m")
          /\ HasBit(d, 64) <=> b \in {64, 65}
      BY <2>2, CodeIs
    <3>2. e.evt = "m" => b \notin {64, 65}
      <4>1. ASSUME e.evt = "m" PROVE e.button \in 0..3
        BY <1>1, <4>1 DEF Expressible
      <4> QED BY <4>1 DEF Pressed
    <3> HIDE DEF d, b
    <3>3. ~(HasBit(d, 32) /\ HasBit(d, 64))
      BY <3>1, <3>2
    <3> QED BY <3>1, <3>3 DEF HasBit
  <2> QED BY <2>1, <2>2
<1>3. e.x + 1 \in 0..95 /\ e.y + 1 \in 0..95
  BY <1>1 DEF Expressible
<1>4. r.code = (32 + d) % 256 /\ r.x = (32 + (e.x + 1)) % 256 /\ r.y = (32 + (e.y + 1)) % 256
  BY ReportIs
<1> HIDE DEF r, d
<1>5. \A v \in 0..95 : (32 + v) % 256 \in 0..127
  OBVIOUS
<1>6. r.code \in 0..127 /\ r.x \in 0..127 /\ r.y \in 0..127
  BY <1>2, <1>3, <1>4, <1>5
<1> QED BY <1>6 DEF r

LEMMA Decoded ==
  ASSUME NEW e \in Events, NEW o \in Opts, e.evt = "m" \/ e.button # 0,
         ~Unreported(e, o), Expressible(e, o)
  PROVE  Decodes(e, MouseReport(e, o), o)
<1> DEFINE r == MouseReport(e, o)
           d == Code(e, o)
           at == IF o.enc \in {"simple", "utf8"} THEN 32 ELSE 0
           f == IF e.evt = "p" \/ (e.evt = "m" /\ e.button > 0) THEN "M" ELSE "m"
<1>1. e.button \in 0..5 /\ e.evt \in {"p", "r", "m"}
  BY DEF Events
<1>2. o.enc = "utf8" => {r.code, r.x, r.y} \subseteq 0..127
  BY AllCharacters
<1>3. CASE o.mode = 1
  <2>1. e.evt = "p" /\ e.button \in 1..5
    BY <1>1, <1>3 DEF Unreported
  <2>2. d = e.button - 1
    BY <1>3 DEF Code
  <2>3. d \in 0..125 /\ d = Code(e, o)
    BY <2>1, <2>2
  <2> HIDE DEF d
  <2>4. /\ r.code - (IF o.enc = "sgr" THEN 0 ELSE 32) = d
        /\ r.x - at = e.x + 1 /\ r.y - at = e.y + 1
    <3>1. Fits(e, r, o, d)
      BY <2>3, ReportFits
    <3> QED BY <3>1, Zenon DEF Fits
  <2>5. d + 1 = e.button
    BY <2>1, <2>2
  <2> HIDE DEF r
  <2>6. o.enc = "utf8" => {r.code, r.x, r.y} \subseteq 0..127
    BY <1>2 DEF r
  <2> QED BY <1>3, <2>1, <2>4, <2>5, <2>6 DEF Decodes, r
<1>4. CASE o.mode # 1
  <2> DEFINE b == Pressed(e, o)
  <2>1. /\ d \in 0..125
        /\ HasBit(d, 32) <=> e.evt = "m"
        /\ HasBit(d, 4) <=> "shift" \in e.mods
        /\ HasBit(d, 16) <=> "ctrl" \in e.mods
        /\ HasBit(d, 8) <=> e.mods \cap {"alt", "meta"} # {}
        /\ HasBit(d, 64) <=> b \in {64, 65}
        /\ d % 4 = (IF b \in {64, 65} THEN b - 64 ELSE b)
        /\ b \in {0, 1, 2, 3, 64, 65}
    BY <1>4, CodeIs
  <2>2. /\ r.code - (IF o.enc = "sgr" THEN 0 ELSE 32) = d
        /\ r.x - at = e.x + 1 /\ r.y - at = e.y + 1
        /\ o.enc = "sgr" => r.final = f
    <3>1. d = Code(e, o)
      OBVIOUS
    <3> HIDE DEF d
    <3>2. Fits(e, r, o, d)
      BY <2>1, <3>1, ReportFits
    <3> QED BY <3>2, Zenon DEF Fits
  <2>3. b = IF e.button = 0 \/ (e.evt = "r" /\ o.enc # "sgr") THEN 3
            ELSE IF e.button <= 3 THEN e.button - 1 ELSE 60 + e.button
    BY Zenon DEF Pressed
  <2> DEFINE button == IF HasBit(d, 64) THEN 4 + (d % 4) ELSE (d % 4) + 1
             released == IF o.enc = "sgr" THEN r.final = "m"
                         ELSE button = 4 /\ ~HasBit(d, 64)
  <2> HIDE DEF d, r, b
  <2>4. b \in {64, 65} => button = 4 + (b - 64)
    BY <2>1
  <2>5. b \in {0, 1, 2, 3} => button = b + 1
    BY <2>1
  <2>6. released <=> (e.evt = "r" \/ e.button = 0)
    <3>1. CASE o.enc = "sgr"
      <4>1. released <=> f = "m"
        BY <2>2, <3>1
      <4> QED BY <1>1, <4>1
    <3>2. CASE o.enc # "sgr"
      <4>1. released <=> b = 3
        BY <2>1, <2>4, <2>5, <3>2
      <4>2. b = 3 <=> (e.evt = "r" \/ e.button = 0)
        BY <1>1, <2>3, <3>2
      <4> QED BY <4>1, <4>2
    <3> QED BY <3>1, <3>2
  <2>7. ~released => button = e.button
    <3>1. ASSUME ~released PROVE e.evt # "r" /\ e.button \in 1..5
      BY <1>1, <2>6, <3>1
    <3>2. ASSUME e.evt # "r", e.button \in 1..5 PROVE button = e.button
      <4>1. b = IF e.button <= 3 THEN e.button - 1 ELSE 60 + e.button
        BY <2>3, <3>2
      <4> HIDE DEF button
      <4> QED BY <2>4, <2>5, <3>2, <4>1
    <3> QED BY <3>1, <3>2
  <2> HIDE DEF button, released
  <2>8. Decodes(e, r, o) <=>
          /\ o.enc = "utf8" => {r.code, r.x, r.y} \subseteq 0..127
          /\ r.x - at = e.x + 1 /\ r.y - at = e.y + 1
          /\ HasBit(d, 32) = (e.evt = "m")
          /\ HasBit(d, 4) = ("shift" \in e.mods) /\ HasBit(d, 16) = ("ctrl" \in e.mods)
          /\ HasBit(d, 8) = (e.mods \cap {"alt", "meta"} # {})
          /\ released = (e.evt = "r" \/ e.button = 0)
          /\ ~released => button = e.button
    BY <1>4, <2>2, Zenon DEF Decodes, released, button
  <2>9. /\ HasBit(d, 32) = (e.evt = "m")
        /\ HasBit(d, 4) = ("shift" \in e.mods) /\ HasBit(d, 16) = ("ctrl" \in e.mods)
        /\ HasBit(d, 8) = (e.mods \cap {"alt", "meta"} # {})
    BY <2>1 DEF HasBit
  <2>10. released = (e.evt = "r" \/ e.button = 0)
    BY <2>6 DEF released
  <2>11. o.enc = "utf8" => {r.code, r.x, r.y} \subseteq 0..127
    BY <1>2 DEF r
  <2>12. Decodes(e, r, o)
    BY <2>2, <2>7, <2>8, <2>9, <2>10, <2>11
  <2> QED BY <2>12 DEF r
<1> QED BY <1>3, <1>4

(* A program that decodes a report of the mouse finds the event: kind,     *)
(* button, keys and place, whatever modes and encodings the host switched  *)
(* on and off (sendMouseAction), for every set of places: all of them with *)
(* the SGR encoding, those the bytes have room for with the others.        *)
THEOREM ReportsDecode ==
  ASSUME 2 <= Width PROVE Spec => []MouseDecodes
<1>1. ASSUME ModesInv PROVE MouseDecodes
  <2>1. SUFFICES ASSUME said[1] = "mouse", Expressible(said[2], term.opt)
                 PROVE  Decodes(said[2], said[3], term.opt)
    BY Zenon DEF MouseDecodes, Decodes, HasBit
  <2>2. term.opt \in Opts
    BY <1>1 DEF ModesInv, Terms
  <2>3. PICK e \in Events : /\ e.evt = "m" \/ e.button # 0
                            /\ ~Unreported(e, term.opt)
                            /\ said = <<"mouse", e, MouseReport(e, term.opt)>>
    BY <1>1, <2>1 DEF ModesInv, MouseRight
  <2>4. said[2] = e /\ said[3] = MouseReport(e, term.opt)
    <3> DEFINE r == MouseReport(e, term.opt)
    <3>1. said = <<"mouse", e, r>>
      BY <2>3
    <3> HIDE DEF r
    <3>2. said[2] = e /\ said[3] = r
      BY <3>1
    <3> QED BY <3>2 DEF r
  <2> QED BY <2>1, <2>2, <2>3, <2>4, Decoded
<1> QED BY <1>1, ModesKept, PTL

-----------------------------------------------------------------------------
(* The report of the rendition.                                            *)

CodedAttributes == Attributes \ {"overline"}

(* The code the report has for an attribute of c.                          *)
CodeOf(c, a) ==
  CASE a = "bold" -> 1 [] a = "faint" -> 2 [] a = "italic" -> 3 [] a = "underline" -> 4
    [] a = "blink" -> 5 [] a = "fraktur" -> 20 [] a = "strike" -> 9 [] a = "inverse" -> 7
    [] a = "fg" -> ColorCode(c.fg, 30, 90) [] a = "bg" -> ColorCode(c.bg, 40, 100)

(* s is what the report starts with, then the codes of the attributes A.   *)
Lists(s, c, A) ==
  /\ s \in Seq(Nat) /\ Len(s) >= 1 /\ s[1] = 0
  /\ \A i \in 2..Len(s) : \E a \in A : s[i] = CodeOf(c, a)
  /\ \A a \in A : \E i \in 2..Len(s) : s[i] = CodeOf(c, a)

OneCode(c, a) == IF a \in c.attrs THEN <<CodeOf(c, a)>> ELSE <<>>

LEMMA ListsNone ==
  ASSUME NEW c PROVE Lists(<<0>>, c, {})
BY DEF Lists

LEMMA ListsMore ==
  ASSUME NEW c, NEW s, NEW A, NEW a, Lists(s, c, A), CodeOf(c, a) \in Nat
  PROVE  Lists(s \o OneCode(c, a), c, A \cup ({a} \cap c.attrs))
<1> DEFINE v == CodeOf(c, a)
<1>1. s \in Seq(Nat) /\ Len(s) \in Nat /\ Len(s) >= 1 /\ s[1] = 0
  BY DEF Lists
<1>2. CASE a \notin c.attrs
  <2>1. A \cup ({a} \cap c.attrs) = A
    BY <1>2
  <2>2. OneCode(c, a) = <<>>
    BY <1>2 DEF OneCode
  <2>3. s \o <<>> = s
    BY <1>1
  <2> QED BY <2>1, <2>2, <2>3
<1>3. CASE a \in c.attrs
  <2> DEFINE t == s \o <<v>>
             B == A \cup {a}
  <2>1. A \cup ({a} \cap c.attrs) = B /\ OneCode(c, a) = <<v>>
    BY <1>3 DEF OneCode
  <2>2. v \in Nat
    OBVIOUS
  <2>3. v = CodeOf(c, a)
    OBVIOUS
  <2> HIDE DEF v
  <2>4. t \in Seq(Nat) /\ Len(t) = Len(s) + 1 /\ t[Len(s) + 1] = v
    BY <1>1, <2>2
  <2>5. \A i \in 1..Len(s) : t[i] = s[i]
    BY <1>1, <2>2
  <2> HIDE DEF t
  <2>6. t[1] = 0
    BY <1>1, <2>5
  <2>7. ASSUME NEW i \in 2..Len(t) PROVE \E b \in B : t[i] = CodeOf(c, b)
    <3>1. CASE i = Len(s) + 1
      BY <2>3, <2>4, <3>1
    <3>2. CASE i # Len(s) + 1
      <4>1. i \in 2..Len(s) /\ t[i] = s[i]
        BY <1>1, <2>4, <2>5, <3>2
      <4>2. PICK b \in A : s[i] = CodeOf(c, b)
        BY <4>1 DEF Lists
      <4> QED BY <4>1, <4>2
    <3> QED BY <3>1, <3>2
  <2>8. ASSUME NEW b \in B PROVE \E i \in 2..Len(t) : t[i] = CodeOf(c, b)
    <3>1. CASE b = a
      <4>1. Len(s) + 1 \in 2..Len(t)
        BY <1>1, <2>4
      <4> QED BY <2>3, <2>4, <3>1, <4>1
    <3>2. CASE b \in A
      <4>1. PICK i \in 2..Len(s) : s[i] = CodeOf(c, b)
        BY <3>2 DEF Lists
      <4>2. i \in 2..Len(t) /\ t[i] = s[i]
        BY <1>1, <2>4, <2>5
      <4> QED BY <4>1, <4>2
    <3> QED BY <3>1, <3>2
  <2>9. Lists(t, c, B)
    BY <1>1, <2>4, <2>6, <2>7, <2>8 DEF Lists
  <2> QED BY <2>1, <2>9 DEF t
<1> QED BY <1>2, <1>3

LEMMA CodesAre ==
  ASSUME NEW c
  PROVE  /\ CodeOf(c, "bold") = 1 /\ CodeOf(c, "faint") = 2 /\ CodeOf(c, "italic") = 3
         /\ CodeOf(c, "underline") = 4 /\ CodeOf(c, "blink") = 5
         /\ CodeOf(c, "fraktur") = 20 /\ CodeOf(c, "strike") = 9
         /\ CodeOf(c, "inverse") = 7 /\ CodeOf(c, "fg") = ColorCode(c.fg, 30, 90)
         /\ CodeOf(c, "bg") = ColorCode(c.bg, 40, 100)
<1> DEFINE f == ColorCode(c.fg, 30, 90)
           b == ColorCode(c.bg, 40, 100)
<1> HIDE DEF f, b
<1>1. \A a : CodeOf(c, a) =
        CASE a = "bold" -> 1 [] a = "faint" -> 2 [] a = "italic" -> 3 [] a = "underline" -> 4
          [] a = "blink" -> 5 [] a = "fraktur" -> 20 [] a = "strike" -> 9
          [] a = "inverse" -> 7 [] a = "fg" -> f [] a = "bg" -> b
  BY Zenon DEF CodeOf, f, b
<1>2. /\ CodeOf(c, "bold") = 1 /\ CodeOf(c, "faint") = 2 /\ CodeOf(c, "italic") = 3
      /\ CodeOf(c, "underline") = 4 /\ CodeOf(c, "blink") = 5
      /\ CodeOf(c, "fraktur") = 20 /\ CodeOf(c, "strike") = 9
      /\ CodeOf(c, "inverse") = 7 /\ CodeOf(c, "fg") = f /\ CodeOf(c, "bg") = b
  BY <1>1
<1> QED BY <1>2 DEF f, b

(* The colours 0 to 15 have codes of their own.                            *)
LEMMA ColorCodes ==
  ASSUME NEW v \in 0..15, NEW n \in {30, 40}
  PROVE  LET m == ColorCode(v, n, n + 60)
         IN  \/ v \in 0..7 /\ m \in n..(n + 7) /\ m - n = v
             \/ v \in 8..15 /\ m \in (n + 60)..(n + 67) /\ m - (n + 60) + 8 = v
<1>1. CASE v \in 0..7
  <2>1. v % 8 = v
    BY <1>1
  <2> QED BY <1>1, <2>1 DEF ColorCode
<1>2. CASE v \in 8..15
  <2>1. v % 8 = v - 8
    BY <1>2
  <2> QED BY <1>2, <2>1 DEF ColorCode
<1> QED BY <1>1, <1>2

LEMMA CodesTyped ==
  ASSUME NEW c \in Cursors, c.fg < 16, c.bg < 16, NEW a \in CodedAttributes
  PROVE  CodeOf(c, a) \in Nat \ {0, 38, 48}
<1>1. c.fg \in 0..15 /\ c.bg \in 0..15
  BY DEF Cursors
<1>2. ColorCode(c.fg, 30, 90) \in 30..37 \cup 90..97
  BY <1>1, ColorCodes
<1>3. ColorCode(c.bg, 40, 100) \in 40..47 \cup 100..107
  BY <1>1, ColorCodes
<1> QED BY <1>2, <1>3, CodesAre DEF CodedAttributes, Attributes

LEMMA ReportLists ==
  ASSUME NEW c \in Cursors, c.fg < 16, c.bg < 16, "overline" \notin c.attrs
  PROVE  Lists(ReportSgr(c), c, c.attrs)
<1> DEFINE One(a) == OneCode(c, a)
           s0 == <<0>>
           s1 == s0 \o One("bold")
           s2 == s1 \o One("faint")
           s3 == s2 \o One("italic")
           s4 == s3 \o One("underline")
           s5 == s4 \o One("blink")
           s6 == s5 \o One("fraktur")
           s7 == s6 \o One("strike")
           s8 == s7 \o One("inverse")
           s9 == s8 \o One("fg")
           s10 == s9 \o One("bg")
           A(a) == {a} \cap c.attrs
           A1 == {} \cup A("bold")
           A2 == A1 \cup A("faint")
           A3 == A2 \cup A("italic")
           A4 == A3 \cup A("underline")
           A5 == A4 \cup A("blink")
           A6 == A5 \cup A("fraktur")
           A7 == A6 \cup A("strike")
           A8 == A7 \cup A("inverse")
           A9 == A8 \cup A("fg")
           A10 == A9 \cup A("bg")
<1>1. ASSUME NEW a \in CodedAttributes PROVE CodeOf(c, a) \in Nat
  BY CodesTyped
<1>2. {"bold", "faint", "italic", "underline", "blink", "fraktur", "strike", "inverse",
       "fg", "bg"} \subseteq CodedAttributes
  BY DEF CodedAttributes, Attributes
<1>3. ASSUME NEW s, NEW B, NEW a \in CodedAttributes, Lists(s, c, B)
      PROVE  Lists(s \o One(a), c, B \cup A(a))
  BY <1>1, <1>3, ListsMore
<1>4. ReportSgr(c) = s10
  <2> DEFINE If(a, n) == IF a \in c.attrs THEN <<n>> ELSE <<>>
             r == <<0>> \o If("bold", 1) \o If("faint", 2) \o If("italic", 3)
                  \o If("underline", 4) \o If("blink", 5) \o If("fraktur", 20)
                  \o If("strike", 9) \o If("inverse", 7)
                  \o If("fg", ColorCode(c.fg, 30, 90)) \o If("bg", ColorCode(c.bg, 40, 100))
  <2>1. ReportSgr(c) = r
    BY Zenon DEF ReportSgr
  <2>2. \A a : One(a) = If(a, CodeOf(c, a))
    BY Zenon DEF OneCode
  <2> HIDE DEF One, If
  <2>3. /\ One("bold") = If("bold", 1) /\ One("faint") = If("faint", 2)
        /\ One("italic") = If("italic", 3) /\ One("underline") = If("underline", 4)
        /\ One("blink") = If("blink", 5) /\ One("fraktur") = If("fraktur", 20)
        /\ One("strike") = If("strike", 9) /\ One("inverse") = If("inverse", 7)
        /\ One("fg") = If("fg", ColorCode(c.fg, 30, 90))
        /\ One("bg") = If("bg", ColorCode(c.bg, 40, 100))
    BY <2>2, CodesAre
  <2>4. s10 = r
    BY <2>3
  <2> QED BY <2>1, <2>4
<1> HIDE DEF One, A
<1>5. Lists(s1, c, A1) /\ Lists(s2, c, A2) /\ Lists(s3, c, A3)
  <2>1. Lists(s1, c, A1)
    BY <1>2, <1>3, ListsNone
  <2> HIDE DEF s1, A1
  <2>2. Lists(s2, c, A2)
    BY <1>2, <1>3, <2>1
  <2> HIDE DEF s2, A2
  <2>3. Lists(s3, c, A3)
    BY <1>2, <1>3, <2>2
  <2> QED BY <2>1, <2>2, <2>3 DEF s1, A1, s2, A2
<1> HIDE DEF s3, A3
<1>6. Lists(s4, c, A4)
  BY <1>2, <1>3, <1>5
<1> HIDE DEF s4, A4
<1>7. Lists(s5, c, A5)
  BY <1>2, <1>3, <1>6
<1> HIDE DEF s5, A5
<1>8. Lists(s6, c, A6)
  BY <1>2, <1>3, <1>7
<1> HIDE DEF s6, A6
<1>9. Lists(s7, c, A7)
  BY <1>2, <1>3, <1>8
<1> HIDE DEF s7, A7
<1>10. Lists(s8, c, A8)
  BY <1>2, <1>3, <1>9
<1> HIDE DEF s8, A8
<1>11. Lists(s9, c, A9)
  BY <1>2, <1>3, <1>10
<1> HIDE DEF s9, A9
<1>12. Lists(s10, c, A10)
  BY <1>2, <1>3, <1>11
<1>13. A10 = c.attrs
  <2>1. c.attrs \subseteq Attributes
    BY DEF Cursors
  <2> QED BY <2>1 DEF A10, A9, A8, A7, A6, A5, A4, A3, A2, A1, A, Attributes
<1> HIDE DEF A10, s10
<1> QED BY <1>4, <1>12, <1>13

(* What SGR makes of the numbers in a report.                              *)
LEMMA SgrOneIs ==
  ASSUME NEW c, NEW n \in Nat
  PROVE  /\ n = 0 => SgrOne(c, n) = ResetSgr(c)
         /\ n \in 30..37 => SgrOne(c, n) = Fg(c, n - 30)
         /\ n \in 40..47 => SgrOne(c, n) = Bg(c, n - 40)
         /\ n \in 90..97 => SgrOne(c, n) = Fg(c, n - 90 + 8)
         /\ n \in 100..107 => SgrOne(c, n) = Bg(c, n - 100 + 8)
         /\ n \in DOMAIN SetBy => SgrOne(c, n) = [c EXCEPT !.attrs = @ \cup {SetBy[n]}]
<1> DEFINE r == ResetSgr(c)
           f1 == Fg(c, n - 30)
           f2 == Bg(c, n - 40)
           f3 == Fg(c, n - 90 + 8)
           f4 == Bg(c, n - 100 + 8)
           D == DOMAIN SetBy
           E == DOMAIN ClearedBy
           c1 == [c EXCEPT !.fg = 0, !.attrs = @ \ {"fg"}]
           c2 == [c EXCEPT !.bg = 0, !.attrs = @ \ {"bg"}]
           c3 == [c EXCEPT !.attrs = @ \cup {SetBy[n]}]
           c4 == [c EXCEPT !.attrs = @ \ ClearedBy[n]]
           c5 == [c EXCEPT !.conceal = (n = 8)]
           s == SgrOne(c, n)
<1>1. s = CASE n = 0 -> r [] n \in 30..37 -> f1 [] n \in 40..47 -> f2
            [] n \in 90..97 -> f3 [] n \in 100..107 -> f4
            [] n = 39 -> c1 [] n = 49 -> c2 [] n \in D -> c3 [] n \in E -> c4
            [] n \in {8, 28} -> c5 [] OTHER -> c
  BY Zenon DEF SgrOne
<1>2. D = {1, 2, 3, 4, 5, 6, 7, 9, 20, 53} /\ E = {21, 22, 23, 24, 25, 27, 29, 55}
  BY DEF SetBy, ClearedBy
<1> HIDE DEF r, f1, f2, f3, f4, D, E, c1, c2, c3, c4, c5, s
<1>3. /\ n = 0 => s = r
      /\ n \in 30..37 => s = f1
      /\ n \in 40..47 => s = f2
      /\ n \in 90..97 => s = f3
      /\ n \in 100..107 => s = f4
      /\ n \in D => s = c3
  BY <1>1, <1>2
<1> QED BY <1>3, Zenon DEF r, f1, f2, f3, f4, D, c3, s

(* From d to e attribute a is added, with its colour in c.                 *)
Adds(c, a, d, e) ==
  /\ e.attrs = d.attrs \cup {a} /\ e.conceal = d.conceal
  /\ e.fg = IF a = "fg" THEN c.fg ELSE d.fg
  /\ e.bg = IF a = "bg" THEN c.bg ELSE d.bg

LEMMA SgrAdds ==
  ASSUME NEW c \in Cursors, c.fg < 16, c.bg < 16, NEW d \in Cursors,
         NEW a \in CodedAttributes
  PROVE  Adds(c, a, d, SgrOne(d, CodeOf(c, a)))
<1> DEFINE n == CodeOf(c, a)
           e == SgrOne(d, n)
<1>0. n \in Nat
  BY CodesTyped
<1>1. c.fg \in 0..15 /\ c.bg \in 0..15
  BY DEF Cursors
<1>2. CASE a = "fg"
  <2>1. n = ColorCode(c.fg, 30, 90)
    BY <1>2, CodesAre
  <2>2. \/ n \in 30..37 /\ n - 30 = c.fg
        \/ n \in 90..97 /\ n - 90 + 8 = c.fg
    <3> HIDE DEF n
    <3> QED BY <1>1, <2>1, ColorCodes
  <2> HIDE DEF n
  <2>3. e = Fg(d, c.fg)
    BY <1>0, <2>2, SgrOneIs
  <2> HIDE DEF e
  <2>4. Adds(c, a, d, e)
    BY <1>2, <2>3 DEF Adds, Fg, Cursors
  <2> QED BY <2>4 DEF e, n
<1>3. CASE a = "bg"
  <2>1. n = ColorCode(c.bg, 40, 100)
    BY <1>3, CodesAre
  <2>2. \/ n \in 40..47 /\ n - 40 = c.bg
        \/ n \in 100..107 /\ n - 100 + 8 = c.bg
    <3> HIDE DEF n
    <3> QED BY <1>1, <2>1, ColorCodes
  <2> HIDE DEF n
  <2>3. e = Bg(d, c.bg)
    BY <1>0, <2>2, SgrOneIs
  <2> HIDE DEF e
  <2>4. Adds(c, a, d, e)
    BY <1>3, <2>3 DEF Adds, Bg, Cursors
  <2> QED BY <2>4 DEF e, n
<1>4. CASE a \notin {"fg", "bg"}
  <2>1. a \in {"bold", "faint", "italic", "underline", "blink", "fraktur", "strike",
               "inverse"}
    BY <1>4 DEF CodedAttributes, Attributes
  <2>2. n \in DOMAIN SetBy /\ SetBy[n] = a
    <3>1. n \in {1, 2, 3, 4, 5, 7, 9, 20} /\
          a = CASE n = 1 -> "bold" [] n = 2 -> "faint" [] n = 3 -> "italic"
                [] n = 4 -> "underline" [] n = 5 -> "blink" [] n = 9 -> "strike"
                [] n = 20 -> "fraktur" [] n = 7 -> "inverse"
      <4>1. CASE a = "bold"
        BY <4>1, CodesAre
      <4>2. CASE a = "faint"
        BY <4>2, CodesAre
      <4>3. CASE a = "italic"
        BY <4>3, CodesAre
      <4>4. CASE a = "underline"
        BY <4>4, CodesAre
      <4>5. CASE a = "blink"
        BY <4>5, CodesAre
      <4>6. CASE a = "fraktur"
        BY <4>6, CodesAre
      <4>7. CASE a = "strike"
        BY <4>7, CodesAre
      <4>8. CASE a = "inverse"
        BY <4>8, CodesAre
      <4> QED BY <2>1, <4>1, <4>2, <4>3, <4>4, <4>5, <4>6, <4>7, <4>8
    <3> HIDE DEF n
    <3> QED BY <3>1 DEF SetBy
  <2> HIDE DEF n
  <2>3. e = [d EXCEPT !.attrs = @ \cup {a}]
    <3>1. e = [d EXCEPT !.attrs = @ \cup {SetBy[n]}]
      BY <1>0, <2>2, SgrOneIs
    <3> QED BY <2>2, <3>1
  <2> HIDE DEF e
  <2>4. Adds(c, a, d, e)
    BY <1>4, <2>3 DEF Adds, Cursors
  <2> QED BY <2>4 DEF e, n
<1> QED BY <1>2, <1>3, <1>4

(* The report, carried out, restores the rendition it reports.             *)
LEMMA ReportBack ==
  ASSUME NEW c \in Cursors, Reportable(c)
  PROVE  SameRendition(Sgr(c, ReportSgr(c)), c)
<1> DEFINE R == ReportSgr(c)
           n == Len(R)
<1>1. c.fg < 16 /\ c.bg < 16 /\ "overline" \notin c.attrs /\ c.conceal = FALSE
  <2>1. c.conceal \in BOOLEAN
    BY DEF Cursors
  <2> QED BY <2>1 DEF Reportable
<1>2. Lists(R, c, c.attrs)
  BY <1>1, ReportLists
<1> HIDE DEF R
<1>3. R \in Seq(Nat) /\ n \in Nat /\ n >= 1 /\ R[1] = 0
  BY <1>2 DEF Lists
<1>4. Given(R) = R
  BY <1>3 DEF Given
<1>5. PICK f : SgrRun(f, c, R) /\ Sgr(c, R) = f[n].cur
  BY <1>3, <1>4, SgrRuns
<1>6. /\ f[0] = [cur |-> c, next |-> 1]
      /\ \A i \in 1..n : f[i] = SgrTurn(f[i - 1], R, i)
      /\ \A i \in 0..n : f[i].cur \in Cursors
  BY <1>5 DEF SgrRun
<1> HIDE DEF n
<1>7. \A a \in c.attrs : a \in CodedAttributes
  BY <1>1 DEF Cursors, CodedAttributes
<1> DEFINE Good(d, i) ==
             /\ d.attrs \subseteq c.attrs /\ d.conceal = FALSE
             /\ \A j \in 2..i : \A a \in c.attrs : R[j] = CodeOf(c, a) => a \in d.attrs
             /\ "fg" \in d.attrs => d.fg = c.fg
             /\ "bg" \in d.attrs => d.bg = c.bg
<1>8. ASSUME NEW i \in 1..n, f[i - 1].next = i
      PROVE  R[i] \notin {38, 48} => /\ f[i].next = i + 1
                                     /\ f[i].cur = SgrOne(f[i - 1].cur, R[i])
  <2> DEFINE p == f[i - 1]
             q == SgrOne(p.cur, R[i])
  <2>1. f[i] = SgrTurn(p, R, i) /\ p.next = i
    BY <1>6, <1>8
  <2> HIDE DEF p
  <2>2. R[i] \notin {38, 48} => SgrTurn(p, R, i) = [cur |-> q, next |-> i + 1]
    <3> DEFINE x == [cur |-> q, next |-> i + 1]
    <3>1. ~(i < p.next)
      BY <1>3, <2>1
    <3> HIDE DEF q
    <3> QED BY <3>1 DEF SgrTurn, q
  <2> HIDE DEF q
  <2> QED BY <2>1, <2>2 DEF q, p
<1>9. 0 \in {i \in 0..n : f[i].next = i + 1}
  BY <1>3, <1>6
<1> DEFINE T == {i \in 0..n : f[i].next = i + 1 /\ (i # 0 => Good(f[i].cur, i))}
<1>10. 0 \in T
  BY <1>9
<1>11. ASSUME NEW i \in 1..n, i - 1 \in T PROVE i \in T
  <2>0. n \in Nat /\ i \in Nat \ {0}
    BY <1>3, <1>11
  <2>1. i \in 0..n /\ i # 0 /\ i - 1 \in 0..n /\ f[i - 1].next = i
    <3>1. f[i - 1].next = (i - 1) + 1
      BY <1>11, Zenon
    <3>2. (i - 1) + 1 = i
      BY <2>0
    <3>3. i \in 0..n /\ i # 0 /\ i - 1 \in 0..n
      BY ONLY <2>0, i \in 1..n
    <3> QED BY ONLY <3>1, <3>2, <3>3
  <2>2. f[i - 1].cur \in Cursors
    BY <1>6, <2>1
  <2>3. CASE i = 1
    <3>1. R[i] = 0
      BY <1>3, <2>3
    <3>2. f[i].next = i + 1 /\ f[i].cur = ResetSgr(f[i - 1].cur)
      BY <1>8, <2>1, <3>1, SgrOneIs
    <3> DEFINE e == f[i].cur
    <3>3. e.attrs = {} /\ e.conceal = FALSE
      BY <2>2, <3>2 DEF ResetSgr, Cursors
    <3> HIDE DEF e
    <3>4. Good(e, i)
      BY <2>3, <3>3
    <3> QED BY <2>1, <3>2, <3>4 DEF e
  <2>4. CASE i # 1
    <3> DEFINE d == f[i - 1].cur
               e == f[i].cur
    <3>1. i \in 2..n /\ i - 1 # 0
      BY <1>3, <2>1, <2>4
    <3>2. Good(d, i - 1)
      BY <1>11, <3>1
    <3>3. PICK a \in c.attrs : R[i] = CodeOf(c, a)
      BY <1>2, <3>1 DEF Lists, n
    <3>4. R[i] \notin {38, 48}
      BY <1>1, <1>7, <3>3, CodesTyped
    <3>5. f[i].next = i + 1 /\ e = SgrOne(d, R[i])
      BY <1>8, <2>1, <3>4
    <3> HIDE DEF d, e, Good
    <3>6. \A b \in c.attrs : R[i] = CodeOf(c, b) => Adds(c, b, d, e)
      <4>1. d \in Cursors
        BY <2>2 DEF d
      <4> QED BY <1>1, <1>7, <3>5, <4>1, SgrAdds
    <3>7. Adds(c, a, d, e)
      BY <3>3, <3>6
    <3>8. \A b \in c.attrs : R[i] = CodeOf(c, b) => b \in e.attrs
      BY <3>6 DEF Adds
    <3>9. e.attrs = d.attrs \cup {a} /\ e.conceal = FALSE
          /\ d.attrs \subseteq c.attrs
      BY <3>2, <3>7 DEF Adds, Good
    <3>10. ("fg" \in e.attrs => e.fg = c.fg) /\ ("bg" \in e.attrs => e.bg = c.bg)
      BY <3>2, <3>7 DEF Adds, Good
    <3>11. ASSUME NEW j \in 2..i, NEW b \in c.attrs, R[j] = CodeOf(c, b)
           PROVE  b \in e.attrs
      <4>1. CASE j = i
        BY <3>8, <3>11, <4>1
      <4>2. CASE j # i
        <5>1. j \in 2..(i - 1)
          BY <2>1, <4>2
        <5> QED BY <3>2, <3>9, <3>11, <5>1 DEF Good
      <4> QED BY <4>1, <4>2
    <3>12. Good(e, i)
      BY <3>3, <3>9, <3>10, <3>11 DEF Good
    <3> QED BY <2>1, <3>5, <3>12 DEF e
  <2> QED BY <2>3, <2>4
<1>12. n \in T
  <2> HIDE DEF T
  <2>1. \A i \in 0..n : i \in T
    BY <1>3, <1>10, <1>11, TurnByTurn
  <2> QED BY <1>3, <2>1
<1> DEFINE e == f[n].cur
<1>13. Good(e, n)
  BY <1>3, <1>12
<1> HIDE DEF e
<1>14. c.attrs \subseteq e.attrs
  <2> SUFFICES ASSUME NEW a \in c.attrs PROVE a \in e.attrs
    OBVIOUS
  <2>1. PICK j \in 2..n : R[j] = CodeOf(c, a)
    BY <1>2 DEF Lists, n
  <2> QED BY <1>13, <2>1
<1>15. SameRendition(e, c)
  BY <1>1, <1>13, <1>14 DEF SameRendition
<1> QED BY <1>5, <1>15 DEF e, R

LEMMA ShapeBack ==
  ASSUME NEW t \in Terms
  PROVE  CursorShape(t, t.opt.shape).opt.shape = t.opt.shape
<1> DEFINE s == t.opt.shape
           v == IF s = 1 THEN conf.shape ELSE s
           u == CursorShape(t, s)
<1>1. s \in Shapes
  BY DEF Terms, Opts
<1>2. v = s
  BY <1>1 DEF Shapes
<1>3. u = SetOpt(t, "shape", v, {"opts"})
  BY Zenon DEF CursorShape
<1> HIDE DEF s, v, u
<1>4. "shape" \in OptNames
  BY DEF OptNames
<1>5. u.opt["shape"] = v
  BY <1>3, <1>4, OptSet
<1>6. u.opt.shape = s
  BY <1>2, <1>5
<1> QED BY <1>6 DEF u, s

(* The answers about the rendition and the shape of the cursor, sent back  *)
(* as a sequence, restore what they report (screen_report_sgr and          *)
(* do_csi_sgr, DECRQSS SP q and DECSCUSR), in every state there is.        *)
THEOREM ReportsRestore ==
  ASSUME 2 <= Width PROVE Spec => []ReportRestores
<1>1. ASSUME ModesInv PROVE ReportRestores
  <2>1. term \in Terms /\ term.cur \in Cursors
    BY <1>1 DEF ModesInv, Terms
  <2>2. Reportable(term.cur) =>
          SameRendition(Sgr(term.cur, ReportSgr(term.cur)), term.cur)
    BY <2>1, ReportBack
  <2>3. CursorShape(term, term.opt.shape).opt.shape = term.opt.shape
    BY <2>1, ShapeBack
  <2> QED BY <2>2, <2>3, Zenon DEF ReportRestores
<1> QED BY <1>1, ModesKept, PTL
=============================================================================
