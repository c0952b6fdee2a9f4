------------------------------ MODULE MCDisplay ------------------------------
(* Hosts that use a few operations each, from a screen that has something  *)
(* on it, and one that does nothing, from any screen.                      *)
EXTENDS Display, FiniteSetsExt

Cell(s, f, b, a) == [sym |-> s, fg |-> f, bg |-> b, attrs |-> a]
Plain == Cell("a", 0, 0, {})
Red == Cell("a", 1, 0, {"fg"})
Loud == Cell("g", 1, 200, {"fg", "bg", "bold"})

MCGlyphs == Ascii \cup {"g"}
MCSizes == {<<2, 3>>, <<3, 2>>}
MCPens == {Plain, Loud}
MCCounts == {1, 2}
MCFields == {"title"}

(* As many bytes as the code sees to be free for each topic, after those   *)
(* of the header and before those of the section's head.                   *)
Reserved == [title |-> 69, opts |-> 33, double |-> 70, internal |-> 45, bell |-> 1,
             cursor |-> 13]
MCBefore == [k \in HeadKinds |-> 13 + MapThenSumSet(LAMBDA t : Reserved[t], k[3])]

Some == [Screen(<<3, 2>>, [f \in Fields |-> 0]) EXCEPT !.cells[1] = Red, !.cells[2] = Loud,
                                                      !.cells[5] = Plain]
From(y, x, hang) == [Some EXCEPT !.cur = [y |-> y, x |-> x, hang |-> hang]]
Low(y) == [From(y, 1, TRUE) EXCEPT !.top = 1]
Still == {[Screen(<<2, 3>>, [f \in Fields |-> 0]) EXCEPT !.cells = c @@ @] :
            c \in [0..4 -> {Blank, Plain, Red, Loud}]}

Host(uses, tout, left, screens) ==
  [uses |-> uses, tout |-> tout, left |-> left, screens |-> screens]
MCHosts == {
  Host({}, 0, 0, Still),
  Host({"put", "set"}, 0, 2, {From(0, 1, FALSE)}),
  Host({"put", "go"}, 12, 2, {From(1, 0, FALSE)}),
  Host({"put", "scroll"}, 12, 2, {Low(2)}),
  Host({"lines"}, 12, 2, {From(1, 0, FALSE), Low(0)}),
  Host({"chars"}, 12, 1, {From(1, 0, FALSE), From(0, 1, FALSE)}),
  Host({"clearline"}, 12, 1, {From(1, 0, FALSE), From(2, 1, TRUE)}),
  Host({"clear"}, 12, 1, {From(1, 1, FALSE)}),
  Host({"resize", "put"}, 12, 2, {From(1, 1, FALSE)}) }

(* Every update of these screens goes into one buffer, and every rectangle *)
(* into as many small ones as there are.                                   *)
ASSUME BuffersFit ==
  /\ CutsFit
  /\ \A s \in Sizes, k \in HeadKinds : MaxCellLen * (s[1] * s[2]) <= BufLen - Before[k]
=============================================================================
