---------------------------- MODULE MCScreenCells ----------------------------
(* Screens of two and three columns, and the operations of each run.       *)
EXTENDS ScreenCells, TLC

(* Nothing tells one glyph from another.                                   *)
Alphabet == Permutations(Glyphs)

SmallSize == {<<2, 3>>}
EditSizes == {<<2, 3>>, <<3, 1>>}
TwoSizes == {<<2, 1>>, <<2, 2>>}

CountedOps ==
  {"print", "place", "move", "characters", "lines", "deletelines", "erase", "region", "origin"}
EditOps == {"print", "insert", "characters", "deletechars", "region", "lines"}
SizeOps ==
  {"print", "erase", "resize", "settings", "noclear", "reset",
   "alt", "save", "restore"}
=============================================================================
