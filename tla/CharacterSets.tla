--------------------------- MODULE CharacterSets ---------------------------
(***************************************************************************)
(* character_sets.h and utf8_remap: the tables that put another character  *)
(* in the place of an ASCII one.  None has an empty entry and none yields  *)
(* ASCII, so a table is the set of codes it replaces, and what it makes of *)
(* code c is the glyph <<charset, c>>; <<"B", c>> is c itself.             *)
(***************************************************************************)
EXTENDS Integers

CodePage0 == 96..126                              \* DEC line drawing
CodePage1 == 33..126                              \* DOS 437
CodePage2 == 33..126                              \* blocks, thick lines
CodePage3 == 33..48                               \* dashed lines
UKPound == {35}

Replaced(cs) ==
  CASE cs = "0" -> CodePage0 [] cs = "1" -> CodePage1 [] cs = "2" -> CodePage2
    [] cs = "3" -> CodePage3 [] cs = "A" -> UKPound [] OTHER -> {}

(* putchar_graphic: only plain ASCII is looked up.                         *)
Remap(g, cs) ==
  IF g[1] = "B" /\ g[2] \in Replaced(cs) THEN <<cs, g[2]>> ELSE g
=============================================================================
