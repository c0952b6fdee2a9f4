---------------------------- MODULE UnicodeCache ----------------------------
(***************************************************************************)
(* The cache of user/utf8.c.  A cell of the screen has one byte for its    *)
(* symbol: an ASCII character stands for itself, any other value names a   *)
(* slot holding the UTF-8 bytes of a glyph and the number of its uses.     *)
(*                                                                         *)
(* A cache is a function from slots to records.  The code takes the first  *)
(* unused slot; which one it is makes no difference, so any fixed choice   *)
(* stands for it.                                                          *)
(***************************************************************************)
EXTENDS Naturals

CONSTANTS
  Slots,      \* the slots, UNICODE_CACHE_SIZE of them
  CountMod,   \* 2^16: UnicodeCacheSlot.count is a uint16_t
  Glyphs      \* the characters that are not ASCII

Ascii == {" ", "?", "E"}
NoBytes == "zeros"            \* the contents of a slot never used

IsRef(c) == c \in Slots       \* IS_UNICODE_CACHE_REF

CacheInit == [s \in Slots |-> [bytes |-> NoBytes, count |-> 0]]

CacheClear(k) == [s \in Slots |-> [k[s] EXCEPT !.count = 0]]

(* The slot holding g, used or not; otherwise the first unused one.        *)
Holding(k, g) == {s \in Slots : k[s].bytes = g}
Unused(k) == {s \in Slots : k[s].count = 0}
First(S) == CHOOSE s \in S : TRUE

Full(k, g) == Holding(k, g) = {} /\ Unused(k) = {}

SlotFor(k, g) == First(IF Holding(k, g) # {} THEN Holding(k, g) ELSE Unused(k))

(* unicode_cache_add: what the cell gets, and the cache with one more use. *)
AddedRef(k, c) ==
  IF c \in Ascii THEN c ELSE IF Full(k, c) THEN "?" ELSE SlotFor(k, c)

Add(k, c) ==
  IF c \in Ascii \/ Full(k, c) THEN k
  ELSE [k EXCEPT ![SlotFor(k, c)] =
          [bytes |-> c, count |-> (@.count + 1) % CountMod]]

(* Mutant of Inc: a use is not counted.                                    *)
IncForgotten(k, r) == k

(* unicode_cache_inc refuses a slot that is not used.                      *)
Inc(k, r) ==
  IF IsRef(r) /\ k[r].count # 0
  THEN [k EXCEPT ![r].count = (@ + 1) % CountMod] ELSE k

(* unicode_cache_remove never counts below zero.                           *)
Remove(k, r) ==
  IF IsRef(r) /\ k[r].count # 0 THEN [k EXCEPT ![r].count = @ - 1] ELSE k

(* unicode_cache_retrieve: a slot that is not used shows as "?".           *)
Retrieve(k, r) ==
  IF ~IsRef(r) THEN r ELSE IF k[r].count = 0 THEN "?" ELSE k[r].bytes
=============================================================================
