---------------------------- MODULE MCAnsiParser ----------------------------
(* Two hosts send CSI sequences, one strings and short sequences, one      *)
(* characters of every kind of the table in apars_utf8.c, one a few of     *)
(* them to a user who has them written out.                                *)
EXTENDS AnsiParser

Kind(B, n, silent, debugs) ==
  [bytes |-> B, longest |-> n, silent |-> silent, debugs |-> debugs]
MCHosts == {
  Kind({CAN, ESC, LF, 32, 33, 49, SEMI, 63, 91, 109}, 5, TRUE, FALSE),
  Kind({ESC, 49, 50, SEMI, 62, 91, 109}, 6, FALSE, FALSE),
  Kind({0, ENQ, BEL, TAB, VT, SO, SUB, ESC, 32, 35, 40, 56, 70, BACKSLASH, 93},
       4, TRUE, FALSE),
  Kind({ESC, CR, 65, 91, 127, 128, 143, 144, 159, 160, 191, 193, 194, 224, 237,
        239, 240, 241, 244, 245}, 1, FALSE, FALSE),
  Kind({BS, TAB, 3, 65, 127, 194, 160, 240, 144}, 1, FALSE, TRUE) }
=============================================================================
