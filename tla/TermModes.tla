------------------------------ MODULE TermModes ------------------------------
(***************************************************************************)
(* The modes and attributes a host sets: apars_csi.c, apars_short.c,       *)
(* apars_osc.c and apars_dcs.c with the setters of screen.c behind them,   *)
(* and the mouse reports of cgi_sockets.c that depend on them.  Each       *)
(* action is one sequence carried out, or one thing the user does with the *)
(* mouse.  Rows, sizes and cells are the subject of the other modules.     *)
(*                                                                         *)
(* term holds the structs of screen.c: cur (cursor), saved (cursor_sav),   *)
(* opt (scr, mouse_tracking and the switches in termconf_live), kept       *)
(* (opt_backup), txt (the texts in termconf_live), alt (state_backup),     *)
(* tabs, line (line_attribs of the cursor's line), last (last_char), and   *)
(* topics: what the browser is to be told when the sequence is done.       *)
(***************************************************************************)
EXTENDS TabStops, CharacterSets, Sequences

CONSTANTS
  Hosts,     \* kinds of host: the groups of sequences each uses, the
             \* arguments of its CSI ? h and l, the settings it meets
  Width,     \* columns of the screen
  Restores,  \* private options the host restores
  SgrArgs,   \* arguments of SGR
  Colors, Texts, Buttons, Counts,  \* what OSC sets; button numbers
  Mods,      \* sets of keys held with the mouse
  MousePlaces  \* columns and rows, from 0, the browser reports

VARIABLES host, conf, term, said

vars == <<host, conf, term, said>>

PrivateOptions == {1, 5, 6, 7, 9, 12, 25, 45, 800, 801, 1000, 1001, 1002, 1003,
                   1004, 1005, 1006, 1015, 2004}
ASSUME ModesAssumption ==
  /\ \A h \in Hosts : h.private \subseteq Seq(Nat)
                      /\ h.confs \subseteq [shape : 0..6, decopt12 : BOOLEAN]
  /\ Width \in Nat \ {0}
  /\ Restores \subseteq PrivateOptions
  /\ SgrArgs \subseteq Seq(Nat)
  /\ Colors \subseteq 0..255
  /\ MousePlaces \subseteq Nat \X Nat

(* The code does not check this one: with a screen of more columns than    *)
(* tab_stops has bits, the cursor beyond them sets, clears and reads what  *)
(* lies behind the bitmap.  That is not modelled.                          *)
ASSUME TabsReachAcross == Width <= WordBits * TABSTOP_WORDS

TOPIC_INITIAL == {"opts", "static", "all", "cursor", "title", "backdrop",
                  "buttons", "double"}

Tell(t, S) == [t EXCEPT !.topics = @ \cup S]

(* screen_reset_sgr and cursor_reset, which keeps the modes.               *)
ResetSgr(c) == [c EXCEPT !.fg = 0, !.bg = 0, !.attrs = {}, !.conceal = FALSE]
CursorReset(c) ==
  [x |-> 0, n |-> 0, g0 |-> "B", g1 |-> "0", fg |-> 0, bg |-> 0, attrs |-> {},
   conceal |-> FALSE, origin |-> c.origin, wrap |-> c.wrap, rev |-> c.rev]
ResetModes == [origin |-> FALSE, wrap |-> TRUE, rev |-> FALSE]

Blinks(shape) == shape \in {0, 3, 5}

-----------------------------------------------------------------------------
(* screen_reset, and the texts of the stored settings.                     *)

FreshTexts == [title |-> "conf", backdrop |-> "conf",
               btn |-> [b \in Buttons |-> "conf"], msg |-> [b \in Buttons |-> "conf"],
               color |-> [b \in Buttons |-> 0], count |-> 5]

(* Mutant of KeptOf: an option the reset leaves alone is forgotten.        *)
KeptOfForgetful(c, o) ==
  [cursors |-> o.cursors, reverse |-> o.reverse, origin |-> c.origin,
   wrap |-> c.wrap, mode |-> o.mode, enc |-> o.enc, focus |-> o.focus,
   blink |-> Blinks(o.shape), visible |-> o.visible, rev |-> c.rev,
   paste |-> FALSE, buttons |-> o.buttons, links |-> o.links]

KeptOf(c, o) ==
  [cursors |-> o.cursors, reverse |-> o.reverse, origin |-> c.origin,
   wrap |-> c.wrap, mode |-> o.mode, enc |-> o.enc, focus |-> o.focus,
   blink |-> Blinks(o.shape), visible |-> o.visible, rev |-> c.rev,
   paste |-> o.paste, buttons |-> o.buttons, links |-> o.links]

(* Of the options, bracketed paste and the loopback survive a reset.       *)
OptReset(o) ==
  [visible |-> TRUE, insert |-> FALSE, shape |-> conf.shape, numpad |-> FALSE,
   cursors |-> FALSE, crlf |-> FALSE, reverse |-> FALSE, enc |-> "simple",
   focus |-> FALSE, mode |-> 0, buttons |-> TRUE, links |-> TRUE,
   paste |-> o.paste, loopback |-> o.loopback]

Cleared(t) == Tell([t EXCEPT !.last = {}, !.line = {}], {"all", "double"})

ResetScreen(t) ==
  LET c == CursorReset(ResetModes)
      o == OptReset(t.opt)
  IN  Tell(Cleared([t EXCEPT
        !.cur = c, !.opt = o, !.kept = KeptOf(c, o), !.alt.active = FALSE,
        !.tabs = InitialTabs, !.txt.title = "conf", !.txt.backdrop = "conf",
        !.txt.btn = FreshTexts.btn]),
        {"opts", "cursor", "title", "buttons", "backdrop"})

PowerOn ==
  LET c == CursorReset(ResetModes)
      o == OptReset([paste |-> FALSE, loopback |-> FALSE])
  IN  [cur |-> c, saved |-> {}, opt |-> o, kept |-> KeptOf(c, o),
       txt |-> FreshTexts, alt |-> [active |-> FALSE, title |-> "", tabs |-> {},
       btn |-> FreshTexts.btn, msg |-> FreshTexts.msg],
       tabs |-> InitialTabs, line |-> {}, last |-> {}, topics |-> {}]

Init == host \in Hosts /\ conf \in host.confs /\ term = PowerOn /\ said = <<"none">>

-----------------------------------------------------------------------------
(* SGR.                                                                    *)

SetBy ==
  [n \in {1, 2, 3, 4, 5, 6, 7, 9, 20, 53} |->
     CASE n = 1 -> "bold" [] n = 2 -> "faint" [] n = 3 -> "italic" [] n = 4 -> "underline"
       [] n \in {5, 6} -> "blink" [] n = 9 -> "strike" [] n = 20 -> "fraktur"
       [] n = 7 -> "inverse" [] n = 53 -> "overline"]
ClearedBy ==
  [n \in {21, 22, 23, 24, 25, 27, 29, 55} |->
     CASE n = 21 -> {"bold"} [] n = 22 -> {"faint", "bold"} [] n = 23 -> {"italic", "fraktur"}
       [] n = 24 -> {"underline"} [] n = 25 -> {"blink"} [] n = 29 -> {"strike"}
       [] n = 27 -> {"inverse"} [] n = 55 -> {"overline"}]

Fg(c, v) == [c EXCEPT !.fg = v, !.attrs = @ \cup {"fg"}]
Bg(c, v) == [c EXCEPT !.bg = v, !.attrs = @ \cup {"bg"}]

(* Mutant of SgrOne: the bright colours are the normal ones.               *)
SgrOneDull(c, n) ==
  CASE n = 0 -> ResetSgr(c)
    [] n \in 30..37 -> Fg(c, n - 30)
    [] n \in 40..47 -> Bg(c, n - 40)
    [] n \in 90..97 -> Fg(c, n - 90)
    [] n \in 100..107 -> Bg(c, n - 100)
    [] n \in DOMAIN SetBy -> [c EXCEPT !.attrs = @ \cup {SetBy[n]}]
    [] OTHER -> c

SgrOne(c, n) ==
  CASE n = 0 -> ResetSgr(c)
    [] n \in 30..37 -> Fg(c, n - 30)
    [] n \in 40..47 -> Bg(c, n - 40)
    [] n \in 90..97 -> Fg(c, n - 90 + 8)
    [] n \in 100..107 -> Bg(c, n - 100 + 8)
    [] n = 39 -> [c EXCEPT !.fg = 0, !.attrs = @ \ {"fg"}]
    [] n = 49 -> [c EXCEPT !.bg = 0, !.attrs = @ \ {"bg"}]
    [] n \in DOMAIN SetBy -> [c EXCEPT !.attrs = @ \cup {SetBy[n]}]
    [] n \in DOMAIN ClearedBy -> [c EXCEPT !.attrs = @ \ ClearedBy[n]]
    [] n \in {8, 28} -> [c EXCEPT !.conceal = (n = 8)]
    [] OTHER -> c

(* do_csi_sgr.  38 and 48 take two more arguments, or end it.              *)
SgrTurn(a, args, i) ==
  IF i < a.next THEN a
  ELSE IF args[i] \notin {38, 48}
  THEN [cur |-> SgrOne(a.cur, args[i]), next |-> i + 1]
  ELSE IF i > Len(args) - 2 \/ args[i + 1] # 5 THEN [a EXCEPT !.next = Len(args) + 1]
  ELSE [cur |-> IF args[i] = 38 THEN Fg(a.cur, args[i + 2] % 256)
                                ELSE Bg(a.cur, args[i + 2] % 256),
        next |-> i + 3]
Sgr(c, ns) ==
  LET args == IF ns = <<>> THEN <<0>> ELSE ns
      f[i \in 0..Len(args)] ==
        IF i = 0 THEN [cur |-> c, next |-> 1] ELSE SgrTurn(f[i - 1], args, i)
  IN  f[Len(args)].cur

ColorCode(v, normal, bright) == (IF v > 7 THEN bright ELSE normal) + (v % 8)

(* screen_report_sgr: the answer to DECRQSS m.                             *)
ReportSgr(c) ==
  LET If(a, n) == IF a \in c.attrs THEN <<n>> ELSE <<>>
  IN  <<0>> \o If("bold", 1) \o If("faint", 2) \o If("italic", 3)
      \o If("underline", 4) \o If("blink", 5) \o If("fraktur", 20)
      \o If("strike", 9) \o If("inverse", 7)
      \o If("fg", ColorCode(c.fg, 30, 90)) \o If("bg", ColorCode(c.bg, 40, 100))

-----------------------------------------------------------------------------
(* The cursor, the alternate screen and the texts.                         *)

Clamp(t) ==
  IF "wide" \in t.line /\ t.cur.x >= Width \div 2
  THEN [t EXCEPT !.cur.x = Width \div 2 - 1] ELSE t

SaveCursor(t) == [t EXCEPT !.saved = {t.cur}]
RestoreCursor(t, all) ==
  Tell(Clamp([t EXCEPT !.cur =
         IF t.saved = {} THEN CursorReset(@)
         ELSE LET s == CHOOSE c \in t.saved : TRUE
              IN  IF all THEN s ELSE [@ EXCEPT !.x = s.x]]),
       {"cursor"})

(* Mutant of SwapState: the messages of the buttons are not kept.          *)
SwapForgets(t, on) ==
  IF on = t.alt.active THEN t
  ELSE Tell(IF on
            THEN [t EXCEPT !.alt = [active |-> TRUE, title |-> t.txt.title,
                                    btn |-> t.txt.btn, msg |-> t.alt.msg, tabs |-> t.tabs]]
            ELSE [t EXCEPT !.alt.active = FALSE, !.txt.title = t.alt.title,
                           !.txt.btn = t.alt.btn, !.tabs = t.alt.tabs],
            TOPIC_INITIAL)

(* screen_swap_state, but for sizes and regions.                           *)
SwapState(t, on) ==
  IF on = t.alt.active THEN t
  ELSE Tell(IF on
            THEN [t EXCEPT !.alt = [active |-> TRUE, title |-> t.txt.title,
                                    btn |-> t.txt.btn, msg |-> t.txt.msg, tabs |-> t.tabs]]
            ELSE [t EXCEPT !.alt.active = FALSE, !.txt.title = t.alt.title,
                           !.txt.btn = t.alt.btn, !.txt.msg = t.alt.msg,
                           !.tabs = t.alt.tabs],
            TOPIC_INITIAL)

SetTitle(t, s) == Tell([t EXCEPT !.txt.title = s], {"title"})
SetBackdrop(t, s) == Tell([t EXCEPT !.txt.backdrop = s], {"backdrop"})
SetCount(t, n) == Tell([t EXCEPT !.txt.count = IF n \in 0..5 THEN n ELSE @], {"buttons"})
SetButton(t, field, b, v) ==
  Tell(IF b \in Buttons THEN [t EXCEPT !.txt[field][b] = v] ELSE t, {"buttons"})

(* apars_handle_osc, handle_espterm_osc: number, second number and text;   *)
(* the text of a colour or of a count is its value.                        *)
Osc(t, n, m, s) ==
  CASE n \in {0, 2} -> SetTitle(t, s)
    [] n = 70 \/ (n = 27 /\ m = 1) -> SetBackdrop(t, s)
    [] n = 27 /\ m = 2 -> SetCount(t, s)
    [] n = 28 -> SetButton(t, "btn", m, s)
    [] n = 29 -> SetButton(t, "msg", m, s)
    [] n = 30 -> SetButton(t, "color", m, s)
    [] n \in 81..85 -> SetButton(t, "btn", n - 80, s)
    [] n \in 91..95 -> SetButton(t, "msg", n - 90, s)
    [] OTHER -> t
OscCommands ==
  ({0, 2, 4, 70} \X {0} \X Texts) \cup ({27} \X {1} \X Texts) \cup ({27} \X {2} \X Counts)
  \cup ({28, 29} \X Buttons \X Texts) \cup ({30} \X Buttons \X Colors)
  \cup ((81..85) \X {0} \X Texts) \cup ((91..95) \X {0} \X Texts)

-----------------------------------------------------------------------------
(* Options.                                                                *)

SetOpt(t, field, v, S) == Tell([t EXCEPT !.opt[field] = v], S)
SetCur(t, field, v) == Tell([t EXCEPT !.cur[field] = v], {"internal"})

CursorShape(t, n) == SetOpt(t, "shape", IF n = 1 THEN conf.shape ELSE n, {"opts"})
Steady == [s \in {0, 3, 5} |-> IF s = 0 THEN 2 ELSE s + 1]
Blinking == [s \in {2, 4, 6} |-> IF s = 2 THEN 0 ELSE s - 1]
CursorBlink(t, yn) ==                                    \* screen_cursor_blink
  LET map == IF yn THEN Blinking ELSE Steady
      s == t.opt.shape
  IN  IF ~conf.decopt12 THEN t
      ELSE SetOpt(t, "shape", IF s \in DOMAIN map THEN map[s] ELSE s, {"opts"})

(* do_csi_set_option: SRM is inverted.                                     *)
SetOption(t, n, yn) ==
  CASE n = 4 -> SetOpt(t, "insert", yn, {"internal"})
    [] n = 12 -> SetOpt(t, "loopback", ~yn, {})
    [] n = 20 -> SetOpt(t, "crlf", yn, {"opts"})
    [] OTHER -> t

Mode ==
  [n \in {9, 1000, 1002, 1003} |->
     CASE n = 9 -> 1 [] n = 1000 -> 2 [] n = 1002 -> 3 [] n = 1003 -> 4]
Encoding ==
  [n \in {1005, 1006, 1015} |->
     CASE n = 1005 -> "utf8" [] n = 1006 -> "sgr" [] n = 1015 -> "urxvt"]
Flag ==
  [n \in {1, 5, 25, 800, 801, 1004, 2004} |->
     CASE n = 1 -> "cursors" [] n = 5 -> "reverse" [] n = 25 -> "visible"
       [] n = 800 -> "buttons" [] n = 801 -> "links" [] n = 1004 -> "focus"
       [] n = 2004 -> "paste"]

(* do_csi_set_private_option, one option.                                  *)
SetPrivate(t, n, yn) ==
  CASE n \in DOMAIN Flag -> SetOpt(t, Flag[n], yn, {"opts"})
    [] n = 2 -> SetCur(SetCur(t, "g0", "B"), "g1", "B")
    [] n = 3 -> Tell([Cleared(t) EXCEPT !.cur.x = 0], {"cursor"})
    [] n = 6 -> Tell([SetCur(t, "origin", yn) EXCEPT !.cur.x = 0], {"cursor"})
    [] n = 7 -> SetCur(t, "wrap", yn)
    [] n = 45 -> SetCur(t, "rev", yn)
    [] n \in DOMAIN Mode -> SetOpt(t, "mode", IF yn THEN Mode[n] ELSE 0, {"opts"})
    [] n = 1001 -> Tell(t, {"opts"})
    [] n \in DOMAIN Encoding ->
         SetOpt(t, "enc", IF yn THEN Encoding[n] ELSE "simple", {"opts"})
    [] n = 12 -> CursorBlink(t, yn)
    [] n \in {47, 1047} -> SwapState(t, yn)
    [] n = 1048 -> SaveCursor(t)
    [] n = 1049 /\ yn -> Cleared(SwapState(SaveCursor(t), TRUE))
    [] n = 1049 /\ ~yn -> RestoreCursor(SwapState(Cleared(t), FALSE), TRUE)
    [] OTHER -> t

(* The arguments of a sequence are taken in turn.                          *)
SetPrivates(t, ns, yn) ==
  LET f[i \in 0..Len(ns)] == IF i = 0 THEN t ELSE SetPrivate(f[i - 1], ns[i], yn)
  IN  f[Len(ns)]

(* do_save_private_opt.  The field of opt_backup an option is kept in: the *)
(* options of the mouse share theirs.                                      *)
Field(n) ==
  CASE n \in DOMAIN Flag -> Flag[n]
    [] n \in DOMAIN Mode \cup {1001} -> "mode"
    [] n \in DOMAIN Encoding -> "enc"
    [] n = 6 -> "origin" [] n = 7 -> "wrap" [] n = 45 -> "rev" [] n = 12 -> "blink"

(* Mutant of Save: the switch for reverse wraparound goes to the one beside*)
(* it.                                                                     *)
SaveBeside(t, n) ==
  CASE n \in {6, 7} -> [t EXCEPT !.kept[Field(n)] = t.cur[Field(n)]]
    [] n = 45 -> [t EXCEPT !.kept.wrap = t.cur.rev]
    [] n = 12 -> [t EXCEPT !.kept.blink = Blinks(t.opt.shape)]
    [] OTHER -> [t EXCEPT !.kept[Field(n)] = t.opt[Field(n)]]

Save(t, n) ==
  CASE n \in {6, 7, 45} -> [t EXCEPT !.kept[Field(n)] = t.cur[Field(n)]]
    [] n = 12 -> [t EXCEPT !.kept.blink = Blinks(t.opt.shape)]
    [] OTHER -> [t EXCEPT !.kept[Field(n)] = t.opt[Field(n)]]

(* Mutant of Restore: the browser is not told of a mouse mode either.      *)
RestoreUntold(t, n) ==
  CASE n \in {6, 7, 45} -> SetCur(t, Field(n), t.kept[Field(n)])
    [] n = 12 -> Tell(CursorBlink(t, t.kept.blink), {"opts"})
    [] OTHER -> SetOpt(t, Field(n), t.kept[Field(n)], {"internal"})

(* Options 5 and 2004 change what the browser shows and do not tell it.    *)
Restore(t, n) ==
  CASE n \in {6, 7, 45} -> SetCur(t, Field(n), t.kept[Field(n)])
    [] n = 12 -> Tell(CursorBlink(t, t.kept.blink), {"opts"})
    [] OTHER -> SetOpt(t, Field(n), t.kept[Field(n)],
                       IF n \in {5, 2004} THEN {"internal"} ELSE {"opts"})

-----------------------------------------------------------------------------
(* Characters.                                                             *)

Designate(t, slot, cs) == SetCur(t, IF slot = "(" THEN "g0" ELSE "g1", cs)
Shift(t, n) == SetCur(t, "n", n)

Charset(t) == IF t.cur.n = 0 THEN t.cur.g0 ELSE t.cur.g1
Space == <<"B", 32>>

(* screen_putchar and screen_repeat_last_character show a glyph; last also *)
(* remembers the character set it was shown in, which the code does not.   *)
Shown(t, g) == Remap(g, Charset(t))
Put(t, g) ==
  Tell([t EXCEPT !.last = {[glyph |-> Shown(t, g), cs |-> Charset(t)]}],
       {"cursor", "part"})
Concealed(t, g) == IF t.cur.conceal THEN Space ELSE g

-----------------------------------------------------------------------------
(* The mouse (sendMouseAction).                                            *)

Report(code, e, final) == [code |-> code, x |-> e.x + 1, y |-> e.y + 1, final |-> final]
(* Mutant of Code: only the mode for any motion marks motion.              *)
CodeUnmarked(e, o) ==
  LET b == IF e.button = 0 \/ (e.evt = "r" /\ o.enc # "sgr") THEN 3
           ELSE IF e.button <= 3 THEN e.button - 1 ELSE 60 + e.button
  IN  IF o.mode = 1 THEN e.button - 1
      ELSE b + (IF "shift" \in e.mods THEN 4 ELSE 0)
           + (IF e.mods \cap {"alt", "meta"} # {} THEN 8 ELSE 0)
           + (IF "ctrl" \in e.mods THEN 16 ELSE 0)
           + IF o.mode = 4 /\ e.evt = "m" THEN 32 ELSE 0

Code(e, o) ==
  LET b == IF e.button = 0 \/ (e.evt = "r" /\ o.enc # "sgr") THEN 3
           ELSE IF e.button <= 3 THEN e.button - 1 ELSE 60 + e.button
      m == (IF "shift" \in e.mods THEN 4 ELSE 0)
           + (IF e.mods \cap {"alt", "meta"} # {} THEN 8 ELSE 0)
           + (IF "ctrl" \in e.mods THEN 16 ELSE 0)
  IN  IF o.mode = 1 THEN e.button - 1
      ELSE b + m + IF o.mode \in {3, 4} /\ e.evt = "m" THEN 32 ELSE 0

Unreported(e, o) ==
  \/ o.mode = 0
  \/ o.mode = 1 /\ (e.button = 0 \/ e.evt = "r")
  \/ e.evt = "m" /\ o.mode \notin {3, 4}
  \/ e.evt = "m" /\ o.mode = 3 /\ e.button = 0

(* Simple and utf8 reports are three characters.                           *)
MouseReport(e, o) ==
  LET r == Report(Code(e, o), e, "M")
  IN  CASE o.enc \in {"simple", "utf8"} ->
             [code |-> (32 + r.code) % 256, x |-> (32 + r.x) % 256,
              y |-> (32 + r.y) % 256, final |-> "M"]
        [] o.enc = "sgr" ->
             [r EXCEPT !.final = IF e.evt = "p" \/ (e.evt = "m" /\ e.button > 0)
                                 THEN "M" ELSE "m"]
        [] o.enc = "urxvt" ->
             [code |-> (32 + r.code) % 256, x |-> r.x % 256, y |-> r.y % 256,
              final |-> "M"]

-----------------------------------------------------------------------------
(* The actions.                                                            *)

Fresh == [term EXCEPT !.topics = {}]
Do(group, t) ==
  /\ group \in host.uses /\ term' = t /\ said' = <<"none">>
  /\ UNCHANGED <<host, conf>>
Answer(group, a) ==
  /\ group \in host.uses /\ said' = a /\ term' = Fresh
  /\ UNCHANGED <<host, conf>>

SGR == \E ns \in SgrArgs : Do("sgr", [Fresh EXCEPT !.cur = Sgr(@, ns)])

Options ==
  \E yn \in BOOLEAN :
    \/ \E n \in {4, 12, 20} : Do("ansi", SetOption(Fresh, n, yn))
    \/ \E ns \in host.private : Do("options", SetPrivates(Fresh, ns, yn))
    \/ Do("ansi", SetOpt(Fresh, "numpad", yn, {"opts"}))
SaveOption == \E n \in Restores : Do("keep", Save(Fresh, n))
RestoreOption == \E n \in Restores : Do("keep", Restore(Fresh, n))
Shape == \E n \in 0..7 : Do("shape", CursorShape(Fresh, IF n > 6 THEN 1 ELSE n))

Charsets ==
  \/ \E slot \in {"(", ")"}, cs \in {"A", "B", "0", "1", "2", "3"} :
       Do("charset", Designate(Fresh, slot, cs))
  \/ \E n \in {0, 1} : Do("charset", Shift(Fresh, n))
PutChar ==
  \E c \in {35, 48, 65, 113} : Do("charset", Put(Fresh, Concealed(term, <<"B", c>>)))
Repeat ==
  /\ "charset" \in host.uses
  /\ LET l == IF term.last = {} THEN {[glyph |-> Space, cs |-> Charset(term)]}
              ELSE term.last
         g == (CHOOSE x \in l : TRUE).glyph
     IN  /\ term' = Tell([Fresh EXCEPT !.last = l], {"cursor", "part"})
         /\ said' = <<"glyph", Shown(term, g)>>
  /\ UNCHANGED <<host, conf>>

Reset == Do("reset", ResetScreen(Fresh))
SaveRestore ==                                               \* DECSC, SCP, RCP
  \/ Do("cursor", SaveCursor(Fresh))
  \/ \E all \in BOOLEAN : Do("cursor", RestoreCursor(Fresh, all))
OSC == \E c \in OscCommands : Do("texts", Osc(Fresh, c[1], c[2], c[3]))

Place == \E x \in 0..LastColumn(Width, "wide" \in term.line) :
           Do("tabs", Tell([Fresh EXCEPT !.cur.x = x], {"cursor"}))
Tabs ==
  \/ Do("tabs", [Fresh EXCEPT !.tabs = @ \cup {term.cur.x}])
  \/ Do("tabs", [Fresh EXCEPT !.tabs = @ \ {term.cur.x}])
  \/ Do("tabs", [Fresh EXCEPT !.tabs = {}])
  \/ Do("tabs", Tell([Fresh EXCEPT !.cur.x =
        TabForward(term.tabs, @, Width, "wide" \in term.line)], {"cursor"}))
  \/ Do("tabs", Tell([Fresh EXCEPT !.cur.x = TabReverse(term.tabs, @)], {"cursor"}))

(* ESC # 1 to 6; the cursor of a line made wide may stay one column past   *)
(* its last.                                                               *)
LineAttr ==
  <<{"top"}, {"bottom"}, {"wide", "top"}, {"wide", "bottom"}, {}, {"wide"}>>
SetLineAttr ==
  \E n \in DOMAIN LineAttr :
    Do("lines", Tell([Fresh EXCEPT !.line = LineAttr[n],
         !.cur.x = IF "wide" \in LineAttr[n] /\ @ >= Width \div 2
                   THEN Width \div 2 ELSE @], {"double"}))

(* No place is compared with the size of the screen here: the browser      *)
(* reports those of the screen it shows.                                   *)
Mouse ==
  \E evt \in {"p", "r", "m"}, b \in 0..5, m \in Mods,
     p \in MousePlaces :
    LET e == [evt |-> evt, button |-> b, mods |-> m, x |-> p[1], y |-> p[2]]
    IN  /\ evt = "m" \/ b # 0
        /\ ~Unreported(e, term.opt)
        /\ Answer("mouse", <<"mouse", e, MouseReport(e, term.opt)>>)

(* Queries about the modes: DECRQSS m and SP q, the title, DECREQTPARM,    *)
(* and those with a fixed answer.                                          *)
ParityCode == [none |-> 1, odd |-> 4, even |-> 5]
BaudCode(i) == IF i <= 3 THEN 40 + 8 * i ELSE 56 + 8 * i  \* 300 to 3686400 baud
Query ==
  \/ Answer("query", <<"sgr", ReportSgr(term.cur)>>)
  \/ Answer("query", <<"shape", term.opt.shape>>)
  \/ Answer("query", <<"title", term.txt.title>>)
  \/ \E n \in {0, 1}, p \in DOMAIN ParityCode, i \in 1..16 :
       Answer("parameters", <<"parameters", 2 + n, ParityCode[p], BaudCode(i)>>)

Next ==
  \/ SGR \/ Options \/ SaveOption \/ RestoreOption \/ Shape \/ Charsets \/ PutChar
  \/ Repeat \/ Reset \/ SaveRestore \/ OSC \/ Place \/ Tabs \/ SetLineAttr
  \/ Mouse \/ Query

Spec == Init /\ [][Next]_vars

-----------------------------------------------------------------------------
(* "called after each visible screen modification" (cgi_sockets.c): what   *)
(* the messages of a topic show does not change without the topic being    *)
(* raised, whichever of the sequences changes it.                          *)
OptsShown(t) ==
  <<t.opt.mode > 0, t.opt.mode >= 2,    \* any tracking, and of the buttons
    [f \in {"visible", "cursors", "numpad", "buttons", "links", "shape", "crlf",
            "paste", "reverse"} |-> t.opt[f]]>>
ButtonsShown(t) ==
  [b \in {c \in Buttons : c <= t.txt.count} |-> <<t.txt.btn[b], t.txt.color[b]>>]
ChangeTold ==
  /\ OptsShown(term') # OptsShown(term) => "opts" \in term'.topics
  /\ ButtonsShown(term') # ButtonsShown(term) => "buttons" \in term'.topics
  /\ term'.txt.title # term.txt.title => "title" \in term'.topics
  /\ term'.txt.backdrop # term.txt.backdrop => "backdrop" \in term'.topics
  /\ term'.line # term.line => "double" \in term'.topics
ChangesTold == [][ChangeTold]_vars

(* The answers about the rendition and the shape of the cursor, sent back  *)
(* as a sequence, restore what they report: that is what a program asks    *)
(* for.  The first for the renditions the answer has codes for.            *)
SameRendition(c, d) ==
  /\ c.attrs = d.attrs /\ c.conceal = d.conceal
  /\ "fg" \in c.attrs => c.fg = d.fg
  /\ "bg" \in c.attrs => c.bg = d.bg
Reportable(c) ==
  ~c.conceal /\ "overline" \notin c.attrs /\ c.fg < 16 /\ c.bg < 16
ReportRestores ==
  /\ Reportable(term.cur) => SameRendition(Sgr(term.cur, ReportSgr(term.cur)), term.cur)
  /\ CursorShape(term, term.opt.shape).opt.shape = term.opt.shape

(* Saving an option, setting it and restoring it changes nothing, for each *)
(* of the options and whatever the others are; options of the mouse share  *)
(* a field, and the blinking one is a property of the shape.               *)
SameModes(t, u) ==
  /\ t.opt = u.opt
  /\ \A f \in {"origin", "wrap", "rev"} : t.cur[f] = u.cur[f]
SavedComesBack ==
  \A n \in PrivateOptions, yn \in BOOLEAN :
    SameModes(Restore(SetPrivate(Save(term, n), n, yn), n), term)

(* "initial values in the save buffer in case of receiving restore without *)
(* storing first" (screen.c): right after a reset restoring is harmless,   *)
(* whatever was saved before the reset.                                    *)
ResetForgets ==
  \A n \in PrivateOptions :
    LET r == ResetScreen(term) IN SameModes(Restore(r, n), r)

(* An application that uses the alternate screen gives back the title, the *)
(* buttons and the tab stops it found, whatever it did with them there.    *)
AltRestores ==
  ~term.alt.active =>
    \A c \in OscCommands :
      LET t == SwapState(Osc([SwapState(term, TRUE) EXCEPT !.tabs = {}],
                             c[1], c[2], c[3]), FALSE)
      IN  /\ t.txt.title = term.txt.title /\ t.txt.btn = term.txt.btn
          /\ t.txt.msg = term.txt.msg /\ t.tabs = term.tabs

(* The backups of screen.c, opt_backup and state_backup, hold what they    *)
(* are to bring back, in every state the modes can get into.               *)
BackupsHold == SavedComesBack /\ ResetForgets /\ AltRestores

(* Tabs go to the nearest stop, also across the words of the bitmap and    *)
(* on a double-width line; to the left, as long as the search passes no    *)
(* empty word (after one it stops 32 columns too far to the right).        *)
TabsNearest ==
  LET x == term.cur.x
      left == {c \in term.tabs : c < x}
  IN  /\ ~PassesEmptyWord(term.tabs, x) =>
           TabReverse(term.tabs, x) = IF left = {} THEN 0 ELSE Max(left)
      /\ LET wide == "wide" \in term.line
             f == TabForward(term.tabs, x, Width, wide)
         IN  /\ f <= LastColumn(Width, wide)
             /\ \A c \in term.tabs : c > x => f <= c
             /\ f \in term.tabs \cup {LastColumn(Width, wide)}

(* What the encodings have room for.  A place is a byte, from 33 or from 1.*)
(* With the option for UTF-8 the code sends the same bytes, so that what a *)
(* program reads as characters are those below 128: the first 95 columns   *)
(* and rows, and no motion with button 4 or 5 held.                        *)
Expressible(e, o) ==
  /\ o.enc = "simple" => e.x <= 222 /\ e.y <= 222
  /\ o.enc = "urxvt" => e.x <= 254 /\ e.y <= 254
  /\ o.enc = "utf8" => e.x <= 94 /\ e.y <= 94 /\ (e.evt = "m" => e.button <= 3)

(* Whatever modes and encodings the host has switched on and off, in which *)
(* order, a program that decodes a report finds the event: kind, button,   *)
(* keys and place, if the encoding has room for them (sendMouseAction).    *)
(* (A release names its button only in SGR encoding.)                      *)
MouseDecodes ==
  said[1] = "mouse" /\ Expressible(said[2], term.opt) =>
    LET e == said[2]  r == said[3]  o == term.opt
        c == r.code - IF o.enc = "sgr" THEN 0 ELSE 32
        at == IF o.enc \in {"simple", "utf8"} THEN 32 ELSE 0
        alone == {r.code, r.x, r.y} \subseteq 0..127  \* each byte a character
        Bit(k) == (c \div k) % 2 = 1
        button == IF Bit(64) THEN 4 + (c % 4) ELSE (c % 4) + 1
        released == IF o.enc = "sgr" THEN r.final = "m" ELSE button = 4 /\ ~Bit(64)
    IN  /\ o.enc = "utf8" => alone
        /\ r.x - at = e.x + 1 /\ r.y - at = e.y + 1
        /\ IF o.mode = 1 THEN e.evt = "p" /\ c + 1 = e.button
           ELSE /\ Bit(32) = (e.evt = "m")
                /\ Bit(4) = ("shift" \in e.mods) /\ Bit(16) = ("ctrl" \in e.mods)
                /\ Bit(8) = (e.mods \cap {"alt", "meta"} # {})
                /\ released = (e.evt = "r" \/ e.button = 0)
                /\ ~released => button = e.button
=============================================================================
