----------------------------- MODULE AnsiParser -----------------------------
(***************************************************************************)
(* ansi_parser.c, the machine Ragel generated from ansi_parser.rl, with    *)
(* the controls handled around it, the collector of UTF-8 characters       *)
(* behind it, and the timer of io.c that resets it when the host falls     *)
(* silent.  Each action is one call.  out is the command or the character  *)
(* the last byte completed; what commands do is the subject of TermModes   *)
(* and of the modules of the screen.                                       *)
(***************************************************************************)
EXTENDS Utf8Collector, FiniteSets

CONSTANTS
  Hosts,      \* kinds of host: the bytes it sends; longest, a bound on its
              \* sequences, the string in one included (< ANSI_STR_LEN); is
              \* it ever silent; may the user have all of it written out?
  CSI_N_MAX,  \* numeric arguments kept
  INT_MAX,    \* the largest int, the type of an argument
  Tout,       \* parser_tout_ms
  Cancels,    \* does the host cancel strings?
  Width       \* of the screen, for the characters written out

ASSUME ParserAssumption ==
  /\ \A h \in Hosts : h.bytes \subseteq 0..255 /\ h.longest \in Nat
                      /\ h.silent \in BOOLEAN /\ h.debugs \in BOOLEAN
  /\ CSI_N_MAX \in Nat \ {0} /\ INT_MAX \in Nat
  /\ Tout \in Nat
  /\ Cancels \in BOOLEAN
  /\ Width \in Nat \ {0}

VARIABLES
  host,
  cs,             \* state of the machine
  inside_string,
  csi,            \* leadchar, interchar, arg_ni, arg_cnt, arg
  utf,            \* bytes, utf_len
  col,            \* column of the cursor, while debug
  debug,          \* ascii_debug
  inhibit,        \* ansi_parser_inhibit
  fresh,          \* ansi_parser_char_cnt # last_charcnt
  same,           \* same_charcnt
  enq,            \* enquiry_suppressed
  text,           \* the bytes since ESC; with string_buffer the end of it
  out

machine == <<cs, inside_string, csi, text>>
timing == <<fresh, same>>
vars == <<host, cs, inside_string, csi, utf, col, debug, inhibit, fresh, same,
          enq, text, out>>

NUL == 0    ENQ == 5    BEL == 7   BS == 8    TAB == 9   LF == 10   VT == 11
FF == 12    CR == 13    SO == 14   SI == 15   CAN == 24  SUB == 26  ESC == 27
SEMI == 59  BACKSLASH == 92

(* What is left in the variables of a finished sequence is not read again. *)
NoCsi == [lead |-> NUL, inter |-> NUL, ni |-> 0, cnt |-> 0,
          arg |-> [i \in 0..(CSI_N_MAX - 1) |-> 0]]

ansi_start == 1

Init ==
  /\ host \in Hosts
  /\ cs = -1
  /\ inside_string = FALSE
  /\ csi = NoCsi
  /\ utf = NoBytes
  /\ col = 0
  /\ debug = FALSE
  /\ inhibit = TRUE
  /\ fresh = FALSE
  /\ same = -1
  /\ enq = FALSE
  /\ text = <<>>
  /\ out = <<"none">>

-----------------------------------------------------------------------------
(* The machine.                                                            *)

Digits == 48..57
Leading == 61..63                                              \* = > ?
Intermediate == (32..34) \cup {36, 38, 39} \cup (41..45)
Final == (64..90) \cup (96..126)
StringStart == {80, 88, 107} \cup (93..95)                     \* P X k ] ^ _
Slot == {37} \cup (40..47)
Space == (70..71) \cup (76..78)
ShortCode == ((48..57) \cup (60..62) \cup (64..92) \cup (97..122) \cup (124..126))
             \ (StringStart \cup {91})

(* The action of the grammar for each set of bytes, by state; the states   *)
(* behind the end of a sequence (11 to 14) are left within the same call.  *)
Edges(s) ==
  CASE s = 1  -> {<<"escape", {ESC}>>, <<"plain_char", (0..255) \ {BEL, ESC}>>}
    [] s = 2  -> {<<"SPACE", {32}>>, <<"HASH", {35}>>, <<"CSI_start", {91}>>,
                  <<"StrCmd_start", StringStart>>, <<"CharsetCmd_start", Slot>>,
                  <<"SHORT_code", ShortCode>>}
    [] s = 3  -> {<<"SPACE_cmd", Space>>}
    [] s = 4  -> {<<"HASH_code", Digits>>}
    [] s = 5  -> {<<"CSI_leading", Leading>>, <<"CSI_digit", Digits>>,
                  <<"CSI_semi", {SEMI}>>, <<"CSI_intermed", Intermediate>>,
                  <<"CSI_end", Final>>}
    [] s = 6  -> {<<"CSI_end", Final>>}
    [] s = 7  -> {<<"CSI_digit", Digits>>, <<"CSI_semi", {SEMI}>>,
                  <<"CSI_intermed", Intermediate>>, <<"CSI_end", Final>>}
    [] s = 8  -> {<<"StrCmd_end", {BEL}>>, <<"StrCmd_ST", {ESC}>>,
                  <<"StrCmd_char", (0..255) \ {BEL, ESC}>>}
    [] s = 9  -> {<<"StrCmd_end", {BACKSLASH}>>}
    [] s = 10 -> {<<"CharsetCmd_end", (0..255) \ {BEL, ESC}>>}

(* Mutant of ActionOn: the byte after an intermediate one may be anything. *)
ActionOnLoose(s, b) ==
  LET e == {x \in Edges(IF s = 6 THEN 7 ELSE s) : b \in x[2]}
  IN  IF e = {} THEN "errBadSeq" ELSE (CHOOSE x \in e : TRUE)[1]

ActionOn(s, b) ==
  LET e == {x \in Edges(s) : b \in x[2]}
  IN  IF e = {} THEN "errBadSeq" ELSE (CHOOSE x \in e : TRUE)[1]

FirstArgument(r) == [r EXCEPT !.cnt = IF @ = 0 THEN 1 ELSE @]
(* Mutant of SemiIn: an empty first argument does not count.               *)
SemiUncounted(r) == [r EXCEPT !.cnt = @ + 1, !.ni = @ + 1]

(* What an int holds of a number: built for this processor it wraps around.*)
AsInt(n) ==
  IF n \in (-INT_MAX - 1)..INT_MAX THEN n
  ELSE ((n + INT_MAX + 1) % (2 * (INT_MAX + 1))) - (INT_MAX + 1)
DigitIn(r, b) ==
  IF r.ni < CSI_N_MAX
  THEN [FirstArgument(r) EXCEPT !.arg[r.ni] = AsInt(10 * @ + (b - 48))]
  ELSE FirstArgument(r)
SemiIn(r) == [FirstArgument(r) EXCEPT !.cnt = @ + 1, !.ni = @ + 1]

(* On within the sequence, or out of it with a command or an error.        *)
On(s, r, b) ==
  /\ cs' = s /\ csi' = r /\ text' = Append(text, b)
  /\ out' = <<"none">>
Off(what) ==
  /\ cs' = ansi_start /\ csi' = NoCsi /\ text' = <<>>
  /\ out' = what
Whole(b) == Append(text, b)

(* apars_handle_plainchar, for a character of text or a control.           *)
Plain(b) ==
  LET c == Collect(utf, b)
  IN  /\ utf' = c.utf
      /\ out' = <<c.how, c.glyph>>
      /\ col' = IF debug /\ c.how # "wait"
                THEN After(After(DumpFrom(col, Width, c), Width, CellsOf(c)), Width, 1)
                ELSE col

(* Mutant of LeaveString: an error inside a string leaves the flag up.           *)
LeaveFlagUp == UNCHANGED <<utf, col, inside_string>>
LeaveString == UNCHANGED <<utf, col>> /\ inside_string' = FALSE

Ragel(b) ==
  LET a == ActionOn(cs, b)
      Stay == UNCHANGED <<utf, col>> /\ inside_string' = inside_string
  IN  \/ a = "errBadSeq" /\ Off(<<"error", Whole(b)>>) /\ LeaveString
      \/ a = "plain_char" /\ b # NUL /\ Plain(b) /\ UNCHANGED machine
      \/ a = "plain_char" /\ b = NUL /\ out' = <<"none">>
                          /\ UNCHANGED <<machine, utf, col>>
      \/ a = "escape" /\ cs' = 2 /\ csi' = NoCsi /\ text' = <<>>
                      /\ out' = <<"none">> /\ Stay
      \/ a = "CSI_start" /\ On(5, NoCsi, b) /\ Stay
      \/ a = "CSI_leading" /\ On(7, [csi EXCEPT !.lead = b], b) /\ Stay
      \/ a = "CSI_digit" /\ On(7, DigitIn(csi, b), b) /\ Stay
      \/ a = "CSI_semi" /\ On(7, SemiIn(csi), b) /\ Stay
      \/ a = "CSI_intermed" /\ On(6, [csi EXCEPT !.inter = b], b) /\ Stay
      \/ a = "CSI_end" /\ Off(<<"csi", Whole(b), csi, b>>) /\ Stay
      \/ a = "StrCmd_start" /\ On(8, csi, b) /\ inside_string' = TRUE
                            /\ UNCHANGED <<utf, col>>
      \/ a = "StrCmd_char" /\ On(8, csi, b) /\ Stay
      \/ a = "StrCmd_ST" /\ On(9, csi, b) /\ Stay
      \/ a = "StrCmd_end" /\ Off(<<"string", Whole(b)>>) /\ LeaveString
      \/ a = "SPACE" /\ On(3, csi, b) /\ Stay
      \/ a = "HASH" /\ On(4, csi, b) /\ Stay
      \/ a = "SPACE_cmd" /\ Off(<<"space", Whole(b)>>) /\ Stay
      \/ a = "HASH_code" /\ Off(<<"hash", Whole(b)>>) /\ Stay
      \/ a = "SHORT_code" /\ Off(<<"short", Whole(b)>>) /\ Stay
      \/ a = "CharsetCmd_start" /\ On(10, csi, b) /\ Stay
      \/ a = "CharsetCmd_end" /\ Off(<<"charset", Whole(b)>>) /\ Stay

-----------------------------------------------------------------------------
(* ansi_parser, one byte.                                                  *)

Cancel ==
  /\ Cancels \/ ~inside_string
  /\ Off(<<"none">>)
  /\ UNCHANGED <<inside_string, utf, col, enq>>

Escape ==
  /\ cs' = 2 /\ csi' = NoCsi /\ text' = <<>> /\ out' = <<"none">>
  /\ UNCHANGED <<inside_string, utf, col, enq>>

(* The controls the host may send in the middle of a sequence.             *)
Control(b) ==
  \/ /\ b \in {FF, VT, CR, LF, BS}
     /\ Plain(IF b \in {FF, VT} THEN LF ELSE b)
     /\ UNCHANGED <<machine, enq>>
  \/ /\ b = ENQ /\ ~enq
     /\ out' = <<"answerback">> /\ enq' = TRUE
     /\ UNCHANGED <<machine, utf, col>>
  \/ /\ b \notin {FF, VT, CR, LF, BS} /\ ~(b = ENQ /\ ~enq)
     /\ out' = CASE b = TAB -> <<"tab">> [] b = SI -> <<"shift", 0>>
                 [] b = SO -> <<"shift", 1>> [] b = BEL -> <<"bell">>
                 [] OTHER -> <<"none">>
     /\ UNCHANGED <<machine, utf, col, enq>>

(* The first byte finds the machine not started; CAN, a control or ESC     *)
(* sees no difference.                                                     *)
Parse(b) ==
  IF b \in {CAN, SUB} THEN Cancel
  ELSE IF b < 32 /\ ~inside_string THEN IF b = ESC THEN Escape ELSE Control(b)
  ELSE IF cs \in {-1, ansi_start} /\ b >= 32
  THEN Plain(b) /\ cs' = ansi_start /\ UNCHANGED <<inside_string, csi, text, enq>>
  ELSE Ragel(b) /\ UNCHANGED enq

Byte(b) ==
  /\ IF inhibit THEN out' = <<"none">> /\ UNCHANGED <<machine, timing, utf, col, enq>>
     ELSE /\ fresh' = TRUE /\ same' = same
          /\ IF debug THEN Plain(b) /\ UNCHANGED <<machine, enq>> ELSE Parse(b)
  /\ Len(text') <= host.longest
  /\ UNCHANGED <<host, debug, inhibit>>

-----------------------------------------------------------------------------
(* Around the parser.                                                      *)

(* Mutant of Reset: the flag survives.                                     *)
ResetKeepsFlag ==
  /\ cs' = ansi_start /\ csi' = NoCsi /\ text' = <<>>
  /\ utf' = NoBytes /\ inside_string' = inside_string

Reset ==                                               \* ansi_parser_reset
  IF cs = ansi_start THEN UNCHANGED <<machine, utf>>
  ELSE /\ cs' = ansi_start /\ csi' = NoCsi /\ text' = <<>>
       /\ utf' = NoBytes /\ inside_string' = FALSE

(* Mutant of TimerTick: the count starts only after a reset.               *)
TimerTickDeaf ==
  /\ Tout # 0 /\ host.silent
  /\ IF fresh THEN fresh' = FALSE /\ UNCHANGED <<same, machine, utf>>
     ELSE IF same = -1 THEN UNCHANGED <<fresh, same, machine, utf>>
     ELSE IF same + 1 > Tout THEN same' = -1 /\ fresh' = fresh /\ Reset
     ELSE same' = same + 1 /\ UNCHANGED <<fresh, machine, utf>>
  /\ out' = <<"none">>
  /\ UNCHANGED <<host, col, debug, inhibit, enq>>

TimerTick ==                                    \* ansiParserResetTimerCb, 1 ms
  /\ Tout # 0 /\ host.silent
  /\ IF fresh THEN fresh' = FALSE /\ same' = 0 /\ UNCHANGED <<machine, utf>>
     ELSE IF same = -1 THEN UNCHANGED <<fresh, same, machine, utf>>
     ELSE IF same + 1 > Tout THEN same' = -1 /\ fresh' = fresh /\ Reset
     ELSE same' = same + 1 /\ UNCHANGED <<fresh, machine, utf>>
  /\ out' = <<"none">>
  /\ UNCHANGED <<host, col, debug, inhibit, enq>>

ResetScreen ==                                              \* a user's request
  /\ Reset /\ out' = <<"none">>
  /\ UNCHANGED <<host, timing, col, debug, inhibit, enq>>

UserStart ==
  /\ inhibit /\ inhibit' = FALSE /\ out' = <<"none">>
  /\ UNCHANGED <<host, machine, timing, utf, col, debug, enq>>

EnqTimer ==
  /\ enq /\ enq' = FALSE /\ out' = <<"none">>
  /\ UNCHANGED <<host, machine, timing, utf, col, debug, inhibit>>

SetDebug ==                                                 \* ascii_debug
  /\ host.debugs
  /\ debug' = ~debug /\ out' = <<"none">>
  /\ col' \in IF debug THEN {0} ELSE 0..Width
  /\ UNCHANGED <<host, machine, timing, utf, inhibit, enq>>

Next ==
  \/ \E b \in host.bytes : Byte(b)
  \/ TimerTick \/ ResetScreen \/ UserStart \/ EnqTimer \/ SetDebug

Spec == Init /\ [][Next]_vars /\ WF_vars(TimerTick)

-----------------------------------------------------------------------------
(* The grammar of ansi_parser.rl, read off a whole text (without ESC).     *)
All(t, a, b, S) == \A i \in a..b : t[i] \in S
BodyFrom(t) == IF Len(t) > 1 /\ t[2] \in Leading THEN 3 ELSE 2
IsCsiStart(t) ==
  /\ t[1] = 91
  /\ LET n == Len(t) IN
     \/ All(t, BodyFrom(t), n, Digits \cup {SEMI})
     \/ /\ n >= BodyFrom(t) /\ t[n] \in Intermediate
        /\ All(t, BodyFrom(t), n - 1, Digits \cup {SEMI})
IsStringStart(t) ==
  /\ t[1] \in StringStart
  /\ \A i \in 2..Len(t) : t[i] # BEL /\ (t[i] = ESC => i = Len(t))
Unfinished(t) ==
  \/ t = <<>>
  \/ t[1] = 91 /\ IsCsiStart(t)
  \/ t[1] \in StringStart /\ IsStringStart(t)
  \/ Len(t) = 1 /\ t[1] \in Slot \cup {32, 35}
Finished(t) ==
  LET n == Len(t)  f == SubSeq(t, 1, n - 1)
  IN  /\ n > 0
      /\ \/ t[1] \in ShortCode /\ n = 1
         \/ n > 1 /\ t[1] = 91 /\ IsCsiStart(f) /\ t[n] \in Final
         \/ n > 1 /\ t[1] \in StringStart /\ IsStringStart(f)
            /\ IF f[n - 1] = ESC /\ n > 2 THEN t[n] = BACKSLASH ELSE t[n] = BEL
         \/ n = 2 /\ t[1] \in Slot /\ t[2] \notin {BEL, ESC}
         \/ n = 2 /\ t[1] = 32 /\ t[2] \in Space
         \/ n = 2 /\ t[1] = 35 /\ t[2] \in Digits

(* The generated machine accepts the sentences of the grammar and nothing  *)
(* else: while it is inside a sequence the text is the beginning of one,   *)
(* what it hands out is a whole one, and what it calls an error could not  *)
(* have become one.  The flag beside it, that lets controls into a string, *)
(* is up exactly while there is a string: otherwise line feeds and tabs of *)
(* the text after it are taken for parts of one.  (Cancels = FALSE: a      *)
(* cancelled string leaves it up.)                                         *)
GrammarKept ==
  /\ cs \in 2..10 => Unfinished(text)
  /\ out[1] \in {"csi", "string", "short", "hash", "space", "charset"} =>
       Finished(out[2])
  /\ out[1] = "error" /\ out[2] # <<BEL>> =>
       ~Unfinished(out[2]) /\ ~Finished(out[2])
  /\ inside_string <=> cs \in {8, 9}

(* The numbers a CSI sequence is carried out with are those written in it: *)
(* fields between semicolons, empty ones 0, as many as there are; fields   *)
(* past the array are dropped, and one no int can hold is another number.  *)
(* Rests on the static variables being reset at the right moments.         *)
BodyTo(t) ==
  LET n == Len(t)
  IN  IF n - 1 >= BodyFrom(t) /\ t[n - 1] \in Intermediate THEN n - 2 ELSE n - 1
Semis(t, i, j) == {k \in i..j : t[k] = SEMI}
IsField(t, from, to, i, j) ==
  /\ Semis(t, i, j) = {}
  /\ i = from \/ t[i - 1] = SEMI
  /\ j = to \/ t[j + 1] = SEMI
NumberAt(t, i, j) ==
  LET f[k \in 0..j] == IF k < i THEN 0 ELSE 10 * f[k - 1] + (t[k] - 48) IN f[j]
NumbersOf(t, from, to, r) ==
  LET semis == Cardinality(Semis(t, from, to))
  IN  /\ r.cnt = IF to < from THEN 0 ELSE semis + 1
      /\ \A k \in 0..(CSI_N_MAX - 1) : k > semis => r.arg[k] = 0
      /\ \A i \in from..(to + 1) : \A j \in (i - 1)..to :
           LET k == Cardinality(Semis(t, from, i - 1))
           IN  /\ IsField(t, from, to, i, j) /\ k < CSI_N_MAX
               /\ NumberAt(t, i, j) <= INT_MAX
               => r.arg[k] = NumberAt(t, i, j)
LeadOf(t) == IF BodyFrom(t) = 3 THEN t[2] ELSE NUL
CsiAsWritten ==
  out[1] = "csi" =>
    LET t == out[2]  r == out[3]
    IN  /\ NumbersOf(t, BodyFrom(t), BodyTo(t), r)
        /\ r.lead = LeadOf(t)
        /\ r.inter = IF BodyTo(t) = Len(t) - 2 THEN t[Len(t) - 1] ELSE NUL

(* Whatever bytes come, in whatever order with sequences, time-outs and    *)
(* debugging between them, what is shown as a character is well-formed     *)
(* UTF-8 (the table in apars_utf8.c), and what is shown as bad is not.     *)
WellFormed(b) ==
  LET n == Len(b) IN
  \/ n = 1 /\ b[1] < 128
  \/ n = 2 /\ b[1] \in 194..223 /\ b[2] \in 128..191
  \/ n = 3 /\ b[3] \in 128..191
           /\ \/ b[1] = 224 /\ b[2] \in 160..191
              \/ b[1] \in (225..236) \cup {238, 239} /\ b[2] \in 128..191
              \/ b[1] = 237 /\ b[2] \in 128..159
  \/ n = 4 /\ b[3] \in 128..191 /\ b[4] \in 128..191
           /\ \/ b[1] = 240 /\ b[2] \in 144..191
              \/ b[1] \in 241..243 /\ b[2] \in 128..191
              \/ b[1] = 244 /\ b[2] \in 128..143
CharactersRight ==
  /\ out[1] = "good" => WellFormed(out[2])
  /\ out[1] = "bad" => ~WellFormed(out[2])

(* A host that stops in the middle of a sequence does not leave the parser *)
(* there: the timer brings it back to text (Tout # 0).                     *)
Recovers == <>[](~fresh) => <>[](cs \in {-1, ansi_start} /\ ~inside_string)
=============================================================================
