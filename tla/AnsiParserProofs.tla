-------------------------- MODULE AnsiParserProofs --------------------------
(***************************************************************************)
(* Safety of the parser: the machine keeps to its grammar, what is shown   *)
(* as a character is one, and a sequence is carried out with the numbers   *)
(* written in it, for every host, time-out and screen.                     *)
(***************************************************************************)
EXTENDS AnsiParser, Iteration, FiniteSetTheorems, TLAPS

Bytes == 0..255

(* What has come of the sequence, by the state of the machine.             *)
InText(s, t) ==
  /\ s \in {-1, 1, 2} => t = <<>>
  /\ s = 3 => t = <<32>>
  /\ s = 4 => t = <<35>>
  /\ s = 5 => t = <<91>>
  /\ s = 6 => /\ Len(t) > 1 /\ t[1] = 91 /\ Len(t) >= BodyFrom(t)
              /\ t[Len(t)] \in Intermediate
              /\ All(t, BodyFrom(t), Len(t) - 1, Digits \cup {SEMI})
  /\ s = 7 => /\ Len(t) > 1 /\ t[1] = 91
              /\ All(t, BodyFrom(t), Len(t), Digits \cup {SEMI})
  /\ s = 8 => /\ Len(t) > 0 /\ t[1] \in StringStart
              /\ \A i \in 2..Len(t) : t[i] \notin {BEL, ESC}
  /\ s = 9 => /\ Len(t) > 1 /\ t[1] \in StringStart /\ t[Len(t)] = ESC
              /\ \A i \in 2..(Len(t) - 1) : t[i] \notin {BEL, ESC}
  /\ s = 10 => Len(t) = 1 /\ t[1] \in Slot

(* What is handed out.                                                     *)
Sentences == {"csi", "string", "short", "hash", "space", "charset"}
OutRight(o) ==
  /\ o[1] \in Sentences => Finished(o[2])
  /\ o[1] = "error" /\ o[2] # <<BEL>> => ~Unfinished(o[2]) /\ ~Finished(o[2])

MachineInv ==
  /\ host \in Hosts
  /\ cs \in {-1} \cup (1..10)
  /\ text \in Seq(Bytes)
  /\ InText(cs, text)
  /\ inside_string \in BOOLEAN
  /\ inside_string <=> cs \in {8, 9}
  /\ OutRight(out)

-----------------------------------------------------------------------------
(* Texts, one byte longer.                                                 *)

LEMMA Longer ==
  ASSUME NEW t \in Seq(Bytes), NEW b \in Bytes, NEW s, s = Append(t, b)
  PROVE  /\ s \in Seq(Bytes) /\ Len(t) \in Nat /\ Len(s) = Len(t) + 1
         /\ \A i \in 1..Len(t) : s[i] = t[i]
         /\ s[Len(s)] = b
         /\ SubSeq(s, 1, Len(s) - 1) = t
<1>1. /\ s \in Seq(Bytes) /\ Len(t) \in Nat /\ Len(s) = Len(t) + 1
      /\ \A i \in 1..Len(t) : s[i] = t[i]
      /\ s[Len(s)] = b
  OBVIOUS
<1>2. SubSeq(s, 1, Len(s) - 1) = t
  OBVIOUS
<1> QED BY <1>1, <1>2

(* The first byte decides what a text can become.                          *)
LEMMA ByFirst ==
  ASSUME NEW t \in Seq(Bytes), Len(t) > 0
  PROVE  /\ t[1] = 91 => /\ Unfinished(t) <=> IsCsiStart(t)
                         /\ Finished(t) <=>
                              /\ Len(t) > 1 /\ t[Len(t)] \in Final
                              /\ IsCsiStart(SubSeq(t, 1, Len(t) - 1))
         /\ t[1] \in StringStart =>
              /\ Unfinished(t) <=> IsStringStart(t)
              /\ Finished(t) <=>
                   LET n == Len(t)  f == SubSeq(t, 1, n - 1) IN
                   /\ n > 1 /\ IsStringStart(f)
                   /\ IF f[n - 1] = ESC /\ n > 2 THEN t[n] = BACKSLASH ELSE t[n] = BEL
         /\ t[1] \in Slot => /\ Unfinished(t) <=> Len(t) = 1
                             /\ Finished(t) <=> \/ Len(t) = 1 /\ t[1] \in ShortCode
                                                \/ Len(t) = 2 /\ t[2] \notin {BEL, ESC}
         /\ t[1] = 32 => /\ Unfinished(t) <=> Len(t) = 1
                         /\ Finished(t) <=> Len(t) = 2 /\ t[2] \in Space
         /\ t[1] = 35 => /\ Unfinished(t) <=> Len(t) = 1
                         /\ Finished(t) <=> Len(t) = 2 /\ t[2] \in Digits
         /\ t[1] \notin {91, 32, 35} \cup StringStart \cup Slot =>
              /\ ~Unfinished(t)
              /\ Finished(t) <=> Len(t) = 1 /\ t[1] \in ShortCode
<1>1. /\ 91 \notin StringStart \cup Slot \cup ShortCode \cup {32, 35}
      /\ StringStart \cap (Slot \cup ShortCode \cup {32, 35}) = {}
      /\ {32, 35} \cap (Slot \cup ShortCode) = {}
  BY DEF StringStart, Slot, ShortCode
<1>2. t # <<>>
  OBVIOUS
<1> QED BY <1>1, <1>2 DEF Unfinished, Finished

-----------------------------------------------------------------------------
(* What the machine does with a byte.                                      *)

(* What ActionOn says is an edge, and no edge is overlooked.               *)
LEMMA ActionIs ==
  ASSUME NEW s \in 2..10, NEW b \in Bytes
  PROVE  /\ ActionOn(s, b) = "errBadSeq" \/ \E x \in Edges(s) : b \in x[2] /\ ActionOn(s, b) = x[1]
         /\ \A n, S : <<n, S>> \in Edges(s) /\ b \in S => ActionOn(s, b) # "errBadSeq"
<1> DEFINE e == {x \in Edges(s) : b \in x[2]}
<1>1. CASE e = {}
  BY <1>1 DEF ActionOn
<1>2. CASE e # {}
  <2>1. (CHOOSE x \in e : TRUE) \in e
    BY <1>2
  <2>2. ActionOn(s, b) = (CHOOSE x \in e : TRUE)[1]
    BY <1>2 DEF ActionOn
  <2>3. \A x \in Edges(s) : x[1] # "errBadSeq"
    BY DEF Edges
  <2> QED BY <2>1, <2>2, <2>3
<1> QED BY <1>1, <1>2

(* The sets of bytes that leave one state are disjoint from each other.    *)
Ends == {"CSI_end", "StrCmd_end", "SPACE_cmd", "HASH_code", "SHORT_code", "CharsetCmd_end"}
Moves == {<<"CSI_start", 5>>, <<"CSI_leading", 7>>, <<"CSI_digit", 7>>, <<"CSI_semi", 7>>,
          <<"CSI_intermed", 6>>, <<"StrCmd_start", 8>>, <<"StrCmd_char", 8>>,
          <<"StrCmd_ST", 9>>, <<"SPACE", 3>>, <<"HASH", 4>>, <<"CharsetCmd_start", 10>>}

(* Of a text u that state s read before its last byte, this is right.      *)
Answer(s, a, u) ==
  /\ a \in {"errBadSeq"} \cup Ends \cup {m[1] : m \in Moves}
  /\ a = "errBadSeq" => ~Unfinished(u) /\ ~Finished(u)
  /\ a \in Ends => Finished(u)
  /\ \A m \in Moves : a = m[1] => InText(m[2], u)
  /\ a = "StrCmd_end" => s \in {8, 9}
  /\ a \in {"StrCmd_char", "StrCmd_ST"} => s = 8
  /\ a \notin {"errBadSeq", "StrCmd_end", "StrCmd_char", "StrCmd_ST"} => s \notin {8, 9}

Only(x) == {x}

LEMMA FromEscape ==
  ASSUME NEW b \in Bytes
  PROVE  Answer(2, ActionOn(2, b), <<b>>)
<1> DEFINE a == ActionOn(2, b)  u == <<b>>
<1>1. /\ u \in Seq(Bytes) /\ Len(u) = 1 /\ u[1] = b
  OBVIOUS
<1>2. \/ a = "errBadSeq" /\ b \notin {32, 35, 91} \cup StringStart \cup Slot \cup ShortCode
      \/ a = "SPACE" /\ b = 32
      \/ a = "HASH" /\ b = 35
      \/ a = "CSI_start" /\ b = 91
      \/ a = "StrCmd_start" /\ b \in StringStart
      \/ a = "CharsetCmd_start" /\ b \in Slot
      \/ a = "SHORT_code" /\ b \in ShortCode
  <2>1. Edges(2) = {<<"SPACE", Only(32)>>, <<"HASH", Only(35)>>, <<"CSI_start", Only(91)>>,
                    <<"StrCmd_start", StringStart>>, <<"CharsetCmd_start", Slot>>,
                    <<"SHORT_code", ShortCode>>}
    BY DEF Edges, Only
  <2>2. /\ <<"SPACE", Only(32)>> \in Edges(2) /\ <<"HASH", Only(35)>> \in Edges(2)
        /\ <<"CSI_start", Only(91)>> \in Edges(2) /\ <<"StrCmd_start", StringStart>> \in Edges(2)
        /\ <<"CharsetCmd_start", Slot>> \in Edges(2) /\ <<"SHORT_code", ShortCode>> \in Edges(2)
    BY <2>1
  <2>3. a = "errBadSeq" => b \notin Only(32) \cup Only(35) \cup Only(91)
                                       \cup StringStart \cup Slot \cup ShortCode
    BY <2>2, ActionIs
  <2>4. CASE \E x \in Edges(2) : b \in x[2] /\ a = x[1]
    <3> PICK x \in Edges(2) : b \in x[2] /\ a = x[1]
      BY <2>4
    <3> QED BY <2>1 DEF Only
  <2>5. a = "errBadSeq" \/ \E x \in Edges(2) : b \in x[2] /\ a = x[1]
    BY ActionIs
  <2> HIDE DEF a
  <2> QED BY <2>3, <2>4, <2>5 DEF Only
<1> HIDE DEF a, u
<1>3. /\ a = "errBadSeq" => ~Unfinished(u) /\ ~Finished(u)
      /\ a = "SHORT_code" => Finished(u)
  <2>1. ShortCode \cap ({32, 35, 91} \cup StringStart \cup Slot) = {}
    BY DEF ShortCode, Slot, StringStart
  <2>2. Len(u) > 0 /\ u[1] = b
    BY <1>1
  <2>3. u[1] \notin {91, 32, 35} \cup StringStart \cup Slot =>
          /\ ~Unfinished(u)
          /\ Finished(u) <=> Len(u) = 1 /\ u[1] \in ShortCode
    BY <1>1, <2>2, ByFirst
  <2> QED BY <1>1, <1>2, <2>1, <2>2, <2>3
<1>4. /\ a = "SPACE" => InText(3, u)
      /\ a = "HASH" => InText(4, u)
      /\ a = "CSI_start" => InText(5, u)
      /\ a = "StrCmd_start" => InText(8, u)
      /\ a = "CharsetCmd_start" => InText(10, u)
  BY <1>1, <1>2 DEF InText, u
<1> QED BY <1>2, <1>3, <1>4 DEF Answer, Ends, Moves, a, u

LEMMA InShort ==
  ASSUME NEW b \in Bytes, NEW t \in Seq(Bytes), NEW s \in {3, 4, 10}, InText(s, t)
  PROVE  Answer(s, ActionOn(s, b), Append(t, b))
<1> DEFINE a == ActionOn(s, b)  u == Append(t, b)
<1>1. /\ Len(t) = 1 /\ Len(u) = 2 /\ u \in Seq(Bytes) /\ u[1] = t[1] /\ u[2] = b
  <2>1. Len(t) = 1
    <3>1. Len(<<32>>) = 1 /\ Len(<<35>>) = 1
      OBVIOUS
    <3> QED BY <3>1 DEF InText
  <2>2. /\ u \in Seq(Bytes) /\ Len(u) = Len(t) + 1 /\ u[Len(u)] = b
        /\ \A i \in 1..Len(t) : u[i] = t[i]
    BY Longer
  <2> HIDE DEF u
  <2> QED BY <2>1, <2>2
<1> HIDE DEF u
<1>2. CASE s = 3
  <2>1. <<"SPACE_cmd", Space>> \in Edges(3) /\ Edges(3) = {<<"SPACE_cmd", Space>>}
    BY DEF Edges
  <2>2. \/ a = "errBadSeq" /\ b \notin Space
        \/ a = "SPACE_cmd" /\ b \in Space
    <3>1. 3 \in 2..10
      OBVIOUS
    <3>2. a = "errBadSeq" \/ \E x \in Edges(3) : b \in x[2] /\ a = x[1]
      BY <1>2, <3>1, ActionIs
    <3>3. b \in Space => a # "errBadSeq"
      BY <1>2, <2>1, <3>1, ActionIs
    <3> HIDE DEF a
    <3> QED BY <2>1, <3>2, <3>3
  <2>3. Len(u) > 0 /\ u[1] = 32
    BY <1>1, <1>2 DEF InText
  <2>4. /\ ~Unfinished(u)
        /\ Finished(u) <=> b \in Space
    BY <1>1, <2>3, ByFirst
  <2> HIDE DEF a
  <2>Q. Answer(s, a, u)
    BY <1>2, <2>2, <2>4 DEF Answer, Ends, Moves
  <2> QED BY <2>Q DEF a, u
<1>3. CASE s = 4
  <2>1. <<"HASH_code", Digits>> \in Edges(4) /\ Edges(4) = {<<"HASH_code", Digits>>}
    BY DEF Edges
  <2>2. \/ a = "errBadSeq" /\ b \notin Digits
        \/ a = "HASH_code" /\ b \in Digits
    <3>1. 4 \in 2..10
      OBVIOUS
    <3>2. a = "errBadSeq" \/ \E x \in Edges(4) : b \in x[2] /\ a = x[1]
      BY <1>3, <3>1, ActionIs
    <3>3. b \in Digits => a # "errBadSeq"
      BY <1>3, <2>1, <3>1, ActionIs
    <3> HIDE DEF a
    <3> QED BY <2>1, <3>2, <3>3
  <2>3. Len(u) > 0 /\ u[1] = 35
    BY <1>1, <1>3 DEF InText
  <2>4. /\ ~Unfinished(u)
        /\ Finished(u) <=> b \in Digits
    BY <1>1, <2>3, ByFirst
  <2> HIDE DEF a
  <2>Q. Answer(s, a, u)
    BY <1>3, <2>2, <2>4 DEF Answer, Ends, Moves
  <2> QED BY <2>Q DEF a, u
<1>4. CASE s = 10
  <2> DEFINE Other == (0..255) \ {BEL, ESC}
  <2>1. <<"CharsetCmd_end", Other>> \in Edges(10) /\ Edges(10) = {<<"CharsetCmd_end", Other>>}
    BY DEF Edges
  <2>2. \/ a = "errBadSeq" /\ b \notin Other
        \/ a = "CharsetCmd_end" /\ b \in Other
    <3>1. 10 \in 2..10
      OBVIOUS
    <3> HIDE DEF Other
    <3>2. a = "errBadSeq" \/ \E x \in Edges(10) : b \in x[2] /\ a = x[1]
      BY <1>4, <3>1, ActionIs
    <3>3. b \in Other => a # "errBadSeq"
      BY <1>4, <2>1, <3>1, ActionIs
    <3> HIDE DEF a
    <3> QED BY <2>1, <3>2, <3>3
  <2>3. Len(u) > 0 /\ u[1] \in Slot
    BY <1>1, <1>4 DEF InText
  <2>4. /\ ~Unfinished(u)
        /\ Finished(u) <=> b \notin {BEL, ESC}
    BY <1>1, <2>3, ByFirst, SMTT(30)
  <2> HIDE DEF a
  <2>Q. Answer(s, a, u)
    BY <1>4, <2>2, <2>4 DEF Answer, Ends, Moves, Bytes
  <2> QED BY <2>Q DEF a, u
<1> QED BY <1>2, <1>3, <1>4

LEMMA InString ==
  ASSUME NEW b \in Bytes, NEW t \in Seq(Bytes), NEW s \in {8, 9}, InText(s, t),
         NEW u \in Seq(Bytes), u = Append(t, b)
  PROVE  Answer(s, ActionOn(s, b), u)
<1> DEFINE a == ActionOn(s, b)
<1>1. /\ t[1] \in StringStart /\ Len(t) \in Nat /\ Len(t) > 0
      /\ Len(u) = Len(t) + 1 /\ u[Len(u)] = b
      /\ \A i \in 1..Len(t) : u[i] = t[i]
  <2>1. t[1] \in StringStart /\ Len(t) > 0
    <3> HIDE DEF a
    <3> QED BY DEF InText
  <2> QED BY <2>1, Longer
<1>1a. SubSeq(u, 1, Len(u) - 1) = t
  BY Longer
<1>2. /\ Unfinished(u) <=> IsStringStart(u)
      /\ Finished(u) <=> /\ IsStringStart(t)
                         /\ IF t[Len(t)] = ESC /\ Len(t) > 1 THEN b = BACKSLASH ELSE b = BEL
  <2>1. Len(u) > 0 /\ u[1] \in StringStart /\ Len(u) - 1 = Len(t)
    BY <1>1
  <2>2. /\ Unfinished(u) <=> IsStringStart(u)
        /\ Finished(u) <=>
             LET n == Len(u)  f == SubSeq(u, 1, n - 1) IN
             /\ n > 1 /\ IsStringStart(f)
             /\ IF f[n - 1] = ESC /\ n > 2 THEN u[n] = BACKSLASH ELSE u[n] = BEL
    BY <1>1, <2>1, ByFirst
  <2>3. Finished(u) <=>
             /\ Len(u) > 1 /\ IsStringStart(t)
             /\ IF t[Len(t)] = ESC /\ Len(u) > 2 THEN b = BACKSLASH ELSE b = BEL
    BY <1>1, <1>1a, <2>1, <2>2
  <2> QED BY <1>1, <2>2, <2>3
<1>3. CASE s = 8
  <2> DEFINE Other == (0..255) \ {BEL, ESC}
  <2>1. Edges(8) = {<<"StrCmd_end", Only(BEL)>>, <<"StrCmd_ST", Only(ESC)>>, <<"StrCmd_char", Other>>}
    BY DEF Edges, Only
  <2>2. \/ a = "StrCmd_end" /\ b = BEL
        \/ a = "StrCmd_ST" /\ b = ESC
        \/ a = "StrCmd_char" /\ b \in Other
    <3>1. 8 \in 2..10
      OBVIOUS
    <3>2. b \in Only(BEL) \cup Only(ESC) \cup Other
      BY DEF Only, Bytes
    <3> HIDE DEF Other
    <3>3. a = "errBadSeq" \/ \E x \in Edges(8) : b \in x[2] /\ a = x[1]
      BY <1>3, <3>1, ActionIs
    <3>4. /\ <<"StrCmd_end", Only(BEL)>> \in Edges(8) /\ <<"StrCmd_ST", Only(ESC)>> \in Edges(8)
          /\ <<"StrCmd_char", Other>> \in Edges(8)
      BY <2>1
    <3>5. a # "errBadSeq"
      BY <1>3, <3>1, <3>2, <3>4, ActionIs
    <3> HIDE DEF a
    <3> QED BY <2>1, <3>3, <3>5 DEF Only
  <2>3. IsStringStart(t) /\ t[Len(t)] # ESC
    BY <1>1, <1>3 DEF InText, IsStringStart, StringStart, ESC, BEL
  <2>4. a = "StrCmd_end" => Finished(u)
    <3> HIDE DEF a
    <3> QED BY <1>2, <2>2, <2>3 DEF BEL, ESC
  <2>5. /\ a = "StrCmd_char" => InText(8, u)
        /\ a = "StrCmd_ST" => InText(9, u)
    <3>1. \A i \in 2..Len(t) : t[i] \notin {BEL, ESC}
      BY <1>3 DEF InText
    <3> HIDE DEF a
    <3> QED BY <1>1, <2>2, <3>1 DEF InText, BEL, ESC
  <2> HIDE DEF a
  <2>Q. Answer(s, a, u)
    BY <1>3, <2>2, <2>4, <2>5 DEF Answer, Ends, Moves
  <2> QED BY <2>Q DEF a
<1>4. CASE s = 9
  <2>1. Edges(9) = {<<"StrCmd_end", Only(BACKSLASH)>>}
    BY DEF Edges, Only
  <2>2. \/ a = "errBadSeq" /\ b # BACKSLASH
        \/ a = "StrCmd_end" /\ b = BACKSLASH
    <3>1. 9 \in 2..10
      OBVIOUS
    <3>2. a = "errBadSeq" \/ \E x \in Edges(9) : b \in x[2] /\ a = x[1]
      BY <1>4, <3>1, ActionIs
    <3>3. <<"StrCmd_end", Only(BACKSLASH)>> \in Edges(9)
      BY <2>1
    <3>4. b \in Only(BACKSLASH) => a # "errBadSeq"
      BY <1>4, <3>1, <3>3, ActionIs
    <3> HIDE DEF a
    <3> QED BY <2>1, <3>2, <3>4 DEF Only
  <2>3. /\ Len(t) > 1 /\ t[Len(t)] = ESC
        /\ \A i \in 2..(Len(t) - 1) : t[i] \notin {BEL, ESC}
    BY <1>4 DEF InText
  <2>4. IsStringStart(t)
    BY <1>1, <2>3 DEF IsStringStart, ESC, BEL
  <2>5. ~IsStringStart(u)
    <3>1. Len(t) \in 2..Len(u) /\ u[Len(t)] = ESC /\ Len(t) # Len(u)
      BY <1>1, <2>3
    <3> QED BY <3>1 DEF IsStringStart
  <2>6. ~Unfinished(u) /\ (Finished(u) <=> b = BACKSLASH)
    <3> QED BY <1>1, <1>2, <2>3, <2>4, <2>5
  <2> HIDE DEF a
  <2>Q. Answer(s, a, u)
    BY <1>4, <2>2, <2>6 DEF Answer, Ends, Moves
  <2> QED BY <2>Q DEF a
<1> QED BY <1>3, <1>4

(* Numbers, the byte after them and the one at the end share none.         *)
Numbers == Digits \cup {SEMI}

LEMMA CsiBytes ==
  /\ Leading \cap Numbers = {} /\ Leading \cap Intermediate = {} /\ Leading \cap Final = {}
  /\ Numbers \cap Intermediate = {} /\ Numbers \cap Final = {} /\ Intermediate \cap Final = {}
BY DEF Leading, Numbers, Digits, SEMI, Intermediate, Final

LEMMA CsiLonger ==
  ASSUME NEW b \in Bytes, NEW t \in Seq(Bytes), Len(t) > 0, t[1] = 91,
         NEW u \in Seq(Bytes), u = Append(t, b)
  PROVE  /\ Len(t) \in Nat /\ Len(u) = Len(t) + 1 /\ u[Len(u)] = b
         /\ \A i \in 1..Len(t) : u[i] = t[i]
         /\ Unfinished(u) <=> IsCsiStart(u)
         /\ Finished(u) <=> b \in Final /\ IsCsiStart(t)
<1>1. /\ Len(t) \in Nat /\ Len(u) = Len(t) + 1 /\ u[Len(u)] = b
      /\ \A i \in 1..Len(t) : u[i] = t[i]
  BY Longer
<1>2. SubSeq(u, 1, Len(u) - 1) = t
  BY Longer
<1>3. Len(u) > 0 /\ Len(u) > 1 /\ u[1] = 91
  BY <1>1
<1>4. /\ Unfinished(u) <=> IsCsiStart(u)
      /\ Finished(u) <=> /\ Len(u) > 1 /\ u[Len(u)] \in Final
                         /\ IsCsiStart(SubSeq(u, 1, Len(u) - 1))
  BY <1>3, ByFirst
<1> QED BY <1>1, <1>2, <1>3, <1>4

LEMMA InCsiFirst ==
  ASSUME NEW b \in Bytes, NEW t \in Seq(Bytes), InText(5, t),
         NEW u \in Seq(Bytes), u = Append(t, b)
  PROVE  Answer(5, ActionOn(5, b), u)
<1> DEFINE a == ActionOn(5, b)
<1>1. t = <<91>> /\ Len(t) = 1 /\ t[1] = 91
  BY DEF InText
<1>2. /\ Len(u) = 2 /\ u[2] = b /\ u[1] = 91
      /\ Unfinished(u) <=> IsCsiStart(u)
      /\ Finished(u) <=> b \in Final /\ IsCsiStart(t)
  <2>1. /\ Len(t) \in Nat /\ Len(u) = Len(t) + 1 /\ u[Len(u)] = b
        /\ \A i \in 1..Len(t) : u[i] = t[i]
        /\ Unfinished(u) <=> IsCsiStart(u)
        /\ Finished(u) <=> b \in Final /\ IsCsiStart(t)
    <3>1. Len(t) > 0 /\ t[1] = 91
      BY <1>1
    <3> HIDE DEF a
    <3>2. Len(t) \in Nat /\ Len(u) = Len(t) + 1 /\ u[Len(u)] = b
      BY <3>1, CsiLonger
    <3>3. \A i \in 1..Len(t) : u[i] = t[i]
      BY <3>1, CsiLonger
    <3>4. Unfinished(u) <=> IsCsiStart(u)
      BY <3>1, CsiLonger
    <3>5. Finished(u) <=> (b \in Final /\ IsCsiStart(t))
      BY <3>1, CsiLonger
    <3> QED BY <3>2, <3>3, <3>4, <3>5
  <2> QED BY <1>1, <2>1
<1>3. \/ a = "errBadSeq" /\ b \notin Leading \cup Numbers \cup Intermediate \cup Final
      \/ a = "CSI_leading" /\ b \in Leading
      \/ a \in {"CSI_digit", "CSI_semi"} /\ b \in Numbers
      \/ a = "CSI_intermed" /\ b \in Intermediate
      \/ a = "CSI_end" /\ b \in Final
  <2>1. Edges(5) = {<<"CSI_leading", Leading>>, <<"CSI_digit", Digits>>,
                    <<"CSI_semi", Only(SEMI)>>, <<"CSI_intermed", Intermediate>>,
                    <<"CSI_end", Final>>}
    BY DEF Edges, Only
  <2>2. /\ <<"CSI_leading", Leading>> \in Edges(5) /\ <<"CSI_digit", Digits>> \in Edges(5)
        /\ <<"CSI_semi", Only(SEMI)>> \in Edges(5) /\ <<"CSI_intermed", Intermediate>> \in Edges(5)
        /\ <<"CSI_end", Final>> \in Edges(5)
    BY <2>1
  <2>3. 5 \in 2..10
    OBVIOUS
  <2>4. a = "errBadSeq" => b \notin Leading \cup Digits \cup Only(SEMI) \cup Intermediate \cup Final
    BY <2>2, <2>3, ActionIs
  <2>5. a = "errBadSeq" \/ \E x \in Edges(5) : b \in x[2] /\ a = x[1]
    BY <2>3, ActionIs
  <2> HIDE DEF a
  <2>6. CASE \E x \in Edges(5) : b \in x[2] /\ a = x[1]
    <3> PICK x \in Edges(5) : b \in x[2] /\ a = x[1]
      BY <2>6
    <3> QED BY <2>1 DEF Only, Numbers
  <2> QED BY <2>4, <2>5, <2>6 DEF Only, Numbers
<1> HIDE DEF a
<1>4. BodyFrom(t) = 2 /\ IsCsiStart(t)
  BY <1>1 DEF BodyFrom, IsCsiStart, All
<1>5. /\ b \in Leading => BodyFrom(u) = 3
      /\ b \notin Leading => BodyFrom(u) = 2
  BY <1>2 DEF BodyFrom
<1>6. a = "errBadSeq" => ~Unfinished(u) /\ ~Finished(u)
  <2> SUFFICES ASSUME a = "errBadSeq" PROVE ~IsCsiStart(u) /\ b \notin Final
    BY <1>2
  <2>1. BodyFrom(u) = 2 /\ u[2] \notin Numbers \cup Intermediate /\ b \notin Final
    BY <1>2, <1>3, <1>5
  <2> QED BY <1>2, <2>1 DEF IsCsiStart, All, Numbers
<1>7. /\ a = "CSI_leading" \/ a \in {"CSI_digit", "CSI_semi"} => InText(7, u)
      /\ a = "CSI_intermed" => InText(6, u)
  BY <1>2, <1>3, <1>5, CsiBytes DEF InText, All, Numbers
<1>8. a = "CSI_end" => Finished(u)
  BY <1>2, <1>3, <1>4
<1>Q. Answer(5, a, u)
  BY <1>3, <1>6, <1>7, <1>8 DEF Answer, Ends, Moves
<1> QED BY <1>Q DEF a

LEMMA InNumbers ==
  ASSUME NEW b \in Bytes, NEW t \in Seq(Bytes), InText(7, t),
         NEW u \in Seq(Bytes), u = Append(t, b)
  PROVE  Answer(7, ActionOn(7, b), u)
<1> DEFINE a == ActionOn(7, b)
<1>1. Len(t) > 1 /\ t[1] = 91 /\ All(t, BodyFrom(t), Len(t), Numbers)
  BY DEF InText, Numbers
<1>2. /\ Len(t) \in Nat /\ Len(u) = Len(t) + 1 /\ u[Len(u)] = b
      /\ \A i \in 1..Len(t) : u[i] = t[i]
      /\ Unfinished(u) <=> IsCsiStart(u)
      /\ Finished(u) <=> b \in Final /\ IsCsiStart(t)
  <2>1. Len(t) > 0 /\ t[1] = 91
    BY <1>1
  <2> HIDE DEF a
  <2>2. Len(t) \in Nat /\ Len(u) = Len(t) + 1 /\ u[Len(u)] = b
    BY <2>1, CsiLonger
  <2>3. \A i \in 1..Len(t) : u[i] = t[i]
    BY <2>1, CsiLonger
  <2>4. Unfinished(u) <=> IsCsiStart(u)
    BY <2>1, CsiLonger
  <2>5. Finished(u) <=> (b \in Final /\ IsCsiStart(t))
    BY <2>1, CsiLonger
  <2> QED BY <2>2, <2>3, <2>4, <2>5
<1>3. \/ a = "errBadSeq" /\ b \notin Numbers \cup Intermediate \cup Final
      \/ a \in {"CSI_digit", "CSI_semi"} /\ b \in Numbers
      \/ a = "CSI_intermed" /\ b \in Intermediate
      \/ a = "CSI_end" /\ b \in Final
  <2>1. Edges(7) = {<<"CSI_digit", Digits>>, <<"CSI_semi", Only(SEMI)>>,
                    <<"CSI_intermed", Intermediate>>, <<"CSI_end", Final>>}
    BY DEF Edges, Only
  <2>2. /\ <<"CSI_digit", Digits>> \in Edges(7)
        /\ <<"CSI_semi", Only(SEMI)>> \in Edges(7) /\ <<"CSI_intermed", Intermediate>> \in Edges(7)
        /\ <<"CSI_end", Final>> \in Edges(7)
    BY <2>1
  <2>3. 7 \in 2..10
    OBVIOUS
  <2>4. a = "errBadSeq" => b \notin Digits \cup Only(SEMI) \cup Intermediate \cup Final
    BY <2>2, <2>3, ActionIs
  <2>5. a = "errBadSeq" \/ \E x \in Edges(7) : b \in x[2] /\ a = x[1]
    BY <2>3, ActionIs
  <2> HIDE DEF a
  <2>6. CASE \E x \in Edges(7) : b \in x[2] /\ a = x[1]
    <3> PICK x \in Edges(7) : b \in x[2] /\ a = x[1]
      BY <2>6
    <3> QED BY <2>1 DEF Only, Numbers
  <2> QED BY <2>4, <2>5, <2>6 DEF Only, Numbers
<1> HIDE DEF a
<1>4. BodyFrom(t) \in 2..3 /\ BodyFrom(u) = BodyFrom(t) /\ IsCsiStart(t)
  <2>1. BodyFrom(t) \in 2..3 /\ BodyFrom(u) = BodyFrom(t)
    BY <1>1, <1>2 DEF BodyFrom
  <2> QED BY <1>1, <2>1 DEF IsCsiStart, Numbers
<1>5. a = "errBadSeq" => ~Unfinished(u) /\ ~Finished(u)
  <2> SUFFICES ASSUME a = "errBadSeq" PROVE ~IsCsiStart(u) /\ b \notin Final
    BY <1>2
  <2>1. u[Len(u)] \notin Numbers /\ u[Len(u)] \notin Intermediate /\ b \notin Final
    BY <1>2, <1>3
  <2>2. Len(u) \in BodyFrom(u)..Len(u)
    BY <1>1, <1>2, <1>4
  <2> QED BY <2>1, <2>2 DEF IsCsiStart, All, Numbers
<1>6. /\ a \in {"CSI_digit", "CSI_semi"} => InText(7, u)
      /\ a = "CSI_intermed" => InText(6, u)
  BY <1>1, <1>2, <1>3, <1>4 DEF InText, All, Numbers
<1>7. a = "CSI_end" => Finished(u)
  BY <1>2, <1>3, <1>4
<1>Q. Answer(7, a, u)
  BY <1>3, <1>5, <1>6, <1>7 DEF Answer, Ends, Moves
<1> QED BY <1>Q DEF a

LEMMA InIntermediate ==
  ASSUME NEW b \in Bytes, NEW t \in Seq(Bytes), InText(6, t),
         NEW u \in Seq(Bytes), u = Append(t, b)
  PROVE  Answer(6, ActionOn(6, b), u)
<1> DEFINE a == ActionOn(6, b)
<1>1. /\ Len(t) > 1 /\ t[1] = 91 /\ Len(t) >= BodyFrom(t) /\ t[Len(t)] \in Intermediate
      /\ All(t, BodyFrom(t), Len(t) - 1, Numbers)
  BY DEF InText, Numbers
<1>2. /\ Len(t) \in Nat /\ Len(u) = Len(t) + 1 /\ u[Len(u)] = b
      /\ \A i \in 1..Len(t) : u[i] = t[i]
      /\ Unfinished(u) <=> IsCsiStart(u)
      /\ Finished(u) <=> b \in Final /\ IsCsiStart(t)
  <2>1. Len(t) > 0 /\ t[1] = 91
    BY <1>1
  <2> HIDE DEF a
  <2>2. Len(t) \in Nat /\ Len(u) = Len(t) + 1 /\ u[Len(u)] = b
    BY <2>1, CsiLonger
  <2>3. \A i \in 1..Len(t) : u[i] = t[i]
    BY <2>1, CsiLonger
  <2>4. Unfinished(u) <=> IsCsiStart(u)
    BY <2>1, CsiLonger
  <2>5. Finished(u) <=> (b \in Final /\ IsCsiStart(t))
    BY <2>1, CsiLonger
  <2> QED BY <2>2, <2>3, <2>4, <2>5
<1>3. \/ a = "errBadSeq" /\ b \notin Final
      \/ a = "CSI_end" /\ b \in Final
  <2>1. Edges(6) = {<<"CSI_end", Final>>} /\ <<"CSI_end", Final>> \in Edges(6)
    BY DEF Edges
  <2>2. 6 \in 2..10
    OBVIOUS
  <2>3. a = "errBadSeq" => b \notin Final
    BY <2>1, <2>2, ActionIs
  <2>4. a = "errBadSeq" \/ \E x \in Edges(6) : b \in x[2] /\ a = x[1]
    BY <2>2, ActionIs
  <2> HIDE DEF a
  <2> QED BY <2>1, <2>3, <2>4
<1> HIDE DEF a
<1>4. BodyFrom(t) \in 2..3 /\ BodyFrom(u) = BodyFrom(t) /\ IsCsiStart(t)
  <2>1. BodyFrom(t) \in 2..3 /\ BodyFrom(u) = BodyFrom(t)
    BY <1>1, <1>2 DEF BodyFrom
  <2> QED BY <1>1, <2>1 DEF IsCsiStart, Numbers
<1>5. ~IsCsiStart(u)
  <2>1. u[Len(t)] \notin Numbers
    BY <1>1, <1>2, CsiBytes
  <2>2. Len(t) \in BodyFrom(u)..Len(u) /\ Len(t) \in BodyFrom(u)..(Len(u) - 1)
    BY <1>1, <1>2, <1>4
  <2> QED BY <2>1, <2>2 DEF IsCsiStart, All, Numbers
<1>6. /\ a = "errBadSeq" => ~Unfinished(u) /\ ~Finished(u)
      /\ a = "CSI_end" => Finished(u)
  BY <1>2, <1>3, <1>4, <1>5
<1>Q. Answer(6, a, u)
  BY <1>3, <1>6 DEF Answer, Ends, Moves
<1> QED BY <1>Q DEF a

LEMMA Answers ==
  ASSUME NEW b \in Bytes, NEW t \in Seq(Bytes), NEW s \in 2..10, InText(s, t)
  PROVE  Answer(s, ActionOn(s, b), Append(t, b))
<1>1. Append(t, b) \in Seq(Bytes)
  BY Longer
<1>2. CASE s = 2
  <2>1. t = <<>> /\ Append(<<>>, b) = <<b>>
    BY <1>2 DEF InText
  <2> QED BY <1>2, <2>1, FromEscape
<1>3. CASE s \in {3, 4, 10}
  BY <1>3, InShort
<1>4. CASE s = 5
  BY <1>1, <1>4, InCsiFirst
<1>5. CASE s = 6
  BY <1>1, <1>5, InIntermediate
<1>6. CASE s = 7
  BY <1>1, <1>6, InNumbers
<1>7. CASE s \in {8, 9}
  BY <1>1, <1>7, InString
<1> QED BY <1>2, <1>3, <1>4, <1>5, <1>6, <1>7

LEMMA Begins ==
  ASSUME NEW t \in Seq(Bytes), NEW s \in 2..10, InText(s, t)
  PROVE  Unfinished(t)
<1>1. CASE s = 2
  BY <1>1 DEF InText, Unfinished
<1>2. CASE s \in {3, 4, 10}
  <2>1. t = <<32>> \/ t = <<35>> \/ (Len(t) = 1 /\ t[1] \in Slot)
    BY <1>2 DEF InText
  <2>2. Len(t) = 1 /\ t[1] \in Slot \cup {32, 35}
    BY <2>1
  <2> QED BY <2>2 DEF Unfinished
<1>3. CASE s = 5
  <2>1. t = <<91>> /\ Len(t) = 1
    BY <1>3 DEF InText
  <2>2. BodyFrom(t) = 2 /\ t[1] = 91
    BY <2>1 DEF BodyFrom
  <2>3. IsCsiStart(t)
    BY <2>1, <2>2 DEF IsCsiStart, All
  <2> QED BY <2>2, <2>3 DEF Unfinished
<1>4. CASE s \in {6, 7}
  <2>1. t[1] = 91 /\ IsCsiStart(t)
    BY <1>4 DEF InText, IsCsiStart
  <2> QED BY <2>1 DEF Unfinished
<1>5. CASE s = 8
  <2>1. t[1] \in StringStart /\ \A i \in 2..Len(t) : t[i] \notin {BEL, ESC}
    BY <1>5 DEF InText
  <2>2. IsStringStart(t)
    BY <2>1 DEF IsStringStart
  <2> QED BY <2>1, <2>2 DEF Unfinished
<1>6. CASE s = 9
  <2>1. /\ t[1] \in StringStart /\ t[Len(t)] = ESC
        /\ \A i \in 2..(Len(t) - 1) : t[i] \notin {BEL, ESC}
    BY <1>6 DEF InText
  <2>2. ESC # BEL
    BY DEF ESC, BEL
  <2>3. IsStringStart(t)
    BY <2>1, <2>2 DEF IsStringStart
  <2> QED BY <2>1, <2>3 DEF Unfinished
<1> QED BY <1>1, <1>2, <1>3, <1>4, <1>5, <1>6

-----------------------------------------------------------------------------
(* The machine keeps to the grammar.                                       *)

LEMMA MachineInit == Init => MachineInv
<1>1. InText(-1, <<>>) /\ OutRight(<<"none">>)
  BY DEF InText, OutRight, Sentences
<1> SUFFICES ASSUME Init PROVE MachineInv
  OBVIOUS
<1>2. cs = -1 /\ text = <<>> /\ out = <<"none">> /\ inside_string = FALSE /\ host \in Hosts
  BY DEF Init
<1>3. text \in Seq(Bytes) /\ cs \notin {8, 9} /\ cs \in {-1} \cup (1..10)
  BY <1>2
<1> QED BY <1>1, <1>2, <1>3 DEF MachineInv

LEMMA PlainRight ==
  ASSUME NEW b, Plain(b)
  PROVE  OutRight(out')
<1>1. Collect(utf, b).how \in {"good", "bad", "wait"}
  BY DEF Collect
<1>2. out'[1] = Collect(utf, b).how
  BY DEF Plain
<1> QED BY <1>1, <1>2 DEF OutRight, Sentences

LEMMA RagelKeeps ==
  ASSUME MachineInv, cs \in 2..10, NEW b \in Bytes, Ragel(b), host' = host
  PROVE  MachineInv'
<1> DEFINE a == ActionOn(cs, b)
<1>1. Answer(cs, a, Append(text, b)) /\ Append(text, b) \in Seq(Bytes)
  BY Answers, Longer DEF MachineInv
<1> HIDE DEF a
<1>2. CASE a = "errBadSeq" \/ a \in Ends
  <2>1. /\ cs' = 1 /\ text' = <<>>
        /\ a = "errBadSeq" => out' = <<"error", Append(text, b)>>
        /\ a \in Ends => out'[1] \in Sentences /\ out'[2] = Append(text, b)
        /\ a \in {"errBadSeq", "StrCmd_end"} => inside_string' = FALSE
        /\ a \notin {"errBadSeq", "StrCmd_end"} => inside_string' = inside_string
    BY <1>2 DEF Ragel, a, Off, Ends, Sentences, LeaveString, Whole, ansi_start
  <2>2. inside_string' = FALSE
    BY <1>1, <1>2, <2>1 DEF Answer, MachineInv, Ends
  <2>3. OutRight(out')
    <3>1. CASE a = "errBadSeq"
      <4>1. out'[1] = "error" /\ out'[2] = Append(text, b) /\ out'[1] \notin Sentences
        BY <3>1, <2>1 DEF Sentences
      <4> QED BY <1>1, <3>1, <4>1 DEF Answer, OutRight
    <3>2. CASE a \in Ends
      <4>1. out'[1] \in Sentences /\ out'[1] # "error" /\ out'[2] = Append(text, b)
        BY <3>2, <2>1 DEF Sentences
      <4> QED BY <1>1, <3>2, <4>1 DEF Answer, OutRight
    <3> QED BY <1>2, <3>1, <3>2
  <2>4. InText(1, <<>>)
    BY DEF InText
  <2>5. cs' \in {-1} \cup (1..10) /\ cs' \notin {8, 9} /\ text' \in Seq(Bytes) /\ InText(cs', text')
    BY <2>1, <2>4
  <2> QED BY <2>2, <2>3, <2>5 DEF MachineInv
<1>3. ASSUME NEW m \in Moves, a = m[1]
      PROVE  MachineInv'
  <2>1. /\ cs' = m[2] /\ text' = Append(text, b) /\ out' = <<"none">>
        /\ a = "StrCmd_start" => inside_string' = TRUE
        /\ a # "StrCmd_start" => inside_string' = inside_string
    BY <1>3 DEF Ragel, a, On, Moves
  <2>2. InText(cs', text')
    BY <1>1, <1>3, <2>1 DEF Answer
  <2>3. inside_string' \in BOOLEAN /\ (inside_string' <=> cs' \in {8, 9})
    <3>1. CASE a = "StrCmd_start"
      BY <3>1, <1>3, <2>1 DEF Moves
    <3>2. CASE a \in {"StrCmd_char", "StrCmd_ST"}
      BY <3>2, <1>1, <1>3, <2>1 DEF Answer, MachineInv, Moves
    <3>3. CASE a \notin {"StrCmd_start", "StrCmd_char", "StrCmd_ST"}
      <4>1. m[2] \notin {8, 9} /\ a \notin {"errBadSeq", "StrCmd_end"}
        BY <1>3, <3>3 DEF Moves
      <4>2. cs \notin {8, 9}
        BY <1>1, <3>3, <4>1 DEF Answer
      <4> QED BY <2>1, <3>3, <4>1, <4>2 DEF MachineInv
    <3> QED BY <3>1, <3>2, <3>3
  <2>4. OutRight(out')
    BY <2>1 DEF OutRight, Sentences
  <2> QED BY <1>1, <2>1, <2>2, <2>3, <2>4 DEF MachineInv, Moves
<1> QED BY <1>1, <1>2, <1>3 DEF Answer

LEMMA MachineStays ==
  ASSUME MachineInv, UNCHANGED machine, host' = host, OutRight(out')
  PROVE  MachineInv'
BY DEF MachineInv, machine

LEMMA MachineReset ==
  ASSUME MachineInv, Reset, host' = host, out' = <<"none">>
  PROVE  MachineInv'
<1>1. OutRight(out')
  BY DEF OutRight, Sentences
<1>2. CASE cs = 1
  <2>1. UNCHANGED machine
    BY <1>2 DEF Reset, ansi_start
  <2> QED BY <1>1, <2>1, MachineStays
<1>3. CASE cs # 1
  <2>1. cs' = 1 /\ text' = <<>> /\ inside_string' = FALSE
    BY <1>3 DEF Reset, ansi_start
  <2>2. InText(1, <<>>)
    BY DEF InText
  <2>3. cs' \notin {8, 9} /\ cs' \in {-1} \cup (1..10) /\ text' \in Seq(Bytes) /\ InText(cs', text')
    BY <2>1, <2>2
  <2> QED BY <1>1, <2>1, <2>3 DEF MachineInv
<1> QED BY <1>2, <1>3

LEMMA ControlRight ==
  ASSUME NEW b, Control(b)
  PROVE  UNCHANGED machine /\ OutRight(out')
<1>1. CASE b \in {FF, VT, CR, LF, BS} /\ Plain(IF b \in {FF, VT} THEN LF ELSE b)
  <2>1. UNCHANGED machine
    BY <1>1 DEF Control, FF, VT, CR, LF, BS, ENQ
  <2> QED BY <1>1, <2>1, PlainRight
<1>2. CASE b = ENQ /\ ~enq
  <2>1. UNCHANGED machine /\ out' = <<"answerback">>
    BY <1>2 DEF Control, FF, VT, CR, LF, BS, ENQ
  <2> QED BY <2>1 DEF OutRight, Sentences
<1>3. CASE b \notin {FF, VT, CR, LF, BS} /\ ~(b = ENQ /\ ~enq)
  <2>1. UNCHANGED machine
    BY <1>3 DEF Control
  <2>2. out' = CASE b = TAB -> <<"tab">> [] b = SI -> <<"shift", 0>>
                 [] b = SO -> <<"shift", 1>> [] b = BEL -> <<"bell">>
                 [] OTHER -> <<"none">>
    BY <1>3 DEF Control
  <2>3. out'[1] \in {"tab", "shift", "bell", "none"}
    BY <2>2
  <2> QED BY <2>1, <2>3 DEF OutRight, Sentences
<1> QED BY <1>1, <1>2, <1>3 DEF Control

LEMMA ParseKeeps ==
  ASSUME Cancels = FALSE, MachineInv, NEW b \in Bytes, Parse(b), host' = host
  PROVE  MachineInv'
<1>1. CASE b \in {CAN, SUB}
  <2>1. cs' = 1 /\ text' = <<>> /\ out' = <<"none">> /\ inside_string' = FALSE
    BY <1>1 DEF Parse, Cancel, Off, ansi_start, MachineInv
  <2>2. InText(1, <<>>) /\ OutRight(<<"none">>)
    BY DEF InText, OutRight, Sentences
  <2>3. cs' \notin {8, 9} /\ cs' \in {-1} \cup (1..10) /\ text' \in Seq(Bytes) /\ InText(cs', text')
    BY <2>1, <2>2
  <2> QED BY <2>1, <2>2, <2>3 DEF MachineInv
<1>2. CASE b \notin {CAN, SUB} /\ b < 32 /\ ~inside_string /\ b = ESC
  <2>1. cs' = 2 /\ text' = <<>> /\ out' = <<"none">> /\ inside_string' = inside_string
    BY <1>2 DEF Parse, Escape
  <2>2. InText(2, <<>>) /\ OutRight(<<"none">>)
    BY DEF InText, OutRight, Sentences
  <2>3. cs' \notin {8, 9} /\ cs' \in {-1} \cup (1..10) /\ text' \in Seq(Bytes) /\ InText(cs', text')
    BY <2>1, <2>2
  <2> QED BY <1>2, <2>1, <2>2, <2>3 DEF MachineInv
<1>3. CASE b \notin {CAN, SUB} /\ b < 32 /\ ~inside_string /\ b # ESC
  <2>1. Control(b)
    BY <1>3 DEF Parse
  <2> QED BY <2>1, ControlRight, MachineStays
<1>4. CASE b \notin {CAN, SUB} /\ ~(b < 32 /\ ~inside_string) /\ cs \in {-1, 1} /\ b >= 32
  <2>1. Plain(b) /\ cs' = 1 /\ UNCHANGED <<inside_string, text>>
    BY <1>4 DEF Parse, ansi_start
  <2>2. text = <<>> /\ InText(1, <<>>)
    BY <1>4 DEF MachineInv, InText
  <2>3. cs' \notin {8, 9} /\ cs' \in {-1} \cup (1..10) /\ text' \in Seq(Bytes) /\ InText(cs', text')
    BY <2>1, <2>2 DEF MachineInv
  <2>4. OutRight(out')
    BY <2>1, PlainRight
  <2>5. ~inside_string /\ ~inside_string'
    BY <1>4, <2>1 DEF MachineInv
  <2> QED BY <2>1, <2>3, <2>4, <2>5 DEF MachineInv
<1>5. CASE b \notin {CAN, SUB} /\ ~(b < 32 /\ ~inside_string) /\ ~(cs \in {-1, 1} /\ b >= 32)
  <2>1. Ragel(b)
    BY <1>5 DEF Parse, ansi_start
  <2>2. cs \in 2..10
    BY <1>5 DEF MachineInv, Bytes
  <2> QED BY <2>1, <2>2, RagelKeeps
<1> QED BY <1>1, <1>2, <1>3, <1>4, <1>5 DEF Bytes

LEMMA MachineStep ==
  ASSUME Cancels = FALSE, MachineInv, [Next]_vars
  PROVE  MachineInv'
<1>none. OutRight(<<"none">>)
  BY DEF OutRight, Sentences
<1>1. ASSUME NEW b \in host.bytes, Byte(b)
      PROVE  MachineInv'
  <2>1. b \in Bytes
    BY ParserAssumption DEF MachineInv, Bytes
  <2>2. host' = host
    BY <1>1 DEF Byte
  <2>3. CASE inhibit
    <3>1. UNCHANGED machine /\ out' = <<"none">>
      BY <1>1, <2>3 DEF Byte
    <3> QED BY <1>none, <2>2, <3>1, MachineStays
  <2>4. CASE ~inhibit /\ debug
    <3>1. UNCHANGED machine /\ Plain(b)
      BY <1>1, <2>4 DEF Byte
    <3> QED BY <2>2, <3>1, PlainRight, MachineStays
  <2>5. CASE ~inhibit /\ ~debug
    <3>1. Parse(b)
      BY <1>1, <2>5 DEF Byte
    <3> QED BY <2>1, <2>2, <3>1, ParseKeeps
  <2> QED BY <2>3, <2>4, <2>5
<1>2. CASE TimerTick
  <2>1. host' = host /\ out' = <<"none">> /\ (Reset \/ UNCHANGED machine)
    BY <1>2 DEF TimerTick
  <2> QED BY <1>none, <2>1, MachineStays, MachineReset
<1>3. CASE ResetScreen
  BY <1>3, MachineReset DEF ResetScreen
<1>4. CASE UserStart \/ EnqTimer \/ SetDebug
  <2>1. host' = host /\ out' = <<"none">> /\ UNCHANGED machine
    BY <1>4 DEF UserStart, EnqTimer, SetDebug
  <2> QED BY <1>none, <2>1, MachineStays
<1>5. CASE UNCHANGED vars
  <2>1. host' = host /\ out' = out /\ UNCHANGED machine
    BY <1>5 DEF vars, machine
  <2> QED BY <2>1, MachineStays DEF MachineInv
<1> QED BY <1>1, <1>2, <1>3, <1>4, <1>5 DEF Next

(* A host that cancels no string finds the parser inside a sequence only   *)
(* while what it sent is the beginning of one; what is carried out is a    *)
(* sentence of the grammar, what is refused could not have become one, and *)
(* the flag beside the machine is up exactly inside a string: with any     *)
(* bytes, time-outs, resets and debugging between them.                    *)
THEOREM KeepsTheGrammar == ASSUME Cancels = FALSE PROVE Spec => []GrammarKept
<1>1. Init => MachineInv
  BY MachineInit
<1>2. MachineInv /\ [Next]_vars => MachineInv'
  BY MachineStep
<1>3. MachineInv => GrammarKept
  <2> SUFFICES ASSUME MachineInv PROVE GrammarKept
    OBVIOUS
  <2>1. cs \in 2..10 => Unfinished(text)
    BY Begins DEF MachineInv
  <2> QED BY <2>1 DEF MachineInv, OutRight, Sentences, GrammarKept
<1> QED BY <1>1, <1>2, <1>3, PTL DEF Spec

-----------------------------------------------------------------------------
(* What is shown as a character is one.                                    *)

(* Byte c begins a character of n.                                         *)
Leads(c, n) ==
  \/ c \in 194..223 /\ n = 2
  \/ c \in 224..239 /\ n = 3
  \/ c \in 240..244 /\ n = 4

(* The collector holds the beginning of a character, and how long it is.   *)
Collecting(u) ==
  \/ u = NoBytes
  \/ /\ u = [bytes |-> u.bytes, len |-> u.len]
     /\ u.bytes \in Seq(Bytes)
     /\ Len(u.bytes) > 0 /\ Len(u.bytes) < u.len
     /\ Leads(u.bytes[1], u.len)
     /\ \A i \in 2..Len(u.bytes) : u.bytes[i] \in 128..191
ShownRight(o) ==
  /\ o[1] = "good" => WellFormed(o[2])
  /\ o[1] = "bad" => ~WellFormed(o[2])
CharInv == host \in Hosts /\ Collecting(utf) /\ ShownRight(out)

(* The last byte of a character decides.                                   *)
LEMMA Lengths ==
  ASSUME NEW c \in Bytes, LengthFrom(c) # 0
  PROVE  Leads(c, LengthFrom(c))
BY DEF LengthFrom, Leads, Bytes

LEMMA Whether ==
  ASSUME NEW b, Leads(b[1], Len(b)), \A i \in 2..Len(b) : b[i] \in 128..191
  PROVE  Malformed(b) <=> ~WellFormed(b)
<1>1. CASE b[1] \in 194..223 /\ Len(b) = 2
  BY <1>1 DEF Malformed, WellFormed
<1>2. CASE b[1] \in 224..239 /\ Len(b) = 3
  <2>1. b[2] \in 128..191 /\ b[3] \in 128..191
    BY <1>2
  <2> QED BY <1>2, <2>1 DEF Malformed, WellFormed
<1>3. CASE b[1] \in 240..244 /\ Len(b) = 4
  <2>1. b[2] \in 128..191 /\ b[3] \in 128..191 /\ b[4] \in 128..191
    BY <1>3
  <2> QED BY <1>3, <2>1 DEF Malformed, WellFormed
<1> QED BY <1>1, <1>2, <1>3 DEF Leads

LEMMA Few ==
  ASSUME NEW c, NEW n, Leads(c, n), NEW k \in Nat, k > 0, k < n
  PROVE  n \in 2..4 /\ k \in 1..3
BY DEF Leads

LEMMA Broken ==
  ASSUME NEW b, Len(b) \in 2..4, b[Len(b)] \notin 128..191
  PROVE  ~WellFormed(b)
<1>1. CASE Len(b) = 2
  BY <1>1 DEF WellFormed
<1>2. CASE Len(b) = 3
  BY <1>2 DEF WellFormed
<1>3. CASE Len(b) = 4
  BY <1>3 DEF WellFormed
<1> QED BY <1>1, <1>2, <1>3

(* One byte more.                                                          *)
LEMMA OneMore ==
  ASSUME NEW t \in Seq(Bytes), NEW n, Leads(t[1], n), Len(t) > 0, Len(t) < n,
         \A i \in 2..Len(t) : t[i] \in 128..191,
         NEW c \in Bytes, NEW b \in Seq(Bytes), b = Append(t, c)
  PROVE  /\ ~Continues(c) => ~WellFormed(b)
         /\ Continues(c) /\ Len(b) < n => Collecting([bytes |-> b, len |-> n])
         /\ Continues(c) /\ ~(Len(b) < n) => (Malformed(b) <=> ~WellFormed(b))
<1>1. n \in 2..4 /\ Len(t) \in 1..3
  <2>1. Len(t) \in Nat
    OBVIOUS
  <2> QED BY <2>1, Few
<1>2. Len(b) = Len(t) + 1 /\ b[Len(b)] = c
  BY Longer
<1>3. \A i \in 1..Len(t) : b[i] = t[i]
  BY Longer
<1>4. b[1] = t[1]
  BY <1>1, <1>3
<1>5. CASE ~Continues(c)
  <2>1. c \notin 128..191
    BY <1>5 DEF Continues
  <2>2. Len(b) \in 2..4
    BY <1>1, <1>2
  <2>3. ~WellFormed(b)
    BY <1>2, <2>1, <2>2, Broken
  <2> QED BY <1>5, <2>3
<1>6. CASE Continues(c)
  <2>1. c \in 128..191
    BY <1>6 DEF Continues
  <2>2. \A i \in 2..Len(b) : b[i] \in 128..191
    <3> SUFFICES ASSUME NEW i \in 2..Len(b) PROVE b[i] \in 128..191
      OBVIOUS
    <3>1. i = Len(b) \/ (i \in 1..Len(t) /\ i \in 2..Len(t))
      BY <1>1, <1>2
    <3> QED BY <1>2, <1>3, <2>1, <3>1
  <2>3. ASSUME Len(b) < n PROVE Collecting([bytes |-> b, len |-> n])
    <3> DEFINE v == [bytes |-> b, len |-> n]
    <3>1. v.bytes = b /\ v.len = n /\ v = [bytes |-> v.bytes, len |-> v.len]
      OBVIOUS
    <3>2. Len(b) > 0
      BY <1>1, <1>2
    <3> HIDE DEF v
    <3>3. Collecting(v)
      BY <1>4, <2>2, <2>3, <3>1, <3>2 DEF Collecting
    <3> QED BY <3>3 DEF v
  <2>4. ASSUME ~(Len(b) < n) PROVE Malformed(b) <=> ~WellFormed(b)
    <3>1. Len(b) = n
      BY <1>1, <1>2, <2>4
    <3> QED BY <1>4, <2>2, <3>1, Whether
  <2> QED BY <1>6, <2>3, <2>4
<1> QED BY <1>5, <1>6

(* The collector after a byte, and what is shown for it.                   *)
Fine(r) ==
  /\ Collecting(r.utf)
  /\ r.how = "good" => WellFormed(r.glyph)
  /\ r.how = "bad" => ~WellFormed(r.glyph)

LEMMA FineCases ==
  ASSUME NEW r, NEW b
  PROVE  /\ r = [utf |-> NoBytes, how |-> "good", glyph |-> b] /\ WellFormed(b) => Fine(r)
         /\ r = [utf |-> NoBytes, how |-> "bad", glyph |-> b] /\ ~WellFormed(b) => Fine(r)
         /\ \A n : r = [utf |-> [bytes |-> b, len |-> n], how |-> "wait", glyph |-> <<>>]
                     /\ Collecting([bytes |-> b, len |-> n]) => Fine(r)
<1>1. Collecting(NoBytes)
  BY DEF Collecting
<1> QED BY <1>1 DEF Fine

LEMMA Collected ==
  ASSUME NEW u, Collecting(u), NEW c \in Bytes
  PROVE  Fine(Collect(u, c))
<1> DEFINE r == Collect(u, c)  b == Append(u.bytes, c)
<1>0. c \in 0..255
  BY DEF Bytes
<1>1. CASE c < 128
  <2>1. ~(c >= 128)
    BY <1>0, <1>1
  <2>2. r = [utf |-> NoBytes, how |-> "good", glyph |-> <<c>>]
    BY <1>1, <2>1, Zenon DEF Collect
  <2>3. WellFormed(<<c>>)
    BY <1>0, <1>1 DEF WellFormed
  <2> HIDE DEF r
  <2>4. Fine(r)
    BY <2>2, <2>3, FineCases
  <2> QED BY <2>4 DEF r
<1>2. CASE c >= 128 /\ u = NoBytes
  <2>1. b = <<c>> /\ u.len = 0 /\ ~(u.len > 0) /\ ~(c < 128)
    BY <1>0, <1>2 DEF NoBytes
  <2>2. CASE LengthFrom(c) = 0
    <3>1. r = [utf |-> NoBytes, how |-> "bad", glyph |-> b]
      BY <1>2, <2>1, <2>2, Zenon DEF Collect
    <3>2. ~WellFormed(b)
      BY <1>0, <1>2, <2>1 DEF WellFormed
    <3> HIDE DEF r, b
    <3>3. Fine(r)
      BY <3>1, <3>2, FineCases
    <3> QED BY <3>3 DEF r
  <2>3. CASE LengthFrom(c) # 0
    <3>1. r = [utf |-> [bytes |-> b, len |-> LengthFrom(c)], how |-> "wait", glyph |-> <<>>]
      BY <1>2, <2>1, <2>3, Zenon DEF Collect
    <3>2. /\ <<c>> \in Seq(Bytes) /\ Len(<<c>>) = 1 /\ <<c>>[1] = c
          /\ Leads(c, LengthFrom(c)) /\ LengthFrom(c) > 1
      BY <1>0, <2>3, Lengths DEF Leads
    <3>3. Collecting([bytes |-> b, len |-> LengthFrom(c)])
      <4> DEFINE v == [bytes |-> b, len |-> LengthFrom(c)]
      <4>1. v.bytes = <<c>> /\ v.len = LengthFrom(c) /\ v = [bytes |-> v.bytes, len |-> v.len]
        BY <2>1
      <4> HIDE DEF v
      <4>2. Collecting(v)
        BY <3>2, <4>1 DEF Collecting
      <4> QED BY <4>2 DEF v
    <3> HIDE DEF r, b
    <3>4. Fine(r)
      BY <3>1, <3>3, FineCases
    <3> QED BY <3>4 DEF r
  <2> QED BY <2>2, <2>3
<1>3. CASE c >= 128 /\ u # NoBytes
  <2> DEFINE t == u.bytes  n == u.len
  <2>1. /\ t \in Seq(Bytes) /\ Len(t) > 0 /\ Len(t) < n
        /\ Leads(t[1], n)
        /\ \A i \in 2..Len(t) : t[i] \in 128..191
    BY <1>3 DEF Collecting
  <2>2. n \in 2..4
    BY <2>1 DEF Leads
  <2>3. ~(u.len = 0) /\ u.len > 0 /\ ~(c < 128)
    BY <1>0, <1>3, <2>2
  <2>4. b \in Seq(Bytes)
    BY <2>1, Longer
  <2>5. CASE ~Continues(c)
    <3>1. r = [utf |-> NoBytes, how |-> "bad", glyph |-> b]
      BY <1>3, <2>3, <2>5, Zenon DEF Collect
    <3>2. ~WellFormed(b)
      BY <2>1, <2>4, <2>5, OneMore
    <3> HIDE DEF r, b
    <3>3. Fine(r)
      BY <3>1, <3>2, FineCases
    <3> QED BY <3>3 DEF r
  <2>6. CASE Continues(c) /\ Len(b) < n
    <3>1. r = [utf |-> [bytes |-> b, len |-> n], how |-> "wait", glyph |-> <<>>]
      BY <1>3, <2>3, <2>6, Zenon DEF Collect
    <3>2. Collecting([bytes |-> b, len |-> n])
      BY <2>1, <2>4, <2>6, OneMore
    <3> HIDE DEF r, b, n
    <3>3. Fine(r)
      BY <3>1, <3>2, FineCases
    <3> QED BY <3>3 DEF r
  <2>7. CASE Continues(c) /\ ~(Len(b) < n)
    <3>1. r = [utf |-> NoBytes, how |-> IF Malformed(b) THEN "bad" ELSE "good", glyph |-> b]
      BY <1>3, <2>3, <2>7, Zenon DEF Collect
    <3>2. Malformed(b) <=> ~WellFormed(b)
      BY <2>1, <2>4, <2>7, OneMore
    <3> HIDE DEF r, b
    <3>3. CASE Malformed(b)
      <4>1. r = [utf |-> NoBytes, how |-> "bad", glyph |-> b] /\ ~WellFormed(b)
        BY <3>1, <3>2, <3>3
      <4> QED BY <4>1, FineCases DEF r
    <3>4. CASE ~Malformed(b)
      <4>1. r = [utf |-> NoBytes, how |-> "good", glyph |-> b] /\ WellFormed(b)
        BY <3>1, <3>2, <3>4
      <4> QED BY <4>1, FineCases DEF r
    <3> QED BY <3>3, <3>4
  <2> QED BY <2>5, <2>6, <2>7
<1>4. c < 128 \/ c >= 128
  BY <1>0
<1> QED BY <1>1, <1>2, <1>3, <1>4

LEMMA Quiet ==
  ASSUME out'[1] \notin {"good", "bad"}
  PROVE  ShownRight(out')
BY DEF ShownRight

LEMMA PlainShows ==
  ASSUME Collecting(utf), NEW b \in Bytes, Plain(b)
  PROVE  Collecting(utf') /\ ShownRight(out')
<1> DEFINE r == Collect(utf, b)
<1>1. Fine(r)
  BY Collected
<1>2. utf' = r.utf /\ out' = <<r.how, r.glyph>>
  BY DEF Plain
<1> HIDE DEF r
<1> QED BY <1>1, <1>2 DEF Fine, ShownRight

LEMMA ParseShows ==
  ASSUME Collecting(utf), NEW b \in Bytes, Parse(b)
  PROVE  Collecting(utf') /\ ShownRight(out')
<1>0. LF \in Bytes
  BY DEF LF, Bytes
<1>1. CASE Cancel \/ Escape
  <2>1. utf' = utf /\ out' = <<"none">>
    BY <1>1 DEF Cancel, Escape, Off
  <2> QED BY <2>1, Quiet
<1>2. CASE Control(b)
  <2>1. CASE b \in {FF, VT, CR, LF, BS} /\ Plain(IF b \in {FF, VT} THEN LF ELSE b)
    BY <1>0, <2>1, PlainShows
  <2>2. CASE b = ENQ /\ ~enq
    <3>1. utf' = utf /\ out' = <<"answerback">>
      BY <1>2, <2>2 DEF Control, FF, VT, CR, LF, BS, ENQ
    <3> QED BY <3>1, Quiet
  <2>3. CASE b \notin {FF, VT, CR, LF, BS} /\ ~(b = ENQ /\ ~enq)
    <3>1. utf' = utf
      BY <1>2, <2>3 DEF Control
    <3>2. out' = CASE b = TAB -> <<"tab">> [] b = SI -> <<"shift", 0>>
                   [] b = SO -> <<"shift", 1>> [] b = BEL -> <<"bell">>
                   [] OTHER -> <<"none">>
      BY <1>2, <2>3 DEF Control
    <3>3. out'[1] \in {"tab", "shift", "bell", "none"}
      BY <3>2
    <3> QED BY <3>1, <3>3, Quiet
  <2> QED BY <1>2, <2>1, <2>2, <2>3 DEF Control
<1>3. CASE Plain(b)
  BY <1>3, PlainShows
<1>4. CASE Ragel(b)
  <2>1. \/ Plain(b)
        \/ utf' = utf /\ out'[1] \in {"error", "none", "csi", "string", "short", "hash",
                                       "space", "charset"}
    BY <1>4 DEF Ragel, On, Off, LeaveString
  <2> QED BY <2>1, PlainShows, Quiet
<1> QED BY <1>1, <1>2, <1>3, <1>4 DEF Parse

(* What is shown as a character is well-formed UTF-8, and what is shown as *)
(* bad is not, whatever bytes, resets, time-outs and debugging come.       *)
THEOREM ShowsCharacters == Spec => []CharactersRight
<1>1. Init => CharInv
  <2> SUFFICES ASSUME Init PROVE CharInv
    OBVIOUS
  <2>1. host \in Hosts /\ utf = NoBytes /\ out = <<"none">>
    BY DEF Init
  <2> QED BY <2>1 DEF CharInv, Collecting, ShownRight
<1>2. CharInv /\ [Next]_vars => CharInv'
  <2> SUFFICES ASSUME CharInv, [Next]_vars PROVE CharInv'
    OBVIOUS
  <2>0. host \in Hosts /\ Collecting(utf) /\ Collecting(NoBytes) /\ host' = host
    <3>1. host' = host
      BY DEF Next, Byte, TimerTick, ResetScreen, UserStart, EnqTimer, SetDebug, vars
    <3> QED BY <3>1 DEF CharInv, Collecting
  <2>1. ASSUME NEW b \in host.bytes, Byte(b) PROVE CharInv'
    <3>1. b \in Bytes
      BY <2>0, ParserAssumption DEF Bytes
    <3>2. CASE inhibit
      <4>1. utf' = utf /\ out' = <<"none">>
        BY <2>1, <3>2 DEF Byte
      <4> QED BY <2>0, <4>1, Quiet DEF CharInv
    <3>3. CASE ~inhibit
      <4>1. Plain(b) \/ Parse(b)
        BY <2>1, <3>3 DEF Byte
      <4> QED BY <2>0, <3>1, <4>1, PlainShows, ParseShows DEF CharInv
    <3> QED BY <3>2, <3>3
  <2>2. CASE TimerTick \/ ResetScreen \/ UserStart \/ EnqTimer \/ SetDebug
    <3>1. out' = <<"none">> /\ utf' \in {utf, NoBytes}
      BY <2>2 DEF TimerTick, ResetScreen, UserStart, EnqTimer, SetDebug, Reset
    <3> QED BY <2>0, <3>1, Quiet DEF CharInv
  <2>3. CASE UNCHANGED vars
    BY <2>3 DEF vars, CharInv
  <2> QED BY <2>1, <2>2, <2>3 DEF Next
<1>3. CharInv => CharactersRight
  BY DEF CharInv, ShownRight, CharactersRight
<1> QED BY <1>1, <1>2, <1>3, PTL DEF Spec

-----------------------------------------------------------------------------
(* The numbers of a sequence.                                              *)

(* f reads the number that begins at i, up to each place of the first n.   *)
Reads(f, t, i, n) ==
  /\ f \in [0..n -> Int]
  /\ \A k \in 0..n : f[k] = IF k < i THEN 0 ELSE 10 * f[k - 1] + (t[k] - 48)

LEMMA DigitOffset ==
  ASSUME NEW c \in Bytes
  PROVE  c - 48 \in Int
BY DEF Bytes

LEMMA NumberRead ==
  ASSUME NEW t \in Seq(Bytes), NEW i \in Nat \ {0}, NEW n \in 0..Len(t)
  PROVE  \E f : Reads(f, t, i, n) /\ NumberAt(t, i, n) = f[n]
<1> DEFINE d == [k \in Nat |-> IF k \in 1..Len(t) THEN t[k] - 48 ELSE 0]
           F == [k \in Nat |-> [x \in Int |-> IF k < i THEN 0 ELSE 10 * x + d[k]]]
           f[k \in 0..n] == IF k < i THEN 0 ELSE 10 * f[k - 1] + (t[k] - 48)
<1>0. \A k \in 1..Len(t) : t[k] - 48 \in Int
  <2> SUFFICES ASSUME NEW k \in 1..Len(t) PROVE t[k] - 48 \in Int
    OBVIOUS
  <2>1. t[k] \in Bytes
    OBVIOUS
  <2> QED BY <2>1, DigitOffset
<1>1. n \in Nat /\ Len(t) \in Nat /\ d \in [Nat -> Int]
  BY <1>0
<1>2. F \in [Nat -> [Int -> Int]]
  <2> HIDE DEF d
  <2> QED BY <1>1
<1>3. \A k \in 1..n : d[k] = t[k] - 48
  BY <1>1
<1> HIDE DEF d
<1>4. PICK h : IsRunTo(h, n, Int, 0, F)
  <2> HIDE DEF F
  <2>1. 0 \in Int
    OBVIOUS
  <2> QED BY <1>1, <1>2, <2>1, Recursion
<1>5. h \in [0..n -> Int]
  BY <1>4 DEF IsRunTo
<1>6. \A k \in 0..n : h[k] = IF k < i THEN 0 ELSE 10 * h[k - 1] + (t[k] - 48)
  <2> SUFFICES ASSUME NEW k \in 0..n
               PROVE  h[k] = IF k < i THEN 0 ELSE 10 * h[k - 1] + (t[k] - 48)
    OBVIOUS
  <2>1. CASE k = 0
    BY <1>4, <2>1 DEF IsRunTo
  <2>2. CASE k # 0
    <3>1. k \in 1..n /\ k \in Nat /\ h[k - 1] \in Int /\ d[k] = t[k] - 48
      BY <1>1, <1>3, <1>5, <2>2
    <3>2. h[k] = F[k][h[k - 1]]
      BY <1>4, <3>1 DEF IsRunTo
    <3> QED BY <3>1, <3>2
  <2> QED BY <2>1, <2>2
<1>7. h = [k \in 0..n |-> IF k < i THEN 0 ELSE 10 * h[k - 1] + (t[k] - 48)]
  BY <1>5, <1>6
<1>8. f = [k \in 0..n |-> IF k < i THEN 0 ELSE 10 * f[k - 1] + (t[k] - 48)]
  <2> HIDE DEF F
  <2> QED BY <1>7, Zenon
<1>9. NumberAt(t, i, n) = f[n]
  BY DEF NumberAt
<1> HIDE DEF f, F
<1>10. f \in [0..n -> Int]
  <2>1. ASSUME NEW k \in 0..n PROVE f[k] \in Int
    <3> DEFINE T == {m \in 0..n : f[m] \in Int}
    <3>1. 0 \in T
      BY <1>1, <1>8
    <3>2. \A m \in 1..n : m - 1 \in T => m \in T
      <4> SUFFICES ASSUME NEW m \in 1..n, m - 1 \in T PROVE m \in T
        OBVIOUS
      <4>1. t[m] - 48 \in Int /\ f[m - 1] \in Int /\ m \in 0..n
        BY <1>0, <1>1
      <4>2. f[m] = IF m < i THEN 0 ELSE 10 * f[m - 1] + (t[m] - 48)
        BY <1>8, <4>1
      <4> QED BY <4>1, <4>2
    <3> HIDE DEF T
    <3>3. k \in T
      BY <1>1, <3>1, <3>2, TurnByTurn
    <3> QED BY <3>3 DEF T
  <2> QED BY <1>8, <2>1
<1>11. Reads(f, t, i, n)
  BY <1>8, <1>10 DEF Reads
<1> QED BY <1>9, <1>11

(* What is read depends on what was before.                                *)
LEMMA ReadsSame ==
  ASSUME NEW t \in Seq(Bytes), NEW u \in Seq(Bytes), NEW i \in Nat \ {0},
         NEW n \in Nat, NEW m \in Nat, NEW f, NEW g,
         n <= m, Reads(f, t, i, n), Reads(g, u, i, m), \A k \in 1..n : t[k] = u[k]
  PROVE  \A k \in 0..n : f[k] = g[k]
<1> DEFINE T == {k \in 0..n : f[k] = g[k]}
<1>1. 0 \in T
  BY DEF Reads
<1>2. \A k \in 1..n : k - 1 \in T => k \in T
  <2> SUFFICES ASSUME NEW k \in 1..n, k - 1 \in T PROVE k \in T
    OBVIOUS
  <2>1. k \in 0..n /\ k \in 0..m /\ t[k] = u[k] /\ f[k - 1] = g[k - 1]
    OBVIOUS
  <2> QED BY <2>1 DEF Reads
<1> HIDE DEF T
<1>3. \A k \in 0..n : k \in T
  BY <1>1, <1>2, TurnByTurn
<1> QED BY <1>3 DEF T

(* Digits make a number.                                                   *)
LEMMA NumberIsNat ==
  ASSUME NEW t \in Seq(Bytes), NEW i \in Nat \ {0}, NEW n \in 0..Len(t), All(t, i, n, Digits)
  PROVE  NumberAt(t, i, n) \in Nat
<1>1. PICK f : Reads(f, t, i, n) /\ NumberAt(t, i, n) = f[n]
  BY NumberRead
<1> DEFINE T == {k \in 0..n : f[k] \in Nat}
<1>2. 0 \in T
  BY <1>1 DEF Reads
<1>3. \A k \in 1..n : k - 1 \in T => k \in T
  <2> SUFFICES ASSUME NEW k \in 1..n, k - 1 \in T PROVE k \in T
    OBVIOUS
  <2>1. k \in 0..n /\ f[k - 1] \in Nat /\ f[k] = IF k < i THEN 0 ELSE 10 * f[k - 1] + (t[k] - 48)
    BY <1>1 DEF Reads
  <2>2. k < i \/ t[k] - 48 \in Nat
    <3>1. k < i \/ k \in i..n
      OBVIOUS
    <3>2. k \in i..n => t[k] \in 48..57
      BY DEF All, Digits
    <3> QED BY <3>1, <3>2
  <2>3. f[k] \in Nat
    BY <2>1, <2>2
  <2> QED BY <2>1, <2>3
<1> HIDE DEF T
<1>4. n \in T
  BY <1>2, <1>3, TurnByTurn
<1> QED BY <1>1, <1>4 DEF T

(* The numbers in a text and in one that is longer by a byte.              *)
LEMMA NumberLonger ==
  ASSUME NEW t \in Seq(Bytes), NEW u \in Seq(Bytes), Len(u) = Len(t) + 1,
         \A k \in 1..Len(t) : u[k] = t[k], NEW i \in Nat \ {0}
  PROVE  /\ \A n \in 0..Len(t) : NumberAt(u, i, n) = NumberAt(t, i, n)
         /\ NumberAt(u, i, Len(u)) = IF Len(u) < i THEN 0
                                     ELSE 10 * NumberAt(t, i, Len(t)) + (u[Len(u)] - 48)
<1>1. Len(t) \in Nat /\ Len(u) \in Nat
  OBVIOUS
<1>2. ASSUME NEW n \in 0..Len(t), NEW f, Reads(f, t, i, n), NEW m \in 0..Len(u), n <= m,
             NEW g, Reads(g, u, i, m)
      PROVE  f[n] = g[n]
  <2>1. n \in Nat /\ m \in Nat /\ n \in 0..n /\ \A k \in 1..n : t[k] = u[k]
    BY <1>1
  <2>2. n <= m /\ Reads(f, t, i, n) /\ Reads(g, u, i, m)
    BY <1>2
  <2>3. \A k \in 0..n : f[k] = g[k]
    BY <2>1, <2>2, ReadsSame
  <2> QED BY <2>1, <2>3
<1>3. ASSUME NEW n \in 0..Len(t) PROVE NumberAt(u, i, n) = NumberAt(t, i, n)
  <2>1. n \in 0..Len(u)
    BY <1>1
  <2>2. PICK f : Reads(f, t, i, n) /\ NumberAt(t, i, n) = f[n]
    BY NumberRead
  <2>3. PICK g : Reads(g, u, i, n) /\ NumberAt(u, i, n) = g[n]
    BY <2>1, NumberRead
  <2> QED BY <1>2, <2>1, <2>2, <2>3
<1>4. PICK f : Reads(f, t, i, Len(t)) /\ NumberAt(t, i, Len(t)) = f[Len(t)]
  <2>1. Len(t) \in 0..Len(t)
    BY <1>1
  <2> QED BY <2>1, NumberRead
<1>5. PICK g : Reads(g, u, i, Len(u)) /\ NumberAt(u, i, Len(u)) = g[Len(u)]
  <2>1. Len(u) \in 0..Len(u)
    BY <1>1
  <2> QED BY <2>1, NumberRead
<1>6. f[Len(t)] = g[Len(t)]
  BY <1>1, <1>2, <1>4, <1>5
<1>7. g[Len(u)] = IF Len(u) < i THEN 0 ELSE 10 * g[Len(t)] + (u[Len(u)] - 48)
  BY <1>1, <1>5 DEF Reads
<1> QED BY <1>3, <1>4, <1>5, <1>6, <1>7

-----------------------------------------------------------------------------
(* The semicolons of a sequence.                                           *)

LEMMA SemisCounted ==
  ASSUME NEW t, NEW i \in Int, NEW j \in Int
  PROVE  IsFiniteSet(Semis(t, i, j)) /\ Cardinality(Semis(t, i, j)) \in Nat
<1>1. IsFiniteSet(i..j) /\ Semis(t, i, j) \subseteq i..j
  BY FS_Interval DEF Semis
<1>2. IsFiniteSet(Semis(t, i, j))
  BY <1>1, FS_Subset
<1> QED BY <1>2, FS_CardinalityType

LEMMA SemisNone ==
  ASSUME NEW t, NEW i \in Int, NEW j \in Int, j < i
  PROVE  Semis(t, i, j) = {} /\ Cardinality(Semis(t, i, j)) = 0
<1>1. Semis(t, i, j) = {}
  BY DEF Semis
<1> QED BY <1>1, FS_EmptySet

(* One place further there is a semicolon more or none.                    *)
LEMMA SemisNext ==
  ASSUME NEW t, NEW i \in Int, NEW j \in Int, i <= j + 1
  PROVE  Cardinality(Semis(t, i, j + 1)) =
           Cardinality(Semis(t, i, j)) + IF t[j + 1] = SEMI THEN 1 ELSE 0
<1> DEFINE A == Semis(t, i, j)  B == Semis(t, i, j + 1)
<1>1. IsFiniteSet(A) /\ Cardinality(A) \in Nat
  BY SemisCounted
<1>2. CASE t[j + 1] = SEMI
  <2>1. B = A \cup {j + 1} /\ j + 1 \notin A
    BY <1>2 DEF Semis
  <2> HIDE DEF A, B
  <2>2. Cardinality(B) = Cardinality(A) + 1
    BY <1>1, <2>1, FS_AddElement
  <2> QED BY <1>2, <2>2 DEF A, B
<1>3. CASE t[j + 1] # SEMI
  <2>1. B = A
    BY <1>3 DEF Semis
  <2> HIDE DEF A, B
  <2>2. Cardinality(B) = Cardinality(A) + 0
    BY <1>1, <2>1
  <2> QED BY <1>3, <2>2 DEF A, B
<1> QED BY <1>2, <1>3

(* Before a semicolon there are fewer than there are with it.              *)
LEMMA SemisFewer ==
  ASSUME NEW t, NEW i \in Int, NEW j \in Int, NEW k \in Int, NEW l \in Int,
         j < l, l <= k, i <= l, t[l] = SEMI
  PROVE  Cardinality(Semis(t, i, j)) < Cardinality(Semis(t, i, k))
<1> DEFINE A == Semis(t, i, j)  B == Semis(t, i, k)
<1>1. IsFiniteSet(B) /\ Cardinality(A) \in Nat /\ Cardinality(B) \in Nat
  <2>1. IsFiniteSet(B) /\ Cardinality(B) \in Nat
    BY SemisCounted
  <2>2. Cardinality(A) \in Nat
    BY SemisCounted
  <2> QED BY <2>1, <2>2
<1>2. A \subseteq B /\ l \in B /\ l \notin A
  BY DEF Semis
<1> HIDE DEF A, B
<1>3. A # B
  BY <1>2
<1>4. Cardinality(A) < Cardinality(B)
  <2>1. Cardinality(A) <= Cardinality(B) /\ (Cardinality(B) = Cardinality(A) => B = A)
    BY <1>1, <1>2, FS_Subset
  <2> QED BY <1>1, <1>3, <2>1
<1> QED BY <1>4 DEF A, B

(* A field without a semicolon adds none to those before it.               *)
LEMMA SemisSkip ==
  ASSUME NEW t, NEW i \in Int, NEW j \in Int, NEW k \in Int, i <= j, Semis(t, j, k) = {},
         k + 1 >= j
  PROVE  Semis(t, i, k) = Semis(t, i, j - 1)
BY DEF Semis

-----------------------------------------------------------------------------
(* The arguments of a sequence, a byte further.                            *)

(* Text u is t and one byte more.                                          *)
OneLonger(t, u, b) ==
  /\ t \in Seq(Bytes) /\ u \in Seq(Bytes) /\ b \in Bytes
  /\ Len(t) \in Nat /\ Len(u) = Len(t) + 1 /\ u[Len(u)] = b
  /\ \A k \in 1..Len(t) : u[k] = t[k]

LEMMA SemisSame ==
  ASSUME NEW t, NEW u, NEW b, OneLonger(t, u, b),
         NEW i \in Nat \ {0}, NEW j \in Int, j <= Len(t)
  PROVE  Semis(u, i, j) = Semis(t, i, j)
<1>1. \A k \in 1..Len(t) : u[k] = t[k]
  BY Zenon DEF OneLonger
<1>2. i..j \subseteq 1..Len(t)
  BY DEF OneLonger
<1>3. ASSUME NEW k \in i..j PROVE u[k] = t[k]
  BY <1>1, <1>2
<1> QED BY <1>3, Zenon DEF Semis

(* Fields before the new byte are the fields there were.                   *)
LEMMA FieldSame ==
  ASSUME NEW t, NEW u, NEW b, OneLonger(t, u, b),
         NEW from \in 2..3, NEW to \in Int, to <= Len(t), to >= from - 1,
         NEW i \in from..(to + 1), NEW j \in (i - 1)..to
  PROVE  IsField(u, from, to, i, j) <=> IsField(t, from, to, i, j)
<1>0. Len(t) \in Nat /\ \A k \in 1..Len(t) : u[k] = t[k]
  BY Zenon DEF OneLonger
<1>1. Semis(u, i, j) = Semis(t, i, j)
  <2>1. i \in Nat \ {0} /\ j \in Int /\ j <= Len(t)
    BY <1>0
  <2> QED BY <2>1, SemisSame
<1>2. i # from => u[i - 1] = t[i - 1]
  <2> SUFFICES ASSUME i # from PROVE u[i - 1] = t[i - 1]
    OBVIOUS
  <2>1. i - 1 \in 1..Len(t)
    BY <1>0
  <2> QED BY <1>0, <2>1
<1>3. j # to => u[j + 1] = t[j + 1]
  <2> SUFFICES ASSUME j # to PROVE u[j + 1] = t[j + 1]
    OBVIOUS
  <2>1. j + 1 \in 1..Len(t)
    BY <1>0
  <2> QED BY <1>0, <2>1
<1> QED BY <1>1, <1>2, <1>3 DEF IsField

(* What the field from i to j is to have brought, if it is one.            *)
Field(t, from, to, i, j, r) ==
  LET k == Cardinality(Semis(t, from, i - 1))
  IN  IsField(t, from, to, i, j) /\ k < CSI_N_MAX /\ NumberAt(t, i, j) <= INT_MAX
        => r.arg[k] = NumberAt(t, i, j)

LEMMA NumbersSame ==
  ASSUME NEW t, NEW u, NEW b, OneLonger(t, u, b), NEW from \in 2..3,
         NEW to \in (from - 1)..Len(t), NEW r, NumbersOf(t, from, to, r)
  PROVE  NumbersOf(u, from, to, r)
<1>1. t \in Seq(Bytes) /\ u \in Seq(Bytes) /\ Len(u) = Len(t) + 1 /\ Len(t) \in Nat
      /\ \A k \in 1..Len(t) : u[k] = t[k]
  BY Zenon DEF OneLonger
<1>2. Semis(u, from, to) = Semis(t, from, to)
  <2>1. to <= Len(t) /\ to \in Int /\ from \in Nat \ {0}
    BY <1>1
  <2> QED BY <1>1, <2>1, SemisSame
<1>3. ASSUME NEW i \in from..(to + 1), NEW j \in (i - 1)..to PROVE Field(u, from, to, i, j, r)
  <2>1. Field(t, from, to, i, j, r)
    BY <1>3, Zenon DEF NumbersOf, Field
  <2>2. IsField(u, from, to, i, j) <=> IsField(t, from, to, i, j)
    <3>1. to \in Int /\ to <= Len(t) /\ to >= from - 1
      BY <1>1
    <3> QED BY <1>1, <1>3, <3>1, FieldSame
  <2>3. Semis(u, from, i - 1) = Semis(t, from, i - 1)
    <3>1. i - 1 <= Len(t) /\ i - 1 \in Int /\ from \in Nat \ {0}
      BY <1>1
    <3> QED BY <1>1, <3>1, SemisSame
  <2>4. NumberAt(u, i, j) = NumberAt(t, i, j)
    <3>1. i \in Nat \ {0} /\ j \in 0..Len(t)
      BY <1>1, <1>3
    <3> QED BY <1>1, <3>1, NumberLonger
  <2> QED BY <2>1, <2>2, <2>3, <2>4 DEF Field
<1> QED BY <1>2, <1>3 DEF NumbersOf, Field

(* The variables of a sequence are those of the machine.                   *)
IsCsi(r) ==
  /\ r = [lead |-> r.lead, inter |-> r.inter, ni |-> r.ni, cnt |-> r.cnt, arg |-> r.arg]
  /\ r.arg = [k \in 0..(CSI_N_MAX - 1) |-> r.arg[k]]

(* What the operators of the machine do to the variables.                  *)
LEMMA FirstIs ==
  ASSUME NEW r, IsCsi(r)
  PROVE  FirstArgument(r) = [lead |-> r.lead, inter |-> r.inter, ni |-> r.ni,
                             cnt |-> IF r.cnt = 0 THEN 1 ELSE r.cnt, arg |-> r.arg]
<1> DEFINE l == r.lead  e == r.inter  x == r.ni  c == r.cnt  A == r.arg
<1>1. r = [lead |-> l, inter |-> e, ni |-> x, cnt |-> c, arg |-> A]
  BY DEF IsCsi
<1>2. FirstArgument(r) = [r EXCEPT !.cnt = IF @ = 0 THEN 1 ELSE @]
  BY DEF FirstArgument
<1> HIDE DEF l, e, x, c, A
<1>3. FirstArgument(r) = [lead |-> l, inter |-> e, ni |-> x,
                          cnt |-> IF c = 0 THEN 1 ELSE c, arg |-> A]
  BY <1>1, <1>2
<1> QED BY <1>3 DEF l, e, x, c, A

LEMMA DigitIs ==
  ASSUME NEW r, IsCsi(r), r.ni \in Nat, NEW b, NEW q, q = DigitIn(r, b)
  PROVE  /\ IsCsi(q) /\ q.lead = r.lead /\ q.inter = r.inter /\ q.ni = r.ni
         /\ q.cnt = IF r.cnt = 0 THEN 1 ELSE r.cnt
         /\ \A k \in 0..(CSI_N_MAX - 1) :
              q.arg[k] = IF k = r.ni THEN AsInt(10 * r.arg[k] + (b - 48)) ELSE r.arg[k]
<1> DEFINE A == r.arg  v == AsInt(10 * r.arg[r.ni] + (b - 48))
           c == IF r.cnt = 0 THEN 1 ELSE r.cnt
           D == 0..(CSI_N_MAX - 1)
           B == IF r.ni < CSI_N_MAX THEN [A EXCEPT ![r.ni] = v] ELSE A
<1>1. q = [lead |-> r.lead, inter |-> r.inter, ni |-> r.ni, cnt |-> c, arg |-> B]
  <2>1. FirstArgument(r) = [lead |-> r.lead, inter |-> r.inter, ni |-> r.ni, cnt |-> c, arg |-> A]
    BY FirstIs
  <2> DEFINE p == FirstArgument(r)
  <2>2. CASE r.ni < CSI_N_MAX
    <3>1. q = [p EXCEPT !.arg[r.ni] = AsInt(10 * @ + (b - 48))]
      BY <2>2 DEF DigitIn
    <3>2. p.arg = A
      BY <2>1
    <3>3. q = [p EXCEPT !.arg = [A EXCEPT ![r.ni] = v]]
      BY <3>1, <3>2
    <3>4. B = [A EXCEPT ![r.ni] = v]
      BY <2>2
    <3> HIDE DEF B, c, A, v
    <3> QED BY <2>1, <3>3, <3>4
  <2>3. CASE ~(r.ni < CSI_N_MAX)
    BY <2>1, <2>3 DEF DigitIn
  <2> QED BY <2>2, <2>3
<1>2. A = [k \in D |-> A[k]]
  BY DEF IsCsi
<1>3. \A k \in D : B[k] = IF k = r.ni THEN v ELSE A[k]
  <2> HIDE DEF v
  <2> QED BY <1>2, ParserAssumption
<1>4. B = [k \in D |-> B[k]]
  <2> HIDE DEF v
  <2> QED BY <1>2
<1> HIDE DEF B, c
<1>5. /\ q.lead = r.lead /\ q.inter = r.inter /\ q.ni = r.ni /\ q.cnt = c /\ q.arg = B
      /\ q = [lead |-> q.lead, inter |-> q.inter, ni |-> q.ni, cnt |-> q.cnt, arg |-> q.arg]
  BY <1>1
<1>6. IsCsi(q)
  BY <1>4, <1>5 DEF IsCsi
<1> QED BY <1>3, <1>5, <1>6 DEF c

LEMMA SemiIs ==
  ASSUME NEW r, IsCsi(r), NEW q, q = SemiIn(r)
  PROVE  /\ IsCsi(q) /\ q.lead = r.lead /\ q.inter = r.inter /\ q.ni = r.ni + 1
         /\ q.cnt = (IF r.cnt = 0 THEN 1 ELSE r.cnt) + 1
         /\ q.arg = r.arg
<1> DEFINE c == IF r.cnt = 0 THEN 1 ELSE r.cnt
<1>1. FirstArgument(r) = [lead |-> r.lead, inter |-> r.inter, ni |-> r.ni, cnt |-> c, arg |-> r.arg]
  BY FirstIs
<1>2. q = [lead |-> r.lead, inter |-> r.inter, ni |-> r.ni + 1, cnt |-> c + 1, arg |-> r.arg]
  <2> DEFINE p == FirstArgument(r)  l == r.lead  e == r.inter  x == r.ni  A == r.arg
  <2>1. q = [p EXCEPT !.cnt = @ + 1, !.ni = @ + 1]
    BY DEF SemiIn
  <2>2. p = [lead |-> l, inter |-> e, ni |-> x, cnt |-> c, arg |-> A]
    BY <1>1
  <2> HIDE DEF c, p, l, e, x, A
  <2>3. q = [lead |-> l, inter |-> e, ni |-> x + 1, cnt |-> c + 1, arg |-> A]
    BY <2>1, <2>2
  <2> QED BY <2>3 DEF l, e, x, A
<1>3. /\ q.lead = r.lead /\ q.inter = r.inter /\ q.ni = r.ni + 1 /\ q.cnt = c + 1 /\ q.arg = r.arg
      /\ q = [lead |-> q.lead, inter |-> q.inter, ni |-> q.ni, cnt |-> q.cnt, arg |-> q.arg]
  <2> HIDE DEF c
  <2> QED BY <1>2
<1>4. IsCsi(q)
  BY <1>3 DEF IsCsi
<1> QED BY <1>3, <1>4

(* The state of the arguments after a text of numbers.                     *)
Counted(t, from, r) ==
  /\ IsCsi(r)
  /\ r.ni = Cardinality(Semis(t, from, Len(t)))
  /\ NumbersOf(t, from, Len(t), r)

(* An int holds what fits.                                                 *)
LEMMA Fitting ==
  ASSUME NEW n \in Nat, n <= INT_MAX PROVE AsInt(n) = n
BY ParserAssumption DEF AsInt

(* A digit goes on with the last field and leaves the others alone.        *)
LEMMA DigitCounts ==
  ASSUME NEW t, NEW u, NEW b, OneLonger(t, u, b), NEW from \in 2..3, Len(t) >= from - 1,
         All(t, from, Len(t), Numbers), NEW r, Counted(t, from, r), b \in Digits
  PROVE  Counted(u, from, DigitIn(r, b))
<1> DEFINE q == DigitIn(r, b)  m == Len(t)  n == Len(u)  D == 0..(CSI_N_MAX - 1)
           S == Cardinality(Semis(t, from, m))
<1>1. t \in Seq(Bytes) /\ u \in Seq(Bytes) /\ n = m + 1 /\ m \in Nat /\ u[n] = b
      /\ \A k \in 1..m : u[k] = t[k]
  BY Zenon DEF OneLonger
<1>2. b # SEMI /\ b - 48 \in Nat
  BY DEF Digits, SEMI
<1>3. IsCsi(r) /\ r.ni = S /\ S \in Nat /\ from \in Int /\ from <= m + 1 /\ from \in Nat \ {0}
  BY <1>1, SemisCounted DEF Counted
<1>4. /\ r.cnt = IF m < from THEN 0 ELSE S + 1
      /\ \A k \in D : k > S => r.arg[k] = 0
      /\ \A i \in from..(m + 1) : \A j \in (i - 1)..m : Field(t, from, m, i, j, r)
  BY Zenon DEF Counted, NumbersOf, Field
<1>5. /\ IsCsi(q) /\ q.ni = r.ni /\ q.cnt = IF r.cnt = 0 THEN 1 ELSE r.cnt
      /\ \A k \in D : q.arg[k] = IF k = r.ni THEN AsInt(10 * r.arg[k] + (b - 48)) ELSE r.arg[k]
  BY <1>3, DigitIs
<1> HIDE DEF q
<1>6. Cardinality(Semis(u, from, n)) = S
  <2>1. u[m + 1] # SEMI
    BY <1>1, <1>2
  <2>2. Cardinality(Semis(u, from, m + 1)) =
           Cardinality(Semis(u, from, m)) + IF u[m + 1] = SEMI THEN 1 ELSE 0
    BY <1>1, <1>3, SemisNext
  <2>3. Semis(u, from, m) = Semis(t, from, m)
    BY <1>1, <1>3, SemisSame
  <2> QED BY <1>1, <1>3, <2>1, <2>2, <2>3
<1>7. q.cnt = IF n < from THEN 0 ELSE S + 1
  <2>1. m < from => S = 0
    BY <1>1, <1>3, SemisNone
  <2> HIDE DEF S
  <2> QED BY <1>1, <1>3, <1>4, <1>5, <2>1
<1>8. \A k \in D : k > S => q.arg[k] = 0
  <2> HIDE DEF S
  <2> QED BY <1>3, <1>4, <1>5
<1>9. ASSUME NEW i \in from..(n + 1), NEW j \in (i - 1)..n
      PROVE  Field(u, from, n, i, j, q)
  <2> DEFINE k == Cardinality(Semis(u, from, i - 1))
  <2> SUFFICES ASSUME IsField(u, from, n, i, j), k < CSI_N_MAX, NumberAt(u, i, j) <= INT_MAX
               PROVE  q.arg[k] = NumberAt(u, i, j)
    BY Zenon DEF Field
  <2>1. i \in Int /\ j \in Int /\ from - 1 \in Int /\ i - 1 <= m + 1
    BY <1>1, <1>3
  <2>2. i <= m + 1
    <3> SUFFICES ASSUME i = m + 2 PROVE FALSE
      BY <1>1, <2>1
    <3>1. i # from /\ i - 1 = n
      BY <1>1, <1>3
    <3> QED BY <1>1, <1>2, <3>1 DEF IsField
  <2>3. i \in from..(m + 1) /\ i \in Nat \ {0}
    BY <1>1, <1>3, <2>1, <2>2
  <2>4. Semis(u, from, i - 1) = Semis(t, from, i - 1)
    <3>1. i - 1 \in Int /\ i - 1 <= m
      BY <2>1, <2>2
    <3> QED BY <1>1, <1>3, <3>1, SemisSame
  <2>5. k \in Nat /\ k = Cardinality(Semis(t, from, i - 1))
    <3>1. i - 1 \in Int
      BY <2>1
    <3> QED BY <1>3, <2>4, <3>1, SemisCounted
  <2>6. k \in D
    <3> HIDE DEF k
    <3> QED BY <2>5, ParserAssumption
  <2> HIDE DEF k
  <2>7. CASE j = n
    <3>1. Semis(u, i, n) = {} /\ (i = from \/ u[i - 1] = SEMI)
      BY <2>7 DEF IsField
    <3>2. Semis(t, i, m) = {}
      <4>1. Semis(u, i, m) = {}
        BY <1>1, <3>1 DEF Semis
      <4> QED BY <1>1, <2>3, <4>1, SemisSame
    <3>3. i = from \/ t[i - 1] = SEMI
      <4>1. i # from => i - 1 \in 1..m
        BY <1>3, <2>3
      <4> QED BY <1>1, <3>1, <4>1
    <3>4. IsField(t, from, m, i, m)
      BY <3>2, <3>3 DEF IsField
    <3>5. k = S
      <4>1. Semis(t, from, m) = Semis(t, from, i - 1)
        BY <1>1, <1>3, <2>3, <3>2, SemisSkip
      <4> QED BY <2>5, <4>1
    <3>6. All(t, i, m, Digits)
      <4> SUFFICES ASSUME NEW l \in i..m PROVE t[l] \in Digits
        BY DEF All
      <4>1. t[l] # SEMI
        BY <3>2 DEF Semis
      <4>2. l \in from..m
        BY <1>1, <1>3, <2>3
      <4> QED BY <4>1, <4>2 DEF All, Numbers
    <3> DEFINE x == NumberAt(t, i, m)
    <3>7. x \in Nat
      <4>1. m \in 0..m
        BY <1>1
      <4> QED BY <1>1, <2>3, <3>6, <4>1, NumberIsNat
    <3>8. NumberAt(u, i, n) = 10 * x + (b - 48)
      <4>1. NumberAt(u, i, n) = IF n < i THEN 0 ELSE 10 * x + (u[n] - 48)
        BY <1>1, <2>3, NumberLonger
      <4>2. ~(n < i)
        BY <1>1, <2>3
      <4> QED BY <1>1, <4>1, <4>2
    <3> HIDE DEF x
    <3>9. 10 * x + (b - 48) \in Nat /\ 10 * x + (b - 48) <= INT_MAX /\ x <= INT_MAX
      <4>1. 10 * x + (b - 48) <= INT_MAX
        BY <2>7, <3>8
      <4> QED BY <1>2, <3>7, <4>1, ParserAssumption
    <3>10. r.arg[k] = x
      <4>1. Field(t, from, m, i, m, r)
        BY <1>1, <1>4, <2>3
      <4> QED BY <2>5, <3>4, <3>9, <4>1, Zenon DEF Field, x
    <3>11. q.arg[k] = AsInt(10 * x + (b - 48))
      BY <1>3, <1>5, <2>6, <3>5, <3>10
    <3> QED BY <2>7, <3>8, <3>9, <3>11, Fitting
  <2>8. CASE j # n
    <3>1. j <= m /\ j + 1 \in i..n /\ u[j + 1] = SEMI
      BY <1>1, <2>1, <2>8 DEF IsField
    <3>2. j + 1 <= m
      BY <1>1, <1>2, <2>1, <3>1
    <3>3. j + 1 \in 1..m /\ t[j + 1] = SEMI /\ j \in (i - 1)..m
      BY <1>1, <1>3, <2>1, <2>3, <3>1, <3>2
    <3>4. IsField(u, from, m, i, j)
      BY <3>3, <2>8, Zenon DEF IsField
    <3>5. IsField(t, from, m, i, j)
      <4>1. m \in Int /\ m >= from - 1 /\ m <= m
        BY <1>1, <1>3
      <4> QED BY <1>1, <2>3, <3>3, <3>4, <4>1, FieldSame
    <3>6. NumberAt(u, i, j) = NumberAt(t, i, j)
      <4>1. j \in 0..m
        BY <1>1, <2>1, <2>3, <3>3
      <4> QED BY <1>1, <2>3, <4>1, NumberLonger
    <3>7. Field(t, from, m, i, j, r)
      BY <1>4, <2>3, <3>3
    <3>8. r.arg[k] = NumberAt(u, i, j)
      BY <2>5, <3>5, <3>6, <3>7, Zenon DEF Field
    <3>9. k < S
      <4>1. Cardinality(Semis(t, from, i - 1)) < Cardinality(Semis(t, from, m))
        <5>1. i - 1 \in Int /\ m \in Int /\ j + 1 \in Int /\ i - 1 < j + 1 /\ from <= j + 1
          BY <1>1, <1>3, <2>1, <2>3, <3>1
        <5> QED BY <1>3, <3>2, <3>3, <5>1, SemisFewer
      <4> QED BY <2>5, <4>1
    <3> HIDE DEF S
    <3> QED BY <1>3, <1>5, <2>5, <2>6, <3>8, <3>9
  <2> QED BY <2>7, <2>8
<1>10. NumbersOf(u, from, n, q)
  <2> HIDE DEF n
  <2> QED BY <1>6, <1>7, <1>8, <1>9, Zenon DEF NumbersOf, Field
<1>11. Counted(u, from, q)
  BY <1>3, <1>5, <1>6, <1>10, Zenon DEF Counted
<1> QED BY <1>11 DEF q

(* A semicolon begins a field, still empty, and leaves the others alone.   *)
LEMMA SemiCounts ==
  ASSUME NEW t, NEW u, NEW b, OneLonger(t, u, b), NEW from \in 2..3, Len(t) >= from - 1,
         NEW r, Counted(t, from, r), b = SEMI
  PROVE  Counted(u, from, SemiIn(r))
<1> DEFINE q == SemiIn(r)  m == Len(t)  n == Len(u)  D == 0..(CSI_N_MAX - 1)
           S == Cardinality(Semis(t, from, m))
<1>1. t \in Seq(Bytes) /\ u \in Seq(Bytes) /\ n = m + 1 /\ m \in Nat /\ u[n] = b
      /\ \A k \in 1..m : u[k] = t[k]
  BY Zenon DEF OneLonger
<1>3. IsCsi(r) /\ r.ni = S /\ S \in Nat /\ from \in Int /\ from <= m + 1 /\ from \in Nat \ {0}
  BY <1>1, SemisCounted DEF Counted
<1>4. /\ r.cnt = IF m < from THEN 0 ELSE S + 1
      /\ \A k \in D : k > S => r.arg[k] = 0
      /\ \A i \in from..(m + 1) : \A j \in (i - 1)..m : Field(t, from, m, i, j, r)
  BY Zenon DEF Counted, NumbersOf, Field
<1>5. /\ IsCsi(q) /\ q.ni = r.ni + 1 /\ q.cnt = (IF r.cnt = 0 THEN 1 ELSE r.cnt) + 1
      /\ q.arg = r.arg
  BY <1>3, SemiIs
<1> HIDE DEF q
<1>6. Cardinality(Semis(u, from, n)) = S + 1
  <2>1. u[m + 1] = SEMI
    BY <1>1
  <2>2. Cardinality(Semis(u, from, m + 1)) =
           Cardinality(Semis(u, from, m)) + IF u[m + 1] = SEMI THEN 1 ELSE 0
    BY <1>1, <1>3, SemisNext
  <2>3. Semis(u, from, m) = Semis(t, from, m)
    BY <1>1, <1>3, SemisSame
  <2> QED BY <1>1, <1>3, <2>1, <2>2, <2>3
<1>7. q.cnt = IF n < from THEN 0 ELSE (S + 1) + 1
  <2>1. m < from => S = 0
    BY <1>1, <1>3, SemisNone
  <2> HIDE DEF S
  <2> QED BY <1>1, <1>3, <1>4, <1>5, <2>1
<1>8. \A k \in D : k > S + 1 => q.arg[k] = 0
  <2> HIDE DEF S
  <2> QED BY <1>3, <1>4, <1>5
<1>9. ASSUME NEW i \in from..(n + 1), NEW j \in (i - 1)..n
      PROVE  Field(u, from, n, i, j, q)
  <2> DEFINE k == Cardinality(Semis(u, from, i - 1))
  <2> SUFFICES ASSUME IsField(u, from, n, i, j), k < CSI_N_MAX, NumberAt(u, i, j) <= INT_MAX
               PROVE  q.arg[k] = NumberAt(u, i, j)
    BY Zenon DEF Field
  <2>1. i \in Int /\ j \in Int /\ i \in Nat \ {0}
    BY <1>1, <1>3
  <2>2. k \in Nat /\ k \in D
    <3>1. i - 1 \in Int
      BY <2>1
    <3>2. k \in Nat
      BY <1>3, <3>1, SemisCounted
    <3> HIDE DEF k
    <3> QED BY <3>2, ParserAssumption
  <2>3. CASE j = n
    <3>1. Semis(u, i, n) = {}
      BY <2>3 DEF IsField
    <3>2. i - 1 = n
      <4>1. n \notin i..n
        BY <1>1, <3>1 DEF Semis
      <4> QED BY <1>1, <2>1, <4>1
    <3>3. k = S + 1
      BY <1>6, <3>2
    <3>4. NumberAt(u, i, n) = 0
      <4>1. NumberAt(u, i, n) = IF n < i THEN 0 ELSE 10 * NumberAt(t, i, m) + (u[n] - 48)
        BY <1>1, <2>1, NumberLonger
      <4>2. n < i
        BY <1>1, <2>1, <3>2
      <4> QED BY <4>1, <4>2
    <3>5. q.arg[k] = 0
      <4>1. k > S
        BY <1>3, <3>3
      <4> HIDE DEF k, S
      <4> QED BY <1>4, <1>5, <2>2, <4>1
    <3> QED BY <2>3, <3>4, <3>5
  <2>4. CASE j # n
    <3>1. j <= m /\ i \in from..(m + 1) /\ j \in (i - 1)..m
      BY <1>1, <1>3, <2>1, <2>4
    <3>2. IsField(u, from, m, i, j)
      <4>1. Semis(u, i, j) = {} /\ (i = from \/ u[i - 1] = SEMI) /\ u[j + 1] = SEMI
        BY <2>4 DEF IsField
      <4> QED BY <4>1 DEF IsField
    <3>3. IsField(t, from, m, i, j)
      <4>1. m \in Int /\ m >= from - 1 /\ m <= m
        BY <1>1, <1>3
      <4> QED BY <3>1, <3>2, <4>1, FieldSame
    <3>4. NumberAt(u, i, j) = NumberAt(t, i, j)
      <4>1. j \in 0..m
        BY <1>1, <2>1, <3>1
      <4> QED BY <1>1, <2>1, <4>1, NumberLonger
    <3>5. k = Cardinality(Semis(t, from, i - 1))
      <4>1. i - 1 \in Int /\ i - 1 <= m
        BY <2>1, <3>1
      <4> QED BY <1>3, <4>1, SemisSame
    <3>6. Field(t, from, m, i, j, r)
      BY <1>4, <3>1
    <3> HIDE DEF k
    <3> QED BY <1>5, <3>3, <3>4, <3>5, <3>6, Zenon DEF Field
  <2> QED BY <2>3, <2>4
<1>10. NumbersOf(u, from, n, q)
  <2> HIDE DEF n
  <2> QED BY <1>6, <1>7, <1>8, <1>9, Zenon DEF NumbersOf, Field
<1>11. Counted(u, from, q)
  BY <1>3, <1>5, <1>6, <1>10, Zenon DEF Counted
<1> QED BY <1>11 DEF q

(* Before the first number there are none.                                 *)
LEMMA NoneCounted ==
  ASSUME NEW t \in Seq(Bytes), NEW from \in 2..3, Len(t) = from - 1, NEW r, IsCsi(r),
         r.ni = 0, r.cnt = 0, \A k \in 0..(CSI_N_MAX - 1) : r.arg[k] = 0
  PROVE  Counted(t, from, r)
<1> DEFINE m == Len(t)
<1>1. m \in Nat /\ m < from /\ from \in Int
  OBVIOUS
<1>2. Cardinality(Semis(t, from, m)) = 0
  BY <1>1, SemisNone
<1>3. ASSUME NEW i \in from..(m + 1), NEW j \in (i - 1)..m PROVE Field(t, from, m, i, j, r)
  <2>1. i = from /\ j = m
    BY <1>1
  <2>2. Cardinality(Semis(t, from, i - 1)) = 0
    BY <1>2, <2>1
  <2>3. NumberAt(t, i, j) = 0
    <3>1. i \in Nat \ {0} /\ m \in 0..m
      BY <1>1, <2>1
    <3>2. PICK f : Reads(f, t, i, m) /\ NumberAt(t, i, m) = f[m]
      BY <3>1, NumberRead
    <3>3. f[m] = 0
      BY <1>1, <2>1, <3>1, <3>2 DEF Reads
    <3> QED BY <2>1, <3>2, <3>3
  <2>4. 0 \in 0..(CSI_N_MAX - 1)
    BY ParserAssumption
  <2> QED BY <2>2, <2>3, <2>4, Zenon DEF Field
<1>4. NumbersOf(t, from, m, r)
  <2> HIDE DEF m
  <2> QED BY <1>1, <1>2, <1>3, Zenon DEF NumbersOf, Field
<1> QED BY <1>2, <1>4, Zenon DEF Counted

-----------------------------------------------------------------------------
(* The arguments are kept while the machine goes through a sequence.       *)

(* What the variables hold of text t in state s.                           *)
Kept(s, t, r) ==
  /\ IsCsi(r)
  /\ r.lead = LeadOf(t)
  /\ s # 6 => Counted(t, BodyFrom(t), r) /\ r.inter = NUL
  /\ s = 6 => NumbersOf(t, BodyFrom(t), Len(t) - 1, r) /\ r.inter = t[Len(t)]

AsWritten(o) ==
  o[1] = "csi" =>
    LET t == o[2]  r == o[3]
    IN  /\ NumbersOf(t, BodyFrom(t), BodyTo(t), r)
        /\ r.lead = LeadOf(t)
        /\ r.inter = IF BodyTo(t) = Len(t) - 2 THEN t[Len(t) - 1] ELSE NUL

(* Which bytes an action is taken for.                                     *)
LEMMA EdgeBytes ==
  ASSUME NEW s \in 2..10, NEW b \in Bytes, NEW a, a = ActionOn(s, b)
  PROVE  /\ a = "CSI_start" => s = 2 /\ b = 91
         /\ a = "CSI_leading" => s = 5 /\ b \in Leading
         /\ a = "CSI_digit" => s \in {5, 7} /\ b \in Digits
         /\ a = "CSI_semi" => s \in {5, 7} /\ b = SEMI
         /\ a = "CSI_intermed" => s \in {5, 7} /\ b \in Intermediate
         /\ a = "CSI_end" => s \in 5..7 /\ b \in Final
         /\ a # "plain_char" /\ a # "escape"
<1>1. a = "errBadSeq" \/ \E x \in Edges(s) : b \in x[2] /\ a = x[1]
  BY ActionIs
<1>2. CASE a = "errBadSeq"
  BY <1>2
<1>3. ASSUME NEW x \in Edges(s), b \in x[2], a = x[1]
      PROVE  /\ a = "CSI_start" => s = 2 /\ b = 91
             /\ a = "CSI_leading" => s = 5 /\ b \in Leading
             /\ a = "CSI_digit" => s \in {5, 7} /\ b \in Digits
             /\ a = "CSI_semi" => s \in {5, 7} /\ b = SEMI
             /\ a = "CSI_intermed" => s \in {5, 7} /\ b \in Intermediate
             /\ a = "CSI_end" => s \in 5..7 /\ b \in Final
             /\ a # "plain_char" /\ a # "escape"
  <2>1. CASE s = 2
    <3>1. Edges(2) = {<<"SPACE", Only(32)>>, <<"HASH", Only(35)>>, <<"CSI_start", Only(91)>>,
                      <<"StrCmd_start", StringStart>>, <<"CharsetCmd_start", Slot>>,
                      <<"SHORT_code", ShortCode>>}
      BY DEF Edges, Only
    <3> QED BY <1>3, <2>1, <3>1 DEF Only
  <2>2. CASE s = 5
    <3>1. Edges(5) = {<<"CSI_leading", Leading>>, <<"CSI_digit", Digits>>,
                      <<"CSI_semi", Only(SEMI)>>, <<"CSI_intermed", Intermediate>>,
                      <<"CSI_end", Final>>}
      BY DEF Edges, Only
    <3> QED BY <1>3, <2>2, <3>1 DEF Only
  <2>3. CASE s = 7
    <3>1. Edges(7) = {<<"CSI_digit", Digits>>, <<"CSI_semi", Only(SEMI)>>,
                      <<"CSI_intermed", Intermediate>>, <<"CSI_end", Final>>}
      BY DEF Edges, Only
    <3> QED BY <1>3, <2>3, <3>1 DEF Only
  <2>4. CASE s = 6
    <3>1. Edges(6) = {<<"CSI_end", Final>>}
      BY DEF Edges
    <3> QED BY <1>3, <2>4, <3>1
  <2>5. CASE s \in {3, 4, 8, 9, 10}
    <3>1. x[1] \in {"SPACE_cmd", "HASH_code", "StrCmd_end", "StrCmd_ST", "StrCmd_char",
                    "CharsetCmd_end"}
      BY <1>3, <2>5 DEF Edges
    <3> QED BY <1>3, <3>1
  <2> QED BY <2>1, <2>2, <2>3, <2>4, <2>5
<1> QED BY <1>1, <1>2, <1>3

LEMMA NoCsiIs ==
  /\ IsCsi(NoCsi) /\ NoCsi.lead = NUL /\ NoCsi.inter = NUL /\ NoCsi.ni = 0 /\ NoCsi.cnt = 0
  /\ \A k \in 0..(CSI_N_MAX - 1) : NoCsi.arg[k] = 0
<1>1. /\ NoCsi.lead = NUL /\ NoCsi.inter = NUL /\ NoCsi.ni = 0 /\ NoCsi.cnt = 0
      /\ NoCsi.arg = [i \in 0..(CSI_N_MAX - 1) |-> 0]
  BY DEF NoCsi
<1>2. NoCsi = [lead |-> NUL, inter |-> NUL, ni |-> 0, cnt |-> 0, arg |-> NoCsi.arg]
  BY DEF NoCsi
<1>3. NoCsi.arg = [k \in 0..(CSI_N_MAX - 1) |-> NoCsi.arg[k]]
  BY <1>1
<1>4. IsCsi(NoCsi)
  BY <1>1, <1>2, <1>3, Zenon DEF IsCsi
<1> QED BY <1>1, <1>4

LEMMA LeadIs ==
  ASSUME NEW r, IsCsi(r), NEW b, NEW q, q = [r EXCEPT !.lead = b]
  PROVE  /\ IsCsi(q) /\ q.lead = b /\ q.inter = r.inter
         /\ q.ni = r.ni /\ q.cnt = r.cnt /\ q.arg = r.arg
<1> DEFINE l == r.lead  e == r.inter  x == r.ni  c == r.cnt  A == r.arg
<1>1. /\ r = [lead |-> l, inter |-> e, ni |-> x, cnt |-> c, arg |-> A]
      /\ A = [k \in 0..(CSI_N_MAX - 1) |-> A[k]]
  BY DEF IsCsi
<1> HIDE DEF l, e, x, c, A
<1>2. q = [lead |-> b, inter |-> e, ni |-> x, cnt |-> c, arg |-> A]
  BY <1>1
<1>3. q.lead = b /\ q.inter = e /\ q.ni = x /\ q.cnt = c /\ q.arg = A
  BY ONLY <1>2
<1>4. q = [lead |-> q.lead, inter |-> q.inter, ni |-> q.ni, cnt |-> q.cnt, arg |-> q.arg]
  BY <1>2, <1>3, Zenon
<1>5. q.arg = [k \in 0..(CSI_N_MAX - 1) |-> q.arg[k]]
  BY <1>1, <1>3
<1>6. IsCsi(q)
  BY <1>4, <1>5, Zenon DEF IsCsi
<1> QED BY <1>3, <1>6 DEF l, e, x, c, A

LEMMA InterIs ==
  ASSUME NEW r, IsCsi(r), NEW b, NEW q, q = [r EXCEPT !.inter = b]
  PROVE  /\ IsCsi(q) /\ q.lead = r.lead /\ q.inter = b
         /\ q.ni = r.ni /\ q.cnt = r.cnt /\ q.arg = r.arg
<1> DEFINE l == r.lead  e == r.inter  x == r.ni  c == r.cnt  A == r.arg
<1>1. /\ r = [lead |-> l, inter |-> e, ni |-> x, cnt |-> c, arg |-> A]
      /\ A = [k \in 0..(CSI_N_MAX - 1) |-> A[k]]
  BY DEF IsCsi
<1> HIDE DEF l, e, x, c, A
<1>2. q = [lead |-> l, inter |-> b, ni |-> x, cnt |-> c, arg |-> A]
  BY <1>1
<1>3. q.lead = l /\ q.inter = b /\ q.ni = x /\ q.cnt = c /\ q.arg = A
  BY ONLY <1>2
<1>4. q = [lead |-> q.lead, inter |-> q.inter, ni |-> q.ni, cnt |-> q.cnt, arg |-> q.arg]
  BY <1>2, <1>3, Zenon
<1>5. q.arg = [k \in 0..(CSI_N_MAX - 1) |-> q.arg[k]]
  BY <1>1, <1>3
<1>6. IsCsi(q)
  BY <1>4, <1>5, Zenon DEF IsCsi
<1> QED BY <1>3, <1>6 DEF l, e, x, c, A

(* Only the counts and the numbers matter.                                 *)
LEMMA NumbersAlike ==
  ASSUME NEW t, NEW from, NEW to, NEW r, NEW q, NumbersOf(t, from, to, r),
         q.cnt = r.cnt, q.arg = r.arg
  PROVE  NumbersOf(t, from, to, q)
BY Zenon DEF NumbersOf

(* The bytes of the beginning.                                             *)
LEMMA BodyOf ==
  ASSUME NEW t, NEW u, NEW b, OneLonger(t, u, b), Len(t) > 1
  PROVE  /\ BodyFrom(u) = BodyFrom(t) /\ LeadOf(u) = LeadOf(t)
         /\ BodyFrom(t) \in 2..3 /\ Len(t) >= BodyFrom(t) - 1
<1>1. Len(t) \in Nat /\ Len(u) > 1 /\ u[2] = t[2]
  <2>1. Len(t) \in Nat /\ Len(u) = Len(t) + 1 /\ \A k \in 1..Len(t) : u[k] = t[k]
    BY Zenon DEF OneLonger
  <2>2. 2 \in 1..Len(t)
    BY <2>1
  <2> QED BY <2>1, <2>2
<1> QED BY <1>1 DEF BodyFrom, LeadOf

LEMMA BodyFirst ==
  ASSUME NEW t, NEW u, NEW b, OneLonger(t, u, b), Len(t) = 1
  PROVE  /\ BodyFrom(t) = 2 /\ LeadOf(t) = NUL
         /\ b \in Leading => BodyFrom(u) = 3 /\ LeadOf(u) = b
         /\ b \notin Leading => BodyFrom(u) = 2 /\ LeadOf(u) = NUL
<1>1. Len(u) = 2 /\ u[2] = b
  <2>1. Len(u) = Len(t) + 1 /\ u[Len(u)] = b
    BY Zenon DEF OneLonger
  <2> QED BY <2>1
<1> QED BY <1>1 DEF BodyFrom, LeadOf

(* One lemma per action of the grammar.                                    *)
LEMMA KeptStart ==
  ASSUME NEW t, t = << 91 >>
  PROVE  Kept(5, t, NoCsi)
<1>1. t \in Seq(Bytes) /\ Len(t) = 1
  BY DEF Bytes
<1>2. BodyFrom(t) = 2 /\ LeadOf(t) = NUL
  BY <1>1 DEF BodyFrom, LeadOf
<1>3. Counted(t, 2, NoCsi)
  <2>1. 2 \in 2..3 /\ Len(t) = 2 - 1
    BY <1>1
  <2> QED BY <1>1, <2>1, NoCsiIs, NoneCounted
<1>4. 5 # 6 /\ IsCsi(NoCsi) /\ NoCsi.lead = LeadOf(t) /\ NoCsi.inter = NUL
  BY <1>2, NoCsiIs
<1> QED BY <1>2, <1>3, <1>4, Zenon DEF Kept

LEMMA KeptLeading ==
  ASSUME NEW t, NEW u, NEW b, OneLonger(t, u, b), t = << 91 >>, NEW r, Kept(5, t, r),
         b \in Leading
  PROVE  Kept(7, u, [r EXCEPT !.lead = b])
<1> DEFINE q == [r EXCEPT !.lead = b]
<1>1. Len(t) = 1 /\ u \in Seq(Bytes) /\ Len(u) = 2
  BY DEF OneLonger
<1>2. BodyFrom(t) = 2 /\ BodyFrom(u) = 3 /\ LeadOf(u) = b
  BY <1>1, BodyFirst
<1>3. IsCsi(r) /\ Counted(t, 2, r) /\ r.inter = NUL
  BY <1>2 DEF Kept
<1>4. IsCsi(q) /\ q.lead = b /\ q.inter = r.inter /\ q.ni = r.ni /\ q.cnt = r.cnt /\ q.arg = r.arg
  BY <1>3, LeadIs
<1> HIDE DEF q
<1>5. Cardinality(Semis(t, 2, 1)) = 0
  BY SemisNone
<1>6. /\ r.ni = Cardinality(Semis(t, 2, 1))
      /\ NumbersOf(t, 2, 1, r)
  BY <1>1, <1>3, Zenon DEF Counted
<1>7. /\ r.cnt = IF 1 < 2 THEN 0 ELSE Cardinality(Semis(t, 2, 1)) + 1
      /\ \A k \in 0..(CSI_N_MAX - 1) : k > Cardinality(Semis(t, 2, 1)) => r.arg[k] = 0
      /\ \A i \in 2..(1 + 1) : \A j \in (i - 1)..1 : Field(t, 2, 1, i, j, r)
  BY <1>6, Zenon DEF NumbersOf, Field
<1>8. r.arg[0] = 0
  <2>1. NumberAt(t, 2, 1) = 0
    <3>1. t \in Seq(Bytes) /\ 2 \in Nat \ {0} /\ 1 \in 0..Len(t)
      BY <1>1 DEF OneLonger
    <3>2. PICK f : Reads(f, t, 2, 1) /\ NumberAt(t, 2, 1) = f[1]
      BY <3>1, NumberRead
    <3> QED BY <3>2 DEF Reads
  <2>2. IsField(t, 2, 1, 2, 1)
    <3>1. Semis(t, 2, 1) = {}
      BY SemisNone
    <3> QED BY <3>1 DEF IsField
  <2>3. Field(t, 2, 1, 2, 1, r)
    <3>1. 2 \in 2..(1 + 1) /\ 1 \in (2 - 1)..1
      OBVIOUS
    <3> QED BY <1>7, <3>1
  <2>4. Cardinality(Semis(t, 2, 2 - 1)) = 0
    BY <1>5
  <2>5. 0 < CSI_N_MAX /\ 0 <= INT_MAX
    BY ParserAssumption
  <2> QED BY <2>1, <2>2, <2>3, <2>4, <2>5, Zenon DEF Field
<1>9. \A k \in 0..(CSI_N_MAX - 1) : q.arg[k] = 0
  <2> SUFFICES ASSUME NEW k \in 0..(CSI_N_MAX - 1) PROVE q.arg[k] = 0
    OBVIOUS
  <2>1. k = 0 \/ k > 0
    OBVIOUS
  <2> QED BY <1>4, <1>5, <1>7, <1>8, <2>1
<1>10. q.ni = 0 /\ q.cnt = 0
  BY <1>4, <1>5, <1>6, <1>7
<1>11. Counted(u, 3, q)
  <2>1. 3 \in 2..3 /\ Len(u) = 3 - 1
    BY <1>1
  <2> QED BY <1>1, <1>4, <1>9, <1>10, <2>1, NoneCounted
<1>12. Kept(7, u, q)
  <2>1. 7 # 6 /\ q.inter = NUL /\ q.lead = LeadOf(u)
    BY <1>2, <1>3, <1>4
  <2> QED BY <1>2, <1>4, <1>11, <2>1, Zenon DEF Kept
<1> QED BY <1>12 DEF q

LEMMA KeptNumber ==
  ASSUME NEW s \in {5, 7}, NEW t, NEW u, NEW b, OneLonger(t, u, b), InText(s, t),
         NEW r, Kept(s, t, r), b \in Numbers
  PROVE  /\ b \in Digits => Kept(7, u, DigitIn(r, b))
         /\ b = SEMI => Kept(7, u, SemiIn(r))
<1> DEFINE from == BodyFrom(t)
<1>1. /\ from \in 2..3 /\ Len(t) >= from - 1 /\ BodyFrom(u) = from /\ LeadOf(u) = LeadOf(t)
      /\ All(t, from, Len(t), Numbers)
  <2>1. CASE s = 5
    <3>1. Len(t) = 1
      BY <2>1 DEF InText
    <3>2. b \notin Leading
      BY CsiBytes
    <3>3. from = 2 /\ BodyFrom(u) = 2 /\ LeadOf(t) = NUL /\ LeadOf(u) = NUL
      BY <3>1, <3>2, BodyFirst
    <3>4. All(t, 2, 1, Numbers)
      BY DEF All
    <3> HIDE DEF from
    <3> QED BY <3>1, <3>3, <3>4
  <2>2. CASE s = 7
    <3>1. Len(t) > 1 /\ All(t, from, Len(t), Numbers)
      BY <2>2 DEF InText, Numbers
    <3> QED BY <3>1, BodyOf
  <2> QED BY <2>1, <2>2
<1>2. IsCsi(r) /\ Counted(t, from, r) /\ r.inter = NUL /\ r.lead = LeadOf(t)
  BY DEF Kept
<1>3. r.ni \in Nat
  <2>1. from \in Int /\ Len(t) \in Int
    BY <1>1 DEF OneLonger
  <2> HIDE DEF from
  <2>2. r.ni = Cardinality(Semis(t, from, Len(t)))
    BY <1>2, Zenon DEF Counted
  <2> QED BY <2>1, <2>2, SemisCounted
<1> HIDE DEF from
<1>4. ASSUME b \in Digits PROVE Kept(7, u, DigitIn(r, b))
  <2> DEFINE q == DigitIn(r, b)
  <2>1. Counted(u, from, q)
    BY <1>1, <1>2, <1>4, DigitCounts
  <2>2. IsCsi(q) /\ q.lead = r.lead /\ q.inter = r.inter
    BY <1>2, <1>3, DigitIs
  <2> HIDE DEF q
  <2>3. 7 # 6 /\ q.inter = NUL /\ q.lead = LeadOf(u)
    BY <1>1, <1>2, <2>2
  <2>4. Kept(7, u, q)
    BY <1>1, <2>1, <2>2, <2>3, Zenon DEF Kept
  <2> QED BY <2>4 DEF q
<1>5. ASSUME b = SEMI PROVE Kept(7, u, SemiIn(r))
  <2> DEFINE q == SemiIn(r)
  <2>1. Counted(u, from, q)
    BY <1>1, <1>2, <1>5, SemiCounts
  <2>2. IsCsi(q) /\ q.lead = r.lead /\ q.inter = r.inter
    BY <1>2, SemiIs
  <2> HIDE DEF q
  <2>3. 7 # 6 /\ q.inter = NUL /\ q.lead = LeadOf(u)
    BY <1>1, <1>2, <2>2
  <2>4. Kept(7, u, q)
    BY <1>1, <2>1, <2>2, <2>3, Zenon DEF Kept
  <2> QED BY <2>4 DEF q
<1> QED BY <1>4, <1>5

(* The byte after the numbers ends neither them nor the sequence's lead.   *)
LEMMA KeptBody ==
  ASSUME NEW s \in {5, 7}, NEW t, NEW u, NEW b, OneLonger(t, u, b), InText(s, t),
         NEW r, Kept(s, t, r), b \notin Leading
  PROVE  /\ BodyFrom(u) = BodyFrom(t) /\ LeadOf(u) = LeadOf(t) /\ Len(u) - 1 = Len(t)
         /\ NumbersOf(u, BodyFrom(u), Len(t), r)
<1> DEFINE from == BodyFrom(t)
<1>1. /\ from \in 2..3 /\ Len(t) >= from - 1 /\ BodyFrom(u) = from /\ LeadOf(u) = LeadOf(t)
  <2>1. CASE s = 5
    <3>1. Len(t) = 1
      BY <2>1 DEF InText
    <3>3. from = 2 /\ BodyFrom(u) = 2 /\ LeadOf(t) = NUL /\ LeadOf(u) = NUL
      BY <3>1, BodyFirst
    <3> HIDE DEF from
    <3> QED BY <3>1, <3>3
  <2>2. CASE s = 7
    <3>1. Len(t) > 1
      BY <2>2 DEF InText
    <3> QED BY <3>1, BodyOf
  <2> QED BY <2>1, <2>2
<1>2. Len(t) \in Nat /\ Len(u) = Len(t) + 1
  BY Zenon DEF OneLonger
<1>3. NumbersOf(t, from, Len(t), r)
  BY DEF Kept, Counted
<1> HIDE DEF from
<1>4. Len(t) \in (from - 1)..Len(t)
  BY <1>1, <1>2
<1>5. NumbersOf(u, from, Len(t), r)
  BY <1>1, <1>3, <1>4, NumbersSame
<1> QED BY <1>1, <1>2, <1>5 DEF from

LEMMA KeptIntermed ==
  ASSUME NEW s \in {5, 7}, NEW t, NEW u, NEW b, OneLonger(t, u, b), InText(s, t),
         NEW r, Kept(s, t, r), b \in Intermediate
  PROVE  Kept(6, u, [r EXCEPT !.inter = b])
<1> DEFINE q == [r EXCEPT !.inter = b]
<1>1. b \notin Leading
  BY CsiBytes
<1>2. /\ LeadOf(u) = LeadOf(t) /\ Len(u) - 1 = Len(t)
      /\ NumbersOf(u, BodyFrom(u), Len(t), r)
  BY <1>1, KeptBody
<1>3. IsCsi(r) /\ r.lead = LeadOf(t)
  BY DEF Kept
<1>4. IsCsi(q) /\ q.lead = r.lead /\ q.inter = b /\ q.ni = r.ni /\ q.cnt = r.cnt
      /\ q.arg = r.arg
  BY <1>3, InterIs
<1> HIDE DEF q
<1>5. NumbersOf(u, BodyFrom(u), Len(t), q)
  BY <1>2, <1>4, NumbersAlike
<1>6. u[Len(u)] = b
  BY Zenon DEF OneLonger
<1>7. q.lead = LeadOf(u) /\ q.inter = u[Len(u)] /\ NumbersOf(u, BodyFrom(u), Len(u) - 1, q)
  BY <1>2, <1>3, <1>4, <1>5, <1>6
<1>8. Kept(6, u, q)
  BY <1>4, <1>7, Zenon DEF Kept
<1> QED BY <1>8 DEF q

(* What the last byte hands out is as written.                             *)
LEMMA KeptEnd ==
  ASSUME NEW s \in 5..7, NEW t, NEW u, NEW b, OneLonger(t, u, b), InText(s, t),
         NEW r, Kept(s, t, r), b \in Final
  PROVE  AsWritten(<<"csi", u, r, b>>)
<1>0. b \notin Leading /\ b \notin Intermediate
  BY CsiBytes
<1>1. Len(t) \in Nat /\ Len(u) = Len(t) + 1 /\ \A k \in 1..Len(t) : u[k] = t[k]
  BY Zenon DEF OneLonger
<1>2. r.lead = LeadOf(t)
  BY DEF Kept
<1>3. CASE s \in {5, 7}
  <2>1. /\ BodyFrom(u) = BodyFrom(t) /\ LeadOf(u) = LeadOf(t)
        /\ NumbersOf(u, BodyFrom(u), Len(t), r)
    BY <1>0, <1>3, KeptBody
  <2>2. r.inter = NUL
    BY <1>3 DEF Kept
  <2>3. ~(Len(t) >= BodyFrom(t) /\ u[Len(t)] \in Intermediate)
    <3>1. CASE s = 5
      <4>1. Len(t) = 1 /\ BodyFrom(t) = 2
        <5>1. Len(t) = 1
          BY <3>1 DEF InText
        <5> QED BY <5>1, BodyFirst
      <4> QED BY <4>1
    <3>2. CASE s = 7
      <4>1. Len(t) > 1 /\ All(t, BodyFrom(t), Len(t), Numbers)
        BY <3>2 DEF InText, Numbers
      <4> SUFFICES ASSUME Len(t) >= BodyFrom(t), u[Len(t)] \in Intermediate PROVE FALSE
        OBVIOUS
      <4>2. BodyFrom(t) \in 2..3
        BY <4>1, BodyOf
      <4>3. Len(t) \in BodyFrom(t)..Len(t) /\ Len(t) \in 1..Len(t)
        BY <1>1, <4>1, <4>2
      <4>4. t[Len(t)] \in Numbers /\ u[Len(t)] = t[Len(t)]
        BY <1>1, <4>1, <4>3 DEF All
      <4> QED BY <4>4, CsiBytes
    <3> QED BY <1>3, <3>1, <3>2
  <2>4. BodyTo(u) = Len(t)
    BY <1>1, <2>1, <2>3 DEF BodyTo
  <2>5. BodyTo(u) # Len(u) - 2
    BY <1>1, <2>4
  <2> QED BY <1>2, <2>1, <2>2, <2>4, <2>5 DEF AsWritten
<1>4. CASE s = 6
  <2>1. Len(t) > 1 /\ Len(t) >= BodyFrom(t) /\ t[Len(t)] \in Intermediate
    BY <1>4 DEF InText
  <2>2. /\ BodyFrom(u) = BodyFrom(t) /\ LeadOf(u) = LeadOf(t) /\ BodyFrom(t) \in 2..3
    BY <2>1, BodyOf
  <2>3. u[Len(t)] = t[Len(t)]
    BY <1>1, <2>1
  <2>4. NumbersOf(t, BodyFrom(t), Len(t) - 1, r) /\ r.inter = t[Len(t)]
    BY <1>4 DEF Kept
  <2>5. Len(t) - 1 \in (BodyFrom(t) - 1)..Len(t)
    BY <1>1, <2>1, <2>2
  <2>6. NumbersOf(u, BodyFrom(u), Len(t) - 1, r)
    BY <2>2, <2>4, <2>5, NumbersSame
  <2>7. BodyTo(u) = Len(t) - 1 /\ Len(t) - 1 = Len(u) - 2 /\ Len(u) - 1 = Len(t)
    BY <1>1, <2>1, <2>2, <2>3 DEF BodyTo
  <2> QED BY <1>2, <2>2, <2>3, <2>4, <2>6, <2>7 DEF AsWritten
<1> QED BY <1>3, <1>4

-----------------------------------------------------------------------------
(* Every step keeps them.                                                  *)

CsiInv ==
  /\ host \in Hosts
  /\ cs \in {-1} \cup (1..10)
  /\ text \in Seq(Bytes)
  /\ InText(cs, text)
  /\ cs = -1 => ~inside_string
  /\ cs \in 5..7 => Kept(cs, text, csi)
  /\ AsWritten(out)

(* Back to text, or on as before.                                          *)
LEMMA CsiLeaves ==
  ASSUME CsiInv, host' = host, cs' \in {1, 2}, text' = <<>>, AsWritten(out')
  PROVE  CsiInv'
<1>1. InText(cs', <<>>)
  BY DEF InText
<1>2. cs' \in {-1} \cup (1..10) /\ cs' # -1 /\ cs' \notin 5..7 /\ text' \in Seq(Bytes)
  OBVIOUS
<1> QED BY <1>1, <1>2 DEF CsiInv

LEMMA CsiStays ==
  ASSUME CsiInv, UNCHANGED machine, host' = host, AsWritten(out')
  PROVE  CsiInv'
BY DEF CsiInv, machine

LEMMA OtherOut ==
  ASSUME NEW o, o[1] # "csi"
  PROVE  AsWritten(o)
BY DEF AsWritten

LEMMA PlainOther ==
  ASSUME NEW b, Plain(b)
  PROVE  AsWritten(out')
<1>1. Collect(utf, b).how \in {"good", "bad", "wait"}
  BY DEF Collect
<1>2. out'[1] = Collect(utf, b).how
  BY DEF Plain
<1> QED BY <1>1, <1>2, OtherOut

LEMMA ControlOther ==
  ASSUME NEW b, Control(b)
  PROVE  UNCHANGED machine /\ AsWritten(out')
<1>1. CASE b \in {FF, VT, CR, LF, BS} /\ Plain(IF b \in {FF, VT} THEN LF ELSE b)
  <2>1. UNCHANGED machine
    BY <1>1 DEF Control, FF, VT, CR, LF, BS, ENQ
  <2> QED BY <1>1, <2>1, PlainOther
<1>2. CASE b = ENQ /\ ~enq
  <2>1. UNCHANGED machine /\ out' = <<"answerback">>
    BY <1>2 DEF Control, FF, VT, CR, LF, BS, ENQ
  <2> QED BY <2>1, OtherOut
<1>3. CASE b \notin {FF, VT, CR, LF, BS} /\ ~(b = ENQ /\ ~enq)
  <2>1. UNCHANGED machine
    BY <1>3 DEF Control
  <2>2. out' = CASE b = TAB -> <<"tab">> [] b = SI -> <<"shift", 0>>
                 [] b = SO -> <<"shift", 1>> [] b = BEL -> <<"bell">>
                 [] OTHER -> <<"none">>
    BY <1>3 DEF Control
  <2>3. out'[1] \in {"tab", "shift", "bell", "none"}
    BY <2>2
  <2> QED BY <2>1, <2>3, OtherOut
<1> QED BY <1>1, <1>2, <1>3 DEF Control

(* The machine that reads text goes into a sequence or stays in text.      *)
LEMMA TextCsi ==
  ASSUME CsiInv, cs = 1, NEW b \in Bytes, Ragel(b), host' = host
  PROVE  CsiInv'
<1> DEFINE a == ActionOn(cs, b)
<1>1. a \in {"escape", "plain_char", "errBadSeq"}
  <2> DEFINE e == {x \in Edges(1) : b \in x[2]}
  <2>1. Edges(1) = {<<"escape", {ESC}>>, <<"plain_char", (0..255) \ {BEL, ESC}>>}
    BY DEF Edges
  <2>2. a = IF e = {} THEN "errBadSeq" ELSE (CHOOSE x \in e : TRUE)[1]
    BY DEF ActionOn
  <2>3. CASE e # {}
    <3>1. (CHOOSE x \in e : TRUE) \in e
      BY <2>3
    <3>2. a = (CHOOSE x \in e : TRUE)[1]
      BY <2>2, <2>3
    <3>3. \A x \in Edges(1) : x[1] \in {"escape", "plain_char"}
      BY <2>1
    <3> HIDE DEF a
    <3> QED BY <3>1, <3>2, <3>3
  <2>4. CASE e = {}
    BY <2>2, <2>4
  <2> QED BY <2>3, <2>4
<1> HIDE DEF a
<1>2. CASE a = "escape"
  <2>1. cs' = 2 /\ text' = <<>> /\ out' = <<"none">>
    BY <1>2 DEF Ragel, a
  <2> QED BY <2>1, OtherOut, CsiLeaves
<1>3. CASE a = "errBadSeq"
  <2>1. cs' = 1 /\ text' = <<>> /\ out' = <<"error", Whole(b)>>
    BY <1>3 DEF Ragel, a, Off, ansi_start
  <2>2. out'[1] # "csi"
    BY <2>1
  <2> QED BY <2>1, <2>2, OtherOut, CsiLeaves
<1>4. CASE a = "plain_char"
  <2>1. UNCHANGED machine /\ (Plain(b) \/ out' = <<"none">>)
    BY <1>4 DEF Ragel, a
  <2> QED BY <2>1, OtherOut, PlainOther, CsiStays
<1> QED BY <1>1, <1>2, <1>3, <1>4

LEMMA MoveTo ==
  ASSUME NEW m \in Moves
  PROVE  /\ m[1] = "CSI_start" => m[2] = 5
         /\ m[1] \in {"CSI_leading", "CSI_digit", "CSI_semi"} => m[2] = 7
         /\ m[1] = "CSI_intermed" => m[2] = 6
BY DEF Moves

LEMMA RagelCsi ==
  ASSUME CsiInv, cs \in 2..10, NEW b \in Bytes, Ragel(b), host' = host
  PROVE  CsiInv'
<1> DEFINE a == ActionOn(cs, b)  u == Append(text, b)
<1>1. Answer(cs, a, u) /\ u \in Seq(Bytes) /\ text \in Seq(Bytes) /\ InText(cs, text)
  BY Answers, Longer DEF CsiInv
<1>2. OneLonger(text, u, b)
  BY Longer DEF OneLonger, CsiInv
<1>3. /\ a = "CSI_start" => cs = 2 /\ b = 91
      /\ a = "CSI_leading" => cs = 5 /\ b \in Leading
      /\ a = "CSI_digit" => cs \in {5, 7} /\ b \in Digits
      /\ a = "CSI_semi" => cs \in {5, 7} /\ b = SEMI
      /\ a = "CSI_intermed" => cs \in {5, 7} /\ b \in Intermediate
      /\ a = "CSI_end" => cs \in 5..7 /\ b \in Final
      /\ a # "plain_char" /\ a # "escape"
  BY EdgeBytes
<1>4. cs \in 5..7 => Kept(cs, text, csi)
  BY DEF CsiInv
<1> HIDE DEF a, u
<1>5. CASE a = "errBadSeq" \/ a \in Ends
  <2>1. /\ cs' = 1 /\ text' = <<>>
        /\ a # "CSI_end" => out'[1] # "csi"
        /\ a = "CSI_end" => out' = <<"csi", u, csi, b>>
    BY <1>5 DEF Ragel, a, u, Off, Ends, Whole, ansi_start
  <2>2. a = "CSI_end" => AsWritten(<<"csi", u, csi, b>>)
    BY <1>1, <1>2, <1>3, <1>4, KeptEnd
  <2> QED BY <2>1, <2>2, OtherOut, CsiLeaves
<1>6. ASSUME NEW m \in Moves, a = m[1]
      PROVE  CsiInv'
  <2>1. /\ cs' = m[2] /\ text' = u /\ out' = <<"none">>
        /\ a = "CSI_start" => csi' = NoCsi
        /\ a = "CSI_leading" => csi' = [csi EXCEPT !.lead = b]
        /\ a = "CSI_digit" => csi' = DigitIn(csi, b)
        /\ a = "CSI_semi" => csi' = SemiIn(csi)
        /\ a = "CSI_intermed" => csi' = [csi EXCEPT !.inter = b]
    BY <1>6 DEF Ragel, a, u, On, Moves
  <2>2. InText(cs', text')
    BY <1>1, <1>6, <2>1 DEF Answer
  <2>3. cs' \in 1..10 /\ cs' # -1
    BY <2>1, <1>6 DEF Moves
  <2>4. AsWritten(out')
    BY <2>1, OtherOut
  <2>5. cs' \in 5..7 => Kept(cs', text', csi')
    <3>1. CASE a = "CSI_start"
      <4>1. cs' = 5
        BY <1>6, <2>1, <3>1, MoveTo
      <4>2. u = <<91>>
        BY <2>1, <2>2, <4>1 DEF InText
      <4> QED BY <2>1, <3>1, <4>1, <4>2, KeptStart
    <3>2. CASE a = "CSI_leading"
      <4>1. cs' = 7 /\ text = <<91>>
        <5>1. cs' = 7
          BY <1>6, <2>1, <3>2, MoveTo
        <5>2. text = <<91>>
          BY <1>1, <1>3, <3>2 DEF InText
        <5> QED BY <5>1, <5>2
      <4> QED BY <1>2, <1>3, <1>4, <2>1, <3>2, <4>1, KeptLeading
    <3>3. CASE a \in {"CSI_digit", "CSI_semi"}
      <4>1. cs' = 7 /\ b \in Numbers
        <5>1. cs' = 7
          BY <1>6, <2>1, <3>3, MoveTo
        <5>2. b \in Numbers
          BY <1>3, <3>3 DEF Numbers
        <5> QED BY <5>1, <5>2
      <4>2. cs \in {5, 7} /\ Kept(cs, text, csi)
        BY <1>3, <1>4, <3>3
      <4>3. /\ b \in Digits => Kept(7, u, DigitIn(csi, b))
            /\ b = SEMI => Kept(7, u, SemiIn(csi))
        BY <1>1, <1>2, <4>1, <4>2, KeptNumber
      <4> QED BY <1>3, <2>1, <3>3, <4>1, <4>3
    <3>4. CASE a = "CSI_intermed"
      <4>1. cs' = 6
        BY <1>6, <2>1, <3>4, MoveTo
      <4>2. cs \in {5, 7} /\ Kept(cs, text, csi)
        BY <1>3, <1>4, <3>4
      <4>3. Kept(6, u, [csi EXCEPT !.inter = b])
        BY <1>1, <1>2, <1>3, <3>4, <4>2, KeptIntermed
      <4> QED BY <2>1, <3>4, <4>1, <4>3
    <3>5. CASE a \notin {"CSI_start", "CSI_leading", "CSI_digit", "CSI_semi", "CSI_intermed"}
      BY <1>6, <2>1, <3>5 DEF Moves
    <3> QED BY <3>1, <3>2, <3>3, <3>4, <3>5
  <2> QED BY <1>1, <2>1, <2>2, <2>3, <2>4, <2>5 DEF CsiInv
<1> QED BY <1>1, <1>5, <1>6 DEF Answer

LEMMA ParseCsi ==
  ASSUME CsiInv, NEW b \in Bytes, Parse(b), host' = host
  PROVE  CsiInv'
<1>0. AsWritten(<<"none">>)
  BY OtherOut
<1>1. CASE b \in {CAN, SUB}
  <2>1. cs' = 1 /\ text' = <<>> /\ out' = <<"none">>
    BY <1>1 DEF Parse, Cancel, Off, ansi_start
  <2> QED BY <1>0, <2>1, CsiLeaves
<1>2. CASE b \notin {CAN, SUB} /\ b < 32 /\ ~inside_string /\ b = ESC
  <2>1. cs' = 2 /\ text' = <<>> /\ out' = <<"none">>
    BY <1>2 DEF Parse, Escape
  <2> QED BY <1>0, <2>1, CsiLeaves
<1>3. CASE b \notin {CAN, SUB} /\ b < 32 /\ ~inside_string /\ b # ESC
  <2>1. Control(b)
    BY <1>3 DEF Parse
  <2> QED BY <2>1, ControlOther, CsiStays
<1>4. CASE b \notin {CAN, SUB} /\ ~(b < 32 /\ ~inside_string) /\ cs \in {-1, 1} /\ b >= 32
  <2>1. Plain(b) /\ cs' = 1 /\ text' = text
    BY <1>4 DEF Parse, ansi_start
  <2>2. text = <<>>
    BY <1>4 DEF CsiInv, InText
  <2> QED BY <2>1, <2>2, PlainOther, CsiLeaves
<1>5. CASE b \notin {CAN, SUB} /\ ~(b < 32 /\ ~inside_string) /\ ~(cs \in {-1, 1} /\ b >= 32)
  <2>1. Ragel(b)
    BY <1>5 DEF Parse, ansi_start
  <2>2. cs = 1 \/ cs \in 2..10
    BY <1>5 DEF CsiInv, Bytes
  <2> QED BY <2>1, <2>2, RagelCsi, TextCsi
<1> QED BY <1>1, <1>2, <1>3, <1>4, <1>5 DEF Bytes

LEMMA CsiStep ==
  ASSUME CsiInv, [Next]_vars
  PROVE  CsiInv'
<1>none. AsWritten(<<"none">>)
  BY OtherOut
<1>1. ASSUME NEW b \in host.bytes, Byte(b)
      PROVE  CsiInv'
  <2>1. b \in Bytes
    BY ParserAssumption DEF CsiInv, Bytes
  <2>2. host' = host
    BY <1>1 DEF Byte
  <2>3. CASE inhibit
    <3>1. UNCHANGED machine /\ out' = <<"none">>
      BY <1>1, <2>3 DEF Byte
    <3> QED BY <1>none, <2>2, <3>1, CsiStays
  <2>4. CASE ~inhibit /\ debug
    <3>1. UNCHANGED machine /\ Plain(b)
      BY <1>1, <2>4 DEF Byte
    <3> QED BY <2>2, <3>1, PlainOther, CsiStays
  <2>5. CASE ~inhibit /\ ~debug
    <3>1. Parse(b)
      BY <1>1, <2>5 DEF Byte
    <3> QED BY <2>1, <2>2, <3>1, ParseCsi
  <2> QED BY <2>3, <2>4, <2>5
<1>2. CASE TimerTick \/ ResetScreen \/ UserStart \/ EnqTimer \/ SetDebug
  <2>1. host' = host /\ out' = <<"none">> /\ (Reset \/ UNCHANGED machine)
    BY <1>2 DEF TimerTick, ResetScreen, UserStart, EnqTimer, SetDebug
  <2>2. CASE UNCHANGED machine
    BY <1>none, <2>1, <2>2, CsiStays
  <2>3. CASE ~UNCHANGED machine
    <3>1. cs' = 1 /\ text' = <<>>
      BY <2>1, <2>3 DEF Reset, ansi_start
    <3> QED BY <1>none, <2>1, <3>1, CsiLeaves
  <2> QED BY <2>2, <2>3
<1>3. CASE UNCHANGED vars
  <2>1. host' = host /\ out' = out /\ UNCHANGED machine
    BY <1>3 DEF vars, machine
  <2> QED BY <2>1, CsiStays DEF CsiInv
<1> QED BY <1>1, <1>2, <1>3 DEF Next

(* A CSI sequence is carried out with the numbers written in it, the byte  *)
(* before them and the byte after them, whatever was sent, cancelled or    *)
(* timed out before it, for every number of arguments kept and every host. *)
THEOREM CarriesOutNumbers == Spec => []CsiAsWritten
<1>1. Init => CsiInv
  <2> SUFFICES ASSUME Init PROVE CsiInv
    OBVIOUS
  <2>1. cs = -1 /\ text = <<>> /\ out = <<"none">> /\ inside_string = FALSE /\ host \in Hosts
    BY DEF Init
  <2>2. InText(-1, <<>>) /\ AsWritten(<<"none">>)
    BY OtherOut DEF InText
  <2>3. text \in Seq(Bytes) /\ cs \notin 5..7 /\ cs \in {-1} \cup (1..10)
    BY <2>1
  <2> QED BY <2>1, <2>2, <2>3 DEF CsiInv
<1>2. CsiInv /\ [Next]_vars => CsiInv'
  BY CsiStep
<1>3. CsiInv => CsiAsWritten
  BY Zenon DEF CsiInv, AsWritten, CsiAsWritten
<1> QED BY <1>1, <1>2, <1>3, PTL DEF Spec
=============================================================================
