------------------------------ MODULE MCDevice ------------------------------
(* Kinds of users, each with some of the operations.                       *)
EXTENDS Device

Factory ==
  [mode |-> STATIONAP_MODE, ap |-> Hard, sta |-> Hard, pin2 |-> "uart",
   sysOld |-> FALSE, size |-> HardSize, termOld |-> FALSE]
Fresh == [defaults |-> Factory, current |-> Factory,
          admin |-> [version |-> 1, pw |-> DEFAULT_ADMIN_PW]]

(* As an older version of the firmware has left it: a screen of a size     *)
(* that no longer fits, no password.                                       *)
Old == [Factory EXCEPT !.sysOld = TRUE, !.termOld = TRUE, !.size = MaxSize + 1,
                       !.pin2 = "out"]
Upgraded == [defaults |-> [Old EXCEPT !.size = 1], current |-> Old, admin |-> ZeroAdmin]

(* Fields of the forms and keys of the files: no value is the empty set.   *)
Form(m, a, s) == [mode |-> m, ap |-> a, sta |-> s]
Modes == {Form({m}, "same", "same") : m \in {{}, {"ap"}, {"ap", "sta"}}}
Settled == {Form({}, a, s) : a \in {"same", "a", Hard}, s \in {"same", "bad", "a"}}
AnyPart == [mode : {{}, {{"ap"}}}, ap : {"same", "a", "bad"}, sta : {"same"},
            size : {{}, {1}, {MaxSize + 1}}]
WifiPart == {p \in AnyPart : p.size = {}}
SizePart == {p \in AnyPart : p.mode = {} /\ p.ap = "same"}

Kind(what, forms, parts, content) ==
  [does |-> what, forms |-> forms, parts |-> parts, flash |-> Image(content)]
Blank == [does |-> {"term", "hard", "defaults", "button", "power"},
          forms |-> {}, parts |-> {}, flash |-> Unreadable]

MCUsers ==
  {Kind({"wifi", "button"}, Modes \cup {Form({}, "a", "same")}, {}, Fresh),
   Kind({"wifi", "power", "restart"}, Modes \cup Settled, {}, Fresh),
   Kind({"wifi", "scan"}, Modes, {}, Fresh),
   Kind({"wifi", "import", "abandon"}, {Form({{"ap"}}, "a", "same")}, WifiPart, Fresh),
   Kind({"wifi", "restore", "defaults"}, Modes \cup Settled, {}, Fresh),
   Kind({"term", "import", "power"}, {}, SizePart, Upgraded),
   Kind({"term", "hard", "restore", "system", "badflash"}, {}, {}, Upgraded),
   Kind({"scan", "memory", "d2d"}, {}, {}, Fresh),
   Blank}

(* The users are of the kind that Usable is about.                         *)
ASSUME MCUsersFit == SizesFit /\ FlashesFit

MCTermForms == [size : {0, 1, MaxSize + 1}, uart : BOOLEAN]
=============================================================================
