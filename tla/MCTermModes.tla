----------------------------- MODULE MCTermModes -----------------------------
(* Each host uses a few groups of sequences, so that their states add up   *)
(* rather than multiply.                                                   *)
EXTENDS TermModes

MCSgrArgs == {<<>>, <<1>>, <<7, 53>>, <<28, 2>>, <<97, 104>>, <<38, 5, 200>>, <<48, 5>>,
              <<48, 5, 12, 4>>, <<38, 2, 8>>, <<22, 39>>, <<8, 27>>}
MCRestores == PrivateOptions \ {5, 2004}
MCMods == {{}, {"ctrl"}, {"shift"}, {"alt"}, {"ctrl", "meta", "shift"}}
(* The last places the encodings have room for, and the first they do not. *)
MCMousePlaces == {<<0, 3>>, <<94, 24>>, <<95, 0>>, <<222, 1>>, <<254, 0>>, <<255, 2>>}
MCCounts == {0, 6}
PlainConf == [shape : {0}, decopt12 : {TRUE}]
AnyConf == [shape : {1, 4}, decopt12 : {TRUE}] \cup [shape : {5}, decopt12 : {FALSE}]
Host(groups, private, confs) == [uses |-> groups, private |-> private, confs |-> confs]
MCHosts == {
  Host({"sgr", "query"}, {}, PlainConf),
  Host({"options", "cursor", "reset"},
       {<<1048>>, <<1049>>, <<7, 45>>, <<6>>, <<2>>}, PlainConf),
  Host({"parameters"}, {}, PlainConf),
  Host({"options", "keep", "reset"}, {<<1>>, <<25, 6>>, <<45>>, <<7>>}, PlainConf),
  Host({"options", "keep", "shape", "query"}, {<<5>>, <<12>>}, AnyConf),
  Host({"options", "keep", "ansi", "reset"}, {<<2004>>}, AnyConf),
  Host({"options", "keep", "reset"},
       {<<9>>, <<1000, 1006>>, <<1001>>, <<1002, 1005>>, <<1003>>, <<1004>>, <<1015>>},
       PlainConf),
  Host({"options", "mouse"},
       {<<9>>, <<1000>>, <<1006>>, <<1002>>, <<1005>>, <<1003>>, <<1015>>}, PlainConf),
  Host({"options", "charset"}, {<<2>>, <<3>>}, PlainConf),
  Host({"options", "texts", "reset"}, {<<47>>, <<1049>>}, PlainConf),
  Host({"tabs", "lines"}, {}, PlainConf) }
=============================================================================
