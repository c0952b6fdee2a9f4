---------------------------- MODULE DeviceProofs ----------------------------
(***************************************************************************)
(* Safety of the configured device, for every kind of user and every       *)
(* content of forms, files and flash.                                      *)
(***************************************************************************)
EXTENDS Device, SequenceTheorems, TLAPS

-----------------------------------------------------------------------------
(* What the operations of Settings do to a device: one lemma for each.     *)

Setting == Values \cup {Hard, Zero}
Flags == [ap : BOOLEAN, sta : BOOLEAN]
Radios == [mode : SUBSET Interfaces, ap : Setting, sta : Setting]
Devices ==
  [conf : Blocks, radio : Radios, chg : Flags, live : Nat,
   mux : [tx : {"uart", "gpio"}, g2 : {"uart", "gpio"}], writes : Seq(Blocks)]

(* Nothing of the WiFi is different.                                       *)
SameWifi(r, s) ==
  /\ s.radio = r.radio /\ s.chg = r.chg
  /\ Current(s).mode = Current(r).mode
  /\ Current(s).ap = Current(r).ap /\ Current(s).sta = Current(r).sta

(* The access point runs with the settings of bundle b, or will once       *)
(* settings are applied.                                                   *)
ApIs(r, b) ==
  /\ ("ap" \in r.radio.mode) = ("ap" \in b.mode)
  /\ "ap" \in r.radio.mode => r.radio.ap = b.ap
ApOwed(r, b) == r.chg.ap \/ "ap" \notin r.radio.mode \/ r.radio.ap = b.ap

(* What s has is what r had, or it was written.                            *)
Follows(r, s) ==
  \/ s.writes = r.writes /\ s.conf = r.conf
  \/ Len(s.writes) > Len(r.writes) /\ s.writes[Len(s.writes)] = s.conf

(* Settings and defaults are whole, or (unless all says so) neither needs  *)
(* to be, but the settings are no worse than the defaults; and so is       *)
(* everything written.                                                     *)
Good(b, all) ==
  /\ Whole(b.defaults) => Whole(b.current)
  /\ all => Whole(b.defaults)
WritesGood(r, all) == \A i \in 1..Len(r.writes) : Good(r.writes[i], all)
Sound(r, all) == Good(r.conf, all) /\ WritesGood(r, all)

(* What it has is what it has written last.                                *)
Saved(s) == Len(s.writes) > 0 /\ s.writes[Len(s.writes)] = s.conf

-----------------------------------------------------------------------------
(* A value that field f may have.                                          *)
Fits(f, v) ==
  \/ f = "mode" /\ v \in SUBSET Interfaces
  \/ f \in {"ap", "sta"} /\ v \in Setting
  \/ f = "pin2" /\ v \in {"uart", "out"}
  \/ f \in {"sysOld", "termOld"} /\ v \in BOOLEAN
  \/ f = "size" /\ v \in Nat

LEMMA HavingIs ==
  ASSUME NEW r \in Devices, NEW f, NEW v, NEW s, s = Having(r, f, v), Fits(f, v)
  PROVE  /\ s \in Devices
         /\ s.conf.defaults = r.conf.defaults /\ s.conf.admin = r.conf.admin
         /\ Current(s).mode = IF f = "mode" THEN v ELSE Current(r).mode
         /\ Current(s).ap = IF f = "ap" THEN v ELSE Current(r).ap
         /\ Current(s).sta = IF f = "sta" THEN v ELSE Current(r).sta
         /\ Current(s).size = IF f = "size" THEN v ELSE Current(r).size
         /\ Current(s).pin2 = IF f = "pin2" THEN v ELSE Current(r).pin2
         /\ Current(s).sysOld = IF f = "sysOld" THEN v ELSE Current(r).sysOld
         /\ Current(s).termOld = IF f = "termOld" THEN v ELSE Current(r).termOld
         /\ s.radio = r.radio /\ s.chg = r.chg /\ s.live = r.live
         /\ s.writes = r.writes /\ s.mux = r.mux
<1> DEFINE c == [Current(r) EXCEPT ![f] = v]
<1>1. r.conf \in Blocks /\ Current(r) \in Bundles
  BY DEF Devices, Blocks, Current
<1>2. /\ c \in Bundles
      /\ c.mode = IF f = "mode" THEN v ELSE Current(r).mode
      /\ c.ap = IF f = "ap" THEN v ELSE Current(r).ap
      /\ c.sta = IF f = "sta" THEN v ELSE Current(r).sta
      /\ c.size = IF f = "size" THEN v ELSE Current(r).size
      /\ c.pin2 = IF f = "pin2" THEN v ELSE Current(r).pin2
      /\ c.sysOld = IF f = "sysOld" THEN v ELSE Current(r).sysOld
      /\ c.termOld = IF f = "termOld" THEN v ELSE Current(r).termOld
  <2>1. CASE f = "mode" /\ v \in SUBSET Interfaces
    BY <1>1, <2>1 DEF Bundles
  <2>2. CASE f \in {"ap", "sta"} /\ v \in Setting
    BY <1>1, <2>2 DEF Bundles, Setting
  <2>3. CASE f = "pin2" /\ v \in {"uart", "out"}
    BY <1>1, <2>3 DEF Bundles
  <2>4. CASE f \in {"sysOld", "termOld"} /\ v \in BOOLEAN
    BY <1>1, <2>4 DEF Bundles
  <2>5. CASE f = "size" /\ v \in Nat
    BY <1>1, <2>5 DEF Bundles
  <2> QED BY <2>1, <2>2, <2>3, <2>4, <2>5 DEF Fits
<1>3. /\ s \in Devices /\ s.conf = [r.conf EXCEPT !.current = c]
      /\ s.radio = r.radio /\ s.chg = r.chg /\ s.live = r.live
      /\ s.writes = r.writes /\ s.mux = r.mux
  BY <1>2 DEF Having, Current, Devices, Blocks
<1> HIDE DEF c
<1>4. Current(s) = c /\ s.conf.defaults = r.conf.defaults /\ s.conf.admin = r.conf.admin
  BY <1>1, <1>3 DEF Current, Blocks
<1> QED BY <1>2, <1>3, <1>4

LEMMA StoreIs ==
  ASSUME NEW r \in Devices, NEW s, s = Store(r)
  PROVE  /\ s \in Devices
         /\ s.conf = r.conf
         /\ s.radio = r.radio /\ s.chg = r.chg /\ s.live = r.live
         /\ s.writes = Append(r.writes, r.conf) /\ s.mux = r.mux
         /\ Follows(r, s)
         /\ \A all \in BOOLEAN : Sound(r, all) => Sound(s, all)
<1>1. /\ s \in Devices /\ r.conf \in Blocks /\ r.writes \in Seq(Blocks)
      /\ s.conf = r.conf /\ s.radio = r.radio /\ s.chg = r.chg /\ s.live = r.live
      /\ s.writes = Append(r.writes, r.conf) /\ s.mux = r.mux
  <2>1. r.conf \in Blocks /\ r.writes \in Seq(Blocks)
    BY DEF Devices
  <2>2. Append(r.writes, r.conf) \in Seq(Blocks)
    BY <2>1
  <2> QED BY <2>1, <2>2 DEF Store, Devices
<1>2. /\ Len(s.writes) = Len(r.writes) + 1 /\ Len(r.writes) \in Nat
      /\ s.writes[Len(r.writes) + 1] = r.conf
      /\ \A i \in 1..Len(r.writes) : s.writes[i] = r.writes[i]
  BY <1>1, AppendProperties
<1>3. ASSUME NEW all \in BOOLEAN, Sound(r, all) PROVE Sound(s, all)
  BY <1>1, <1>2, <1>3 DEF Sound, WritesGood
<1> QED BY <1>1, <1>2, <1>3 DEF Follows

LEMMA ConfigureIs ==
  ASSUME NEW r \in Devices, NEW i \in Interfaces, NEW s, s = Configure(r, i)
  PROVE  /\ s \in Devices
         /\ s.conf = r.conf /\ s.writes = r.writes /\ s.live = r.live
         /\ s.radio.mode = r.radio.mode
         /\ s.radio.ap = IF i = "ap" THEN Current(r).ap ELSE r.radio.ap
         /\ s.chg = r.chg /\ s.mux = r.mux
<1>1. Current(r).ap \in Setting /\ Current(r).sta \in Setting
  BY DEF Devices, Blocks, Bundles, Setting, Current
<1>2. [r.radio EXCEPT ![i] = Current(r)[i]] \in Radios
  <2>1. r.radio \in Radios
    BY DEF Devices
  <2>2. CASE i = "ap"
    BY <1>1, <2>1, <2>2 DEF Radios
  <2>3. CASE i = "sta"
    BY <1>1, <2>1, <2>3 DEF Radios
  <2> QED BY <2>2, <2>3 DEF Interfaces
<1>3. /\ s \in Devices
      /\ s.conf = r.conf /\ s.writes = r.writes /\ s.live = r.live
      /\ s.radio = [r.radio EXCEPT ![i] = Current(r)[i]]
      /\ s.chg = r.chg /\ s.mux = r.mux
  BY <1>2 DEF Configure, Devices
<1>4. r.radio \in Radios
  BY DEF Devices
<1> QED BY <1>3, <1>4 DEF Radios, Interfaces

LEMMA ApplyWifiIs ==
  ASSUME NEW r \in Devices, NEW s, s = ApplyWifi(r)
  PROVE  /\ s \in Devices
         /\ s.conf = r.conf /\ s.writes = r.writes /\ s.live = r.live
         /\ s.mux = r.mux /\ s.radio.mode = Current(r).mode /\ s.chg = NoFlags
         /\ ApOwed(r, Current(r)) => ApIs(s, Current(s)) /\ ApOwed(s, Current(s))
<1> DEFINE due(i) == i \in Current(r).mode /\ (r.chg[i] \/ NewlyOn(r, i))
           cycled == [r EXCEPT !.radio.mode = Current(r).mode]
           sta == IF due("sta") THEN Configure(cycled, "sta") ELSE cycled
           ap == IF due("ap") THEN Configure(sta, "ap") ELSE sta
<1>1. /\ cycled \in Devices
      /\ cycled.conf = r.conf /\ cycled.writes = r.writes /\ cycled.live = r.live
      /\ cycled.radio.mode = Current(r).mode /\ cycled.radio.ap = r.radio.ap
      /\ cycled.mux = r.mux
  BY DEF Devices, Radios, Current, Blocks, Bundles
<1>2. /\ sta \in Devices
      /\ sta.conf = r.conf /\ sta.writes = r.writes /\ sta.live = r.live
      /\ sta.radio.mode = Current(r).mode /\ sta.radio.ap = r.radio.ap
      /\ sta.mux = r.mux
  <2> HIDE DEF cycled
  <2>1. CASE due("sta")
    <3> HIDE DEF due
    <3>1. sta = Configure(cycled, "sta") /\ "sta" \in Interfaces
      BY <2>1 DEF Interfaces
    <3> HIDE DEF sta
    <3> QED BY <1>1, <3>1, ConfigureIs DEF Radios, Devices
  <2>2. CASE ~due("sta")
    <3> HIDE DEF due
    <3> QED BY <1>1, <2>2 DEF Radios, Devices
  <2> QED BY <2>1, <2>2
<1>3. /\ ap \in Devices
      /\ ap.conf = r.conf /\ ap.writes = r.writes /\ ap.live = r.live
      /\ ap.radio.mode = Current(r).mode /\ ap.mux = r.mux
      /\ ap.radio.ap = IF due("ap") THEN Current(r).ap ELSE r.radio.ap
  <2> HIDE DEF sta
  <2>1. CASE due("ap")
    <3> HIDE DEF due
    <3>1. ap = Configure(sta, "ap") /\ "ap" \in Interfaces
      BY <2>1 DEF Interfaces
    <3>2. Current(sta) = Current(r)
      BY <1>2 DEF Current
    <3> HIDE DEF ap
    <3> QED BY <1>2, <2>1, <3>1, <3>2, ConfigureIs DEF Radios, Devices
  <2>2. CASE ~due("ap")
    <3> HIDE DEF due
    <3> QED BY <1>2, <2>2 DEF Radios, Devices
  <2> QED BY <2>1, <2>2
<1>4. s = [ap EXCEPT !.chg = NoFlags]
  BY DEF ApplyWifi
<1> HIDE DEF ap, sta, cycled
<1>5. /\ s \in Devices
      /\ s.conf = r.conf /\ s.writes = r.writes /\ s.live = r.live
      /\ s.mux = r.mux /\ s.radio = ap.radio /\ s.chg = NoFlags
  <2>1. NoFlags \in Flags
    BY DEF NoFlags, Flags
  <2> QED BY <1>3, <1>4, <2>1 DEF Devices
<1>6. ASSUME ApOwed(r, Current(r)) PROVE ApIs(s, Current(s)) /\ ApOwed(s, Current(s))
  <2>1. Current(s) = Current(r)
    BY <1>5 DEF Current
  <2> QED BY <1>3, <1>5, <1>6, <2>1 DEF ApOwed, ApIs, NewlyOn
<1> QED BY <1>3, <1>5, <1>6

(* Only what is written changes what is sound.                             *)
LEMMA SoundFrom ==
  ASSUME NEW r \in Devices, NEW s \in Devices, s.writes = r.writes,
         Whole(Current(r)) => Whole(Current(s)), s.conf.defaults = r.conf.defaults
  PROVE  \A all \in BOOLEAN : Sound(r, all) => Sound(s, all)
BY DEF Sound, WritesGood, Good, Current

LEMMA FollowsOn ==
  ASSUME NEW r \in Devices, NEW s \in Devices, NEW t \in Devices,
         Follows(r, s), Follows(s, t)
  PROVE  Follows(r, t)
<1>1. Len(r.writes) \in Nat /\ Len(s.writes) \in Nat /\ Len(t.writes) \in Nat
  BY DEF Devices
<1> QED BY <1>1 DEF Follows

(* What is changed and then stored.                                        *)
LEMMA ChangedAndStored ==
  ASSUME NEW r \in Devices, NEW c \in Devices, c.writes = r.writes,
         NEW s, s = Store(c)
  PROVE  Follows(r, s) /\ Saved(s)
<1>1. /\ r.writes \in Seq(Blocks) /\ c.conf \in Blocks
      /\ s.writes = Append(r.writes, c.conf) /\ s.conf = c.conf
  BY StoreIs DEF Devices
<1>2. /\ Len(s.writes) = Len(r.writes) + 1 /\ Len(r.writes) \in Nat
      /\ s.writes[Len(r.writes) + 1] = c.conf
  BY <1>1, AppendProperties
<1> QED BY <1>1, <1>2 DEF Follows, Saved

Keeps(r, s) ==
  /\ Follows(r, s) /\ SameWifi(r, s)
  /\ s.conf.defaults = r.conf.defaults /\ s.conf.admin = r.conf.admin
  /\ \A all \in BOOLEAN : Sound(r, all) => Sound(s, all)

-----------------------------------------------------------------------------
(* The system and the terminal: neither looks at the WiFi.                 *)

SameButSize(r, s) ==
  /\ s \in Devices /\ SameWifi(r, s)
  /\ s.conf.defaults = r.conf.defaults /\ s.conf.admin = r.conf.admin
  /\ s.live = r.live /\ s.writes = r.writes /\ s.mux = r.mux

LEMMA HavingFlag ==
  ASSUME NEW r \in Devices, NEW f \in {"sysOld", "termOld"}, NEW b \in BOOLEAN,
         NEW s, s = Having(r, f, b)
  PROVE  SameButSize(r, s) /\ Current(s).size = Current(r).size
<1>1. Fits(f, b)
  BY DEF Fits
<1> QED BY <1>1, HavingIs DEF SameButSize, SameWifi

LEMMA HavingOld ==
  ASSUME NEW r \in Devices, NEW f \in {"sysOld", "termOld"}, NEW s, s = Having(r, f, FALSE)
  PROVE  SameButSize(r, s) /\ Current(s).size = Current(r).size
BY HavingFlag, Zenon

LEMMA HavingSize ==
  ASSUME NEW r \in Devices, NEW n \in Nat, NEW s, s = Having(r, "size", n)
  PROVE  SameButSize(r, s) /\ Current(s).size = n
<1>1. Fits("size", n)
  BY DEF Fits
<1> QED BY <1>1, HavingIs DEF SameButSize, SameWifi

LEMMA TermDefaultsIs ==
  ASSUME NEW r \in Devices, NEW s, s = TermDefaults(r)
  PROVE  SameButSize(r, s) /\ Current(s).size = HardSize
<1> DEFINE p == Having(r, "size", HardSize)
<1>1. HardSize \in Nat /\ s = Having(p, "termOld", FALSE)
  BY SettingsAssumption DEF TermDefaults
<1>2. SameButSize(r, p) /\ Current(p).size = HardSize
  BY <1>1, HavingSize
<1> HIDE DEF p
<1>3. SameButSize(p, s) /\ Current(s).size = HardSize
  BY <1>1, <1>2, HavingOld DEF SameButSize
<1> QED BY <1>2, <1>3 DEF SameButSize, SameWifi

LEMMA ApplySysIs ==
  ASSUME NEW r \in Devices, NEW s, s = ApplySys(r)
  PROVE  /\ s \in Devices /\ Keeps(r, s)
         /\ s.live = r.live /\ s.mux.tx = r.mux.tx
         /\ Current(s).size = Current(r).size
<1> DEFINE p == Having(r, "pin2", "uart")
           o == Having(p, "sysOld", FALSE)
           new == IF Current(r).sysOld THEN Store(o) ELSE r
<1> HIDE DEF o, p
<1>1. SameButSize(r, p) /\ Current(p).size = Current(r).size
  <2>1. p = Having(r, "pin2", "uart") /\ Fits("pin2", "uart")
    BY DEF p, Fits
  <2> QED BY <2>1, HavingIs DEF SameButSize, SameWifi
<1>2. SameButSize(p, o) /\ Current(o).size = Current(p).size
  BY <1>1, HavingOld DEF o, SameButSize
<1>3. /\ new \in Devices /\ Keeps(r, new) /\ new.live = r.live
      /\ Current(new).size = Current(r).size /\ new.mux = r.mux
  <2>1. CASE Current(r).sysOld
    <3>1. new = Store(o)
      BY <2>1
    <3> HIDE DEF new
    <3>2. o \in Devices /\ o.writes = r.writes
      BY <1>1, <1>2 DEF SameButSize
    <3>3. /\ new \in Devices /\ new.conf = o.conf /\ new.live = o.live
          /\ new.radio = o.radio /\ new.chg = o.chg /\ new.mux = o.mux
          /\ \A all \in BOOLEAN : Sound(o, all) => Sound(new, all)
      BY <3>1, <3>2, StoreIs
    <3>4. \A all \in BOOLEAN : Sound(r, all) => Sound(o, all)
      <4>1. Whole(Current(r)) => Whole(Current(o))
        BY <1>1, <1>2 DEF Whole, SameButSize, SameWifi
      <4>2. o.conf.defaults = r.conf.defaults
        BY <1>1, <1>2 DEF SameButSize
      <4> QED BY <3>2, <4>1, <4>2, SoundFrom
    <3>5. Follows(r, new)
      BY <3>1, <3>2, ChangedAndStored
    <3> QED BY <1>1, <1>2, <3>3, <3>4, <3>5 DEF Keeps, SameButSize, SameWifi, Current
  <2>2. CASE ~Current(r).sysOld
    BY <2>2 DEF Keeps, Follows, SameWifi
  <2> QED BY <2>1, <2>2
<1>4. s = [new EXCEPT !.mux.g2 = IF Current(new).pin2 = "uart" THEN "uart" ELSE "gpio"]
  BY DEF ApplySys, o, p
<1> HIDE DEF new
<1>5. /\ s \in Devices /\ s.conf = new.conf /\ s.radio = new.radio /\ s.chg = new.chg
      /\ s.live = new.live /\ s.writes = new.writes /\ s.mux.tx = new.mux.tx
  <2>1. new.mux \in [tx : {"uart", "gpio"}, g2 : {"uart", "gpio"}]
    BY <1>3 DEF Devices
  <2> DEFINE m == [new.mux EXCEPT !.g2 = IF Current(new).pin2 = "uart" THEN "uart" ELSE "gpio"]
  <2>2. m \in [tx : {"uart", "gpio"}, g2 : {"uart", "gpio"}] /\ m.tx = new.mux.tx
    BY <2>1
  <2>3. s = [new EXCEPT !.mux = m]
    BY <1>4
  <2> HIDE DEF m
  <2> QED BY <1>3, <2>2, <2>3 DEF Devices
<1>6. \A all \in BOOLEAN : Sound(new, all) => Sound(s, all)
  BY <1>3, <1>5, SoundFrom DEF Current
<1> QED BY <1>3, <1>5, <1>6 DEF Keeps, Follows, SameWifi, Current

LEMMA ApplyTermIs ==
  ASSUME NEW r \in Devices, NEW s, s = ApplyTerm(r)
  PROVE  /\ s \in Devices /\ Keeps(r, s) /\ s.mux = r.mux
         /\ s.live = Current(s).size /\ s.live \in 0..MaxSize
         /\ Current(r).size > 0 => s.live > 0
<1> DEFINE p == Having(r, "termOld", FALSE)
           new == SizeChecked(p)
           run == [new EXCEPT !.live = Current(new).size]
<1>1. s = IF new.conf # r.conf THEN Store(run) ELSE run
  BY DEF ApplyTerm
<1>2. SameButSize(r, p) /\ Current(p).size = Current(r).size
  BY HavingOld
<1> HIDE DEF p
<1>3. /\ SameButSize(p, new) /\ Current(new).size \in 0..MaxSize
      /\ Current(p).size > 0 => Current(new).size > 0
  <2>1. p \in Devices /\ Current(p).size \in Nat
    BY <1>2 DEF SameButSize, Devices, Blocks, Bundles, Current
  <2>2. CASE Current(p).size > MaxSize
    <3>1. new = TermDefaults(p)
      BY <2>2 DEF SizeChecked
    <3> HIDE DEF new
    <3>2. SameButSize(p, new) /\ Current(new).size = HardSize
      BY <2>1, <3>1, TermDefaultsIs
    <3> QED BY <3>2, SettingsAssumption
  <2>3. CASE ~(Current(p).size > MaxSize)
    <3>1. new = p
      BY <2>3 DEF SizeChecked
    <3> QED BY <2>1, <2>3, <3>1, SettingsAssumption DEF SameButSize, SameWifi
  <2> QED BY <2>2, <2>3
<1> HIDE DEF new
<1>4. SameButSize(r, new)
  BY <1>2, <1>3 DEF SameButSize, SameWifi
<1>5. /\ run \in Devices /\ run.conf = new.conf /\ run.live = Current(new).size
      /\ run.radio = new.radio /\ run.chg = new.chg /\ run.writes = r.writes
      /\ run.mux = r.mux
  BY <1>3, <1>4, SettingsAssumption DEF SameButSize, Devices
<1> HIDE DEF run
<1>6. \A all \in BOOLEAN : Sound(r, all) => Sound(run, all)
  <2>1. Whole(Current(r)) => Whole(Current(run))
    BY <1>2, <1>3, <1>4, <1>5 DEF SameButSize, SameWifi, Whole, Current
  <2> QED BY <1>4, <1>5, <2>1, SoundFrom DEF SameButSize
<1>7. SameWifi(r, run) /\ run.conf.defaults = r.conf.defaults
      /\ run.conf.admin = r.conf.admin
  BY <1>4, <1>5 DEF SameButSize, SameWifi, Current
<1>8. Current(r).size > 0 => run.live > 0
  BY <1>2, <1>3, <1>5
<1>9. CASE new.conf # r.conf
  <2>1. s = Store(run)
    BY <1>1, <1>9
  <2>2. /\ s \in Devices /\ s.conf = run.conf /\ s.radio = run.radio /\ s.chg = run.chg
        /\ s.live = run.live /\ s.mux = run.mux
        /\ \A all \in BOOLEAN : Sound(run, all) => Sound(s, all)
    BY <1>5, <2>1, StoreIs
  <2>3. Follows(r, s)
    BY <1>5, <2>1, ChangedAndStored
  <2> QED BY <1>3, <1>5, <1>6, <1>7, <1>8, <2>2, <2>3 DEF Keeps, SameWifi, Current
<1>10. CASE new.conf = r.conf
  <2>1. s = run
    BY <1>1, <1>10
  <2> QED BY <1>3, <1>5, <1>6, <1>7, <1>8, <1>10, <2>1 DEF Keeps, Follows, Current
<1> QED BY <1>9, <1>10

-----------------------------------------------------------------------------
(* The block.                                                              *)

(* The settings of r are applied.                                          *)
Applied(r, s) ==
  /\ s \in Devices /\ Follows(r, s)
  /\ s.conf.defaults = r.conf.defaults /\ s.conf.admin = r.conf.admin
  /\ \A all \in BOOLEAN : Sound(r, all) => Sound(s, all)
  /\ Current(s).mode = Current(r).mode
  /\ Current(s).ap = Current(r).ap /\ Current(s).sta = Current(r).sta
  /\ s.live = Current(s).size /\ s.live \in 0..MaxSize
  /\ Current(r).size > 0 => s.live > 0
  /\ s.radio.mode = Current(s).mode /\ s.mux.tx = r.mux.tx
  /\ ApOwed(r, Current(r)) => ApIs(s, Current(s)) /\ ApOwed(s, Current(s))

LEMMA ApplyLiveIs ==
  ASSUME NEW r \in Devices, NEW s, s = ApplyLive(r)
  PROVE  Applied(r, s)
<1> DEFINE a == ApplySys(r)
           b == ApplyWifi(a)
<1>1. s = ApplyTerm(b)
  BY DEF ApplyLive
<1>2. /\ a \in Devices /\ Keeps(r, a) /\ a.live = r.live /\ a.mux.tx = r.mux.tx
      /\ Current(a).size = Current(r).size
  BY ApplySysIs
<1> HIDE DEF a
<1>3. /\ b \in Devices /\ b.conf = a.conf /\ b.writes = a.writes /\ b.mux = a.mux
      /\ b.radio.mode = Current(a).mode
      /\ ApOwed(a, Current(a)) => ApIs(b, Current(b)) /\ ApOwed(b, Current(b))
  BY <1>2, ApplyWifiIs
<1> HIDE DEF b
<1>4. /\ s \in Devices /\ Keeps(b, s) /\ s.mux = b.mux
      /\ s.live = Current(s).size /\ s.live \in 0..MaxSize
      /\ Current(b).size > 0 => s.live > 0
  BY <1>1, <1>3, ApplyTermIs
<1>5. Follows(r, s)
  <2>1. Follows(r, a) /\ Follows(b, s)
    BY <1>2, <1>4 DEF Keeps
  <2>2. Follows(a, b)
    BY <1>3 DEF Follows
  <2> QED BY <1>2, <1>3, <1>4, <2>1, <2>2, FollowsOn
<1>6. \A all \in BOOLEAN : Sound(r, all) => Sound(s, all)
  <2>1. \A all \in BOOLEAN : Sound(a, all) => Sound(b, all)
    BY <1>2, <1>3, SoundFrom DEF Current
  <2> QED BY <1>2, <1>4, <2>1 DEF Keeps
<1>7. /\ SameWifi(r, a) /\ SameWifi(b, s) /\ Current(b) = Current(a)
      /\ s.conf.defaults = r.conf.defaults /\ s.conf.admin = r.conf.admin
  BY <1>2, <1>3, <1>4 DEF Keeps, Current
<1>8. ApOwed(r, Current(r)) => ApIs(s, Current(s)) /\ ApOwed(s, Current(s))
  BY <1>3, <1>7 DEF SameWifi, ApOwed, ApIs
<1>9. /\ Current(s).mode = Current(r).mode
      /\ Current(s).ap = Current(r).ap /\ Current(s).sta = Current(r).sta
      /\ s.radio.mode = Current(s).mode
  BY <1>3, <1>7 DEF SameWifi
<1> QED BY <1>2, <1>3, <1>4, <1>5, <1>6, <1>7, <1>8, <1>9 DEF Applied

LEMMA SavedStays ==
  ASSUME NEW r \in Devices, NEW s \in Devices, Saved(r), Follows(r, s)
  PROVE  Saved(s)
<1>1. Len(r.writes) \in Nat /\ Len(s.writes) \in Nat
  BY DEF Devices
<1> QED BY <1>1 DEF Saved, Follows

LEMMA StoredIs ==
  ASSUME NEW r \in Devices, NEW s, s = Store(r)
  PROVE  Saved(s)
BY ChangedAndStored

(* Another bundle becomes the current one.                                 *)
LEMMA WithCurrent ==
  ASSUME NEW r \in Devices, NEW c \in Bundles, NEW s,
         s = [r EXCEPT !.conf.current = c]
  PROVE  /\ s \in Devices /\ Current(s) = c
         /\ s.conf.defaults = r.conf.defaults /\ s.conf.admin = r.conf.admin
         /\ s.radio = r.radio /\ s.chg = r.chg /\ s.live = r.live
         /\ s.writes = r.writes /\ s.mux = r.mux
<1>1. r.conf \in Blocks /\ [r.conf EXCEPT !.current = c] \in Blocks
  BY DEF Devices, Blocks
<1>2. /\ s \in Devices /\ s.conf = [r.conf EXCEPT !.current = c]
      /\ s.radio = r.radio /\ s.chg = r.chg /\ s.live = r.live
      /\ s.writes = r.writes /\ s.mux = r.mux
  BY <1>1 DEF Devices
<1> QED BY <1>1, <1>2 DEF Blocks, Current

LEMMA RestoreDefaultIs ==
  ASSUME NEW r \in Devices, NEW s, s = RestoreDefault(r)
  PROVE  /\ s \in Devices /\ Saved(s)
         /\ s.conf.admin = r.conf.admin
         /\ s.live = Current(s).size /\ s.live \in 0..MaxSize
         /\ \A all \in BOOLEAN : Sound(r, all) => Sound(s, all)
<1> DEFINE a == [r EXCEPT !.conf.current = r.conf.defaults]
           b == ApplyLive(a)
<1>1. r.conf.defaults \in Bundles /\ s = Store(b)
  BY DEF Devices, Blocks, RestoreDefault
<1>2. /\ a \in Devices /\ Current(a) = r.conf.defaults
      /\ a.conf.defaults = r.conf.defaults /\ a.conf.admin = r.conf.admin
      /\ a.writes = r.writes /\ a.mux = r.mux
  BY <1>1, WithCurrent, ZenonT(60)
<1> HIDE DEF a
<1>3. Applied(a, b)
  BY <1>2, ApplyLiveIs
<1> HIDE DEF b
<1>4. /\ s \in Devices /\ s.conf = b.conf /\ s.live = b.live /\ s.mux = b.mux
      /\ \A all \in BOOLEAN : Sound(b, all) => Sound(s, all)
      /\ Saved(s)
  BY <1>1, <1>3, StoreIs, StoredIs DEF Applied
<1>5. ASSUME NEW all \in BOOLEAN, Sound(r, all) PROVE Sound(s, all)
  <2>1. WritesGood(r, all) /\ (all => Whole(r.conf.defaults))
    BY <1>5 DEF Sound, Good
  <2>2. Good(a.conf, all)
    BY <1>2, <2>1 DEF Good, Current
  <2>3. Sound(a, all)
    BY <1>2, <2>1, <2>2 DEF Sound, WritesGood
  <2> QED BY <1>3, <1>4, <2>3 DEF Applied
<1> QED BY <1>2, <1>3, <1>4, <1>5 DEF Applied, Current

LEMMA HardDefaultsIs ==
  ASSUME NEW r \in Devices, NEW s, s = HardDefaults(r)
  PROVE  /\ s \in Devices /\ Whole(Current(s))
         /\ s.conf.defaults = r.conf.defaults /\ s.conf.admin = r.conf.admin
         /\ s.radio = r.radio /\ s.chg = r.chg
         /\ s.writes = r.writes /\ s.mux = r.mux
<1> DEFINE c == [Current(r) EXCEPT !.mode = STATIONAP_MODE, !.ap = Hard, !.sta = Hard,
                                   !.pin2 = "uart", !.sysOld = FALSE]
           a == [r EXCEPT !.conf.current = c]
<1>1. s = TermDefaults(a)
  BY DEF HardDefaults, Current
<1>2. c \in Bundles /\ c.ap = Hard /\ c.sta = Hard
  <2>1. Current(r) \in Bundles
    BY DEF Devices, Blocks, Current
  <2> QED BY <2>1 DEF Bundles, STATIONAP_MODE
<1> HIDE DEF c
<1>3. /\ a \in Devices /\ Current(a) = c
      /\ a.conf.defaults = r.conf.defaults /\ a.conf.admin = r.conf.admin
      /\ a.radio = r.radio /\ a.chg = r.chg /\ a.live = r.live
      /\ a.writes = r.writes /\ a.mux = r.mux
  BY <1>2, WithCurrent
<1> HIDE DEF a
<1>4. SameButSize(a, s) /\ Current(s).size = HardSize
  BY <1>1, <1>3, TermDefaultsIs
<1>5. Whole(Current(s))
  BY <1>2, <1>3, <1>4, SettingsAssumption DEF SameButSize, SameWifi, Whole, Hard, Zero
<1> QED BY <1>3, <1>4, <1>5 DEF SameButSize, SameWifi

LEMMA LoadHardDefaultIs ==
  ASSUME NEW r \in Devices, NEW s, s = LoadHardDefault(r)
  PROVE  /\ s \in Devices /\ Saved(s)
         /\ s.conf.defaults = r.conf.defaults /\ s.conf.admin = r.conf.admin
         /\ s.live = Current(s).size /\ s.live \in 0..MaxSize
         /\ \A all \in BOOLEAN :
              WritesGood(r, all) /\ (all => Whole(r.conf.defaults)) => Sound(s, all)
         /\ r.radio.mode = {} => ApIs(s, Current(s)) /\ ApOwed(s, Current(s))
<1> DEFINE a == HardDefaults(r)
           b == Store(a)
<1>1. s = ApplyLive(b)
  BY DEF LoadHardDefault
<1>2. /\ a \in Devices /\ Whole(Current(a))
      /\ a.conf.defaults = r.conf.defaults /\ a.conf.admin = r.conf.admin
      /\ a.radio = r.radio /\ a.writes = r.writes /\ a.mux = r.mux
  BY HardDefaultsIs
<1> HIDE DEF a
<1>3. /\ b \in Devices /\ b.conf = a.conf /\ b.radio = a.radio /\ b.mux = a.mux
      /\ Saved(b) /\ \A all \in BOOLEAN : Sound(a, all) => Sound(b, all)
  BY <1>2, StoreIs, StoredIs
<1> HIDE DEF b
<1>4. Applied(b, s)
  BY <1>1, <1>3, ApplyLiveIs
<1>5. Saved(s) /\ s \in Devices
  BY <1>3, <1>4, SavedStays DEF Applied
<1>6. ASSUME NEW all \in BOOLEAN, WritesGood(r, all), all => Whole(r.conf.defaults)
      PROVE  Sound(s, all)
  <2>1. Good(a.conf, all)
    BY <1>2, <1>6 DEF Good, Current
  <2>2. Sound(a, all)
    BY <1>2, <1>6, <2>1 DEF Sound, WritesGood
  <2> QED BY <1>3, <1>4, <2>2 DEF Applied
<1>7. ASSUME r.radio.mode = {} PROVE ApIs(s, Current(s)) /\ ApOwed(s, Current(s))
  <2>1. ApOwed(b, Current(b))
    BY <1>2, <1>3, <1>7 DEF ApOwed
  <2> QED BY <1>4, <2>1 DEF Applied
<1> QED BY <1>2, <1>3, <1>4, <1>5, <1>6, <1>7 DEF Applied

LEMMA SetAsDefaultIs ==
  ASSUME NEW r \in Devices, NEW s, s = SetAsDefault(r)
  PROVE  /\ s \in Devices /\ Saved(s) /\ SameWifi(r, s) /\ Current(s) = Current(r)
         /\ s.conf.admin = r.conf.admin /\ s.live = r.live /\ s.mux = r.mux
         /\ \A all \in BOOLEAN : Sound(r, all) => Sound(s, all)
<1> DEFINE a == [r EXCEPT !.conf.defaults = Current(r)]
<1>1. r.conf \in Blocks /\ [r.conf EXCEPT !.defaults = Current(r)] \in Blocks
  BY DEF Devices, Blocks, Current
<1>2. /\ a \in Devices /\ a.conf = [r.conf EXCEPT !.defaults = Current(r)]
      /\ a.radio = r.radio /\ a.chg = r.chg /\ a.live = r.live
      /\ a.writes = r.writes /\ a.mux = r.mux
  BY <1>1 DEF Devices
<1>3. s = Store(a)
  BY DEF SetAsDefault
<1> HIDE DEF a
<1>4. /\ a.conf.defaults = Current(r) /\ Current(a) = Current(r)
      /\ a.conf.admin = r.conf.admin
  BY <1>1, <1>2 DEF Blocks, Current
<1>5. \A all \in BOOLEAN : Sound(r, all) => Sound(a, all)
  BY <1>2, <1>4 DEF Sound, WritesGood, Good, Current
<1>6. /\ s \in Devices /\ s.conf = a.conf /\ s.radio = a.radio /\ s.chg = a.chg
      /\ s.live = a.live /\ s.mux = a.mux /\ Saved(s)
      /\ \A all \in BOOLEAN : Sound(a, all) => Sound(s, all)
  BY <1>2, <1>3, StoreIs, StoredIs
<1> QED BY <1>2, <1>4, <1>5, <1>6 DEF SameWifi, Current

LEMMA AdminDefaultsIs ==
  ASSUME NEW r \in Devices, NEW s, s = AdminDefaults(r)
  PROVE  /\ s \in Devices /\ s.conf.admin.version = 1
         /\ s.conf.defaults = r.conf.defaults /\ Current(s) = Current(r)
         /\ s.radio = r.radio /\ s.chg = r.chg /\ s.live = r.live
         /\ s.writes = r.writes /\ s.mux = r.mux
<1> DEFINE a == [version |-> 1, pw |-> DEFAULT_ADMIN_PW]
<1>1. a \in Admins /\ a.version = 1
  BY DEF Admins
<1>2. s = [r EXCEPT !.conf.admin = a]
  BY DEF AdminDefaults
<1> HIDE DEF a
<1>3. r.conf \in Blocks /\ [r.conf EXCEPT !.admin = a] \in Blocks
  BY <1>1 DEF Devices, Blocks
<1>4. /\ s \in Devices /\ s.conf = [r.conf EXCEPT !.admin = a]
      /\ s.radio = r.radio /\ s.chg = r.chg /\ s.live = r.live
      /\ s.writes = r.writes /\ s.mux = r.mux
  BY <1>2, <1>3 DEF Devices
<1> QED BY <1>1, <1>3, <1>4 DEF Blocks, Current

LEMMA RepairedIs ==
  ASSUME NEW r \in Devices, NEW s, s = Repaired(r)
  PROVE  /\ s \in Devices /\ Follows(r, s) /\ s.conf.admin.version = 1
         /\ Current(s) = Current(r) /\ s.radio = r.radio
         /\ \A all \in BOOLEAN : Sound(r, all) => Sound(s, all)
<1> DEFINE a == AdminDefaults(r)
<1>1. CASE r.conf.admin.version = 0
  <2>1. s = Store(a)
    BY <1>1 DEF Repaired
  <2>2. /\ a \in Devices /\ a.conf.admin.version = 1
        /\ a.conf.defaults = r.conf.defaults /\ Current(a) = Current(r)
        /\ a.radio = r.radio /\ a.writes = r.writes
    BY AdminDefaultsIs
  <2> HIDE DEF a
  <2>3. \A all \in BOOLEAN : Sound(r, all) => Sound(a, all)
    BY <2>2, SoundFrom
  <2>4. /\ s \in Devices /\ s.conf = a.conf /\ s.radio = a.radio
        /\ \A all \in BOOLEAN : Sound(a, all) => Sound(s, all)
    BY <2>1, <2>2, StoreIs
  <2>5. Follows(r, s)
    BY <2>1, <2>2, ChangedAndStored
  <2> QED BY <2>2, <2>3, <2>4, <2>5 DEF Current
<1>2. CASE r.conf.admin.version # 0
  <2>1. s = r
    BY <1>2 DEF Repaired
  <2>2. r.conf.admin.version = 1
    BY <1>2 DEF Devices, Blocks, Admins
  <2> QED BY <2>1, <2>2 DEF Follows
<1> QED BY <1>1, <1>2

LEMMA HardResetIs ==
  ASSUME NEW r \in Devices, r.writes = <<>>, NEW s, s = HardReset(r)
  PROVE  /\ s \in Devices /\ Saved(s) /\ s.conf.admin.version = 1
         /\ s.live = Current(s).size /\ s.live \in 0..MaxSize
         /\ \A all \in BOOLEAN : ~all => Sound(s, all)
         /\ r.radio.mode = {} => ApIs(s, Current(s)) /\ ApOwed(s, Current(s))
<1> DEFINE z == [r EXCEPT !.conf = ZeroBlock]
           hard == LoadHardDefault(z)
           c == [hard EXCEPT !.conf.defaults = Current(hard)]
           a == AdminDefaults(c)
<1>1. s = Store(a)
  BY DEF HardReset
<1>2. z \in Devices /\ z.writes = <<>> /\ z.radio = r.radio /\ z.mux = r.mux
  <2>1. ZeroBundle \in Bundles
    BY DEF ZeroBundle, Bundles, NULL_MODE
  <2>2. ZeroAdmin \in Admins
    BY DEF ZeroAdmin, Admins
  <2>3. ZeroBlock \in Blocks
    BY <2>1, <2>2 DEF ZeroBlock, Blocks
  <2> HIDE DEF z
  <2>4. z = [r EXCEPT !.conf = ZeroBlock]
    BY DEF z
  <2> QED BY <2>3, <2>4 DEF Devices
<1> HIDE DEF z
<1>3. /\ hard \in Devices
      /\ hard.live = Current(hard).size /\ hard.live \in 0..MaxSize
      /\ \A all \in BOOLEAN : ~all => Sound(hard, all)
      /\ r.radio.mode = {} => ApIs(hard, Current(hard)) /\ ApOwed(hard, Current(hard))
  <2>1. \A all \in BOOLEAN : WritesGood(z, all)
    BY <1>2 DEF WritesGood
  <2> QED BY <1>2, <2>1, LoadHardDefaultIs
<1> HIDE DEF hard
<1>4. /\ c \in Devices /\ Current(c) = Current(hard) /\ c.radio = hard.radio
      /\ c.chg = hard.chg /\ c.live = hard.live /\ c.writes = hard.writes
      /\ c.conf.defaults = Current(hard)
  <2>1. hard.conf \in Blocks /\ [hard.conf EXCEPT !.defaults = Current(hard)] \in Blocks
    BY <1>3 DEF Devices, Blocks, Current
  <2>2. /\ c \in Devices /\ c.conf = [hard.conf EXCEPT !.defaults = Current(hard)]
        /\ c.radio = hard.radio /\ c.chg = hard.chg /\ c.live = hard.live
        /\ c.writes = hard.writes /\ c.mux = hard.mux
    BY <1>3, <2>1 DEF Devices
  <2> QED BY <2>1, <2>2 DEF Blocks, Current
<1> HIDE DEF c
<1>5. /\ a \in Devices /\ a.conf.admin.version = 1 /\ Current(a) = Current(hard)
      /\ a.radio = hard.radio /\ a.chg = hard.chg /\ a.live = hard.live
      /\ a.writes = hard.writes /\ a.conf.defaults = Current(hard)
  BY <1>4, AdminDefaultsIs
<1> HIDE DEF a
<1>6. /\ s \in Devices /\ s.conf = a.conf /\ s.radio = a.radio /\ s.chg = a.chg
      /\ s.live = a.live /\ Saved(s)
      /\ \A all \in BOOLEAN : Sound(a, all) => Sound(s, all)
  BY <1>1, <1>5, StoreIs, StoredIs
<1>7. \A all \in BOOLEAN : ~all => Sound(a, all)
  BY <1>3, <1>5 DEF Sound, WritesGood, Good, Current
<1> QED BY <1>3, <1>5, <1>6, <1>7 DEF ApIs, ApOwed, Current

(* A device that has started: what the flash holds, repaired, runs.        *)
LEMMA LoadIs ==
  ASSUME NEW held, NEW s, s = Load(PoweredUp, held),
         held = Unreadable \/ (held = Image(held.block) /\ held.block \in Blocks)
  PROVE  /\ s \in Devices /\ s.conf.admin.version = 1
         /\ Saved(s) \/ (s.writes = <<>> /\ held = Image(s.conf))
         /\ ApIs(s, Current(s)) /\ ApOwed(s, Current(s))
         /\ s.live = Current(s).size /\ s.live \in 0..MaxSize
         /\ \A all \in BOOLEAN :
              (IF held = Unreadable THEN ~all ELSE Good(held.block, all)) =>
                Sound(s, all)
<1>1. /\ PoweredUp \in Devices /\ PoweredUp.writes = <<>>
      /\ PoweredUp.radio.mode = {}
  <2>1. ZeroBundle \in Bundles
    BY DEF ZeroBundle, Bundles, NULL_MODE
  <2>2. ZeroAdmin \in Admins
    BY DEF ZeroAdmin, Admins
  <2>3. ZeroBlock \in Blocks
    BY <2>1, <2>2 DEF ZeroBlock, Blocks
  <2>4. <<>> \in Seq(Blocks)
    OBVIOUS
  <2> QED BY <2>3, <2>4 DEF PoweredUp, Devices, Radios, Flags, NoFlags, NULL_MODE, Setting
<1> HIDE DEF PoweredUp
<1>2. CASE held = Unreadable
  <2>1. s = HardReset(PoweredUp)
    BY <1>2 DEF Load, Unreadable
  <2> QED BY <1>1, <1>2, <2>1, HardResetIs
<1>3. CASE held = Image(held.block) /\ held.block \in Blocks
  <2> DEFINE a == [PoweredUp EXCEPT !.conf = held.block]
             b == Repaired(a)
  <2>1. s = ApplyLive(b) /\ held # Unreadable
    BY <1>3 DEF Load, Image, Unreadable
  <2>2. /\ a \in Devices /\ a.conf = held.block /\ a.writes = <<>>
        /\ a.radio.mode = {}
    BY <1>1, <1>3 DEF Devices
  <2> HIDE DEF a
  <2>3. /\ b \in Devices /\ Follows(a, b) /\ b.conf.admin.version = 1
        /\ Current(b) = Current(a) /\ b.radio = a.radio
        /\ \A all \in BOOLEAN : Sound(a, all) => Sound(b, all)
    BY <2>2, RepairedIs
  <2> HIDE DEF b
  <2>4. Applied(b, s) /\ s \in Devices
    BY <2>1, <2>3, ApplyLiveIs DEF Applied
  <2>5. Follows(a, s)
    BY <2>2, <2>3, <2>4, FollowsOn DEF Applied
  <2>6. Saved(s) \/ (s.writes = <<>> /\ s.conf = a.conf)
    BY <2>2, <2>5 DEF Follows, Saved
  <2>7. ApIs(s, Current(s)) /\ ApOwed(s, Current(s))
    BY <2>2, <2>3, <2>4 DEF Applied, ApOwed
  <2>8. ASSUME NEW all \in BOOLEAN, Good(held.block, all) PROVE Sound(s, all)
    <3>1. Sound(a, all)
      BY <2>2, <2>8 DEF Sound, WritesGood
    <3> QED BY <2>3, <2>4, <3>1 DEF Applied
  <2>9. /\ s.conf.admin.version = 1
        /\ s.live = Current(s).size /\ s.live \in 0..MaxSize
    BY <2>3, <2>4 DEF Applied
  <2> QED BY <1>3, <2>1, <2>2, <2>4, <2>6, <2>7, <2>8, <2>9
<1> QED BY <1>2, <1>3

-----------------------------------------------------------------------------
(* The device: its states, what holds in them, and its steps.              *)

Uploads ==
  [backup : Bundles, ok : BOOLEAN, any : SUBSET {"wifi", "term"}, met : BOOLEAN]
Readable(f) == f = Image(f.block) /\ f.block \in Blocks

Typed ==
  /\ user \in Users
  /\ flash = Unreadable \/ Readable(flash)
  /\ On => d \in Devices /\ d.writes = <<>>
  /\ ~On => upload = None /\ timers = {}
  /\ upload = None \/ upload \in Uploads

(* Nothing has come between the settings and the flash.                    *)
Level == notes \cap Apart = {}

(* Besides InStep: an import that has changed nothing so far is not seen,  *)
(* and one that nothing has met can be taken back.                         *)
StepInv ==
  On /\ Level =>
    /\ upload = None \/ upload.any = {} => flash = Image(d.conf)
    /\ upload # None /\ ~upload.met =>
         flash = Image([d.conf EXCEPT !.current = upload.backup])

(* Besides ApFollows: what the access point does not run with yet is       *)
(* flagged, also for an import that is taken back.                         *)
Quiet(ts) == ts \subseteq {"restart"}
ApInv ==
  On /\ "behind" \notin notes =>
    /\ ApOwed(d, Current(d))
    /\ Quiet(timers) /\ (upload = None \/ "wifi" \notin upload.any) =>
         ApIs(d, Current(d))
    /\ upload # None /\ ~upload.met =>
         /\ ApOwed(d, upload.backup)
         /\ Quiet(timers) => ApIs(d, upload.backup)

(* Besides Usable: the flash, too.                                         *)
SizeRuns(r) == Current(r).size > 0 => r.live \in 1..MaxSize
Imports == "import" \in user.does
UseInv ==
  /\ IF flash = Unreadable THEN ~Imports ELSE Good(flash.block, Imports)
  /\ On =>
       /\ Good(d.conf, Imports) /\ d.conf.admin.version = 1
       /\ SizeRuns(d)
  /\ upload # None => Imports /\ Whole(upload.backup)

-----------------------------------------------------------------------------
(* A callback that takes the device to r.                                  *)

LEMMA DeviceIsOn == ASSUME NEW r \in Devices PROVE r # Off
<1>1. DOMAIN r = {"conf", "radio", "chg", "live", "mux", "writes"}
  BY DEF Devices
<1>2. DOMAIN Off = {"off"}
  BY DEF Off
<1> QED BY <1>1, <1>2

LEMMA UploadIsSome == ASSUME NEW u \in Uploads PROVE u # None
<1>1. DOMAIN u = {"backup", "ok", "any", "met"}
  BY DEF Uploads
<1>2. DOMAIN None = {"none"}
  BY DEF None
<1> QED BY <1>1, <1>2

LEMMA ImageIsReadable ==
  ASSUME NEW b \in Blocks
  PROVE  Readable(Image(b)) /\ Image(b).block = b /\ Image(b) # Unreadable
BY DEF Readable, Image, Unreadable

(* What is in the flash after the n-th write.                              *)
LEMMA WrittenIs ==
  ASSUME Typed, NEW r \in Devices, NEW n \in 0..Len(r.writes)
  PROVE  \/ n = 0 /\ Written(r, n) = flash
         \/ /\ n > 0 /\ Written(r, n) = Image(r.writes[n]) /\ r.writes[n] \in Blocks
            /\ Readable(Written(r, n)) /\ Written(r, n) # Unreadable
            /\ Written(r, n).block = r.writes[n]
<1>1. r.writes \in Seq(Blocks) /\ n \in Nat /\ Len(r.writes) \in Nat
  BY DEF Devices
<1>2. CASE n = 0
  BY <1>2 DEF Written
<1>3. CASE n # 0
  <2>1. n \in 1..Len(r.writes)
    BY <1>1, <1>3
  <2>2. r.writes[n] \in Blocks
    BY <1>1, <2>1, ElementOfSeq
  <2>3. Written(r, n) = Image(r.writes[n]) /\ n > 0
    BY <1>1, <1>3 DEF Written
  <2> QED BY <2>2, <2>3, ImageIsReadable
<1> QED BY <1>2, <1>3

LEMMA CompletedIs ==
  ASSUME Typed, NEW r \in Devices, NEW more, Completed(r, more),
         Saved(r) \/ r.writes = <<>>
  PROVE  /\ On' /\ d' \in Devices /\ d'.writes = <<>> /\ user' = user
         /\ d'.conf = r.conf /\ d'.radio = r.radio /\ d'.chg = r.chg /\ d'.live = r.live
         /\ flash' = Unreadable \/ Readable(flash')
         /\ \/ flash' = flash
            \/ /\ flash' # Unreadable
               /\ \E i \in 1..Len(r.writes) : flash'.block = r.writes[i]
         /\ Level' => /\ more \cap Apart = {}
                      /\ IF Saved(r) THEN flash' = Image(r.conf)
                         ELSE flash' = flash /\ Level /\ r.writes = <<>>
         /\ "behind" \notin notes' => "behind" \notin notes /\ "behind" \notin more
<1>1. d' = [r EXCEPT !.writes = <<>>] /\ user' = user
  BY DEF Completed
<1>2. /\ d' \in Devices /\ d'.writes = <<>>
      /\ d'.conf = r.conf /\ d'.radio = r.radio /\ d'.chg = r.chg /\ d'.live = r.live
  <2>1. <<>> \in Seq(Blocks)
    OBVIOUS
  <2> QED BY <1>1, <2>1 DEF Devices
<1>3. On'
  BY <1>2, DeviceIsOn DEF On, Off
<1>4. PICK n \in 0..Len(r.writes) :
        /\ flash' = Written(r, n)
        /\ notes' = more \cup (IF r.writes = <<>> THEN notes
                               ELSE IF n = Len(r.writes) THEN notes \ Apart
                               ELSE notes \cup {"unwritten"})
  BY DEF Completed
<1>5. r.writes \in Seq(Blocks) /\ n \in Nat /\ Len(r.writes) \in Nat
  BY DEF Devices
<1>6. /\ flash' = Unreadable \/ Readable(flash')
      /\ \/ flash' = flash
         \/ /\ flash' # Unreadable
            /\ \E i \in 1..Len(r.writes) : flash'.block = r.writes[i]
  BY <1>4, <1>5, WrittenIs DEF Typed
<1>7. "behind" \notin notes' => "behind" \notin notes /\ "behind" \notin more
  BY <1>4 DEF Apart
<1>8. ASSUME Level'
      PROVE  /\ more \cap Apart = {}
             /\ IF Saved(r) THEN flash' = Image(r.conf)
                ELSE flash' = flash /\ Level /\ r.writes = <<>>
  <2>0. more \cap Apart = {}
    BY <1>4, <1>8 DEF Level
  <2>1. CASE r.writes = <<>>
    <3>1. ~Saved(r) /\ n = 0
      BY <1>4, <2>1 DEF Saved
    <3> QED BY <1>4, <1>8, <2>0, <2>1, <3>1 DEF Level, Written
  <2>2. CASE r.writes # <<>>
    <3>1. Saved(r)
      BY <2>2
    <3>2. n = Len(r.writes)
      BY <1>4, <1>8, <2>2 DEF Level, Apart
    <3>3. n > 0 /\ r.writes[n] = r.conf
      BY <3>1, <3>2 DEF Saved
    <3> QED BY <1>4, <2>0, <3>1, <3>3 DEF Written
  <2> QED BY <2>1, <2>2
<1> QED BY <1>1, <1>2, <1>3, <1>6, <1>7, <1>8

LEMMA PowerLostKeeps ==
  ASSUME Typed, NEW r \in Devices, NEW n \in 0..Len(r.writes), PowerLost(r, n)
  PROVE  /\ Typed' /\ StepInv' /\ ApInv' /\ user' = user
         /\ UseInv /\ WritesGood(r, Imports) => UseInv'
<1>1. /\ flash' = Written(r, n) /\ d' = Off /\ timers' = {} /\ upload' = None
      /\ user' = user
  BY DEF PowerLost
<1>2. ~On'
  BY <1>1 DEF On, Off
<1>3. flash' = Unreadable \/ Readable(flash')
  BY <1>1, WrittenIs DEF Typed
<1>4. Typed'
  BY <1>1, <1>2, <1>3 DEF Typed, None, Unreadable, Readable, Image
<1>5. ASSUME UseInv, WritesGood(r, Imports) PROVE UseInv'
  <2>1. Imports' = Imports
    BY <1>1 DEF Imports
  <2>2. CASE flash' = flash
    BY <1>1, <1>2, <1>5, <2>1, <2>2 DEF UseInv, None, Unreadable
  <2>3. CASE n > 0 /\ flash' # Unreadable /\ flash'.block = r.writes[n]
    <3>1. Good(flash'.block, Imports)
      BY <1>5, <2>3 DEF WritesGood
    <3> QED BY <1>1, <1>2, <2>1, <2>3, <3>1 DEF UseInv, None, Unreadable
  <2> QED BY <1>1, <2>2, <2>3, WrittenIs
<1> QED BY <1>1, <1>2, <1>4, <1>5 DEF StepInv, ApInv

(* What is true of r wherever a callback takes the device there and arms   *)
(* the timers ts.                                                          *)
Stays(r) ==
  /\ r \in Devices
  /\ Saved(r) \/ r.writes = <<>>
  /\ r.conf.admin.version = d.conf.admin.version
  /\ SizeRuns(d) => SizeRuns(r)
  /\ \A all \in BOOLEAN : Sound(d, all) => Sound(r, all)
WifiFits(r, ts) ==
  /\ ApOwed(d, Current(d)) => ApOwed(r, Current(r))
  /\ \/ ~Quiet(ts)
     \/ ApOwed(d, Current(d)) => ApIs(r, Current(r))
     \/ SameWifi(d, r) /\ (Quiet(ts) => Quiet(timers))
Result(r, more, ts) ==
  /\ Stays(r)
  /\ Saved(r) \/ r.conf = d.conf \/ more \cap Apart # {}
  /\ "behind" \in more \/ WifiFits(r, ts)

Runs(r, more, ts) == Cut(r) \/ (Completed(r, more) /\ timers' = ts /\ Meets)

Inv == Typed /\ StepInv /\ ApInv

LEMMA MeetsIs ==
  ASSUME Typed, Meets
  PROVE  /\ upload = None \/ upload \in Uploads
         /\ upload = None <=> upload' = None
         /\ upload # None => /\ upload' \in Uploads /\ upload'.met
                            /\ upload'.any = upload.any /\ upload'.backup = upload.backup
<1>1. CASE upload = None
  BY <1>1 DEF Meets
<1>2. CASE upload \in Uploads
  <2>1. upload # None
    BY <1>2, UploadIsSome
  <2>2. upload' = [upload EXCEPT !.met = TRUE]
    BY <2>1 DEF Meets
  <2>3. /\ upload' \in Uploads /\ upload'.met
        /\ upload'.any = upload.any /\ upload'.backup = upload.backup
    BY <1>2, <2>2 DEF Uploads
  <2> QED BY <1>2, <2>1, <2>3, UploadIsSome
<1> QED BY <1>1, <1>2 DEF Typed

(* The settings after a callback that was completed are as good as before. *)
LEMMA CompletedIsUsed ==
  ASSUME Typed, UseInv, On, NEW r, Stays(r), NEW more, Completed(r, more),
         upload' # None => upload # None /\ upload'.backup = upload.backup
  PROVE  UseInv'
<1>1. r \in Devices /\ (Saved(r) \/ r.writes = <<>>)
  BY DEF Stays
<1>2. /\ On' /\ user' = user
      /\ d'.conf = r.conf /\ d'.live = r.live
      /\ \/ flash' = flash
         \/ /\ flash' # Unreadable
            /\ \E i \in 1..Len(r.writes) : flash'.block = r.writes[i]
  BY <1>1, CompletedIs
<1>3. Imports' = Imports /\ Imports \in BOOLEAN
  BY <1>2 DEF Imports
<1>4. Sound(d, Imports)
  <2>1. d.writes = <<>> /\ Good(d.conf, Imports)
    BY DEF Typed, UseInv
  <2> QED BY <2>1 DEF Sound, WritesGood
<1>5. Sound(r, Imports)
  BY <1>3, <1>4 DEF Stays
<1>6. IF flash' = Unreadable THEN ~Imports ELSE Good(flash'.block, Imports)
  BY <1>2, <1>5 DEF UseInv, Sound, WritesGood
<1>7. Good(r.conf, Imports) /\ r.conf.admin.version = 1
  BY <1>5 DEF Stays, UseInv, Sound
<1>8. SizeRuns(r)
  BY DEF Stays, UseInv
<1>9. upload' # None => Imports /\ Whole(upload'.backup)
  BY DEF UseInv
<1> QED BY <1>2, <1>3, <1>6, <1>7, <1>8, <1>9, Unreadable' = Unreadable
   DEF UseInv, SizeRuns, Current

LEMMA CutKeeps ==
  ASSUME Typed, On, NEW r, Stays(r), Cut(r)
  PROVE  Inv' /\ (UseInv => UseInv')
<1>1. r \in Devices
  BY DEF Stays
<1>2. PICK n \in 1..Len(r.writes) : PowerLost(r, n)
  BY DEF Cut
<1>3. n \in 0..Len(r.writes)
  BY <1>1 DEF Devices
<1>4. ASSUME UseInv PROVE WritesGood(r, Imports)
  <2>1. d.writes = <<>> /\ Good(d.conf, Imports) /\ Imports \in BOOLEAN
    BY <1>4 DEF Typed, UseInv, Imports
  <2>2. Sound(d, Imports)
    BY <2>1 DEF Sound, WritesGood
  <2> QED BY <2>1, <2>2 DEF Stays, Sound
<1> QED BY <1>1, <1>2, <1>3, <1>4, PowerLostKeeps DEF Inv

LEMMA RunsKeeps ==
  ASSUME Inv, On, NEW r, NEW more, NEW ts, Runs(r, more, ts), Result(r, more, ts)
  PROVE  Inv' /\ (UseInv => UseInv')
<1>0. /\ Typed /\ Stays(r) /\ r \in Devices /\ (Saved(r) \/ r.writes = <<>>)
      /\ d \in Devices
  BY DEF Inv, Result, Stays, Typed
<1>1. CASE Cut(r)
  BY <1>0, <1>1, CutKeeps
<1>2. CASE Completed(r, more) /\ timers' = ts /\ Meets
  <2>1. /\ On' /\ d' \in Devices /\ d'.writes = <<>> /\ user' = user
        /\ d'.conf = r.conf /\ d'.radio = r.radio /\ d'.chg = r.chg
        /\ flash' = Unreadable \/ Readable(flash')
        /\ Level' => /\ more \cap Apart = {}
                     /\ IF Saved(r) THEN flash' = Image(r.conf)
                        ELSE flash' = flash /\ Level
        /\ "behind" \notin notes' => "behind" \notin notes /\ "behind" \notin more
    BY <1>0, <1>2, CompletedIs
  <2>2. /\ upload = None <=> upload' = None
        /\ upload # None => /\ upload' \in Uploads /\ upload'.met
                           /\ upload'.any = upload.any /\ upload'.backup = upload.backup
    BY <1>0, <1>2, MeetsIs
  <2>3. Typed'
    BY <1>0, <2>1, <2>2 DEF Typed, None, Unreadable, Uploads, Readable, Image
  <2>4. StepInv'
    <3> SUFFICES ASSUME Level', upload' = None \/ upload'.any = {}
                 PROVE  flash' = Image(d'.conf)
      BY <2>2 DEF StepInv, None
    <3> QED BY <1>0, <2>1, <2>2 DEF Inv, StepInv, Result
  <2>5. ApInv'
    <3> SUFFICES ASSUME "behind" \notin notes'
                 PROVE  /\ ApOwed(r, Current(r))
                        /\ Quiet(ts) /\ (upload = None \/ "wifi" \notin upload.any)
                             => ApIs(r, Current(r))
      BY <1>2, <2>1, <2>2 DEF ApInv, Current, ApOwed, ApIs, None, Quiet
    <3>1. "behind" \notin notes /\ WifiFits(r, ts)
      BY <2>1 DEF Result
    <3>2. /\ ApOwed(d, Current(d))
          /\ Quiet(timers) /\ (upload = None \/ "wifi" \notin upload.any)
               => ApIs(d, Current(d))
      BY <3>1 DEF Inv, ApInv
    <3> QED BY <3>1, <3>2 DEF WifiFits, SameWifi, ApIs
  <2>6. UseInv => UseInv'
    BY <1>0, <1>2, <2>2, CompletedIsUsed DEF None
  <2> QED BY <2>3, <2>4, <2>5, <2>6 DEF Inv
<1> QED BY <1>1, <1>2 DEF Runs

-----------------------------------------------------------------------------
(* What forms and files set.                                               *)

OnlyWifi(r, s) ==
  /\ s \in Devices
  /\ s.conf.defaults = r.conf.defaults /\ s.conf.admin = r.conf.admin
  /\ Current(s).size = Current(r).size /\ Current(s).pin2 = Current(r).pin2
  /\ Current(s).sysOld = Current(r).sysOld /\ Current(s).termOld = Current(r).termOld
  /\ s.radio = r.radio /\ s.live = r.live /\ s.writes = r.writes
  /\ Zero \notin {Current(r).ap, Current(r).sta} =>
       Zero \notin {Current(s).ap, Current(s).sta}
  /\ r.chg.ap => s.chg.ap
  /\ ApOwed(r, Current(r)) => ApOwed(s, Current(s))

LEMMA OnlyWifiOn ==
  ASSUME NEW r, NEW s, NEW t, OnlyWifi(r, s), OnlyWifi(s, t)
  PROVE  OnlyWifi(r, t)
BY DEF OnlyWifi

LEMMA NotifyIs ==
  ASSUME NEW i \in Interfaces, NEW r \in Devices, NEW s, s = Notify(i, r)
  PROVE  /\ s \in Devices /\ s.conf = r.conf /\ s.radio = r.radio /\ s.live = r.live
         /\ s.writes = r.writes /\ s.chg.ap
<1>1. s = [r EXCEPT !.chg.ap = TRUE]
  BY DEF Notify, NotifyAp, NotifySta
<1>2. r.chg \in Flags
  BY DEF Devices
<1>3. [r.chg EXCEPT !.ap = TRUE] \in Flags /\ [r.chg EXCEPT !.ap = TRUE].ap
  BY <1>2 DEF Flags
<1> QED BY <1>1, <1>3 DEF Devices

LEMMA SetFieldIs ==
  ASSUME NEW r \in Devices, NEW i \in Interfaces, NEW v \in SettingField,
         NEW s, s = SetField(r, i, v)
  PROVE  /\ OnlyWifi(r, s) /\ Current(s).mode = Current(r).mode
<1>1. CASE v \in {"same", "bad", Current(r)[i]}
  BY <1>1 DEF SetField, OnlyWifi
<1>2. CASE v \notin {"same", "bad", Current(r)[i]}
  <2> DEFINE h == Having(r, i, v)
  <2>1. s = Notify(i, h)
    BY <1>2 DEF SetField
  <2>2. v \in Values \cup {Hard} /\ v # Zero
    BY <1>2, SettingsAssumption DEF SettingField, Hard, Zero
  <2>3. Fits(i, v) /\ i \in {"ap", "sta"}
    BY <2>2 DEF Fits, Interfaces, Setting
  <2>4. /\ h \in Devices
        /\ h.conf.defaults = r.conf.defaults /\ h.conf.admin = r.conf.admin
        /\ Current(h).mode = Current(r).mode
        /\ Current(h).ap = IF i = "ap" THEN v ELSE Current(r).ap
        /\ Current(h).sta = IF i = "sta" THEN v ELSE Current(r).sta
        /\ Current(h).size = Current(r).size /\ Current(h).pin2 = Current(r).pin2
        /\ Current(h).sysOld = Current(r).sysOld /\ Current(h).termOld = Current(r).termOld
        /\ h.radio = r.radio /\ h.live = r.live /\ h.writes = r.writes
    BY <2>3, HavingIs
  <2> HIDE DEF h
  <2>5. /\ s \in Devices /\ s.conf = h.conf /\ s.radio = h.radio /\ s.live = h.live
        /\ s.writes = h.writes /\ s.chg.ap
    BY <2>1, <2>4, NotifyIs
  <2>6. Current(s) = Current(h)
    BY <2>5 DEF Current
  <2> QED BY <2>2, <2>4, <2>5, <2>6 DEF OnlyWifi, ApOwed
<1> QED BY <1>1, <1>2

LEMMA GivenModeIs ==
  ASSUME NEW r \in Devices, NEW vs \in ModeField, NEW s, s = Given(r, "mode", vs)
  PROVE  OnlyWifi(r, s)
<1>1. CASE vs = {}
  BY <1>1 DEF Given, OnlyWifi
<1>2. CASE vs # {}
  <2>1. PICK m \in SUBSET Interfaces : vs = {m}
    BY <1>2 DEF ModeField
  <2>2. s = Having(r, "mode", m)
    BY <1>2, <2>1 DEF Given
  <2>3. Fits("mode", m)
    BY DEF Fits
  <2> QED BY <2>2, <2>3, HavingIs DEF OnlyWifi, ApOwed
<1> QED BY <1>1, <1>2

LEMMA SetWifiIs ==
  ASSUME NEW r \in Devices, NEW f, WellFormed(f), NEW s, s = SetWifi(r, f)
  PROVE  OnlyWifi(r, s)
<1> DEFINE a == SetField(r, "ap", f.ap)
           b == SetField(a, "sta", f.sta)
<1>1. /\ s = Given(b, "mode", f.mode) /\ f.mode \in ModeField
      /\ f.ap \in SettingField /\ f.sta \in SettingField
      /\ "ap" \in Interfaces /\ "sta" \in Interfaces
  BY DEF SetWifi, WellFormed, Interfaces
<1>2. OnlyWifi(r, a)
  BY <1>1, SetFieldIs
<1>3. a \in Devices
  BY <1>2 DEF OnlyWifi
<1> HIDE DEF a
<1>4. OnlyWifi(a, b)
  BY <1>1, <1>3, SetFieldIs
<1>5. b \in Devices
  BY <1>4 DEF OnlyWifi
<1> HIDE DEF b
<1>6. OnlyWifi(b, s)
  BY <1>1, <1>5, GivenModeIs
<1> QED BY <1>2, <1>4, <1>6, OnlyWifiOn

-----------------------------------------------------------------------------
(* The pages.                                                              *)

LEMMA HandlerRuns ==
  ASSUME NEW r, NEW more, NEW ts, Handler(r, more, ts)
  PROVE  Runs(r, more, ts)
BY DEF Handler, Runs

(* A device that differs from d in nothing that matters here.              *)
Like(r, s) ==
  /\ s \in Devices /\ SameWifi(r, s)
  /\ s.conf.admin.version = r.conf.admin.version
  /\ SizeRuns(r) => SizeRuns(s)
  /\ \A all \in BOOLEAN : Sound(r, all) => Sound(s, all)

LEMMA LikeOn ==
  ASSUME NEW r, NEW s, NEW t, Like(r, s), Like(s, t)
  PROVE  Like(r, t)
BY DEF Like, SameWifi

LEMMA LikeResult ==
  ASSUME NEW r, NEW more, NEW ts, Like(d, r), Quiet(ts) => Quiet(timers),
         Saved(r) \/ (r.writes = <<>> /\ r.conf = d.conf)
  PROVE  Result(r, more, ts)
BY DEF Like, Result, Stays, WifiFits, SameWifi, ApOwed

LEMMA KeepsIsLike ==
  ASSUME NEW r \in Devices, NEW s \in Devices, Keeps(r, s), SizeRuns(r) => SizeRuns(s)
  PROVE  Like(r, s)
BY DEF Keeps, Like

LEMMA StoreIsLike ==
  ASSUME NEW r \in Devices, NEW s, s = Store(r)
  PROVE  Like(r, s) /\ Saved(s)
<1>1. /\ s \in Devices /\ s.conf = r.conf /\ s.radio = r.radio /\ s.chg = r.chg
      /\ s.live = r.live /\ \A all \in BOOLEAN : Sound(r, all) => Sound(s, all)
  BY StoreIs
<1>2. Saved(s)
  BY StoredIs
<1> QED BY <1>1, <1>2 DEF Like, SameWifi, SizeRuns, Current

LEMMA ApplySysIsLike ==
  ASSUME NEW r \in Devices, NEW s, s = ApplySys(r)
  PROVE  Like(r, s) /\ (Saved(r) => Saved(s))
<1>1. /\ s \in Devices /\ Keeps(r, s) /\ s.live = r.live
      /\ Current(s).size = Current(r).size
  BY ApplySysIs
<1>2. Saved(r) => Saved(s)
  BY <1>1, SavedStays DEF Keeps
<1> QED BY <1>1, <1>2, KeepsIsLike DEF SizeRuns

LEMMA ApplyTermIsLike ==
  ASSUME NEW r \in Devices, NEW s, s = ApplyTerm(r)
  PROVE  Like(r, s) /\ (Saved(r) => Saved(s))
<1>1. /\ s \in Devices /\ Keeps(r, s)
      /\ s.live = Current(s).size /\ s.live \in 0..MaxSize
  BY ApplyTermIs
<1>2. Saved(r) => Saved(s)
  BY <1>1, SavedStays DEF Keeps
<1>3. SizeRuns(s)
  BY <1>1, SettingsAssumption DEF SizeRuns
<1> QED BY <1>1, <1>2, <1>3, KeepsIsLike

LEMMA NoChange ==
  ASSUME Inv, On, NEW ts, Quiet(ts) => Quiet(timers)
  PROVE  Result(d, {}, ts)
<1>1. d \in Devices /\ d.writes = <<>>
  BY DEF Inv, Typed
<1>2. Like(d, d)
  BY <1>1 DEF Like, SameWifi
<1> QED BY <1>1, <1>2, LikeResult

(* A form that is refused leaves no trace.                                 *)
LEMMA RefuseIs ==
  ASSUME Inv, On, NEW f, WellFormed(f), NEW s, s = Refuse(SetWifi(d, f))
  PROVE  s \in Devices /\ s.writes = <<>> /\ s.conf = d.conf /\ Like(d, s)
<1> DEFINE r == SetWifi(d, f)
           c == [Current(r) EXCEPT !.mode = Current(d).mode,
                                   !.ap = Current(d).ap, !.sta = Current(d).sta]
           a == [r EXCEPT !.conf.current = c]
<1>0. /\ d \in Devices /\ d.writes = <<>> /\ d.conf \in Blocks
      /\ Current(d) \in Bundles /\ d.chg \in Flags
  BY DEF Inv, Typed, Devices, Blocks, Current
<1>1. OnlyWifi(d, r)
  BY <1>0, SetWifiIs
<1>2. s = [a EXCEPT !.chg = d.chg]
  BY DEF Refuse, Current
<1> HIDE DEF r
<1>3. r \in Devices /\ Current(r) \in Bundles
  BY <1>1 DEF OnlyWifi, Devices, Blocks, Current
<1>4. c = Current(d)
  BY <1>0, <1>1, <1>3 DEF OnlyWifi, Bundles
<1> HIDE DEF c
<1>5. /\ a \in Devices /\ Current(a) = Current(d)
      /\ a.conf.defaults = r.conf.defaults /\ a.conf.admin = r.conf.admin
      /\ a.radio = r.radio /\ a.live = r.live /\ a.writes = r.writes
  <2>1. a = [r EXCEPT !.conf.current = c] /\ c \in Bundles
    BY <1>0, <1>4
  <2> HIDE DEF a
  <2>2. a \in Devices /\ Current(a) = c
    BY <1>3, <2>1, WithCurrent
  <2>3. a.conf.defaults = r.conf.defaults /\ a.conf.admin = r.conf.admin
    BY <1>3, <2>1, WithCurrent
  <2>4. a.radio = r.radio /\ a.live = r.live /\ a.writes = r.writes
    BY <1>3, <2>1, WithCurrent
  <2> QED BY <1>4, <2>2, <2>3, <2>4
<1> HIDE DEF a
<1>6. /\ s \in Devices /\ s.conf = a.conf /\ s.chg = d.chg
      /\ s.radio = a.radio /\ s.live = a.live /\ s.writes = a.writes
  BY <1>0, <1>2, <1>5 DEF Devices
<1>7. s.conf = d.conf
  <2>1. s.conf \in Blocks
    BY <1>6 DEF Devices
  <2> QED BY <1>0, <1>1, <1>5, <1>6, <2>1 DEF OnlyWifi, Blocks, Current
<1>8. s.radio = d.radio /\ s.live = d.live /\ s.writes = d.writes
  BY <1>1, <1>5, <1>6 DEF OnlyWifi
<1> QED BY <1>0, <1>6, <1>7, <1>8 DEF Like, SameWifi, SizeRuns, Sound, WritesGood, Current

LEMMA WifiPageKeeps ==
  ASSUME Inv, On, NEW page \in {"wifi", "network"}, NEW f, WellFormed(f), WifiPage(page, f)
  PROVE  Inv' /\ (UseInv => UseInv')
<1>1. CASE Valid(f)
  <2> DEFINE r == SetWifi(d, f)
             s == Store(r)
  <2>1. d \in Devices
    BY DEF Inv, Typed
  <2>2. OnlyWifi(d, r)
    BY <2>1, SetWifiIs
  <2>3. Handler(s, {}, timers \cup {page})
    BY <1>1 DEF WifiPage
  <2> HIDE DEF r
  <2>4. r \in Devices
    BY <2>2 DEF OnlyWifi
  <2>5. Like(r, s) /\ Saved(s) /\ s.conf = r.conf /\ s.radio = r.radio /\ s.chg = r.chg
    BY <2>4, StoreIsLike, StoreIs
  <2> HIDE DEF s
  <2>6. \A all \in BOOLEAN : Sound(d, all) => Sound(r, all)
    <3>1. Whole(Current(d)) => Whole(Current(r))
      BY <2>2 DEF OnlyWifi, Whole
    <3>2. r.writes = d.writes /\ r.conf.defaults = d.conf.defaults
      BY <2>2 DEF OnlyWifi
    <3> QED BY <2>1, <2>4, <3>1, <3>2, SoundFrom
  <2>7. Stays(s)
    BY <2>2, <2>5, <2>6 DEF Stays, Like, OnlyWifi, SizeRuns
  <2>8. WifiFits(s, timers \cup {page})
    BY <2>2, <2>5 DEF WifiFits, OnlyWifi, ApOwed, Current, Quiet
  <2> QED BY <2>3, <2>5, <2>7, <2>8, HandlerRuns, RunsKeeps DEF Result
<1>2. CASE ~Valid(f)
  <2> DEFINE s == Refuse(SetWifi(d, f))
  <2>1. Handler(s, {}, timers)
    BY <1>2 DEF WifiPage
  <2>2. s \in Devices /\ s.writes = <<>> /\ s.conf = d.conf /\ Like(d, s)
    BY RefuseIs
  <2> HIDE DEF s
  <2> QED BY <2>1, <2>2, LikeResult, HandlerRuns, RunsKeeps
<1> QED BY <1>1, <1>2

LEMMA NoChangeKeeps ==
  ASSUME Inv, On, NEW ts, Quiet(ts) => Quiet(timers), Handler(d, {}, ts)
  PROVE  Inv' /\ (UseInv => UseInv')
BY NoChange, HandlerRuns, RunsKeeps

(* Settings that are like the old ones and stored, or stored and applied.  *)
LEMMA LikeKeeps ==
  ASSUME Inv, On, NEW r, NEW more, Like(d, r), Saved(r), Runs(r, more, timers)
  PROVE  Inv' /\ (UseInv => UseInv')
BY LikeResult, RunsKeeps

LEMMA ApplyTimerKeeps ==
  ASSUME Inv, NEW t, ApplyTimer(t)
  PROVE  Inv' /\ (UseInv => UseInv')
<1> DEFINE r == ApplyWifi(d)
<1>1. On /\ Handler(r, {}, timers \ {t})
  BY DEF ApplyTimer
<1>2. d \in Devices /\ d.writes = <<>>
  BY <1>1 DEF Inv, Typed
<1>3. /\ r \in Devices /\ r.conf = d.conf /\ r.writes = d.writes /\ r.live = d.live
      /\ ApOwed(d, Current(d)) => ApIs(r, Current(r)) /\ ApOwed(r, Current(r))
  BY <1>2, ApplyWifiIs
<1> HIDE DEF r
<1>4. Current(r) = Current(d)
  BY <1>3 DEF Current
<1>5. Stays(r)
  BY <1>2, <1>3, <1>4 DEF Stays, SizeRuns, Sound, WritesGood
<1>6. Result(r, {}, timers \ {t})
  BY <1>3, <1>5 DEF Result, WifiFits
<1> QED BY <1>1, <1>6, HandlerRuns, RunsKeeps

LEMMA TermPageKeeps ==
  ASSUME Inv, On, NEW f \in TermForms, TermPage(f)
  PROVE  Inv' /\ (UseInv => UseInv')
<1> DEFINE a == Having(d, "size", f.size)
           b == Store(a)
           c == ApplyTerm(b)
           r == IF f.uart THEN ApplySys(c) ELSE c
<1>0. d \in Devices
  BY DEF Inv, Typed
<1>1. CASE f.size \in 1..MaxSize
  <2>1. Handler(r, {}, timers) /\ f.size \in Nat
    BY <1>1 DEF TermPage
  <2>2. SameButSize(d, a) /\ Current(a).size = f.size
    BY <1>0, <2>1, HavingSize
  <2> HIDE DEF a
  <2>3. a \in Devices
    BY <2>2 DEF SameButSize
  <2>4. Like(a, b) /\ Saved(b)
    BY <2>3, StoreIsLike
  <2> HIDE DEF b
  <2>5. b \in Devices
    BY <2>4 DEF Like
  <2>6. Like(b, c) /\ Saved(c) /\ SizeRuns(c)
    <3>1. c.live = Current(c).size /\ c.live \in 0..MaxSize
      BY <2>5, ApplyTermIs
    <3> QED BY <2>4, <2>5, <3>1, ApplyTermIsLike, SettingsAssumption DEF SizeRuns
  <2> HIDE DEF c
  <2>7. Like(c, r) /\ Saved(r)
    <3>1. c \in Devices
      BY <2>6 DEF Like
    <3>2. CASE f.uart
      BY <2>6, <3>1, <3>2, ApplySysIsLike
    <3>3. CASE ~f.uart
      BY <2>6, <3>1, <3>3 DEF Like, SameWifi
    <3> QED BY <3>2, <3>3
  <2> HIDE DEF r
  <2>8. Like(d, r)
    <3>1. \A all \in BOOLEAN : Sound(d, all) => Sound(a, all)
      <4>1. Whole(Current(d)) => Whole(Current(a))
        BY <1>1, <2>1, <2>2 DEF SameButSize, SameWifi, Whole
      <4>2. a.writes = d.writes /\ a.conf.defaults = d.conf.defaults
        BY <2>2 DEF SameButSize
      <4> QED BY <1>0, <2>3, <4>1, <4>2, SoundFrom
    <3>2. SameWifi(d, a) /\ a.conf.admin = d.conf.admin
      BY <2>2 DEF SameButSize
    <3>3. Like(b, r)
      BY <2>6, <2>7, LikeOn
    <3>4. Like(a, r)
      BY <2>4, <3>3, LikeOn
    <3>5. SizeRuns(r)
      BY <2>6, <2>7 DEF Like
    <3> QED BY <3>1, <3>2, <3>4, <3>5 DEF Like, SameWifi
  <2> QED BY <2>1, <2>7, <2>8, HandlerRuns, LikeKeeps
<1>2. CASE f.size \notin 1..MaxSize
  <2>1. Handler(d, {}, timers)
    BY <1>2 DEF TermPage
  <2> QED BY <2>1, NoChangeKeeps
<1> QED BY <1>1, <1>2

LEMMA SystemPageKeeps ==
  ASSUME Inv, On, SystemPage
  PROVE  Inv' /\ (UseInv => UseInv')
<1>0. d \in Devices
  BY DEF Inv, Typed
<1>1. ASSUME NEW a, Like(d, a), Handler(Store(ApplySys(a)), {}, timers)
      PROVE  Inv' /\ (UseInv => UseInv')
  <2> DEFINE b == ApplySys(a)
             r == Store(b)
  <2>1. a \in Devices /\ Handler(r, {}, timers)
    BY <1>1 DEF Like
  <2>2. Like(a, b)
    BY <2>1, ApplySysIsLike
  <2> HIDE DEF b
  <2>3. b \in Devices
    BY <2>2 DEF Like
  <2>4. Like(b, r) /\ Saved(r)
    BY <2>3, StoreIsLike
  <2> HIDE DEF r
  <2>5. Like(d, r)
    BY <1>1, <2>2, <2>4, LikeOn
  <2> QED BY <2>1, <2>4, <2>5, HandlerRuns, LikeKeeps
<1>2. ASSUME NEW v \in {"uart", "out"}, Handler(Store(ApplySys(Having(d, "pin2", v))), {}, timers)
      PROVE  Inv' /\ (UseInv => UseInv')
  <2> DEFINE a == Having(d, "pin2", v)
  <2>1. Fits("pin2", v)
    BY DEF Fits
  <2>2. SameButSize(d, a) /\ Current(a).size = Current(d).size
    BY <1>0, <2>1, HavingIs DEF SameButSize, SameWifi
  <2>3. Handler(Store(ApplySys(a)), {}, timers)
    BY <1>2
  <2> HIDE DEF a
  <2>4. a \in Devices /\ a.writes = d.writes /\ a.conf.defaults = d.conf.defaults
        /\ (Whole(Current(d)) => Whole(Current(a)))
    BY <2>2 DEF SameButSize, SameWifi, Whole
  <2>5. Like(d, a)
    BY <1>0, <2>2, <2>4, SoundFrom DEF Like, SameButSize, SizeRuns
  <2> QED BY <1>1, <2>3, <2>5
<1>3. ASSUME NEW new \in Passwords,
             Handler(Store(ApplySys([d EXCEPT !.conf.admin.pw = new])), {}, timers)
      PROVE  Inv' /\ (UseInv => UseInv')
  <2> DEFINE m == [d.conf.admin EXCEPT !.pw = new]
             k == [d.conf EXCEPT !.admin = m]
             a == [d EXCEPT !.conf = k]
  <2>1. d.conf \in Blocks /\ d.conf.admin \in Admins
    BY <1>0 DEF Devices, Blocks
  <2>2. m \in Admins /\ m.version = d.conf.admin.version
    BY <2>1 DEF Admins
  <2>3. Handler(Store(ApplySys(a)), {}, timers)
    BY <1>3
  <2> HIDE DEF m
  <2>4. /\ k \in Blocks /\ k.current = d.conf.current /\ k.defaults = d.conf.defaults
        /\ k.admin = m
    BY <2>1, <2>2 DEF Blocks
  <2> HIDE DEF k
  <2>5. /\ a \in Devices /\ a.conf = k /\ a.radio = d.radio /\ a.chg = d.chg
        /\ a.live = d.live /\ a.writes = d.writes
    BY <1>0, <2>4 DEF Devices
  <2> HIDE DEF a
  <2>6. Like(d, a)
    BY <1>0, <2>2, <2>4, <2>5, SoundFrom DEF Like, SameWifi, SizeRuns, Current
  <2> QED BY <1>1, <2>3, <2>6
<1>4. CASE Handler(d, {}, timers)
  BY <1>4, NoChangeKeeps
<1> QED BY <1>2, <1>3, <1>4 DEF SystemPage

LEMMA DefaultsKeep ==
  ASSUME Inv, On, (\E pw : WriteDefaults(pw)) \/ RestoreDefaults \/ RestoreHard
  PROVE  Inv' /\ (UseInv => UseInv')
<1>0. d \in Devices /\ d.writes = <<>>
  BY DEF Inv, Typed
<1>1. CASE Handler(d, {}, timers)
  BY <1>1, NoChangeKeeps
<1>2. CASE Handler(SetAsDefault(d), {}, timers)
  <2> DEFINE r == SetAsDefault(d)
  <2>1. /\ r \in Devices /\ Saved(r) /\ SameWifi(d, r)
        /\ r.conf.admin = d.conf.admin /\ r.live = d.live
        /\ Current(r) = Current(d)
        /\ \A all \in BOOLEAN : Sound(d, all) => Sound(r, all)
    BY <1>0, SetAsDefaultIs
  <2>2. Handler(r, {}, timers)
    BY <1>2
  <2> HIDE DEF r
  <2>3. Like(d, r)
    BY <2>1 DEF Like, SizeRuns
  <2> QED BY <2>1, <2>2, <2>3, HandlerRuns, LikeKeeps
<1>3. ASSUME NEW r \in Devices, Saved(r), r.conf.admin = d.conf.admin,
             r.live = Current(r).size, r.live \in 0..MaxSize,
             \A all \in BOOLEAN : Sound(d, all) => Sound(r, all),
             Handler(r, {"behind"}, timers)
      PROVE  Inv' /\ (UseInv => UseInv')
  <2>1. Stays(r)
    BY <1>3, SettingsAssumption DEF Stays, SizeRuns
  <2>2. Result(r, {"behind"}, timers)
    BY <1>3, <2>1 DEF Result
  <2> QED BY <1>3, <2>2, HandlerRuns, RunsKeeps
<1>4. CASE RestoreDefaults
  <2> DEFINE r == RestoreDefault(d)
  <2>1. Handler(r, {"behind"}, timers)
    BY <1>4 DEF RestoreDefaults
  <2>2. /\ r \in Devices /\ Saved(r)
        /\ r.conf.admin = d.conf.admin
        /\ r.live = Current(r).size /\ r.live \in 0..MaxSize
        /\ \A all \in BOOLEAN : Sound(d, all) => Sound(r, all)
    BY <1>0, RestoreDefaultIs
  <2> HIDE DEF r
  <2> QED BY <1>3, <2>1, <2>2
<1>5. CASE RestoreHard
  <2> DEFINE r == LoadHardDefault(d)
  <2>1. Handler(r, {"behind"}, timers)
    BY <1>5 DEF RestoreHard
  <2>2. /\ r \in Devices /\ Saved(r)
        /\ r.conf.admin = d.conf.admin
        /\ r.live = Current(r).size /\ r.live \in 0..MaxSize
        /\ \A all \in BOOLEAN :
             WritesGood(d, all) /\ (all => Whole(d.conf.defaults)) => Sound(r, all)
    BY <1>0, LoadHardDefaultIs
  <2> HIDE DEF r
  <2>3. \A all \in BOOLEAN : Sound(d, all) => Sound(r, all)
    BY <2>2 DEF Sound, Good
  <2> QED BY <1>3, <2>1, <2>2, <2>3
<1> QED BY <1>1, <1>2, <1>4, <1>5 DEF WriteDefaults

-----------------------------------------------------------------------------
(* Imports.                                                                *)

LEMMA ReadPartIs ==
  ASSUME NEW r \in Devices, NEW p, WellFormed(p),
         p.size = {} \/ \E n \in p.size : n \in Nat /\ p.size = {n},
         NEW s, s = ReadPart(r, p)
  PROVE  /\ s \in Devices
         /\ s.conf.defaults = r.conf.defaults /\ s.conf.admin = r.conf.admin
         /\ Current(s).pin2 = Current(r).pin2
         /\ Current(s).sysOld = Current(r).sysOld /\ Current(s).termOld = Current(r).termOld
         /\ s.radio = r.radio /\ s.live = r.live /\ s.writes = r.writes
         /\ Whole(Current(r)) /\ 0 \notin p.size => Whole(Current(s))
         /\ r.chg.ap => s.chg.ap
         /\ ApOwed(r, Current(r)) => ApOwed(s, Current(s))
<1> DEFINE a == SetWifi(r, p)
<1>1. s = Given(a, "size", p.size)
  BY DEF ReadPart
<1>2. OnlyWifi(r, a)
  BY SetWifiIs
<1> HIDE DEF a
<1>3. CASE p.size = {}
  <2>1. s = a
    BY <1>1, <1>3 DEF Given
  <2> QED BY <1>2, <2>1 DEF OnlyWifi, Whole
<1>4. CASE p.size # {}
  <2>1. PICK n \in Nat : p.size = {n}
    BY <1>4
  <2>2. s = Having(a, "size", n) /\ Fits("size", n)
    BY <1>1, <2>1 DEF Given, Fits
  <2>3. /\ s \in Devices
        /\ s.conf.defaults = a.conf.defaults /\ s.conf.admin = a.conf.admin
        /\ Current(s).mode = Current(a).mode
        /\ Current(s).ap = Current(a).ap /\ Current(s).sta = Current(a).sta
        /\ Current(s).size = n /\ Current(s).pin2 = Current(a).pin2
        /\ Current(s).sysOld = Current(a).sysOld /\ Current(s).termOld = Current(a).termOld
        /\ s.radio = a.radio /\ s.chg = a.chg /\ s.live = a.live
        /\ s.writes = a.writes /\ s.mux = a.mux
    BY <1>2, <2>2, HavingIs DEF OnlyWifi
  <2>4. Whole(Current(r)) /\ 0 \notin p.size => Whole(Current(s))
    BY <1>2, <2>1, <2>3 DEF OnlyWifi, Whole
  <2> QED BY <1>2, <2>3, <2>4 DEF OnlyWifi, ApOwed
<1> QED BY <1>3, <1>4

(* What the parts read so far, r, and the import u have to do with the     *)
(* flash and the radio.                                                    *)
ReadSoFar(r, u) ==
  /\ r \in Devices /\ u \in Uploads /\ r.writes = <<>>
  /\ Level /\ u.any = {} => flash = Image(r.conf)
  /\ Level /\ ~u.met => flash = Image([r.conf EXCEPT !.current = u.backup])
  /\ "behind" \notin notes =>
       /\ ApOwed(r, Current(r))
       /\ Quiet(timers) /\ "wifi" \notin u.any => ApIs(r, Current(r))
       /\ ~u.met => ApOwed(r, u.backup) /\ (Quiet(timers) => ApIs(r, u.backup))
ReadWhole(r, u) ==
  /\ Imports /\ Good(r.conf, Imports) /\ r.conf.admin.version = 1
  /\ SizeRuns(r) /\ Whole(u.backup)

LEMMA DiffersIs ==
  ASSUME Inv, On, NEW p \in user.parts, NEW r, r = ReadPart(d, p)
  PROVE  /\ r \in Devices /\ r.writes = <<>> /\ Differs(r) \in SUBSET {"wifi", "term"}
         /\ "wifi" \notin Differs(r) =>
              Current(r).mode = Current(d).mode /\ Current(r).ap = Current(d).ap
         /\ Differs(r) = {} => r.conf = d.conf
         /\ \A b \in Bundles :
              [r.conf EXCEPT !.current = b] = [d.conf EXCEPT !.current = b]
         /\ r.radio = d.radio /\ r.live = d.live
         /\ d.chg.ap => r.chg.ap
         /\ ApOwed(d, Current(d)) => ApOwed(r, Current(r))
         /\ SizesFit /\ UseInv /\ Imports =>
              Good(r.conf, Imports) /\ r.conf.admin.version = 1 /\ SizeRuns(r)
<1>1. /\ d \in Devices /\ d.writes = <<>> /\ user \in Users /\ WellFormed(p)
      /\ p.size = {} \/ \E n \in p.size : n \in Nat /\ p.size = {n}
  BY DeviceAssumption DEF Inv, Typed
<1>2. /\ r \in Devices
      /\ r.conf.defaults = d.conf.defaults /\ r.conf.admin = d.conf.admin
      /\ Current(r).pin2 = Current(d).pin2
      /\ Current(r).sysOld = Current(d).sysOld /\ Current(r).termOld = Current(d).termOld
      /\ r.radio = d.radio /\ r.live = d.live /\ r.writes = d.writes
      /\ Whole(Current(d)) /\ 0 \notin p.size => Whole(Current(r))
      /\ d.chg.ap => r.chg.ap
      /\ ApOwed(d, Current(d)) => ApOwed(r, Current(r))
  BY <1>1, ReadPartIs
<1>3. /\ Differs(r) \in SUBSET {"wifi", "term"}
      /\ "wifi" \notin Differs(r) => /\ Current(r).mode = Current(d).mode
                                    /\ Current(r).ap = Current(d).ap
                                    /\ Current(r).sta = Current(d).sta
      /\ "term" \notin Differs(r) => Current(r).size = Current(d).size
  BY DEF Differs
<1>4. /\ Current(r) \in Bundles /\ Current(d) \in Bundles
      /\ r.conf \in Blocks /\ d.conf \in Blocks
  BY <1>1, <1>2 DEF Devices, Blocks, Current
<1>5. Differs(r) = {} => r.conf = d.conf
  <2> SUFFICES ASSUME Differs(r) = {} PROVE r.conf = d.conf
    OBVIOUS
  <2>1. Current(r) = Current(d)
    BY <1>2, <1>3, <1>4 DEF Bundles
  <2> QED BY <1>2, <1>4, <2>1 DEF Blocks, Current
<1>6. \A b \in Bundles : [r.conf EXCEPT !.current = b] = [d.conf EXCEPT !.current = b]
  BY <1>2, <1>4 DEF Blocks
<1>7. ASSUME SizesFit, UseInv, Imports
      PROVE  Good(r.conf, Imports) /\ r.conf.admin.version = 1 /\ SizeRuns(r)
  <2>1. 0 \notin p.size
    BY <1>1, <1>7 DEF SizesFit
  <2>2. /\ Whole(Current(d)) /\ Whole(d.conf.defaults) /\ d.conf.admin.version = 1
        /\ d.live \in 1..MaxSize
    BY <1>7 DEF UseInv, Good, SizeRuns, Whole, Current
  <2> QED BY <1>2, <2>1, <2>2 DEF Good, SizeRuns, Current
<1> QED BY <1>1, <1>2, <1>3, <1>5, <1>6, <1>7

LEMMA FirstPart ==
  ASSUME Inv, NEW p \in user.parts, ImportBegins(p), NEW r, r = ReadPart(d, p),
         NEW u, u = [backup |-> Current(d), ok |-> Valid(p), any |-> Differs(r), met |-> FALSE]
  PROVE  On /\ ReadSoFar(r, u) /\ (SizesFit /\ UseInv => ReadWhole(r, u))
<1>1. On /\ Imports /\ upload = None
  BY DEF ImportBegins, Does, Imports
<1>2. /\ r \in Devices /\ r.writes = <<>> /\ Differs(r) \in SUBSET {"wifi", "term"}
      /\ "wifi" \notin Differs(r) =>
           Current(r).mode = Current(d).mode /\ Current(r).ap = Current(d).ap
      /\ Differs(r) = {} => r.conf = d.conf
      /\ \A b \in Bundles :
           [r.conf EXCEPT !.current = b] = [d.conf EXCEPT !.current = b]
      /\ r.radio = d.radio /\ r.live = d.live
      /\ d.chg.ap => r.chg.ap
      /\ ApOwed(d, Current(d)) => ApOwed(r, Current(r))
      /\ SizesFit /\ UseInv /\ Imports =>
           Good(r.conf, Imports) /\ r.conf.admin.version = 1 /\ SizeRuns(r)
  BY <1>1, DiffersIs
<1>3. /\ Current(d) \in Bundles /\ d.conf \in Blocks
      /\ [d.conf EXCEPT !.current = Current(d)] = d.conf
  BY <1>1 DEF Inv, Typed, Devices, Blocks, Current
<1>4. Valid(p) \in BOOLEAN
  BY DEF Valid
<1>5. u \in Uploads /\ u.backup = Current(d) /\ u.any = Differs(r) /\ ~u.met
  BY <1>2, <1>3, <1>4 DEF Uploads
<1>6. /\ Level => flash = Image(d.conf)
      /\ "behind" \notin notes =>
           ApOwed(d, Current(d)) /\ (Quiet(timers) => ApIs(d, Current(d)))
  BY <1>1 DEF Inv, StepInv, ApInv
<1>7. Level => /\ u.any = {} => flash = Image(r.conf)
               /\ flash = Image([r.conf EXCEPT !.current = u.backup])
  BY <1>2, <1>3, <1>5, <1>6
<1>8. "behind" \notin notes =>
        /\ ApOwed(r, Current(r))
        /\ Quiet(timers) /\ "wifi" \notin u.any => ApIs(r, Current(r))
        /\ ApOwed(r, u.backup) /\ (Quiet(timers) => ApIs(r, u.backup))
  BY <1>2, <1>5, <1>6 DEF ApOwed, ApIs
<1>9. SizesFit /\ UseInv => ReadWhole(r, u)
  <2> SUFFICES ASSUME SizesFit, UseInv PROVE ReadWhole(r, u)
    OBVIOUS
  <2>1. Whole(Current(d))
    BY <1>1 DEF UseInv, Good, Current
  <2> QED BY <1>1, <1>2, <1>5, <2>1 DEF ReadWhole
<1> QED BY <1>1, <1>2, <1>5, <1>7, <1>8, <1>9 DEF ReadSoFar

LEMMA SecondPart ==
  ASSUME Inv, NEW p \in user.parts, ImportGoesOn(p), NEW r, r = ReadPart(d, p),
         NEW u, u = [upload EXCEPT !.ok = @ /\ Valid(p), !.any = @ \cup Differs(r)]
  PROVE  On /\ ReadSoFar(r, u) /\ (SizesFit /\ UseInv => ReadWhole(r, u))
<1>1. On /\ upload # None /\ upload \in Uploads
  BY DEF ImportGoesOn, Inv, Typed
<1>2. /\ r \in Devices /\ r.writes = <<>> /\ Differs(r) \in SUBSET {"wifi", "term"}
      /\ "wifi" \notin Differs(r) =>
           Current(r).mode = Current(d).mode /\ Current(r).ap = Current(d).ap
      /\ Differs(r) = {} => r.conf = d.conf
      /\ \A b \in Bundles :
           [r.conf EXCEPT !.current = b] = [d.conf EXCEPT !.current = b]
      /\ r.radio = d.radio /\ r.live = d.live
      /\ d.chg.ap => r.chg.ap
      /\ ApOwed(d, Current(d)) => ApOwed(r, Current(r))
      /\ SizesFit /\ UseInv /\ Imports =>
           Good(r.conf, Imports) /\ r.conf.admin.version = 1 /\ SizeRuns(r)
  BY <1>1, DiffersIs
<1>3. Valid(p) \in BOOLEAN
  BY DEF Valid
<1>4. /\ u \in Uploads /\ u.backup = upload.backup
      /\ u.any = upload.any \cup Differs(r) /\ u.met = upload.met
  BY <1>1, <1>2, <1>3 DEF Uploads
<1>5. u.backup \in Bundles
  BY <1>4 DEF Uploads
<1>6. Level => /\ upload.any = {} => flash = Image(d.conf)
               /\ ~upload.met => flash = Image([d.conf EXCEPT !.current = upload.backup])
  BY <1>1 DEF Inv, StepInv
<1>7. Level => /\ u.any = {} => flash = Image(r.conf)
               /\ ~u.met => flash = Image([r.conf EXCEPT !.current = u.backup])
  BY <1>2, <1>4, <1>5, <1>6
<1>8. "behind" \notin notes =>
        /\ ApOwed(d, Current(d))
        /\ Quiet(timers) /\ "wifi" \notin upload.any => ApIs(d, Current(d))
        /\ ~upload.met => /\ ApOwed(d, upload.backup)
                          /\ Quiet(timers) => ApIs(d, upload.backup)
  BY <1>1 DEF Inv, ApInv
<1>9. "behind" \notin notes =>
        /\ ApOwed(r, Current(r))
        /\ Quiet(timers) /\ "wifi" \notin u.any => ApIs(r, Current(r))
        /\ ~u.met => ApOwed(r, u.backup) /\ (Quiet(timers) => ApIs(r, u.backup))
  BY <1>2, <1>4, <1>8 DEF ApOwed, ApIs
<1>10. SizesFit /\ UseInv => ReadWhole(r, u)
  <2> SUFFICES ASSUME SizesFit, UseInv PROVE ReadWhole(r, u)
    OBVIOUS
  <2>1. Imports /\ Whole(upload.backup)
    BY <1>1 DEF UseInv
  <2> QED BY <1>2, <1>4, <2>1 DEF ReadWhole
<1> QED BY <1>1, <1>2, <1>4, <1>7, <1>9, <1>10 DEF ReadSoFar

(* A callback after which no import is under way.                          *)
Ends(s, more, ts) == Cut(s) \/ (Completed(s, more) /\ timers' = ts /\ upload' = None)
Settles(s, more, ts) ==
  /\ s \in Devices /\ (Saved(s) \/ s.writes = <<>>)
  /\ Level /\ more \cap Apart = {} /\ s.writes = <<>> => flash = Image(s.conf)
  /\ "behind" \notin notes /\ "behind" \notin more =>
       ApOwed(s, Current(s)) /\ (Quiet(ts) => ApIs(s, Current(s)))
SettlesWhole(s) ==
  Sound(s, Imports) /\ s.conf.admin.version = 1 /\ SizeRuns(s)

LEMMA EndsKeeps ==
  ASSUME Typed, NEW s, NEW more, NEW ts, Ends(s, more, ts), Settles(s, more, ts)
  PROVE  Inv' /\ (UseInv /\ SettlesWhole(s) => UseInv')
<1>0. s \in Devices /\ (Saved(s) \/ s.writes = <<>>)
  BY DEF Settles
<1>1. CASE Cut(s)
  <2>1. PICK n \in 1..Len(s.writes) : PowerLost(s, n)
    BY <1>1 DEF Cut
  <2>2. n \in 0..Len(s.writes)
    BY <1>0 DEF Devices
  <2> QED BY <1>0, <2>1, <2>2, PowerLostKeeps DEF Inv, SettlesWhole, Sound
<1>2. CASE Completed(s, more) /\ timers' = ts /\ upload' = None
  <2>1. /\ On' /\ d' \in Devices /\ d'.writes = <<>> /\ user' = user
        /\ d'.conf = s.conf /\ d'.radio = s.radio /\ d'.chg = s.chg /\ d'.live = s.live
        /\ flash' = Unreadable \/ Readable(flash')
        /\ \/ flash' = flash
           \/ /\ flash' # Unreadable
              /\ \E i \in 1..Len(s.writes) : flash'.block = s.writes[i]
        /\ Level' => /\ more \cap Apart = {}
                     /\ IF Saved(s) THEN flash' = Image(s.conf)
                        ELSE flash' = flash /\ Level
        /\ "behind" \notin notes' => "behind" \notin notes /\ "behind" \notin more
    BY <1>0, <1>2, CompletedIs
  <2>2. Typed'
    BY <1>2, <2>1 DEF Typed, None, Unreadable, Readable, Image
  <2>3. StepInv'
    BY <1>0, <1>2, <2>1 DEF StepInv, Settles, None, Saved
  <2>4. ApInv'
    BY <1>2, <2>1 DEF ApInv, Settles, None, Quiet, ApOwed, ApIs, Current
  <2>5. ASSUME UseInv, SettlesWhole(s) PROVE UseInv'
    <3>1. Imports' = Imports
      BY <2>1 DEF Imports
    <3>2. IF flash' = Unreadable THEN ~Imports ELSE Good(flash'.block, Imports)
      BY <2>1, <2>5 DEF UseInv, SettlesWhole, Sound, WritesGood
    <3> QED BY <1>2, <2>1, <2>5, <3>1, <3>2, Unreadable' = Unreadable
       DEF UseInv, SettlesWhole, Sound, SizeRuns, Current, None
  <2> QED BY <2>2, <2>3, <2>4, <2>5 DEF Inv
<1> QED BY <1>1, <1>2 DEF Ends

LEMMA ImportEndKeeps ==
  ASSUME Inv, On, NEW r, NEW u, ReadSoFar(r, u), ImportEnd(r, u)
  PROVE  Inv' /\ (UseInv /\ ReadWhole(r, u) => UseInv')
<1>0. /\ Typed /\ r \in Devices /\ u \in Uploads /\ r.writes = <<>>
      /\ u.backup \in Bundles
  BY DEF Inv, ReadSoFar, Uploads
<1>1. ReadWhole(r, u) => SettlesWhole(r)
  <2>1. Imports \in BOOLEAN
    BY DEF Imports
  <2>2. \A all \in BOOLEAN : WritesGood(r, all)
    BY <1>0 DEF WritesGood
  <2> QED BY <2>1, <2>2 DEF ReadWhole, SettlesWhole, Sound
<1>2. CASE u.ok /\ Current(r).size <= MaxSize
  <2> DEFINE term == IF "term" \in u.any THEN ApplyTerm(r) ELSE r
             s == IF u.any = {} THEN term ELSE Store(term)
             ts == timers \cup (IF "wifi" \in u.any THEN {"import"} ELSE {})
  <2>1. Ends(s, {}, ts)
    BY <1>2 DEF ImportEnd, Ending, Ends
  <2>2. Quiet(ts) => Quiet(timers) /\ "wifi" \notin u.any
    BY DEF Quiet
  <2> HIDE DEF ts
  <2>3. Like(r, s) /\ (IF u.any = {} THEN s = r ELSE Saved(s))
    <3>1. Like(r, r)
      BY <1>0 DEF Like, SameWifi
    <3>2. Like(r, term)
      BY <1>0, <3>1, ApplyTermIsLike
    <3>3. CASE u.any = {}
      BY <3>1, <3>3
    <3>4. CASE u.any # {}
      <4>1. s = Store(term)
        BY <3>4
      <4> HIDE DEF term
      <4>2. term \in Devices
        BY <3>2 DEF Like
      <4>3. Like(term, s) /\ Saved(s)
        BY <4>1, <4>2, StoreIsLike
      <4> HIDE DEF s
      <4> QED BY <3>2, <3>4, <4>3, LikeOn
    <3> QED BY <3>3, <3>4
  <2> HIDE DEF s
  <2>4. Settles(s, {}, ts)
    <3>1. s \in Devices /\ (Saved(s) \/ s.writes = <<>>)
      BY <1>0, <2>3 DEF Like
    <3>2. s.writes = <<>> => s = r /\ u.any = {}
      BY <2>3 DEF Saved
    <3>3. SameWifi(r, s)
      BY <2>3 DEF Like
    <3>4. "behind" \notin notes =>
            ApOwed(s, Current(s)) /\ (Quiet(ts) => ApIs(s, Current(s)))
      BY <2>2, <3>3 DEF ReadSoFar, SameWifi, ApOwed, ApIs
    <3> QED BY <3>1, <3>2, <3>4 DEF Settles, ReadSoFar
  <2>5. ReadWhole(r, u) => SettlesWhole(s)
    <3>1. Imports \in BOOLEAN
      BY DEF Imports
    <3> QED BY <1>1, <2>3, <3>1 DEF SettlesWhole, Like
  <2> QED BY <1>0, <2>1, <2>4, <2>5, EndsKeeps
<1>3. CASE ~(u.ok /\ Current(r).size <= MaxSize)
  <2> DEFINE s == Reverted(r, u.backup)
             more == IF u.met THEN {"reverted", "behind"} ELSE {}
  <2>1. Ends(s, more, timers)
    BY <1>3 DEF ImportEnd, Ending, Ends
  <2> DEFINE b == u.backup
  <2>0. s = [r EXCEPT !.conf.current = b] /\ b \in Bundles
    BY <1>0 DEF Reverted
  <2> HIDE DEF s, b
  <2>2. /\ s \in Devices /\ Current(s) = u.backup
        /\ s.conf.defaults = r.conf.defaults /\ s.conf.admin = r.conf.admin
        /\ s.radio = r.radio /\ s.chg = r.chg /\ s.live = r.live
        /\ s.writes = r.writes
    <3>1. s \in Devices /\ Current(s) = b
      BY <1>0, <2>0, WithCurrent
    <3>2. s.conf.defaults = r.conf.defaults /\ s.conf.admin = r.conf.admin
      BY <1>0, <2>0, WithCurrent
    <3>3. /\ s.radio = r.radio /\ s.chg = r.chg /\ s.live = r.live
          /\ s.writes = r.writes
      BY <1>0, <2>0, WithCurrent
    <3> QED BY <3>1, <3>2, <3>3 DEF b
  <2>3. s.conf = [r.conf EXCEPT !.current = u.backup]
    <3>1. s.conf \in Blocks /\ r.conf \in Blocks
      BY <1>0, <2>2 DEF Devices
    <3> QED BY <1>0, <2>2, <3>1 DEF Blocks, Current
  <2>4. Settles(s, more, timers)
    <3>1. u.met => "behind" \in more /\ more \cap Apart # {}
      BY DEF Apart
    <3> HIDE DEF more
    <3> QED BY <1>0, <2>2, <2>3, <3>1 DEF Settles, ReadSoFar, ApOwed, ApIs
  <2>5. ReadWhole(r, u) => SettlesWhole(s)
    <3> SUFFICES ASSUME ReadWhole(r, u) PROVE SettlesWhole(s)
      OBVIOUS
    <3>1. /\ Whole(u.backup) /\ Whole(Current(r)) /\ Imports
          /\ Whole(r.conf.defaults) /\ r.conf.admin.version = 1
          /\ r.live \in 1..MaxSize
      BY DEF ReadWhole, Good, SizeRuns, Whole, Current
    <3>2. Good(s.conf, Imports) /\ WritesGood(s, Imports)
      BY <1>0, <2>2, <3>1 DEF Good, WritesGood, Current
    <3> QED BY <2>2, <3>1, <3>2 DEF SettlesWhole, Sound, SizeRuns
  <2> QED BY <1>0, <2>1, <2>4, <2>5, EndsKeeps
<1> QED BY <1>2, <1>3

(* More of the import is to come.                                          *)
LEMMA MoreToCome ==
  ASSUME Inv, On, NEW r, NEW u, ReadSoFar(r, u), d' = r, upload' = u,
         UNCHANGED <<user, flash, timers, notes>>
  PROVE  Inv' /\ (UseInv /\ ReadWhole(r, u) => UseInv')
<1>1. /\ Typed /\ r \in Devices /\ u \in Uploads /\ r.writes = <<>> /\ r # Off /\ u # None
  BY DeviceIsOn, UploadIsSome DEF Inv, ReadSoFar
<1>2. Typed'
  BY <1>1 DEF Typed, On, Off, None, Unreadable, Uploads, Readable, Image
<1>3. StepInv'
  BY <1>1 DEF StepInv, ReadSoFar, On, Level, None
<1>4. ApInv'
  BY <1>1 DEF ApInv, ReadSoFar, On, None, Quiet, Current
<1>5. UseInv /\ ReadWhole(r, u) => UseInv'
  BY <1>1 DEF UseInv, ReadWhole, On, None, Imports, SizeRuns, Current
<1> QED BY <1>2, <1>3, <1>4, <1>5 DEF Inv

LEMMA ImportKeeps ==
  ASSUME Inv, NEW p \in user.parts, ImportBegins(p) \/ ImportGoesOn(p)
  PROVE  Inv' /\ (SizesFit /\ UseInv => UseInv')
<1> DEFINE r == ReadPart(d, p)
<1>1. CASE ImportBegins(p)
  <2> DEFINE u == [backup |-> Current(d), ok |-> Valid(p), any |-> Differs(r), met |-> FALSE]
  <2>1. \/ d' = r /\ upload' = u /\ UNCHANGED <<user, flash, timers, notes>>
        \/ ImportEnd(r, u)
    BY <1>1 DEF ImportBegins
  <2>2. On /\ ReadSoFar(r, u) /\ (SizesFit /\ UseInv => ReadWhole(r, u))
    BY <1>1, FirstPart
  <2> HIDE DEF r, u
  <2> QED BY <2>1, <2>2, MoreToCome, ImportEndKeeps
<1>2. CASE ImportGoesOn(p)
  <2> DEFINE u == [upload EXCEPT !.ok = @ /\ Valid(p), !.any = @ \cup Differs(r)]
  <2>1. ImportEnd(r, u)
    BY <1>2 DEF ImportGoesOn
  <2>2. On /\ ReadSoFar(r, u) /\ (SizesFit /\ UseInv => ReadWhole(r, u))
    BY <1>2, SecondPart
  <2> HIDE DEF r, u
  <2> QED BY <2>1, <2>2, ImportEndKeeps
<1> QED BY <1>1, <1>2

LEMMA AbandonedKeeps ==
  ASSUME Inv, ImportAbandoned
  PROVE  Inv' /\ (UseInv => UseInv')
<1>1. /\ On /\ upload' = None /\ "behind" \in notes'
      /\ UNCHANGED <<user, flash, d, timers>> /\ On' /\ ~Level'
  BY DEF ImportAbandoned, Does, On, Off, Level, Apart
<1>2. Typed' /\ StepInv' /\ ApInv'
  BY <1>1 DEF Inv, Typed, StepInv, ApInv, On, Off, None, Unreadable, Readable, Image
<1>3. UseInv => UseInv'
  BY <1>1 DEF UseInv, Imports, SizeRuns, Current, None
<1> QED BY <1>2, <1>3 DEF Inv

-----------------------------------------------------------------------------
(* Switching on and off; the scan; the button.                             *)

LEMMA BootKeeps ==
  ASSUME Inv, Boot
  PROVE  Inv' /\ (UseInv => UseInv')
<1> DEFINE s == Load(PoweredUp, flash)
<1>1. /\ Typed /\ ~On /\ upload = None /\ timers = {}
      /\ flash = Unreadable \/ Readable(flash)
  BY DEF Boot, Inv, Typed
<1>2. Ends(s, {}, {})
  BY <1>1 DEF Boot, Ends
<1>3. /\ s \in Devices /\ s.conf.admin.version = 1
      /\ Saved(s) \/ (s.writes = <<>> /\ flash = Image(s.conf))
      /\ ApIs(s, Current(s)) /\ ApOwed(s, Current(s))
      /\ s.live = Current(s).size /\ s.live \in 0..MaxSize
      /\ \A all \in BOOLEAN :
           (IF flash = Unreadable THEN ~all ELSE Good(flash.block, all)) => Sound(s, all)
  BY <1>1, LoadIs DEF Readable
<1> HIDE DEF s
<1>4. Settles(s, {}, {})
  BY <1>3 DEF Settles, Saved
<1>5. UseInv => SettlesWhole(s)
  <2>1. Imports \in BOOLEAN
    BY DEF Imports
  <2>2. SizeRuns(s)
    BY <1>3, SettingsAssumption DEF SizeRuns
  <2> QED BY <1>3, <2>1, <2>2 DEF UseInv, SettlesWhole
<1> QED BY <1>1, <1>2, <1>4, <1>5, EndsKeeps

LEMMA SwitchedOffKeeps ==
  ASSUME Inv, SwitchedOff
  PROVE  Inv' /\ (UseInv => UseInv')
<1>1. On /\ PowerLost(d, 0) /\ Typed
  BY DEF SwitchedOff, Does, Inv
<1>2. d \in Devices /\ d.writes = <<>> /\ 0 \in 0..Len(d.writes)
  BY <1>1 DEF Typed
<1>3. WritesGood(d, Imports)
  <2>1. Imports \in BOOLEAN
    BY DEF Imports
  <2>2. \A all \in BOOLEAN : WritesGood(d, all)
    BY <1>2 DEF WritesGood
  <2> QED BY <2>1, <2>2
<1> QED BY <1>1, <1>2, <1>3, PowerLostKeeps DEF Inv

LEMMA ResetDeviceKeeps ==
  ASSUME Inv, ResetDevice
  PROVE  Inv' /\ (UseInv => UseInv')
<1>1. On /\ Handler(d, {}, timers \cup {"restart"})
  BY DEF ResetDevice, Does
<1>2. Quiet(timers \cup {"restart"}) => Quiet(timers)
  BY DEF Quiet
<1> QED BY <1>1, <1>2, NoChangeKeeps

LEMMA ScanCallKeeps ==
  ASSUME Inv, NEW q \in Readers, ScanCall(q)
  PROVE  Inv' /\ (UseInv => UseInv')
<1> DEFINE s == StationOn
           more == IF StationOn = d THEN {} ELSE {"scan"}
           m == Current(d).mode \cup {"sta"}
           h == Having(d, "mode", m)
<1>1. On /\ Runs(s, more, timers) /\ d \in Devices /\ d.writes = <<>>
  BY DEF ScanCall, Runs, Inv, Typed
<1>2. CASE s = d
  <2>1. more = {}
    BY <1>2
  <2> QED BY <1>1, <1>2, <2>1, NoChange, RunsKeeps
<1>3. CASE s # d
  <2>1. more = {"scan"} /\ s = ApplyWifi(h)
    BY <1>3 DEF StationOn
  <2>2. Fits("mode", m)
    BY <1>1 DEF Fits, Devices, Blocks, Bundles, Current, Interfaces
  <2> HIDE DEF m, s
  <2>3. /\ h \in Devices
        /\ h.conf.defaults = d.conf.defaults /\ h.conf.admin = d.conf.admin
        /\ Current(h).ap = Current(d).ap /\ Current(h).sta = Current(d).sta
        /\ Current(h).size = Current(d).size
        /\ h.radio = d.radio /\ h.chg = d.chg /\ h.live = d.live /\ h.writes = d.writes
    BY <1>1, <2>2, HavingIs
  <2> HIDE DEF h
  <2>4. /\ s \in Devices /\ s.conf = h.conf /\ s.writes = h.writes /\ s.live = h.live
        /\ ApOwed(h, Current(h)) => ApIs(s, Current(s)) /\ ApOwed(s, Current(s))
    BY <2>1, <2>3, ApplyWifiIs
  <2>5. \A all \in BOOLEAN : Sound(d, all) => Sound(h, all)
    BY <1>1, <2>3, SoundFrom DEF Whole
  <2>6. \A all \in BOOLEAN : Sound(h, all) => Sound(s, all)
    BY <2>4 DEF Sound, WritesGood
  <2>7. Stays(s)
    BY <1>1, <2>3, <2>4, <2>5, <2>6 DEF Stays, SizeRuns, Current
  <2>8. WifiFits(s, timers)
    BY <2>3, <2>4 DEF WifiFits, ApOwed
  <2>9. Result(s, more, timers)
    BY <2>1, <2>7, <2>8 DEF Result, Apart
  <2> QED BY <1>1, <2>9, RunsKeeps
<1> QED BY <1>2, <1>3

(* The pins do not matter.                                                 *)
LEMMA PinsAre ==
  ASSUME NEW r \in Devices, NEW s \in {PinsToLed(r), PinsToUart(r)}
  PROVE  /\ s \in Devices /\ s.conf = r.conf /\ s.radio = r.radio /\ s.chg = r.chg
         /\ s.live = r.live /\ s.writes = r.writes /\ Like(r, s)
<1>1. r.mux \in [tx : {"uart", "gpio"}, g2 : {"uart", "gpio"}]
  BY DEF Devices
<1>2. PICK x \in [tx : {"uart", "gpio"}, g2 : {"uart", "gpio"}] : s = [r EXCEPT !.mux = x]
  BY <1>1 DEF PinsToLed, PinsToUart
<1>3. /\ s \in Devices /\ s.conf = r.conf /\ s.radio = r.radio /\ s.chg = r.chg
      /\ s.live = r.live /\ s.writes = r.writes
  BY <1>2 DEF Devices
<1> QED BY <1>3 DEF Like, SameWifi, SizeRuns, Sound, WritesGood, Current

LEMMA HoldKeeps ==
  ASSUME Inv, Hold
  PROVE  Inv' /\ (UseInv => UseInv')
<1>0. On /\ Typed /\ d \in Devices /\ d.writes = <<>>
  BY DEF Hold, Inv, Typed
<1>1. PICK s \in {PinsToLed(d), d} : Completed(s, {}) /\ UNCHANGED <<timers, upload>>
  BY DEF Hold
<1>2. /\ s \in Devices /\ s.conf = d.conf /\ s.radio = d.radio /\ s.chg = d.chg
      /\ s.live = d.live /\ s.writes = <<>> /\ Like(d, s)
  <2>1. CASE s = d
    BY <1>0, <2>1 DEF Like, SameWifi
  <2>2. CASE s = PinsToLed(d)
    BY <1>0, <2>2, PinsAre
  <2> QED BY <2>1, <2>2
<1>3. /\ On' /\ d' \in Devices /\ d'.writes = <<>> /\ user' = user
      /\ d'.conf = d.conf /\ d'.radio = d.radio /\ d'.chg = d.chg /\ d'.live = d.live
      /\ flash' = Unreadable \/ Readable(flash')
      /\ flash' = flash \/ \E i \in 1..Len(s.writes) : flash'.block = s.writes[i]
      /\ Level' => flash' = flash /\ Level
      /\ "behind" \notin notes' => "behind" \notin notes
  BY <1>0, <1>1, <1>2, CompletedIs DEF Saved
<1>4. flash' = flash
  BY <1>2, <1>3
<1>5. Typed'
  BY <1>0, <1>1, <1>3 DEF Typed, None, Unreadable, Uploads, Readable, Image
<1>6. StepInv'
  BY <1>0, <1>1, <1>3 DEF Inv, StepInv, None
<1>7. ApInv'
  BY <1>0, <1>1, <1>3 DEF Inv, ApInv, None, Quiet, ApOwed, ApIs, Current
<1>8. UseInv => UseInv'
  BY <1>0, <1>1, <1>3, <1>4 DEF UseInv, Imports, SizeRuns, Current, None, Unreadable
<1> QED BY <1>5, <1>6, <1>7, <1>8 DEF Inv

LEMMA ReleaseKeeps ==
  ASSUME Inv, Release
  PROVE  Inv' /\ (UseInv => UseInv')
<1> DEFINE a == PinsToUart(d)
           r == Released(resetCnt)
           more == IF resetCnt >= 12 THEN {"behind"} ELSE {}
<1>1. On /\ Runs(r, more, timers) /\ d \in Devices /\ d.writes = <<>>
  BY DEF Release, Runs, Inv, Typed
<1>2. \/ r = RestoreDefault(a) /\ more = {"behind"}
      \/ r = Rescue(a) /\ more = {}
      \/ r = a /\ more = {}
  BY DEF Released
<1>3. /\ a \in Devices /\ a.conf = d.conf /\ a.radio = d.radio /\ a.chg = d.chg
      /\ a.live = d.live /\ a.writes = d.writes /\ Like(d, a)
  BY <1>1, PinsAre
<1> HIDE DEF a, r, more
<1>4. CASE r = RestoreDefault(a) /\ more = {"behind"}
  <2>1. /\ r \in Devices /\ Saved(r)
        /\ r.conf.admin = a.conf.admin
        /\ r.live = Current(r).size /\ r.live \in 0..MaxSize
        /\ \A all \in BOOLEAN : Sound(a, all) => Sound(r, all)
    BY <1>3, <1>4, RestoreDefaultIs
  <2>2. Stays(r)
    BY <1>3, <2>1, SettingsAssumption DEF Stays, SizeRuns, Like
  <2> QED BY <1>1, <1>4, <2>1, <2>2, RunsKeeps DEF Result
<1>5. CASE r = Rescue(a) /\ more = {}
  <2> DEFINE h == Having(a, "mode", STATIONAP_MODE)
             w == ApplyWifi(h)
  <2>1. r = Store(w) /\ Fits("mode", STATIONAP_MODE)
    BY <1>5 DEF Rescue, Fits, STATIONAP_MODE
  <2>2. /\ h \in Devices
        /\ h.conf.defaults = a.conf.defaults /\ h.conf.admin = a.conf.admin
        /\ Current(h).ap = Current(a).ap /\ Current(h).sta = Current(a).sta
        /\ Current(h).size = Current(a).size
        /\ h.radio = a.radio /\ h.chg = a.chg /\ h.live = a.live /\ h.writes = a.writes
    BY <1>3, <2>1, HavingIs
  <2> HIDE DEF h
  <2>3. /\ w \in Devices /\ w.conf = h.conf /\ w.writes = h.writes /\ w.live = h.live
        /\ ApOwed(h, Current(h)) => ApIs(w, Current(w)) /\ ApOwed(w, Current(w))
    BY <2>2, ApplyWifiIs
  <2> HIDE DEF w
  <2>4. /\ r \in Devices /\ Saved(r) /\ r.conf = w.conf /\ r.radio = w.radio
        /\ r.chg = w.chg /\ r.live = w.live
        /\ \A all \in BOOLEAN : Sound(w, all) => Sound(r, all)
    BY <2>1, <2>3, StoreIs, StoredIs
  <2>5. \A all \in BOOLEAN : Sound(d, all) => Sound(h, all)
    <3>1. \A all \in BOOLEAN : Sound(a, all) => Sound(h, all)
      BY <1>3, <2>2, SoundFrom DEF Whole
    <3> QED BY <1>3, <3>1 DEF Like
  <2>6. \A all \in BOOLEAN : Sound(h, all) => Sound(w, all)
    BY <2>3 DEF Sound, WritesGood
  <2>7. Stays(r)
    BY <1>3, <2>2, <2>3, <2>4, <2>5, <2>6 DEF Stays, SizeRuns, Current
  <2>8. WifiFits(r, timers)
    BY <1>3, <2>2, <2>3, <2>4 DEF WifiFits, ApOwed, ApIs, Current
  <2> QED BY <1>1, <2>4, <2>7, <2>8, RunsKeeps DEF Result
<1>6. CASE r = a /\ more = {}
  BY <1>1, <1>3, <1>6, LikeResult, RunsKeeps
<1> QED BY <1>2, <1>4, <1>5, <1>6

-----------------------------------------------------------------------------
(* All steps.                                                              *)

LEMMA Starts == Init => Inv
<1> SUFFICES ASSUME Init PROVE Inv
  OBVIOUS
<1>1. /\ user \in Users /\ flash = user.flash /\ d = Off /\ timers = {} /\ upload = None
      /\ ~On
  BY DEF Init, On
<1>2. flash = Unreadable \/ Readable(flash)
  BY <1>1, DeviceAssumption DEF Readable
<1> QED BY <1>1, <1>2 DEF Inv, Typed, StepInv, ApInv

LEMMA StartsUsable == ASSUME FlashesFit, Init PROVE UseInv
<1>1. user \in Users /\ flash = user.flash /\ ~On /\ upload = None
  BY DEF Init, On
<1>2. Imports \in BOOLEAN
  BY DEF Imports
<1>3. IF flash = Unreadable THEN ~Imports ELSE Good(flash.block, Imports)
  BY <1>1, <1>2 DEF FlashesFit, Good, Imports
<1> QED BY <1>1, <1>3 DEF UseInv

LEMMA StutterKeeps ==
  ASSUME Inv, UNCHANGED <<user, flash, d, timers, upload, notes>>
  PROVE  Inv' /\ (UseInv => UseInv')
<1>1. Inv'
  BY DEF Inv, Typed, StepInv, ApInv, On, Off, None, Unreadable, Uploads, Readable, Image,
         Level, Quiet, ApIs, ApOwed, Current
<1>2. UseInv => UseInv'
  BY DEF UseInv, On, Off, None, Unreadable, Imports, SizeRuns, Current
<1> QED BY <1>1, <1>2

LEMMA PagesKeep ==
  ASSUME Inv, Pages
  PROVE  Inv' /\ (UseInv => UseInv')
<1>0. user \in Users /\ (\A f \in user.forms : WellFormed(f))
  BY DeviceAssumption DEF Inv, Typed
<1>1. ASSUME NEW page \in {"wifi", "network"}, NEW f \in user.forms, Does("wifi"),
             WifiPage(page, f)
      PROVE  Inv' /\ (UseInv => UseInv')
  BY <1>0, <1>1, WifiPageKeeps DEF Does
<1>2. ASSUME NEW f \in TermForms, Does("term"), TermPage(f)
      PROVE  Inv' /\ (UseInv => UseInv')
  BY <1>2, TermPageKeeps DEF Does
<1>3. CASE Does("system") /\ SystemPage
  BY <1>3, SystemPageKeeps DEF Does
<1>4. ASSUME NEW pw, Does("defaults"), WriteDefaults(pw)
      PROVE  Inv' /\ (UseInv => UseInv')
  BY <1>4, DefaultsKeep DEF Does
<1>5. CASE Does("restore") /\ RestoreDefaults
  BY <1>5, DefaultsKeep DEF Does
<1>6. CASE Does("hard") /\ RestoreHard
  BY <1>6, DefaultsKeep DEF Does
<1>7. CASE ResetDevice
  BY <1>7, ResetDeviceKeeps
<1> QED BY <1>1, <1>2, <1>3, <1>4, <1>5, <1>6, <1>7 DEF Pages

LEMMA NextKeeps ==
  ASSUME Inv, [Next]_vars
  PROVE  Inv' /\ (SizesFit /\ UseInv => UseInv')
<1>1. CASE Boot
  BY <1>1, BootKeeps
<1>2. CASE SwitchedOff
  BY <1>2, SwitchedOffKeeps
<1>3. CASE Pages
  BY <1>3, PagesKeep
<1>4. CASE \E t \in {"wifi", "network", "import"} : ApplyTimer(t)
  BY <1>4, ApplyTimerKeeps
<1>5. CASE \E p \in user.parts : ImportBegins(p) \/ ImportGoesOn(p)
  BY <1>5, ImportKeeps
<1>6. CASE ImportAbandoned
  BY <1>6, AbandonedKeeps
<1>7. CASE \E r \in Readers : ScanCall(r)
  BY <1>7, ScanCallKeeps
<1>8. CASE Hold
  BY <1>8, HoldKeeps
<1>9. CASE Release
  BY <1>9, ReleaseKeeps
<1>10. CASE ScanStep \/ ScanEnded \/ D2DStep \/ D2DCallback \/ Press \/ UNCHANGED vars
  <2>1. UNCHANGED <<user, flash, d, timers, upload, notes>>
    BY <1>10 DEF ScanStep, ScanEnded, D2DStep, D2DCallback, Press, vars
  <2> QED BY <2>1, StutterKeeps
<1> QED BY <1>1, <1>2, <1>3, <1>4, <1>5, <1>6, <1>7, <1>8, <1>9, <1>10 DEF Next

-----------------------------------------------------------------------------
(* What is running is what is stored, but for the exceptions that are      *)
(* noted, whatever the pages, files, timers, the button and power failures *)
(* did before.                                                             *)
THEOREM StaysInStep == Spec => []InStep
<1>1. Init => Inv
  BY Starts
<1>2. Inv /\ [Next]_vars => Inv'
  BY NextKeeps
<1>3. Inv => InStep
  BY DEF Inv, StepInv, InStep, Level
<1> QED BY <1>1, <1>2, <1>3, PTL DEF Spec

(* With no timer left to apply them, the access point runs with the        *)
(* settings in use, unless defaults were restored or an import was undone  *)
(* or abandoned: no change is forgotten by the flags that record it.       *)
THEOREM AccessPointFollows == Spec => []ApFollows
<1>1. Init => Inv
  BY Starts
<1>2. Inv /\ [Next]_vars => Inv'
  BY NextKeeps
<1>3. Inv => ApFollows
  BY DEF Inv, ApInv, ApFollows, ApIs, Quiet, None
<1> QED BY <1>1, <1>2, <1>3, PTL DEF Spec

(* Whenever and however often power is lost, a device that runs, with      *)
(* whole defaults, has settings, a screen that fits and a password.        *)
THEOREM RunsUsable ==
  ASSUME SizesFit, FlashesFit
  PROVE  Spec => []Usable
<1> DEFINE J == Inv /\ UseInv
<1>1. Init => J
  BY Starts, StartsUsable
<1>2. J /\ [Next]_vars => J'
  BY NextKeeps
<1>3. J => Usable
  BY DEF UseInv, Usable, Good, SizeRuns, Whole, Current
<1> HIDE DEF J
<1> QED BY <1>1, <1>2, <1>3, PTL DEF Spec

-----------------------------------------------------------------------------
(* The list of access points.  A list that is there has the entries it is  *)
(* said to have, unless one was not stored; one that could not be had      *)
(* leaves the flag of the scan up, with no callback to come.  An answer    *)
(* that no scan has overtaken is being read from the list it began with.   *)
ListInv ==
  /\ noAps \in Nat /\ entries \in Int
  /\ air => inProgress
  /\ entries = NULL => noAps = 0 \/ (inProgress /\ ~air)
  /\ entries # NULL => entries = noAps \/ "short" \in trouble

AnswerInv(r) ==
  /\ "missing" \in flaws[r] => "short" \in trouble
  /\ "comma" \in flaws[r] \/ "head" \in flaws[r] => r \in overtaken
  /\ pos[r] > 0 /\ r \notin overtaken => ~inProgress /\ (pos[r] = 1 \/ pos[r] <= noAps)

AnswersTyped ==
  /\ pos \in [Readers -> Int]
  /\ flaws \in [Readers -> SUBSET {"missing", "comma", "head"}]

ScanInv == ListInv /\ AnswersTyped /\ \A r \in Readers : AnswerInv(r)

LEMMA PieceKeeps ==
  ASSUME ScanInv, NEW r \in Readers, NEW ts \in BOOLEAN, Piece(r, ts)
  PROVE  ScanInv'
<1>1. /\ pos[r] > 0 /\ ~inProgress /\ pos[r] \in Int
      /\ noAps' = noAps /\ entries' = entries /\ noAps \in Nat /\ entries \in Int
      /\ flaws' = [flaws EXCEPT ![r] = flaws[r] \cup PieceFlaws(pos[r])]
  BY DEF Piece, ScanInv, ListInv, AnswersTyped
<1>2. /\ pos' \in [Readers -> Int]
      /\ pos'[r] > 0 => pos'[r] = pos[r] + 1 /\ pos'[r] <= noAps /\ inProgress' = inProgress
      /\ \A q \in Readers \ {r} : pos'[q] = pos[q]
  <2>1. pos' = [pos EXCEPT ![r] = Idle]
        \/ (/\ pos' = [pos EXCEPT ![r] = pos[r] + 1] /\ pos[r] + 1 <= noAps
            /\ inProgress' = inProgress)
    BY <1>1 DEF Piece, NextPlace
  <2> QED BY <1>1, <2>1 DEF ScanInv, AnswersTyped, Idle
<1>3. /\ air' => inProgress'
      /\ \A x : x \in trouble => x \in trouble'
      /\ \A q \in Readers : q \in overtaken => q \in overtaken'
      /\ \A q \in Readers \ {r} :
           pos[q] > 0 /\ q \notin overtaken' => q \notin overtaken /\ inProgress' = inProgress
  BY <1>1 DEF Piece, StartScan, ScanInv, ListInv
<1>4. PieceFlaws(pos[r]) \in SUBSET {"missing", "comma", "head"}
  BY DEF PieceFlaws
<1>5. ListInv'
  BY <1>1, <1>3 DEF ScanInv, ListInv, NULL
<1>6. AnswersTyped'
  BY <1>1, <1>2, <1>4 DEF ScanInv, AnswersTyped
<1>7. ~Astray(pos[r]) \/ "short" \in trouble
  BY <1>1 DEF ScanInv, ListInv, Astray, Listed, NULL
<1>8. r \notin overtaken => pos[r] = 1 \/ Listed(pos[r])
  BY <1>1 DEF ScanInv, AnswerInv, Listed
<1>9. /\ "missing" \in PieceFlaws(pos[r]) => "short" \in trouble
      /\ "comma" \in PieceFlaws(pos[r]) => r \in overtaken
      /\ "head" \notin PieceFlaws(pos[r])
  BY <1>1, <1>7, <1>8 DEF PieceFlaws
<1>10. AnswerInv(r)'
  <2>1. flaws'[r] = flaws[r] \cup PieceFlaws(pos[r])
    BY <1>1 DEF ScanInv, AnswersTyped
  <2>2. AnswerInv(r)
    BY DEF ScanInv
  <2> QED BY <1>1, <1>2, <1>3, <1>9, <2>1, <2>2 DEF AnswerInv
<1>11. ASSUME NEW q \in Readers \ {r} PROVE AnswerInv(q)'
  <2>1. flaws'[q] = flaws[q] /\ pos'[q] = pos[q] /\ AnswerInv(q)
    BY <1>1, <1>2 DEF ScanInv, AnswersTyped
  <2> QED BY <1>1, <1>3, <2>1 DEF AnswerInv
<1> QED BY <1>5, <1>6, <1>10, <1>11 DEF ScanInv

LEMMA FirstCallKeeps ==
  ASSUME ScanInv, NEW r \in Readers, FirstCall(r)
  PROVE  ScanInv'
<1>1. /\ UNCHANGED <<inProgress, entries, air, overtaken, trouble>>
      /\ pos[r] \in Int /\ noAps \in Nat /\ entries \in Int
  BY DEF FirstCall, ScanInv, ListInv, AnswersTyped
<1>2. noAps' = noAps
  BY <1>1 DEF FirstCall, ScanInv, ListInv
<1>3. ListInv'
  BY <1>1, <1>2 DEF ScanInv, ListInv
<1>4. AnswersTyped' /\ \A q \in Readers \ {r} : pos'[q] = pos[q] /\ flaws'[q] = flaws[q]
  BY DEF FirstCall, ScanInv, AnswersTyped, Idle
<1>5. AnswerInv(r)'
  <2>1. pos'[r] > 0 => ~inProgress /\ pos'[r] = 1
    BY DEF FirstCall, ScanInv, AnswersTyped, Idle
  <2>2. flaws'[r] = flaws[r] \cup (IF pos[r] > 0 THEN {"head"} ELSE {})
    BY DEF FirstCall, ScanInv, AnswersTyped
  <2>3. pos[r] > 0 => r \in overtaken
    BY <1>1 DEF FirstCall, ScanInv, AnswerInv
  <2>4. AnswerInv(r)
    BY DEF ScanInv
  <2> QED BY <1>1, <2>1, <2>2, <2>3, <2>4 DEF AnswerInv
<1>6. ASSUME NEW q \in Readers \ {r} PROVE AnswerInv(q)'
  BY <1>1, <1>2, <1>4 DEF ScanInv, AnswerInv
<1> QED BY <1>3, <1>4, <1>5, <1>6 DEF ScanInv

LEMMA ComesOrGoesKeeps ==
  ASSUME ScanInv, NEW r \in Readers, Arrives(r) \/ Leaves(r)
  PROVE  ScanInv'
<1>1. /\ UNCHANGED <<inProgress, entries, noAps, air, trouble>>
      /\ overtaken' = overtaken \ {r}
  BY DEF Arrives, Leaves, Forgotten
<1>2. AnswersTyped' /\ flaws'[r] = {} /\ ~(pos'[r] > 0)
  BY DEF Arrives, Leaves, Forgotten, ScanInv, AnswersTyped, Idle
<1>3. \A q \in Readers \ {r} : pos'[q] = pos[q] /\ flaws'[q] = flaws[q]
  BY DEF Arrives, Leaves, Forgotten, ScanInv, AnswersTyped, Idle
<1>4. ListInv'
  BY <1>1 DEF ScanInv, ListInv
<1>5. AnswerInv(r)'
  BY <1>2 DEF AnswerInv
<1>6. ASSUME NEW q \in Readers \ {r} PROVE AnswerInv(q)'
  BY <1>1, <1>3 DEF ScanInv, AnswerInv
<1> QED BY <1>2, <1>4, <1>5, <1>6 DEF ScanInv

LEMMA ScanDoneKeeps ==
  ASSUME ScanInv, ScanDone \/ ScanDoneShort
  PROVE  ScanInv'
<1>1. air /\ ~air' /\ inProgress /\ UNCHANGED <<pos, flaws, overtaken>>
  BY DEF ScanDone, ScanDoneShort, ScanInv, ListInv
<1>2. \A x : x \in trouble => x \in trouble'
  BY DEF ScanDone, ScanDoneShort
<1>3. noAps \in Nat /\ entries \in Int /\ (entries = NULL => noAps = 0)
      /\ (entries # NULL => entries = noAps \/ "short" \in trouble)
  BY <1>1 DEF ScanInv, ListInv
<1>4. \/ UNCHANGED <<entries, noAps>>
      \/ \E n \in 0..MaxAps : entries' = n /\ noAps' = n
      \/ entries' = NULL /\ noAps' = noAps /\ inProgress'
      \/ \E n \in 1..MaxAps, k \in Nat : entries' = k /\ noAps' = n /\ "short" \in trouble'
  <2>1. ASSUME NEW n \in 1..MaxAps, NEW k \in 0..(n - 1) PROVE k \in Nat
    OBVIOUS
  <2>2. NoArray => entries' = NULL /\ noAps' = noAps /\ inProgress'
    BY <1>1 DEF NoArray
  <2>3. CASE ScanDone
    BY <2>2, <2>3 DEF ScanDone
  <2>4. CASE ScanDoneShort
    BY <2>1, <2>2, <2>4 DEF ScanDoneShort
  <2> QED BY <2>3, <2>4
<1>5. ListInv'
  <2>1. noAps' \in Nat /\ entries' \in Int
    BY <1>3, <1>4, ScanAssumption DEF NULL
  <2>2. entries' = NULL => noAps' = 0 \/ inProgress'
    BY <1>1, <1>3, <1>4, ScanAssumption DEF NULL
  <2>3. entries' # NULL => entries' = noAps' \/ "short" \in trouble'
    BY <1>2, <1>3, <1>4
  <2> QED BY <1>1, <2>1, <2>2, <2>3 DEF ListInv
<1>6. ASSUME NEW q \in Readers PROVE AnswerInv(q)'
  BY <1>1, <1>2 DEF ScanInv, AnswerInv
<1> QED BY <1>1, <1>5, <1>6 DEF ScanInv, AnswersTyped

LEMMA ScanResetGives ==
  ASSUME ScanReset
  PROVE  ScanInv'
<1>1. ListInv' /\ AnswersTyped'
  BY DEF ScanReset, ListInv, AnswersTyped, NULL, Idle
<1>2. ASSUME NEW q \in Readers PROVE AnswerInv(q)'
  BY DEF ScanReset, AnswerInv, Idle
<1> QED BY <1>1, <1>2 DEF ScanInv

LEMMA ScanKeeps ==
  ASSUME ScanInv, [Next]_vars
  PROVE  ScanInv'
<1>1. CASE ScanReset
  BY <1>1, ScanResetGives
<1>2. CASE UNCHANGED scanvars
  BY <1>2 DEF scanvars, ScanInv, ListInv, AnswersTyped, AnswerInv
<1>3. ASSUME NEW r \in Readers, Arrives(r) \/ Leaves(r) PROVE ScanInv'
  BY <1>3, ComesOrGoesKeeps
<1>4. CASE ScanDone \/ ScanDoneShort
  BY <1>4, ScanDoneKeeps
<1>5. ASSUME NEW r \in Readers, ScanCall(r) PROVE ScanInv'
  <2>1. Piece(r, "sta" \in StationOn.radio.mode) \/ FirstCall(r)
    BY <1>5 DEF ScanCall
  <2>2. ("sta" \in StationOn.radio.mode) \in BOOLEAN
    OBVIOUS
  <2> QED BY <2>1, <2>2, PieceKeeps, FirstCallKeeps
<1>6. ScanReset \/ UNCHANGED scanvars \/ ScanDone \/ ScanDoneShort
      \/ (\E r \in Readers : ScanCall(r) \/ Arrives(r) \/ Leaves(r))
  <2>1. ASSUME NEW r, Cut(r) PROVE ScanReset
    BY <2>1 DEF Cut, PowerLost
  <2>2. ASSUME NEW r, NEW more, NEW ts, Handler(r, more, ts) \/ Ending(r, more, ts)
        PROVE  ScanReset \/ UNCHANGED scanvars
    BY <2>1, <2>2 DEF Handler, Ending, web
  <2>3. Pages => ScanReset \/ UNCHANGED scanvars
    BY <2>2 DEF Pages, WifiPage, TermPage, SystemPage, WriteDefaults, RestoreDefaults,
       RestoreHard, ResetDevice
  <2>4. ASSUME NEW p, ImportBegins(p) \/ ImportGoesOn(p)
        PROVE  ScanReset \/ UNCHANGED scanvars
    BY <2>2, <2>4 DEF ImportBegins, ImportGoesOn, ImportEnd, web
  <2>5. ASSUME NEW t, ApplyTimer(t) PROVE ScanReset \/ UNCHANGED scanvars
    BY <2>2, <2>5 DEF ApplyTimer
  <2>6. Boot \/ SwitchedOff \/ ImportAbandoned \/ D2DStep \/ D2DCallback \/ Press
          \/ Hold \/ Release \/ UNCHANGED vars => ScanReset \/ UNCHANGED scanvars
    BY <2>1 DEF Boot, SwitchedOff, PowerLost, ImportAbandoned, D2DStep, D2DCallback, Press,
       Hold, Release, vars, web
  <2> QED BY <2>3, <2>4, <2>5, <2>6 DEF Next, ScanStep, ScanEnded
<1> QED BY <1>1, <1>2, <1>3, <1>4, <1>5, <1>6

(* A request for the list never reads an entry that is not there, unless   *)
(* memory for an entry ran out - a list that could not be had is not read, *)
(* as its scan never ends - and what it is sent is whole, unless another   *)
(* request's scan has overtaken it: for any number of requests, with any   *)
(* number of access points.                                                *)
THEOREM AnswersAreSound == Spec => []AnswersSound
<1>1. Init => ScanInv
  <2>1. Init => ListInv /\ AnswersTyped
    BY DEF Init, ScanInit, ListInv, AnswersTyped, NULL, Idle
  <2>2. ASSUME Init, NEW q \in Readers PROVE AnswerInv(q)
    BY <2>2 DEF Init, ScanInit, AnswerInv, Idle
  <2> QED BY <2>1, <2>2 DEF ScanInv
<1>2. ScanInv /\ [Next]_vars => ScanInv'
  BY ScanKeeps
<1>3. ScanInv => AnswersSound
  BY DEF ScanInv, AnswerInv, AnswersSound
<1> QED BY <1>1, <1>2, <1>3, PTL DEF Spec
=============================================================================
