------------------------------- MODULE Device -------------------------------
(***************************************************************************)
(* The configured device: what its web pages, its button and its timers do *)
(* to the settings, with the list of access points (WifiScan) and requests *)
(* to other devices (D2D).                                                 *)
(*                                                                         *)
(* Callbacks do not interrupt each other.  Power can be lost at any time,  *)
(* also in a callback: what it had written to the flash by then stays.     *)
(* Timers have no lengths here: one that is armed may run at any time.     *)
(***************************************************************************)
EXTENDS Settings, WifiScan, D2D

CONSTANTS
  Users,       \* kinds of users: the groups of operations each uses, the
               \* contents of its WiFi and network forms and of the pieces of
               \* the files it imports, and what the flash holds at first
  TermForms,   \* contents of the terminal form
  MaxHold      \* bound: ticks of 500 ms the button's counter is followed

(* What a form or a file can say: of the mode and the size, nothing or one *)
(* value; of an interface, SetField's "same" for nothing and "bad".        *)
ModeField == {{}} \cup {{m} : m \in SUBSET Interfaces}
SettingField == Values \cup {Hard, "same", "bad"}
WellFormed(f) == f.mode \in ModeField /\ {f.ap, f.sta} \subseteq SettingField

ASSUME DeviceAssumption ==
  /\ MaxHold >= 12
  /\ \A u \in Users :
       /\ u.does \subseteq STRING
       /\ \/ u.flash = Unreadable
          \/ u.flash = Image(u.flash.block) /\ u.flash.block \in Blocks
       /\ \A f \in u.forms : WellFormed(f)
       /\ \A p \in u.parts :
            WellFormed(p) /\ (p.size = {} \/ \E n \in p.size : n \in Nat /\ p.size = {n})
  /\ \A f \in TermForms : f.size \in Nat /\ f.uart \in BOOLEAN

VARIABLES
  user,
  flash,      \* the sector of persist.c
  d,          \* the device (Settings), or Off
  timers,     \* which of "wifi", "network", "import", "restart" are armed
  upload,     \* None, or the import under way: backup, ok, any, and whether
              \* anything else was done since it began
  resetCnt,   \* of resetBtnTimerCb
  enabled,    \* enable_ap_button
  pressed,    \* is the button held?
  notes       \* what has brought the settings out of step

button == <<resetCnt, enabled, pressed>>
web == <<scanvars, d2dvars>>
vars == <<user, flash, d, timers, upload, button, notes, web>>

Off == [off |-> TRUE]
None == [none |-> TRUE]
On == d # Off
Does(group) == On /\ group \in user.does

Init ==
  /\ user \in Users
  /\ flash = user.flash
  /\ d = Off /\ timers = {} /\ upload = None
  /\ resetCnt = 0 /\ enabled = FALSE /\ pressed = FALSE /\ notes = {}
  /\ ScanInit /\ D2DInit

-----------------------------------------------------------------------------
(* A callback takes the device to r.                                       *)

(* The flash, if the last of r's writes that succeeded is the n-th.        *)
Written(r, n) == IF n = 0 THEN flash ELSE Image(r.writes[n])

(* Reasons for the settings in use to differ from the stored ones; the     *)
(* next write makes them the same again.                                   *)
Apart == {"unwritten", "scan", "half", "reverted"}

(* The callback is completed.  That the flash could not be written is only *)
(* logged.                                                                 *)
Completed(r, more) ==
  /\ \E n \in 0..Len(r.writes) :
       /\ n = Len(r.writes) \/ "badflash" \in user.does
       /\ flash' = Written(r, n)
       /\ notes' = more \cup (IF r.writes = <<>> THEN notes
                              ELSE IF n = Len(r.writes) THEN notes \ Apart
                              ELSE notes \cup {"unwritten"})
  /\ d' = [r EXCEPT !.writes = <<>>]
  /\ UNCHANGED user

PowerLost(r, n) ==
  /\ flash' = Written(r, n)
  /\ d' = Off /\ timers' = {} /\ upload' = None /\ notes' = {}
  /\ resetCnt' = 0 /\ UNCHANGED <<user, enabled, pressed>>
  /\ ScanReset /\ D2DReset

(* Power is lost after some of the callback's writes.                      *)
Cut(r) ==
  /\ "power" \in user.does
  /\ \E n \in 1..Len(r.writes) : PowerLost(r, n)

(* An import under way is not the only one to change settings.             *)
Meets == upload' = IF upload = None THEN None ELSE [upload EXCEPT !.met = TRUE]

(* The callback of a page or a timer, after which the timers ts are armed. *)
Handler(r, more, ts) ==
  \/ Completed(r, more) /\ timers' = ts /\ Meets /\ UNCHANGED <<button, web>>
  \/ Cut(r)

(* The callback that ends an import.                                       *)
Ending(r, more, ts) ==
  \/ Completed(r, more) /\ timers' = ts /\ upload' = None /\ UNCHANGED <<button, web>>
  \/ Cut(r)

-----------------------------------------------------------------------------
(* Switching on, and off.                                                  *)

(* user_init with ioInit, and user_start: the button works only if it was  *)
(* not held.                                                               *)
Boot ==
  LET r == Load(PoweredUp, flash) IN
  /\ ~On
  /\ \/ /\ Completed(r, {})
        /\ enabled' = ~pressed
        /\ UNCHANGED <<timers, upload, resetCnt, pressed, web>>
     \/ Cut(r)

(* The power fails, or tmrCb of cgiResetDevice restarts the device, or it  *)
(* does not survive what cgiWiFiScan reads for an entry that is not there. *)
SwitchedOff ==
  /\ \/ Does("power")
     \/ On /\ "restart" \in timers
     \/ On /\ ~inProgress /\ \E r \in Readers : pos[r] > 0 /\ Astray(pos[r])
  /\ PowerLost(d, 0)

(* cgiResetDevice.                                                         *)
ResetDevice ==
  Does("restart") /\ Handler(d, {}, timers \cup {"restart"})

-----------------------------------------------------------------------------
(* The WiFi and network pages.                                             *)

Notify(i, r) == IF i = "ap" THEN NotifyAp(r) ELSE NotifySta(r)

(* A field of the form for an interface, or a key of an imported file: not *)
(* there, refused, what it was, or new.  Given: a field with no refusals.  *)
SetField(r, i, v) ==
  IF v \in {"same", "bad", Current(r)[i]} THEN r ELSE Notify(i, Having(r, i, v))
Given(r, f, vs) == IF vs = {} THEN r ELSE Having(r, f, CHOOSE v \in vs : TRUE)
SetWifi(r, f) ==
  Given(SetField(SetField(r, "ap", f.ap), "sta", f.sta), "mode", f.mode)

Valid(f) == f.ap # "bad" /\ f.sta # "bad"

(* Mutant of Refuse: what was valid stays set.                             *)
RefuseRest(r) == r

(* The settings and wifi_change_flags as they were.                        *)
Refuse(r) ==
  [r EXCEPT !.conf.current = [@ EXCEPT !.mode = Current(d).mode,
                                       !.ap = Current(d).ap, !.sta = Current(d).sta],
            !.chg = d.chg]

(* cgiWiFiSetParams and cgiNetworkSetParams: stored at once, applied later.*)
WifiPage(page, f) ==
  LET r == SetWifi(d, f) IN
  IF Valid(f) THEN Handler(Store(r), {}, timers \cup {page})
              ELSE Handler(Refuse(r), {}, timers)

(* applyWifiSettingsLaterCb, applyNetSettingsLaterCb and                   *)
(* wifimgr_apply_settings_later_Cb.                                        *)
ApplyTimer(t) == On /\ t \in timers /\ Handler(ApplyWifi(d), {}, timers \ {t})

-----------------------------------------------------------------------------
(* The other pages.                                                        *)

(* cgiTermCfgSetParams: the settings of the UART are on this page too.     *)
TermPage(f) ==
  LET stored == ApplyTerm(Store(Having(d, "size", f.size))) IN
  IF f.size \in 1..MaxSize
  THEN Handler(IF f.uart THEN ApplySys(stored) ELSE stored, {}, timers)
  ELSE Handler(d, {}, timers)

(* cgiSystemCfgSetParams: GPIO2, or with the password a new password.      *)
SystemPage ==
  \/ \E p \in {"uart", "out"} : Handler(Store(ApplySys(Having(d, "pin2", p))), {}, timers)
  \/ \E pw \in Passwords \cup {DEFAULT_ADMIN_PW}, new \in Passwords :
       IF pw = d.conf.admin.pw
       THEN Handler(Store(ApplySys([d EXCEPT !.conf.admin.pw = new])), {}, timers)
       ELSE Handler(d, {}, timers)

(* cgiPersistWriteDefaults, cgiPersistRestoreDefaults and                  *)
(* cgiPersistRestoreHard.  An interface that is on is not told.            *)
WriteDefaults(pw) ==
  IF pw = d.conf.admin.pw THEN Handler(SetAsDefault(d), {}, timers)
                          ELSE Handler(d, {}, timers)
RestoreDefaults == Handler(RestoreDefault(d), {"behind"}, timers)
RestoreHard == Handler(LoadHardDefault(d), {"behind"}, timers)

-----------------------------------------------------------------------------
(* Importing a file.                                                       *)

(* iniCb: keys are set in the settings in use as they are read.            *)
ReadPart(r, p) == Given(SetWifi(r, p), "size", p.size)
Differs(r) ==
  (IF \E f \in {"mode", "ap", "sta"} : Current(r)[f] # Current(d)[f] THEN {"wifi"} ELSE {})
    \cup (IF Current(r).size # Current(d).size THEN {"term"} ELSE {})

(* Mutant of Reverted: the size of the screen is kept.                     *)
RevertedWifi(r, b) == [r EXCEPT !.conf.current = [b EXCEPT !.size = Current(r).size]]

Reverted(r, b) == [r EXCEPT !.conf.current = b]

(* The end of postRecvHdl, for the import u that has been read into r.     *)
ImportEnd(r, u) ==
  LET term == IF "term" \in u.any THEN ApplyTerm(r) ELSE r
  IN  IF u.ok /\ Current(r).size <= MaxSize
      THEN Ending(IF u.any = {} THEN term ELSE Store(term), {},
                  timers \cup (IF "wifi" \in u.any THEN {"import"} ELSE {}))
      ELSE Ending(Reverted(r, u.backup), IF u.met THEN {"reverted", "behind"} ELSE {}, timers)

(* cgiPersistImport, with the first piece; and all of a short file.        *)
ImportBegins(p) ==
  LET r == ReadPart(d, p)
      u == [backup |-> Current(d), ok |-> Valid(p), any |-> Differs(r), met |-> FALSE]
  IN  /\ Does("import") /\ upload = None
      /\ \/ d' = r /\ upload' = u /\ UNCHANGED <<user, flash, timers, notes, button, web>>
         \/ ImportEnd(r, u)

(* postRecvHdl: the second piece is the last.                              *)
ImportGoesOn(p) ==
  LET r == ReadPart(d, p) IN
  /\ On /\ upload # None
  /\ ImportEnd(r, [upload EXCEPT !.ok = @ /\ Valid(p), !.any = @ \cup Differs(r)])

(* The connection is closed: the backup is thrown away.                    *)
ImportAbandoned ==
  /\ Does("abandon") /\ upload # None
  /\ upload' = None
  /\ notes' = notes \cup {"half", "behind"}
  /\ UNCHANGED <<user, flash, d, timers, button, web>>

-----------------------------------------------------------------------------
(* The list of access points, and requests to other devices.               *)

(* The station is switched on for good, but not stored.                    *)
StationOn ==
  IF "sta" \in Current(d).mode THEN d
  ELSE ApplyWifi(Having(d, "mode", Current(d).mode \cup {"sta"}))

(* cgiWiFiScan.                                                            *)
ScanCall(r) ==
  /\ On /\ pos[r] # Idle
  /\ Piece(r, "sta" \in StationOn.radio.mode) \/ FirstCall(r)
  /\ Completed(StationOn, IF StationOn = d THEN {} ELSE {"scan"})
  /\ Meets
  /\ UNCHANGED <<timers, button, d2dvars>>

ScanStep ==
  /\ \/ Does("scan") /\ \E r \in Readers : Arrives(r) \/ Leaves(r)
     \/ Does("memory") /\ ScanDoneShort
  /\ UNCHANGED <<user, flash, d, timers, upload, button, notes, d2dvars>>

ScanEnded ==
  /\ On /\ ScanDone
  /\ UNCHANGED <<user, flash, d, timers, upload, button, notes, d2dvars>>

D2DStep ==
  /\ \/ Does("d2d") /\ \E n \in Nonces \cup {NoCallback} : Command(n)
     \/ On /\ \E n \in Nonces : HostReads(n)
  /\ UNCHANGED <<user, flash, d, timers, upload, button, notes, scanvars>>

D2DCallback ==
  /\ On /\ \E n \in underway : Callback(n)
  /\ UNCHANGED <<user, flash, d, timers, upload, button, notes, scanvars>>

-----------------------------------------------------------------------------
(* The button.                                                             *)

Press ==
  /\ "button" \in user.does
  /\ pressed' = ~pressed
  /\ UNCHANGED <<user, flash, d, timers, upload, resetCnt, enabled, notes, web>>

(* The indicator takes the pins from the UARTs, and gives them back.       *)
PinsToLed(r) == [r EXCEPT !.mux = [tx |-> "gpio", g2 |-> "gpio"]]
PinsToUart(r) ==
  [r EXCEPT !.mux = [tx |-> "uart",
                     g2 |-> IF Current(r).pin2 = "uart" THEN "uart" ELSE @.g2]]

(* Mutant of Rescue: the mode is stored for the next time.                 *)
RescueLater(r) == Store(Having(r, "mode", STATIONAP_MODE))

(* Access point and station on.                                            *)
Rescue(r) == Store(ApplyWifi(Having(r, "mode", STATIONAP_MODE)))

(* Mutant of Released: a short press leaves the pins to the indicator.     *)
ReleasedPins(n) ==
  IF n >= 12 THEN RestoreDefault(PinsToUart(d))
  ELSE IF n >= 2 THEN Rescue(d) ELSE PinsToUart(d)

(* Held for 6 seconds, for 1 second, or less.                              *)
Released(n) ==
  IF n >= 12 THEN RestoreDefault(PinsToUart(d))
  ELSE IF n >= 2 THEN Rescue(PinsToUart(d)) ELSE PinsToUart(d)

(* resetBtnTimerCb, while the button is held, and when it is not.          *)
Hold ==
  /\ On /\ enabled /\ pressed
  /\ resetCnt' = IF resetCnt < MaxHold THEN resetCnt + 1 ELSE resetCnt
  /\ Completed(IF resetCnt' = 2 THEN PinsToLed(d) ELSE d, {})
  /\ UNCHANGED <<timers, upload, enabled, pressed, web>>

Release ==
  /\ On /\ ~(enabled /\ pressed)
  /\ \E r \in {Released(resetCnt)} :
       \/ /\ resetCnt' = 0
          /\ Completed(r, IF resetCnt >= 12 THEN {"behind"} ELSE {})
          /\ Meets
          /\ UNCHANGED <<timers, enabled, pressed, web>>
       \/ Cut(r)

-----------------------------------------------------------------------------
Pages ==
  \/ \E page \in {"wifi", "network"}, f \in user.forms : Does("wifi") /\ WifiPage(page, f)
  \/ \E f \in TermForms : Does("term") /\ TermPage(f)
  \/ Does("system") /\ SystemPage
  \/ \E pw \in Passwords \cup {DEFAULT_ADMIN_PW} : Does("defaults") /\ WriteDefaults(pw)
  \/ Does("restore") /\ RestoreDefaults
  \/ Does("hard") /\ RestoreHard
  \/ ResetDevice

Next ==
  \/ Boot
  \/ SwitchedOff
  \/ Pages
  \/ \E t \in {"wifi", "network", "import"} : ApplyTimer(t)
  \/ \E p \in user.parts : ImportBegins(p) \/ ImportGoesOn(p)
  \/ ImportAbandoned
  \/ \E r \in Readers : ScanCall(r)
  \/ ScanStep
  \/ ScanEnded
  \/ D2DStep
  \/ D2DCallback
  \/ Press
  \/ Hold
  \/ Release

(* The button's timer repeats for ever, the web server calls a handler     *)
(* that has more to send until it is done, and the SDK and the HTTP client *)
(* call back.                                                              *)
Spec ==
  /\ Init /\ [][Next]_vars
  /\ WF_vars(resetCnt \in 2..11 /\ ~pressed /\ Release)
  /\ \A r \in Readers : WF_vars(ScanCall(r))
  /\ WF_vars(ScanEnded)
  /\ WF_vars(D2DCallback)

-----------------------------------------------------------------------------
(* Properties.                                                             *)

(* What is running is what is stored, whatever was refused, undone,        *)
(* migrated or repaired before.  The exceptions are noted: a write that    *)
(* failed, the station a scan has switched on, an import under way or      *)
(* abandoned, and one undone after something else was stored.              *)
InStep ==
  On /\ upload = None /\ notes \cap Apart = {} => flash = Image(d.conf)

(* Once no timer is left to apply them, the access point runs with the     *)
(* settings that are in use - even if they were changed while it was off,  *)
(* or the flags were cleared by something else that applied settings.      *)
(* After defaults were restored it may not, nothing tells it; and the      *)
(* station does not, as wifimgr_notify_sta tells the access point.         *)
ApFollows ==
  On /\ upload = None /\ "behind" \notin notes /\ timers \subseteq {"restart"} =>
    /\ ("ap" \in d.radio.mode) = ("ap" \in Current(d).mode)
    /\ "ap" \in d.radio.mode => d.radio.ap = Current(d).ap

(* However often power was lost, and in the middle of what: a device that  *)
(* runs has settings, a screen that fits and a password.  (Unless its      *)
(* defaults are not whole and were restored.)                              *)
Usable ==
  On /\ Whole(d.conf.defaults) =>
    Whole(Current(d)) /\ d.live \in 1..MaxSize /\ d.conf.admin.version = 1

(* What it takes, of a user who imports files: that the flash is whole at  *)
(* first and no file makes the screen empty; of any other, that settings   *)
(* are no worse than the defaults.                                         *)
SizesFit == \A u \in Users : \A p \in u.parts : 0 \notin p.size
FlashesFit ==
  \A u \in Users :
    LET b == u.flash.block IN
    IF "import" \in u.does
    THEN u.flash # Unreadable /\ Whole(b.defaults) /\ Whole(b.current)
    ELSE u.flash # Unreadable /\ Whole(b.defaults) => Whole(b.current)

(* A request for the list never reads an entry that is not there, even if  *)
(* a scan has replaced the list by a shorter one, or by none, between two  *)
(* of its pieces - unless memory for an entry ran out.  And what it is     *)
(* sent is whole: no other answer begins in it and no comma is left over,  *)
(* unless another request's scan has overtaken it (cgiWiFiScan,            *)
(* wifiScanDoneCb).                                                        *)
AnswersSound ==
  \A r \in Readers :
    /\ "missing" \in flaws[r] => "short" \in trouble
    /\ flaws[r] \cap {"comma", "head"} # {} => r \in overtaken

(* Every request is answered: of the list of access points, and of the     *)
(* host for another device.  And the flags that keep other requests        *)
(* waiting come down (wifiScanDoneCb, requestCb and requestNoopCb) -       *)
(* unless there was no memory for the list or the SDK refused to scan, and *)
(* unless the HTTP client refused a request.                               *)
RequestsEnd ==
  /\ \A r \in Readers : pos[r] # Idle ~> pos[r] = Idle
  /\ \A n \in Nonces : n \in owed ~> n \in answers \/ ~On \/ refused
  /\ inProgress ~> ~inProgress \/ trouble \cap {"array", "refused"} # {}
  /\ request_pending ~> ~request_pending \/ refused

(* A button held for one second, and let go, brings up the access point,   *)
(* whatever the settings were, and gives the terminal its pin back, which  *)
(* the indicator has had (resetBtnTimerCb).                                *)
Rescued ==
  (On /\ resetCnt \in 2..11 /\ ~pressed)
    ~> (~On \/ pressed \/ ("ap" \in d.radio.mode /\ d.mux.tx = "uart"))
=============================================================================
