------------------------------ MODULE Settings ------------------------------
(***************************************************************************)
(* The stored configuration of the device (user/persist.c) and how it is   *)
(* applied to the WiFi (user/wifimgr.c), the pins (user/syscfg.c) and the  *)
(* terminal (user/screen.c).                                               *)
(*                                                                         *)
(* A device d is a record:                                                 *)
(*   conf    the block persist: defaults, current and admin                *)
(*   radio   the WiFi as it runs: its mode, and the settings each          *)
(*           interface was last configured with                            *)
(*   chg     wifi_change_flags                                             *)
(*   live    the size the terminal runs with                               *)
(*   mux     whether the pins GPIO1 and GPIO2 belong to their UARTs        *)
(*   writes  what the handler under way has written to the flash, in order *)
(*                                                                         *)
(* All the settings of an interface are one value, and so are the fields   *)
(* of the terminal that decide its size.  Each operation is a function of  *)
(* d that does all that the C function does, in its order.                 *)
(***************************************************************************)
EXTENDS Integers, Sequences

CONSTANTS
  Values,      \* values of the settings of a WiFi interface
  MaxSize,     \* MAX_SCREEN_SIZE
  HardSize,    \* SCR_DEF_WIDTH * SCR_DEF_HEIGHT
  Passwords    \* besides DEFAULT_ADMIN_PW

Hard == "hard"       \* values of the built-in defaults
Zero == "zero"       \* and of memory that was cleared
DEFAULT_ADMIN_PW == "adminpw"

ASSUME SettingsAssumption ==
  /\ MaxSize \in Nat /\ HardSize \in 1..MaxSize
  /\ {Hard, Zero} \cap Values = {}
  /\ {DEFAULT_ADMIN_PW, Zero} \cap Passwords = {}

Interfaces == {"ap", "sta"}
STATIONAP_MODE == Interfaces
NULL_MODE == {}

(* PersistBundle, AdminConfigBlock and PersistBlock.                       *)
Bundles ==
  [mode : SUBSET Interfaces, ap : Values \cup {Hard, Zero},
   sta : Values \cup {Hard, Zero}, pin2 : {"uart", "out"},
   sysOld : BOOLEAN, size : Nat, termOld : BOOLEAN]
Admins == [version : {0, 1}, pw : Passwords \cup {DEFAULT_ADMIN_PW, Zero}]
Blocks == [defaults : Bundles, current : Bundles, admin : Admins]

ZeroBundle ==
  [mode |-> NULL_MODE, ap |-> Zero, sta |-> Zero, pin2 |-> "uart",
   sysOld |-> TRUE, size |-> 0, termOld |-> TRUE]
ZeroAdmin == [version |-> 0, pw |-> Zero]
ZeroBlock == [defaults |-> ZeroBundle, current |-> ZeroBundle, admin |-> ZeroAdmin]

NoFlags == [ap |-> FALSE, sta |-> FALSE]

(* A bundle a device can work with.                                        *)
Whole(b) == b.size > 0 /\ Zero \notin {b.ap, b.sta}

-----------------------------------------------------------------------------
(* Reading and changing one part of a device.                              *)

Current(d) == d.conf.current
Having(d, f, v) == [d EXCEPT !.conf.current[f] = v]

(* persist_store, with its checksums: the sector is replaced as a whole.   *)
Store(d) == [d EXCEPT !.writes = Append(@, d.conf)]

-----------------------------------------------------------------------------
(* The WiFi.                                                               *)

(* wifimgr_notify_ap and wifimgr_notify_sta.                               *)
NotifyAp(d) == [d EXCEPT !.chg.ap = TRUE]
NotifySta(d) == [d EXCEPT !.chg.ap = TRUE]

(* configure_ap and configure_station.                                     *)
Configure(d, i) == [d EXCEPT !.radio[i] = Current(d)[i]]

(* Mutant of NewlyOn: an interface switched on is trusted to have its      *)
(* settings.                                                               *)
NewlyOnKept(d, i) == FALSE

NewlyOn(d, i) == i \in Current(d).mode /\ i \notin d.radio.mode

(* wifimgr_apply_settings.                                                 *)
ApplyWifi(d) ==
  LET due(i) == i \in Current(d).mode /\ (d.chg[i] \/ NewlyOn(d, i))
      cycled == [d EXCEPT !.radio.mode = Current(d).mode]
      sta == IF due("sta") THEN Configure(cycled, "sta") ELSE cycled
      ap == IF due("ap") THEN Configure(sta, "ap") ELSE sta
  IN  [ap EXCEPT !.chg = NoFlags]

-----------------------------------------------------------------------------
(* The system and the terminal.                                            *)

(* sysconf_apply_settings, with serialInit and userGpioInit: an old block  *)
(* is brought up to date and stored.                                       *)
ApplySys(d) ==
  LET new == IF Current(d).sysOld
             THEN Store(Having(Having(d, "pin2", "uart"), "sysOld", FALSE))
             ELSE d
  IN  [new EXCEPT !.mux.g2 = IF Current(new).pin2 = "uart" THEN "uart" ELSE "gpio"]

(* terminal_restore_defaults.                                              *)
TermDefaults(d) == Having(Having(d, "size", HardSize), "termOld", FALSE)

(* Mutant of SizeChecked: a size that does not fit is used.                *)
SizeUnchecked(d) == d

(* A size that does not fit is replaced by the defaults.                   *)
SizeChecked(d) == IF Current(d).size > MaxSize THEN TermDefaults(d) ELSE d

(* terminal_apply_settings_noclear: migrated, checked, copied to the live  *)
(* terminal, and stored if that changed anything.                          *)
ApplyTerm(d) ==
  LET new == SizeChecked(Having(d, "termOld", FALSE))
      run == [new EXCEPT !.live = Current(new).size]
  IN  IF new.conf # d.conf THEN Store(run) ELSE run

(* apply_live_settings.                                                    *)
ApplyLive(d) == ApplyTerm(ApplyWifi(ApplySys(d)))

-----------------------------------------------------------------------------
(* The block.                                                              *)

(* restore_live_settings_to_hard_defaults: sysconf_restore_defaults,       *)
(* wifimgr_restore_defaults and terminal_restore_defaults.                 *)
HardDefaults(d) ==
  TermDefaults([d EXCEPT !.conf.current =
    [@ EXCEPT !.mode = STATIONAP_MODE, !.ap = Hard, !.sta = Hard,
              !.pin2 = "uart", !.sysOld = FALSE]])

(* persist_load_hard_default.                                              *)
LoadHardDefault(d) == ApplyLive(Store(HardDefaults(d)))

(* Mutant of RestoreDefault: only the running settings are changed.        *)
RestoreUnstored(d) == ApplyLive([d EXCEPT !.conf.current = d.conf.defaults])

(* persist_restore_default.                                                *)
RestoreDefault(d) == Store(ApplyLive([d EXCEPT !.conf.current = d.conf.defaults]))

(* persist_set_as_default.                                                 *)
SetAsDefault(d) == Store([d EXCEPT !.conf.defaults = Current(d)])

(* set_admin_block_defaults.                                               *)
AdminDefaults(d) ==
  [d EXCEPT !.conf.admin = [version |-> 1, pw |-> DEFAULT_ADMIN_PW]]

(* The branch of persist_load for a block that cannot be used.             *)
HardReset(d) ==
  LET hard == LoadHardDefault([d EXCEPT !.conf = ZeroBlock])
  IN  Store(AdminDefaults([hard EXCEPT !.conf.defaults = Current(hard)]))

(* Mutant of Repaired: an admin block without a version stays.             *)
RepairedNever(d) == d

(* The admin block of a device that had none yet.                          *)
Repaired(d) == IF d.conf.admin.version = 0 THEN Store(AdminDefaults(d)) ELSE d

(* A block in the flash, or one that cannot be read or fails its checksum. *)
Unreadable == [readable |-> FALSE]
Image(block) == [readable |-> TRUE, block |-> block]

(* persist_load.                                                           *)
Load(d, flash) ==
  IF flash.readable
  THEN ApplyLive(Repaired([d EXCEPT !.conf = flash.block]))
  ELSE HardReset(d)

(* user_init: the radio is off and the pins belong to the UARTs.           *)
PoweredUp ==
  [conf |-> ZeroBlock, chg |-> NoFlags, live |-> 0, writes |-> <<>>,
   radio |-> [mode |-> NULL_MODE, ap |-> Zero, sta |-> Zero],
   mux |-> [tx |-> "uart", g2 |-> "uart"]]
=============================================================================
