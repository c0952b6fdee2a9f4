------------------------------ MODULE WifiScan ------------------------------
(***************************************************************************)
(* The list of access points (user/cgi_wifi.c): cgiWiFiScan answers a      *)
(* reader piece by piece, one call for each access point, and when it has  *)
(* answered starts the scan whose result is the next answer.  The scan     *)
(* itself is done by the SDK, which calls wifiScanDoneCb.  Two variables   *)
(* only record: flaws and overtaken, of the latest answer to each reader.  *)
(***************************************************************************)
EXTENDS Integers

CONSTANTS
  Readers,    \* requests for the list that are answered at a time
  MaxAps      \* bound: access points in range

ASSUME ScanAssumption == MaxAps \in Nat

VARIABLES
  inProgress,  \* cgiWifiAps.scanInProgress
  entries,     \* NULL, or how many entries cgiWifiAps.apData has
  noAps,       \* cgiWifiAps.noAps
  air,         \* is the SDK scanning, and will it call back?
  pos,         \* connData->cgiData of each request, or Idle
  flaws,       \* what is wrong with each answer
  overtaken,   \* the answers during which another one has started a scan
  trouble      \* what has gone wrong since the device was switched on

scanvars == <<inProgress, entries, noAps, air, pos, flaws, overtaken, trouble>>

NULL == -1
Idle == -1

ScanInit ==
  /\ inProgress = FALSE /\ entries = NULL /\ noAps = 0 /\ air = FALSE
  /\ pos = [r \in Readers |-> Idle]
  /\ flaws = [r \in Readers |-> {}]
  /\ overtaken = {} /\ trouble = {}

ScanReset ==
  /\ inProgress' = FALSE /\ entries' = NULL /\ noAps' = 0 /\ air' = FALSE
  /\ pos' = [r \in Readers |-> Idle]
  /\ flaws' = [r \in Readers |-> {}]
  /\ overtaken' = {} /\ trouble' = {}

(* A reader's latest answer is of no interest any more.                    *)
Forgotten(r) ==
  /\ flaws' = [flaws EXCEPT ![r] = {}]
  /\ overtaken' = overtaken \ {r}

(* A request arrives; the first call of cgiWiFiScan follows.               *)
Arrives(r) ==
  /\ pos[r] = Idle
  /\ pos' = [pos EXCEPT ![r] = 0]
  /\ Forgotten(r)
  /\ UNCHANGED <<inProgress, entries, noAps, air, trouble>>

(* The connection is closed: connData->conn is NULL.                       *)
Leaves(r) ==
  /\ pos[r] # Idle
  /\ pos' = [pos EXCEPT ![r] = Idle]
  /\ Forgotten(r)
  /\ UNCHANGED <<inProgress, entries, noAps, air, trouble>>

(* wifiStartScan, at the end of the answer to r.  The SDK scans only while *)
(* the station is enabled; what it answers is not looked at.               *)
StartScan(r, station) ==
  IF inProgress THEN UNCHANGED <<inProgress, air, overtaken, trouble>>
  ELSE /\ inProgress' = TRUE
       /\ air' = station
       /\ overtaken' = overtaken \cup {q \in Readers \ {r} : pos[q] > 0}
       /\ trouble' = IF station THEN trouble ELSE trouble \cup {"refused"}

(* Is there an entry for place p, as far as the code can tell?             *)
Listed(p) == p - 1 < noAps

(* The entry that is read was never stored, or its list is no more.        *)
Astray(p) == Listed(p) /\ p - 1 >= entries

(* Mutant of NextPlace: a request stays where it is.                       *)
StayingPlace(p) == p

NextPlace(p) == p + 1

(* What a call at place p does wrong: it reads what is not there; it       *)
(* closes a list that ends with the comma of the entry before.             *)
PieceFlaws(p) ==
  {f \in {"missing", "comma"} :
     IF f = "missing" THEN Astray(p) ELSE p > 1 /\ ~Listed(p)}

(* A later call: the next entry, and at the end a new scan.                *)
Piece(r, station) ==
  /\ pos[r] > 0 /\ ~inProgress
  /\ IF NextPlace(pos[r]) - 1 >= noAps
     THEN pos' = [pos EXCEPT ![r] = Idle] /\ StartScan(r, station)
     ELSE /\ pos' = [pos EXCEPT ![r] = NextPlace(@)]
          /\ UNCHANGED <<inProgress, air, overtaken, trouble>>
  /\ flaws' = [flaws EXCEPT ![r] = @ \cup PieceFlaws(pos[r])]
  /\ UNCHANGED <<entries, noAps>>

(* The first call, and any call during a scan: in the middle of an answer  *)
(* it sends a second one, with its head, inside the first.                 *)
FirstCall(r) ==
  /\ pos[r] = 0 \/ (pos[r] > 0 /\ inProgress)
  /\ IF inProgress
     THEN pos' = [pos EXCEPT ![r] = Idle] /\ UNCHANGED noAps
     ELSE /\ pos' = [pos EXCEPT ![r] = 1]
          /\ noAps' = IF entries = NULL THEN 0 ELSE noAps
  /\ flaws' = [flaws EXCEPT ![r] = @ \cup (IF pos[r] > 0 THEN {"head"} ELSE {})]
  /\ UNCHANGED <<inProgress, entries, air, overtaken, trouble>>

(* Mutant of Finished: a scan that failed is not over.                     *)
FinishedWell(ok) == inProgress' = ~ok

Finished(ok) == inProgress' = FALSE

(* Mutant of NoArray: the scan is over, as it is when it has failed.       *)
NoArrayOver == entries' = NULL /\ inProgress' = FALSE /\ UNCHANGED noAps

(* The old list is freed and malloc gives none for the new: the callback   *)
(* leaves without lowering the flag.                                       *)
NoArray == entries' = NULL /\ UNCHANGED <<inProgress, noAps>>

(* wifiScanDoneCb: the old list is freed, n entries replace it.  If none   *)
(* are in range the size asked for is 0, and malloc may answer NULL.       *)
ScanDone ==
  /\ air
  /\ air' = FALSE
  /\ \/ Finished(FALSE) /\ UNCHANGED <<entries, noAps, trouble>>
     \/ /\ \E n \in 0..MaxAps : Finished(TRUE) /\ entries' = n /\ noAps' = n
        /\ UNCHANGED trouble
     \/ NoArray /\ trouble' = trouble \cup {"array"}
  /\ UNCHANGED <<pos, flaws, overtaken>>

(* wifiScanDoneCb, when there is no memory for the array, or for one of    *)
(* the entries.                                                            *)
ScanDoneShort ==
  /\ air
  /\ air' = FALSE
  /\ \/ NoArray /\ trouble' = trouble \cup {"array"}
     \/ /\ \E n \in 1..MaxAps : \E k \in 0..(n - 1) :
             inProgress' = FALSE /\ entries' = k /\ noAps' = n
        /\ trouble' = trouble \cup {"short"}
  /\ UNCHANGED <<pos, flaws, overtaken>>
=============================================================================
