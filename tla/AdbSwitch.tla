----------------------------- MODULE AdbSwitch -----------------------------
(***************************************************************************)
(* Network adb (internal/esphome/server.go, setADBLocked to adbObserved and *)
(* adbBusy; internal/device/adb.go): a worker sets the mode the last ask    *)
(* named, waits for adbd to settle, reads what the device does now and      *)
(* takes the firewall rule away if that is off.  The sensor poll meanwhile  *)
(* holds the rule open for an adbd that listens.                            *)
(*                                                                          *)
(* SetADBMode, HoldADBOpen and DenyADB exclude each other by adbMu;         *)
(* CurrentADBMode takes no lock.  adbd is external: ctl.restart makes it    *)
(* take up the port property some time later, after the settle even.        *)
(***************************************************************************)
EXTENDS Naturals

CONSTANTS AdbNone,      \* nothing asked or settled yet
          AdbAsks,      \* bound: select commands of a behaviour
          AdbFaults     \* bound: calls that fail, modes that cannot be read

AdbModes == {"Off", "Insecure", "Secure"}

ASSUME AdbAssumption ==
    AdbNone \notin AdbModes \cup {"unknown"} /\ {AdbAsks, AdbFaults} \subseteq Nat

VARIABLES adbPort,        \* service.adb.tcp.port names the port
          adbUp,          \* adbd listens on it
          adbRestart,     \* adbd is restarting
          adbSecure,      \* ro.adb.secure is 1
          adbRule,        \* the firewall accepts the port
          adbPending,     \* s.adbPending
          adbHasPending,  \* s.adbHasPending
          adbWorking,     \* s.adbWorking
          adbSettled,     \* s.adbSettled
          adbLive,        \* s.adbLive
          adbAt,          \* where adbWorker is
          adbWant,        \* the want it took
          adbTarget,      \* the mode SetADBMode is setting
          adbErr,         \* the first SetADBMode failed
          adbSeen,        \* setADBMode's live, or "unknown"
          adbAsk,         \* history: the last ask
          adbFaulty,      \* history: a call or a read failed since then
          adbLeft         \* budgets: asks and faults left

adbDevice == <<adbPort, adbUp, adbRestart, adbSecure, adbRule>>
adbWorker == <<adbAt, adbWant, adbTarget, adbErr, adbSeen>>
adbServer == <<adbPending, adbHasPending, adbWorking, adbSettled, adbLive>>
adbVars == <<adbDevice, adbWorker, adbServer, adbAsk, adbFaulty, adbLeft>>

AdbSetting == {"key", "port", "restart", "allow", "deny", "clear"}

AdbTypeOK ==
    /\ {adbPort, adbUp, adbRestart, adbSecure, adbRule} \subseteq BOOLEAN
    /\ {adbHasPending, adbWorking, adbSettled, adbErr, adbFaulty} \subseteq BOOLEAN
    /\ {adbPending, adbLive, adbWant, adbTarget, adbAsk} \subseteq AdbModes \cup {AdbNone}
    /\ adbSeen \in AdbModes \cup {AdbNone, "unknown"}
    /\ adbAt \in AdbSetting \cup {"idle", "take", "read", "again", "shut", "record"}
    /\ adbLeft \in [asks : 0 .. AdbAsks, faults : 0 .. AdbFaults]

(* The daemon starts with adb off, or open and insecure.                    *)
AdbInit ==
    /\ adbPort \in BOOLEAN
    /\ adbUp = adbPort
    /\ adbRule = adbPort
    /\ adbRestart = FALSE
    /\ adbSecure = FALSE
    /\ adbPending = AdbNone
    /\ adbLive = AdbNone
    /\ adbWant = AdbNone
    /\ adbTarget = AdbNone
    /\ adbAsk = AdbNone
    /\ adbSeen = AdbNone
    /\ adbHasPending = FALSE
    /\ adbWorking = FALSE
    /\ adbSettled = FALSE
    /\ adbErr = FALSE
    /\ adbFaulty = FALSE
    /\ adbAt = "idle"
    /\ adbLeft = [asks |-> AdbAsks, faults |-> AdbFaults]

----------------------------------------------------------------------------
AdbMode == IF ~(adbUp /\ adbRule) THEN "Off"
           ELSE IF adbSecure THEN "Secure" ELSE "Insecure"

(* adbMu is held by the SetADBMode under way.                               *)
AdbLocked == adbAt \in AdbSetting

AdbBusy == adbWorking \/ adbHasPending

AdbFault ==
    /\ adbLeft.faults > 0
    /\ adbLeft' = [adbLeft EXCEPT !.faults = @ - 1]
    /\ adbFaulty' = TRUE

AdbWell == UNCHANGED <<adbLeft, adbFaulty>>

AdbRepeats(want) ==
    IF AdbBusy THEN adbPending = want ELSE adbSettled /\ adbLive = want

SetADBLocked(want) ==
    /\ adbLeft.asks > 0
    /\ adbLeft' = [adbLeft EXCEPT !.asks = @ - 1]
    /\ adbAsk' = want
    /\ IF AdbRepeats(want)
       THEN UNCHANGED <<adbPending, adbHasPending, adbWorking, adbAt, adbFaulty>>
       ELSE /\ adbPending' = want
            /\ adbHasPending' = TRUE
            /\ adbWorking' = TRUE
            /\ adbAt' = IF adbWorking THEN adbAt ELSE "take"
            /\ adbFaulty' = FALSE
    /\ UNCHANGED <<adbDevice, adbSettled, adbLive, adbWant, adbTarget, adbErr, adbSeen>>

SetStart(mode) == IF mode = "Off" THEN "port" ELSE "key"

AdbTake ==
    /\ adbAt = "take"
    /\ IF adbHasPending
       THEN /\ adbWant' = adbPending
            /\ adbTarget' = adbPending
            /\ adbHasPending' = FALSE
            /\ adbAt' = SetStart(adbPending)
            /\ adbErr' = FALSE
            /\ UNCHANGED adbWorking
       ELSE /\ adbWorking' = FALSE
            /\ adbAt' = "idle"
            /\ adbWant' = AdbNone
            /\ adbTarget' = AdbNone
            /\ adbErr' = FALSE
            /\ UNCHANGED adbHasPending
    /\ adbSeen' = AdbNone
    /\ UNCHANGED <<adbDevice, adbPending, adbSettled, adbLive, adbAsk, adbFaulty, adbLeft>>

(* The calls of SetADBMode in their order.  The last of a mode, and one     *)
(* that fails, return to setADBMode, which sleeps and reads.                *)
AfterCall(at) ==
    CASE at = "key" -> "port"
      [] at = "port" -> "restart"
      [] at = "restart" -> IF adbTarget = "Off" THEN "deny" ELSE "allow"
      [] at = "deny" -> "clear"
      [] OTHER -> "read"

SetCall ==
    /\ AdbLocked
    /\ \/ /\ adbAt' = AfterCall(adbAt)
          /\ adbSecure' = CASE adbAt = "key" -> adbTarget = "Secure"
                            [] adbAt = "clear" -> FALSE
                            [] OTHER -> adbSecure
          /\ adbPort' = IF adbAt = "port" THEN adbTarget # "Off" ELSE adbPort
          /\ adbRestart' = (adbRestart \/ adbAt = "restart")
          /\ adbRule' = CASE adbAt = "allow" -> TRUE
                          [] adbAt = "deny" -> FALSE
                          [] OTHER -> adbRule
          /\ UNCHANGED adbErr
          /\ AdbWell
       \/ /\ adbAt' = "read"
          /\ adbErr' = (adbErr \/ adbTarget = adbWant)
          /\ AdbFault
          /\ UNCHANGED <<adbPort, adbRestart, adbSecure, adbRule>>
    /\ UNCHANGED <<adbUp, adbServer, adbWant, adbTarget, adbSeen, adbAsk>>

(* adbd takes up the property.                                              *)
AdbdRestarts ==
    /\ adbRestart
    /\ adbRestart' = FALSE
    /\ adbUp' = adbPort
    /\ UNCHANGED <<adbPort, adbSecure, adbRule, adbWorker, adbServer, adbAsk,
                   adbFaulty, adbLeft>>

(* Secure was asked for and the device is open without a key: close it.     *)
FallsBack(seen) == adbTarget = "Secure" /\ seen = "Insecure"

(* A settle that ends before adbd has restarted counts as a fault.          *)
AdbRead ==
    /\ adbAt = "read"
    /\ \/ adbSeen' = AdbMode /\ IF adbRestart THEN AdbFault ELSE AdbWell
       \/ adbSeen' = "unknown" /\ AdbFault
    /\ adbAt' = CASE FallsBack(adbSeen') -> "port"
                  [] adbSeen' = "Off" -> "shut"
                  [] OTHER -> "record"
    /\ adbTarget' = IF FallsBack(adbSeen') THEN "Off" ELSE adbTarget
    /\ UNCHANGED <<adbDevice, adbServer, adbWant, adbErr, adbAsk>>

\* Slip: off is taken for shut.
AdbLeaveOpen ==
    /\ adbAt = "shut"
    /\ adbAt' = "record"
    /\ AdbWell
    /\ UNCHANGED <<adbDevice, adbServer, adbWant, adbTarget, adbErr, adbSeen, adbAsk>>

(* DenyADB: the rule the poll may have put back.                            *)
AdbShut ==
    /\ adbAt = "shut"
    /\ adbAt' = "record"
    /\ \/ adbRule' = FALSE /\ AdbWell
       \/ UNCHANGED adbRule /\ AdbFault
    /\ UNCHANGED <<adbPort, adbUp, adbRestart, adbSecure, adbServer, adbWant,
                   adbTarget, adbErr, adbSeen, adbAsk>>

AdbRecord ==
    /\ adbAt = "record"
    /\ adbSettled' = (~adbErr /\ adbSeen = adbWant)
    /\ adbLive' = IF adbSettled' THEN adbSeen ELSE adbLive
    /\ adbAt' = "take"
    /\ UNCHANGED <<adbDevice, adbPending, adbHasPending, adbWorking, adbWant,
                   adbTarget, adbErr, adbSeen, adbAsk, adbFaulty, adbLeft>>

----------------------------------------------------------------------------
(* What the sensor poll calls.                                              *)
HoldADBOpen ==
    /\ ~AdbLocked
    /\ adbRule' = (adbRule \/ adbUp)
    /\ UNCHANGED <<adbPort, adbUp, adbRestart, adbSecure, adbWorker, adbServer,
                   adbAsk, adbFaulty, adbLeft>>

AdbObserved(mode) ==
    /\ adbSettled' = (adbSettled /\ adbLive = mode)
    /\ UNCHANGED <<adbDevice, adbWorker, adbPending, adbHasPending, adbWorking,
                   adbLive, adbAsk, adbFaulty, adbLeft>>

(* The rule is dropped by netd (a chain it rebuilds).                       *)
AdbRuleLost ==
    /\ adbRule
    /\ AdbFault
    /\ adbRule' = FALSE
    /\ UNCHANGED <<adbPort, adbUp, adbRestart, adbSecure, adbWorker, adbServer, adbAsk>>

(* The switch on its own: asks, adbd and the poll come at any time.         *)
AdbNext ==
    \/ \E want \in AdbModes : SetADBLocked(want)
    \/ AdbTake \/ SetCall \/ AdbRead \/ AdbShut \/ AdbRecord
    \/ AdbdRestarts \/ AdbRuleLost \/ HoldADBOpen
    \/ \E mode \in AdbModes : AdbObserved(mode)

AdbSpec == AdbInit /\ [][AdbNext]_adbVars

----------------------------------------------------------------------------
(* With no fault in it, the last ask is the mode network adb ends in, and   *)
(* one for off leaves no rule behind, although the poll may have decided to *)
(* hold the port open before the ask came and done so while adbd had not    *)
(* stopped yet.  One single fault leaves an ask for a key not open without. *)
AdbEndsAsAsked ==
    (adbAsk # AdbNone /\ ~adbWorking) =>
        /\ ~adbFaulty => AdbMode = adbAsk /\ (adbAsk = "Off" => ~adbRule)
        /\ adbAsk = "Secure" /\ AdbFaults < 2 => AdbMode # "Insecure"
=============================================================================
