----------------------------- MODULE Signalling -----------------------------
(***************************************************************************)
(* The status of one GB28181 camera: handleRegister, handleMessage and     *)
(* checkKeepalive of internal/service/gb28181.go, and checkCameraStatus of *)
(* internal/service/monitor.go, which writes the same column.  Every SIP   *)
(* datagram has a goroutine of its own; each reads or writes the session   *)
(* map under mu and the row without it.  Time is counted in units of which *)
(* Timeout make the three minutes of checkKeepalive.                       *)
(***************************************************************************)
EXTENDS Naturals

CONSTANTS
    Timeout,       \* age past which a session or a heartbeat is too old
    MaxRestarts    \* bound on restarts of the server

ASSUME SignallingBounds == Timeout \in Nat \ {0} /\ MaxRestarts \in Nat

VARIABLES
    up,            \* the device is switched on; it does not come back
    session,       \* GB28181Service.devices: the device has a session
    age,           \* how old its KeepaliveAt is
    status,        \* Camera.Status
    sync,          \* how old Camera.LastTimeSync is
    registering,   \* a handleRegister between the session and the row
    beating,       \* a handleMessage (Keepalive) between the session and the row
    checking,      \* checkKeepalive: idle, between its parts, about to write
    monitor,       \* checkCameraStatus: idle, or the status it has loaded
    restarts

sigVars == <<up, session, age, status, sync, registering, beating, checking, monitor, restarts>>
row  == <<status, sync>>
conn == <<session, age>>
jobs == <<registering, beating>>

Never    == Timeout + 2    \* LastTimeSync is NULL
Ages     == 0..(Timeout + 1)
Old(a)   == a = Timeout + 1
Older(a) == IF a < Timeout + 1 THEN a + 1 ELSE a

SigTypeOK ==
    /\ up \in BOOLEAN
    /\ session \in BOOLEAN /\ age \in Ages
    /\ status \in {"online", "offline"} /\ sync \in Ages \cup {Never}
    /\ registering \in BOOLEAN /\ beating \in BOOLEAN
    /\ checking \in {"idle", "scan", "mark"}
    /\ monitor \in {"idle", "online", "offline"}
    /\ restarts \in 0..MaxRestarts

SigInit ==
    /\ up = TRUE
    /\ session = FALSE /\ age = 0
    /\ status = "offline" /\ sync \in {Never, Timeout + 1}
    /\ registering = FALSE /\ beating = FALSE
    /\ checking = "idle" /\ monitor = "idle"
    /\ restarts = 0

-----------------------------------------------------------------------------
(* The device's datagrams                                                  *)

\* A REGISTER that passes the password makes the session anew, whatever its
\* Expires says; one that does not is answered 401 and changes nothing.
Register ==
    /\ up /\ ~registering
    /\ session' = TRUE /\ age' = 0
    /\ registering' = TRUE
    /\ UNCHANGED <<up, row, beating, checking, monitor, restarts>>

\* The row gets the address and the status, but no LastTimeSync.
RegisterWrites ==
    /\ registering
    /\ status' = "online"
    /\ registering' = FALSE
    /\ UNCHANGED <<up, conn, sync, beating, checking, monitor, restarts>>

\* Any MESSAGE refreshes the session or makes one from the sender's address.
\* Those that are no Keepalive end here.
Message ==
    /\ up /\ ~beating
    /\ session' = TRUE /\ age' = 0
    /\ beating' \in BOOLEAN
    /\ UNCHANGED <<up, row, registering, checking, monitor, restarts>>

KeepaliveWrites ==
    /\ beating
    /\ status' = "online" /\ sync' = 0
    /\ beating' = FALSE
    /\ UNCHANGED <<up, conn, registering, checking, monitor, restarts>>

-----------------------------------------------------------------------------
(* checkKeepalive                                                          *)

\* Mutant of CheckSessions: the row is marked and the session kept.
CheckSessionsKeep ==
    /\ checking = "idle"
    /\ status' = IF session /\ Old(age) THEN "offline" ELSE status
    /\ checking' = "scan"
    /\ UNCHANGED <<up, conn, sync, jobs, monitor, restarts>>

\* Under mu: a session that is too old is dropped and its camera marked.
CheckSessions ==
    /\ checking = "idle"
    /\ session' = (session /\ ~Old(age))
    /\ status' = IF session /\ Old(age) THEN "offline" ELSE status
    /\ checking' = "scan"
    /\ UNCHANGED <<up, age, sync, jobs, monitor, restarts>>

\* The fallback reads the rows that say online and compares their heartbeat;
\* a row that never had one is passed over.
CheckRows ==
    /\ checking = "scan"
    /\ checking' = IF status = "online" /\ Old(sync) THEN "mark" ELSE "idle"
    /\ UNCHANGED <<up, conn, row, jobs, monitor, restarts>>

CheckMarks ==
    /\ checking = "mark"
    /\ status' = "offline"
    /\ checking' = "idle"
    /\ UNCHANGED <<up, conn, sync, jobs, monitor, restarts>>

-----------------------------------------------------------------------------
(* checkCameraStatus                                                       *)

MonitorLoads ==
    /\ monitor = "idle"
    /\ monitor' = status
    /\ UNCHANGED <<up, conn, row, jobs, checking, restarts>>

\* The probe connects to the registered port or to port 80 by TCP: a device
\* that is on may refuse both.
Probe == IF up THEN {"online", "offline"} ELSE {"offline"}

\* Mutant of MonitorProbes: only cameras that come online are written.
MonitorRaises ==
    /\ monitor # "idle"
    /\ \E probed \in Probe : status' = IF probed = "online" THEN probed ELSE status
    /\ monitor' = "idle"
    /\ UNCHANGED <<up, conn, sync, jobs, checking, restarts>>

\* The result is compared with the status loaded before the probe, not with
\* the row.
MonitorProbes ==
    /\ monitor # "idle"
    /\ \E probed \in Probe : status' = IF probed # monitor THEN probed ELSE status
    /\ monitor' = "idle"
    /\ UNCHANGED <<up, conn, sync, jobs, checking, restarts>>

-----------------------------------------------------------------------------
Tick ==
    /\ age' = Older(age)
    /\ sync' = IF sync = Never THEN Never ELSE Older(sync)
    /\ UNCHANGED <<up, session, status, jobs, checking, monitor, restarts>>

SwitchOff ==
    /\ up /\ up' = FALSE
    /\ UNCHANGED <<conn, row, jobs, checking, monitor, restarts>>

\* The server restarts: sessions and goroutines are gone, the row is not.
Restart ==
    /\ restarts < MaxRestarts /\ restarts' = restarts + 1
    /\ session' = FALSE /\ age' = 0
    /\ registering' = FALSE /\ beating' = FALSE
    /\ checking' = "idle" /\ monitor' = "idle"
    /\ UNCHANGED <<up, row>>

SigNext ==
    \/ Register \/ RegisterWrites \/ Message \/ KeepaliveWrites
    \/ CheckSessions \/ CheckRows \/ CheckMarks
    \/ MonitorLoads \/ MonitorProbes
    \/ Tick \/ SwitchOff \/ Restart

SigSpec == SigInit /\ [][SigNext]_sigVars

\* Time passes, started goroutines go on and both loops come round; nothing is
\* assumed of the device.
SigFairness ==
    /\ WF_sigVars(RegisterWrites) /\ WF_sigVars(KeepaliveWrites)
    /\ WF_sigVars(CheckSessions) /\ WF_sigVars(CheckRows) /\ WF_sigVars(CheckMarks)
    /\ WF_sigVars(MonitorLoads) /\ WF_sigVars(MonitorProbes)
    /\ WF_sigVars(Tick)

-----------------------------------------------------------------------------
(* Properties                                                              *)

\* A device that is switched off is shown offline for good in the end: the
\* session check, its fallback and the monitor between them outlast every
\* late datagram and every stale status, with or without a restart.
OffShownOffline == (~up) ~> [](status = "offline")

\* A session that has outlived the timeout is found: the map does not grow
\* with devices that are gone.
SilentForgotten == (~up) ~> [](~session)
=============================================================================
