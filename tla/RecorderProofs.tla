--------------------------- MODULE RecorderProofs ---------------------------
(* Theorems about Recorder, for any number of recordings and callers.      *)
EXTENDS Recorder, TLAPS

\* Every variable keeps its type in every step.
LEMMA TypeStep == TypeOK /\ [Next]_vars => TypeOK'
<1> SUFFICES ASSUME TypeOK, [Next]_vars PROVE TypeOK'
  OBVIOUS
<1> USE DistinctActors, Switches, Budgets DEF TypeOK, Actors
<1> USE DEF db, os, mem, local, history, budget, Terminal, Starting
<1>1. ASSUME NEW r \in Recordings, StartCreate(r) PROVE TypeOK'
  BY <1>1 DEF StartCreate
<1>2. ASSUME NEW r \in Recordings, StartRecordingStep(r) PROVE TypeOK'
  <2>1. CASE StartSpawn(r)
    BY <2>1 DEF StartSpawn
  <2>2. CASE StartFail(r)
    BY <2>2 DEF StartFail, SetStatus, SetStatusFails
  <2>3. CASE StartRegister(r)
    BY <2>3 DEF StartRegister
  <2>4. CASE StartLaunch(r)
    BY <2>4 DEF StartLaunch, Labels, Busy, Claimed
  <2> QED
    BY <1>2, <2>1, <2>2, <2>3, <2>4 DEF StartRecordingStep
<1>3. ASSUME NEW r \in Recordings, ProcWrites(r) PROVE TypeOK'
  BY <1>3 DEF ProcWrites
<1>4. ASSUME NEW r \in Recordings, ProcExits(r) PROVE TypeOK'
  BY <1>4 DEF ProcExits
<1>5. ASSUME NEW r \in Recordings, WatchTaskStep(r) PROVE TypeOK'
  <2>1. CASE WatchReap(r)
    BY <2>1 DEF WatchReap
  <2>2. CASE WatchClaim(r)
    BY <2>2 DEF WatchClaim, Goto, Labels, Busy, Claimed
  <2> QED
    BY <1>5, <2>1, <2>2 DEF WatchTaskStep
<1>6. ASSUME NEW a \in Actors, a \in Recordings \cup {Sweeper}, FinalizeStep(a) PROVE TypeOK'
  <2>1. CASE FinalizeStat(a)
    BY <1>6, <2>1 DEF FinalizeStat, Goto, Labels, Busy, Claimed
  <2>2. CASE FinalizeCompleted(a)
    BY <1>6, <2>2 DEF FinalizeCompleted, Goto, AfterFinalize, SetStatus, SetStatusFails, Labels, Busy, Claimed
  <2>3. CASE FinalizeFailed(a)
    BY <1>6, <2>3 DEF FinalizeFailed, Goto, AfterFinalize, SetStatus, SetStatusFails, Labels, Busy, Claimed
  <2> QED
    BY <1>6, <2>1, <2>2, <2>3 DEF FinalizeStep
<1>7. ASSUME NEW r \in Recordings, WatchdogExpires(r) \/ WatchdogCancels(r) PROVE TypeOK'
  <2>1. CASE WatchdogExpires(r)
    BY <2>1 DEF WatchdogExpires
  <2>2. CASE WatchdogCancels(r)
    BY <2>2 DEF WatchdogCancels
  <2> QED
    BY <1>7, <2>1, <2>2
<1>8. ASSUME NEW r \in Recordings, LeaseLapses(r) PROVE TypeOK'
  BY <1>8 DEF LeaseLapses
<1>9. ASSUME NEW a \in Clients \cup {Sweeper, Closer}, StopRecordingStep(a) PROVE TypeOK'
  <2> a \in Actors
    OBVIOUS
  <2> USE DEF Goto, Labels, Busy, Claimed
  <2>1. CASE StopClaim(a)
    BY <2>1 DEF StopClaim
  <2>2. CASE StopReadRow(a)
    BY <2>2 DEF StopReadRow, Return
  <2>3. ASSUME pc[a] \in {"markRow", "complete"}, StopWrites(a) PROVE TypeOK'
    <3> arg[a] \in Recordings
      BY <2>3
    <3>1. CASE SetStatus(arg[a], "completed") /\ UNCHANGED dbFaults /\ Return(a, TRUE)
      <4>1. row' \in [Recordings -> {"none", "recording"} \cup Terminal] /\ lost' \subseteq Recordings
        BY <3>1 DEF SetStatus
      <4>2. pc' \in [Actors -> Labels] /\ arg' \in [Actors -> Recordings \cup {None}]
        BY <3>1 DEF Return
      <4>3. \A r \in Recordings : arg'[r] \in {r, None}
        BY <3>1 DEF Return
      <4>4. \A b \in Actors : pc'[b] \in Busy => arg'[b] \in Recordings
        BY <2>3, <3>1 DEF Return
      <4>5. op' \in [Clients -> {"none", "stop", "delete", "heartbeat"}]
        BY <3>1 DEF Return
      <4> QED
        BY <2>3, <3>1, <4>1, <4>2, <4>3, <4>4, <4>5 DEF StopWrites
    <3>2. CASE SetStatusFails(arg[a]) /\ Return(a, FALSE)
      <4>1. lost' \subseteq Recordings /\ dbFaults' \in 0..MaxDbFaults /\ row' = row
        BY <2>3, <3>2 DEF SetStatusFails
      <4>2. /\ pc' \in [Actors -> Labels] /\ arg' \in [Actors -> Recordings \cup {None}]
            /\ op' \in [Clients -> {"none", "stop", "delete", "heartbeat"}]
            /\ \A b \in Actors : pc'[b] \in Busy => arg'[b] \in Recordings
            /\ \A r \in Recordings : arg'[r] \in {r, None}
        BY <3>2 DEF Return
      <4> QED
        BY <2>3, <4>1, <4>2 DEF StopWrites
    <3> QED
      BY <2>3, <3>1, <3>2 DEF StopWrites
  <2>4. CASE StopMarkRow(a)
    BY <2>3, <2>4 DEF StopMarkRow
  <2>5. CASE StopCancel(a)
    BY <2>5 DEF StopCancel
  <2>6. CASE StopSeesExit(a)
    BY <2>6 DEF StopSeesExit
  <2>7. CASE StopKills(a)
    BY <2>7 DEF StopKills
  <2>8. CASE StopGivesUp(a)
    BY <2>8 DEF StopGivesUp, Return
  <2>9. CASE StopComplete(a)
    BY <2>3, <2>9 DEF StopComplete
  <2> QED
    BY <1>9, <2>1, <2>2, <2>4, <2>5, <2>6, <2>7, <2>8, <2>9 DEF StopRecordingStep
<1>10. ASSUME NEW c \in Clients, NEW r \in Recordings,
              ClientStop(c, r) \/ ClientDelete(c, r) \/ ClientHeartbeat(c, r)
       PROVE TypeOK'
  BY <1>10 DEF ClientStop, ClientDelete, ClientHeartbeat, Call, Goto, Labels, Busy, Claimed
<1>11. ASSUME NEW c \in Clients, HeartbeatRenew(c) PROVE TypeOK'
  BY <1>11 DEF HeartbeatRenew, Done, Goto, Labels, Busy, Claimed
<1>12. ASSUME NEW c \in Clients, DeleteRecordingStep(c) PROVE TypeOK'
  <2> USE DEF Goto, Labels, Busy, Claimed
  <2>1. CASE DeleteChecksActive(c)
    BY <2>1 DEF DeleteChecksActive
  <2>2. CASE DeleteRemovesFile(c)
    BY <2>2 DEF DeleteRemovesFile
  <2>3. CASE DeleteRemovesRow(c)
    BY <2>3 DEF DeleteRemovesRow, Done
  <2> QED
    BY <1>12, <2>1, <2>2, <2>3 DEF DeleteRecordingStep
<1>13. ASSUME SweepStep PROVE TypeOK'
  <2> USE DEF Goto, Labels, Busy, Claimed
  <2>1. CASE SweepScan
    BY <2>1 DEF SweepScan
  <2>2. ASSUME NEW r \in Recordings, SweepClaim(r) PROVE TypeOK'
    BY <2>2 DEF SweepClaim, Claimed
  <2>3. CASE SweepLeases
    BY <2>3 DEF SweepLeases
  <2> QED
    BY <1>13, <2>1, <2>2, <2>3 DEF SweepStep
<1>14. ASSUME NEW a \in {Sweeper, Closer}, StopAllStep(a) PROVE TypeOK'
  BY <1>14 DEF StopAllStep, StopNext, StopsDone, Goto, Labels, Busy, Claimed
<1>15. CASE BeginShutdown
  BY <1>15 DEF BeginShutdown, Goto, Labels, Busy, Claimed
<1>16. CASE ShutdownStep
  BY <1>16 DEF ShutdownStep, CancelStartup, WaitStartup, ShutdownSnapshot, Goto, Labels, Busy, Claimed
<1>17. ASSUME ReconcileStep PROVE TypeOK'
  <2> USE DEF Goto, Labels, Busy, Claimed
  <2>1. CASE ReconcileList
    BY <2>1 DEF ReconcileList
  <2>2. CASE ReconcileWrites
    BY <2>2 DEF ReconcileWrites, SetStatus, SetStatusFails
  <2>3. CASE ReconcileDone \/ StartupGivesUp
    BY <2>3 DEF ReconcileDone, StartupGivesUp
  <2>4. ASSUME NEW r \in Recordings, ReconcileSkips(r) \/ ReconcileStats(r) PROVE TypeOK'
    BY <2>4 DEF ReconcileSkips, ReconcileStats
  <2> QED
    BY <1>17, <2>1, <2>2, <2>3, <2>4 DEF ReconcileStep
<1>18. CASE Restart
  <2> USE <1>18 DEF Restart
  <2>1. pc' \in [Actors -> Labels] /\ \A a \in Actors : pc'[a] \notin Busy
    BY DEF FreshPc, Labels, Busy, Claimed
  <2>2. proc' \in [Recordings -> {"none", "running", "exited", "reaped", "orphan"}]
    OBVIOUS
  <2>3. start' \in [Recordings -> {"idle", "started", "failed"} \cup Starting]
    OBVIOUS
  <2>4. todo' \in [{Sweeper, Closer} -> SUBSET Recordings]
    OBVIOUS
  <2>5. /\ arg' \in [Actors -> Recordings \cup {None}]
        /\ op' \in [Clients -> {"none", "stop", "delete", "heartbeat"}]
        /\ watchdog' \in [Recordings -> {"none", "armed", "firing"}]
        /\ signalled' \in [Recordings -> BOOLEAN]
        /\ listed' \in [Recordings -> {"none", "recording", "failed"}]
    OBVIOUS
  <2>6. lost' \subseteq Recordings /\ restarts' \in 0..MaxRestarts
    OBVIOUS
  <2> QED
    BY <2>1, <2>2, <2>3, <2>4, <2>5, <2>6
<1>19. CASE UNCHANGED vars
  BY <1>19 DEF vars
<1> QED
  BY <1>1, <1>2, <1>3, <1>4, <1>5, <1>6, <1>7, <1>8, <1>9, <1>10, <1>11, <1>12,
     <1>13, <1>14, <1>15, <1>16, <1>17, <1>18, <1>19 DEF Next

\* The variables keep their types.
THEOREM Typing == Spec => []TypeOK
<1>1. Init => TypeOK
  <2> SUFFICES ASSUME Init PROVE TypeOK
    OBVIOUS
  <2> USE DEF Init
  <2>1. /\ row \in [Recordings -> {"none", "recording"} \cup Terminal]
        /\ start \in [Recordings -> {"idle", "started", "failed"} \cup Starting]
    OBVIOUS
  <2>2. pc \in [Actors -> Labels] /\ \A a \in Actors : pc[a] \notin Busy
    BY DEF FreshPc, Labels, Busy, Claimed
  <2>3. todo \in [{Sweeper, Closer} -> SUBSET Recordings]
    OBVIOUS
  <2>4. restarts \in 0..MaxRestarts /\ dbFaults \in 0..MaxDbFaults
    BY Budgets
  <2>5. /\ arg \in [Actors -> Recordings \cup {None}]
        /\ \A r \in Recordings : arg[r] \in {r, None}
    BY DEF Actors
  <2> QED
    BY <2>1, <2>2, <2>3, <2>4, <2>5 DEF TypeOK
<1> QED
  BY <1>1, TypeStep, PTL DEF Spec
-----------------------------------------------------------------------------
(***************************************************************************)
(* One claimant.  A task is registered once, after its process was spawned *)
(* (Early), and whoever claims it removes it under mu.  So the goroutines  *)
(* past a claim hold distinct recordings, none of them in the map and none *)
(* still to be registered.                                                 *)
(***************************************************************************)
Early == {"idle", "created", "spawned"}

ClaimInv ==
    /\ \A a, b \in Actors :
          pc[a] \in Claimed /\ pc[b] \in Claimed /\ arg[a] = arg[b] => a = b
    /\ \A a \in Actors : pc[a] \in Claimed => arg[a] \notin tasks /\ start[arg[a]] \notin Early
    /\ \A r \in Recordings : start[r] \in Early => r \notin tasks

\* A step by which nobody claims and nothing is registered.
Quiet ==
    /\ tasks' \subseteq tasks
    /\ \A a \in Actors : pc'[a] \in Claimed => pc[a] \in Claimed /\ arg'[a] = arg[a]
    /\ \A r \in Recordings : start'[r] \in Early => start[r] \in Early

\* Goroutine a takes r out of the map and will finalize it.
Claims(a, r) ==
    /\ r \in tasks /\ tasks' = tasks \ {r}
    /\ pc[a] \notin Claimed /\ arg'[a] = r
    /\ \A b \in Actors \ {a} : pc'[b] = pc[b] /\ arg'[b] = arg[b]
    /\ start' = start

\* Apart from a registration and a restart, every step is quiet or a claim.
LEMMA StepKinds ==
    ASSUME TypeOK, [Next]_vars
    PROVE  \/ Quiet
           \/ \E a \in Actors, r \in Recordings : Claims(a, r)
           \/ \E r \in Recordings : StartRegister(r)
           \/ Restart
<1> DEFINE Goal == \/ Quiet
                   \/ \E a \in Actors, r \in Recordings : Claims(a, r)
                   \/ \E r \in Recordings : StartRegister(r)
                   \/ Restart
<1> SUFFICES Goal
  OBVIOUS
<1> USE DistinctActors DEF TypeOK, Actors, Goto, Claimed, Early, Starting
<1> USE DEF db, os, mem, local, history, budget
<1>1. ASSUME NEW r \in Recordings,
             StartCreate(r) \/ StartSpawn(r) \/ StartFail(r) \/ StartLaunch(r)
      PROVE Quiet
  BY <1>1 DEF StartCreate, StartSpawn, StartFail, StartLaunch, Quiet
<1>2. ASSUME NEW r \in Recordings,
             \/ ProcWrites(r) \/ ProcExits(r) \/ WatchReap(r)
             \/ WatchdogExpires(r) \/ WatchdogCancels(r) \/ LeaseLapses(r)
      PROVE Quiet
  BY <1>2 DEF ProcWrites, ProcExits, WatchReap, WatchdogExpires, WatchdogCancels,
              LeaseLapses, Quiet
<1>3. ASSUME NEW r \in Recordings, WatchClaim(r) PROVE Goal
  <2> arg[r] = r /\ r \in Actors
    BY <1>3 DEF WatchClaim, Busy
  <2>1. CASE r \in tasks
    BY <1>3, <2>1 DEF WatchClaim, Claims
  <2>2. CASE r \notin tasks
    BY <1>3, <2>2 DEF WatchClaim, Quiet
  <2> QED
    BY <2>1, <2>2
<1>4. ASSUME NEW a \in Recordings \cup {Sweeper}, FinalizeStep(a) PROVE Quiet
  BY <1>4 DEF FinalizeStep, FinalizeStat, FinalizeCompleted, FinalizeFailed, AfterFinalize, Quiet
<1>5. ASSUME NEW a \in Clients \cup {Sweeper, Closer}, StopClaim(a) PROVE Goal
  <2> arg[a] \in Recordings
    BY <1>5 DEF StopClaim, Busy
  <2>1. CASE arg[a] \in tasks
    BY <1>5, <2>1 DEF StopClaim, Claims
  <2>2. CASE arg[a] \notin tasks
    BY <1>5, <2>2 DEF StopClaim, Quiet
  <2> QED
    BY <2>1, <2>2
<1>6. ASSUME NEW a \in Clients \cup {Sweeper, Closer}, StopRecordingStep(a), ~StopClaim(a)
      PROVE Quiet
  <2>1. CASE StopReadRow(a)
    BY <2>1 DEF StopReadRow, Return, Quiet
  <2>2. CASE StopMarkRow(a) \/ StopComplete(a)
    BY <2>2 DEF StopMarkRow, StopComplete, StopWrites, Return, Quiet
  <2>3. CASE StopCancel(a) \/ StopSeesExit(a) \/ StopKills(a)
    BY <2>3 DEF StopCancel, StopSeesExit, StopKills, Quiet
  <2>4. CASE StopGivesUp(a)
    BY <2>4 DEF StopGivesUp, Return, Quiet
  <2> QED
    BY <1>6, <2>1, <2>2, <2>3, <2>4 DEF StopRecordingStep
<1>7. ASSUME NEW c \in Clients, NEW r \in Recordings,
             ClientStop(c, r) \/ ClientDelete(c, r) \/ ClientHeartbeat(c, r)
      PROVE Quiet
  BY <1>7 DEF ClientStop, ClientDelete, ClientHeartbeat, Call, Quiet
<1>8. ASSUME NEW c \in Clients, HeartbeatRenew(c) \/ DeleteRecordingStep(c) PROVE Quiet
  BY <1>8 DEF HeartbeatRenew, DeleteRecordingStep, DeleteChecksActive, DeleteRemovesFile,
              DeleteRemovesRow, Done, Quiet
<1>9. ASSUME NEW r \in Recordings, SweepClaim(r) PROVE Goal
  <2>1. CASE r \in tasks
    <3>1. /\ tasks' = tasks \ {r} /\ start' = start
          /\ pc[Sweeper] = "sweepNext" /\ arg' = [arg EXCEPT ![Sweeper] = r]
          /\ pc' = [pc EXCEPT ![Sweeper] = "stat"]
      BY <1>9, <2>1 DEF SweepClaim
    <3>2. Claims(Sweeper, r)
      BY <2>1, <3>1 DEF Claims
    <3> QED
      BY <3>2
  <2>2. CASE r \notin tasks
    BY <1>9, <2>2 DEF SweepClaim, Quiet
  <2> QED
    BY <2>1, <2>2
<1>10. CASE SweepScan \/ SweepLeases
  BY <1>10 DEF SweepScan, SweepLeases, Quiet
<1>11. ASSUME NEW a \in {Sweeper, Closer}, StopAllStep(a) PROVE Quiet
  BY <1>11 DEF StopAllStep, StopNext, StopsDone, Quiet
<1>12. CASE BeginShutdown \/ ShutdownStep
  BY <1>12 DEF BeginShutdown, ShutdownStep, CancelStartup, WaitStartup, ShutdownSnapshot, Quiet
<1>13. CASE ReconcileStep
  BY <1>13 DEF ReconcileStep, ReconcileList, ReconcileWrites, ReconcileDone, StartupGivesUp,
               ReconcileSkips, ReconcileStats, Quiet
<1>14. CASE UNCHANGED vars
  BY <1>14 DEF vars, Quiet
<1> QED
  BY <1>1, <1>2, <1>3, <1>4, <1>5, <1>6, <1>7, <1>8, <1>9, <1>10, <1>11, <1>12, <1>13, <1>14
     DEF Next, StartRecordingStep, WatchTaskStep, SweepStep

\* ClaimInv is inductive, given the types.
LEMMA ClaimStep == TypeOK /\ ClaimInv /\ [Next]_vars => ClaimInv'
<1> SUFFICES ASSUME TypeOK, ClaimInv, [Next]_vars PROVE ClaimInv'
  OBVIOUS
<1>1. CASE Quiet
  BY <1>1, TypeStep DEF ClaimInv, Quiet, TypeOK, Busy
<1>2. ASSUME NEW a \in Actors, NEW r \in Recordings, Claims(a, r) PROVE ClaimInv'
  BY <1>2 DEF ClaimInv, Claims
<1>3. ASSUME NEW r \in Recordings, StartRegister(r) PROVE ClaimInv'
  BY <1>3 DEF ClaimInv, StartRegister, TypeOK, Early, local
<1>4. CASE Restart
  BY <1>4 DEF ClaimInv, Restart, FreshPc, Claimed
<1> QED
  BY <1>1, <1>2, <1>3, <1>4, StepKinds

\* At most one goroutine ever holds the claim on a session.
THEOREM SingleClaimant == Spec => []OneClaimant
<1>1. Init => ClaimInv
  BY DEF Init, ClaimInv, FreshPc, Claimed
<1>2. ClaimInv => OneClaimant
  BY DEF ClaimInv, OneClaimant, Claimants
<1> QED
  BY <1>1, <1>2, ClaimStep, Typing, PTL DEF Spec
-----------------------------------------------------------------------------
(***************************************************************************)
(* Shutdown.  BeginShutdown waits until no StartRecording holds admissionMu*)
(* and none gets it again, so no child is spawned and no task registered;  *)
(* what Shutdown has still to stop is in its list or being claimed.        *)
(***************************************************************************)
BeforeSnapshot == {"idle", "draining", "joining", "shutdown"}

AdmissionClosed ==
    /\ shuttingDown => \A r \in Recordings : start[r] \notin Starting
    /\ pc[Closer] # "idle" => shuttingDown

Draining ==
    /\ pc[Closer] \notin BeforeSnapshot =>
          \A r \in tasks : r \in todo[Closer] \/ (pc[Closer] = "claim" /\ arg[Closer] = r)
    /\ pc[Closer] = "closed" => todo[Closer] = {}

ShutdownInv == AdmissionClosed /\ Draining

\* A step of somebody else that neither starts nor registers a session.
NotCloser ==
    /\ shuttingDown' = shuttingDown
    /\ pc'[Closer] = pc[Closer] /\ arg'[Closer] = arg[Closer] /\ todo'[Closer] = todo[Closer]
    /\ tasks' \subseteq tasks
    /\ \A r \in Recordings : start'[r] \in Starting => start[r] \in Starting

\* A step of Shutdown's own stops.
CloserStops ==
    /\ shuttingDown' = shuttingDown /\ start' = start
    /\ pc[Closer] \notin BeforeSnapshot \cup {"claim"}
    /\ pc'[Closer] \notin {"claim", "closed"}
    /\ tasks' = tasks /\ todo'[Closer] = todo[Closer]

\* The steps of the goroutines other than Closer, session starts apart.
LEMMA OthersSteps ==
    ASSUME TypeOK, [Next]_vars
    PROVE  \/ NotCloser
           \/ \E r \in Recordings : StartCreate(r) \/ StartRegister(r)
           \/ StopRecordingStep(Closer) \/ StopAllStep(Closer)
           \/ BeginShutdown \/ ShutdownStep \/ Restart
<1> USE DistinctActors DEF TypeOK, Actors, Goto, Starting
<1> USE DEF db, os, mem, local, history, budget
<1>1. ASSUME NEW r \in Recordings, StartSpawn(r) \/ StartFail(r) \/ StartLaunch(r)
      PROVE NotCloser
  BY <1>1 DEF StartSpawn, StartFail, StartLaunch, NotCloser
<1>2. ASSUME NEW r \in Recordings,
             \/ ProcWrites(r) \/ ProcExits(r) \/ WatchTaskStep(r)
             \/ WatchdogExpires(r) \/ WatchdogCancels(r) \/ LeaseLapses(r)
      PROVE NotCloser
  BY <1>2 DEF ProcWrites, ProcExits, WatchTaskStep, WatchReap, WatchClaim, WatchdogExpires,
              WatchdogCancels, LeaseLapses, NotCloser
<1>3. ASSUME NEW a \in Recordings \cup {Sweeper}, FinalizeStep(a) PROVE NotCloser
  BY <1>3 DEF FinalizeStep, FinalizeStat, FinalizeCompleted, FinalizeFailed, NotCloser
<1>4. ASSUME NEW a \in Clients \cup {Sweeper}, StopRecordingStep(a) PROVE NotCloser
  <2>1. CASE StopClaim(a) \/ StopReadRow(a)
    BY <2>1 DEF StopClaim, StopReadRow, Return, NotCloser
  <2>2. CASE StopMarkRow(a) \/ StopComplete(a)
    BY <2>2 DEF StopMarkRow, StopComplete, StopWrites, Return, NotCloser
  <2>3. CASE StopCancel(a) \/ StopSeesExit(a) \/ StopKills(a) \/ StopGivesUp(a)
    BY <2>3 DEF StopCancel, StopSeesExit, StopKills, StopGivesUp, Return, NotCloser
  <2> QED
    BY <1>4, <2>1, <2>2, <2>3 DEF StopRecordingStep
<1>5. ASSUME NEW c \in Clients, NEW r \in Recordings,
             ClientStop(c, r) \/ ClientDelete(c, r) \/ ClientHeartbeat(c, r)
      PROVE NotCloser
  BY <1>5 DEF ClientStop, ClientDelete, ClientHeartbeat, Call, NotCloser
<1>6. ASSUME NEW c \in Clients, HeartbeatRenew(c) \/ DeleteRecordingStep(c) PROVE NotCloser
  BY <1>6 DEF HeartbeatRenew, DeleteRecordingStep, DeleteChecksActive, DeleteRemovesFile,
              DeleteRemovesRow, Done, NotCloser
<1>7. CASE SweepStep
  BY <1>7 DEF SweepStep, SweepScan, SweepClaim, SweepLeases, NotCloser
<1>8. CASE StopAllStep(Sweeper)
  BY <1>8 DEF StopAllStep, StopNext, StopsDone, NotCloser
<1>9. CASE ReconcileStep
  BY <1>9 DEF ReconcileStep, ReconcileList, ReconcileWrites, ReconcileDone, StartupGivesUp,
              ReconcileSkips, ReconcileStats, NotCloser
<1>10. CASE UNCHANGED vars
  BY <1>10 DEF vars, NotCloser
<1> QED
  BY <1>1, <1>2, <1>3, <1>4, <1>5, <1>6, <1>7, <1>8, <1>9, <1>10 DEF Next, StartRecordingStep

\* ShutdownInv is inductive, given the types.
LEMMA ShutdownStepInv == TypeOK /\ ShutdownInv /\ [Next]_vars => ShutdownInv'
<1> SUFFICES ASSUME TypeOK, ShutdownInv, [Next]_vars PROVE ShutdownInv'
  OBVIOUS
<1> USE DistinctActors DEF TypeOK, Actors, Goto, ShutdownInv, AdmissionClosed, Draining
<1> USE DEF db, os, mem, local, history, budget, BeforeSnapshot
<1>1. CASE NotCloser
  BY <1>1 DEF NotCloser
<1>2. ASSUME NEW r \in Recordings, StartCreate(r) \/ StartRegister(r) PROVE ShutdownInv'
  BY <1>2 DEF StartCreate, StartRegister, Starting
<1>3. CASE StopRecordingStep(Closer)
  <2>1. CASE StopClaim(Closer)
    BY <2>1 DEF StopClaim
  <2>2. ASSUME StopRecordingStep(Closer), ~StopClaim(Closer) PROVE CloserStops
    <3>1. CASE StopReadRow(Closer) \/ StopGivesUp(Closer)
      BY <3>1 DEF StopReadRow, StopGivesUp, Return, CloserStops
    <3>2. CASE StopMarkRow(Closer) \/ StopComplete(Closer)
      BY <3>2 DEF StopMarkRow, StopComplete, StopWrites, Return, CloserStops
    <3>3. CASE StopCancel(Closer) \/ StopSeesExit(Closer) \/ StopKills(Closer)
      BY <3>3 DEF StopCancel, StopSeesExit, StopKills, CloserStops
    <3> QED
      BY <2>2, <3>1, <3>2, <3>3 DEF StopRecordingStep
  <2>3. CASE CloserStops
    BY <2>3 DEF CloserStops
  <2> QED
    BY <1>3, <2>1, <2>2, <2>3
<1>4. CASE StopAllStep(Closer)
  BY <1>4 DEF StopAllStep, StopNext, StopsDone
<1>5. CASE BeginShutdown
  BY <1>5 DEF BeginShutdown, AdmissionReaders
<1>6. CASE ShutdownStep
  BY <1>6 DEF ShutdownStep, CancelStartup, WaitStartup, ShutdownSnapshot
<1>7. CASE Restart
  BY <1>7 DEF Restart, FreshPc
<1> QED
  BY <1>1, <1>2, <1>3, <1>4, <1>5, <1>6, <1>7, OthersSteps

\* Admission is closed while Shutdown runs, and its list covers the map.
LEMMA ShutdownInvariant == Spec => []ShutdownInv
<1>1. Init => ShutdownInv
  BY DistinctActors DEF Init, ShutdownInv, AdmissionClosed, Draining, FreshPc, Actors, BeforeSnapshot
<1> QED
  BY <1>1, ShutdownStepInv, Typing, PTL DEF Spec

\* Shutdown returns only when the map is empty.
THEOREM ShutdownDrains == Spec => []ShutdownDrainsTasks
<1>1. TypeOK /\ ShutdownInv => ShutdownDrainsTasks
  BY DEF ShutdownInv, Draining, BeforeSnapshot, ShutdownDrainsTasks, TypeOK
<1> QED
  BY <1>1, ShutdownInvariant, Typing, PTL

\* Only StartSpawn makes a process run.
LEMMA OnlySpawnRuns ==
    ASSUME TypeOK, [Next]_vars, NEW r \in Recordings, proc'[r] = "running", proc[r] # "running"
    PROVE  StartSpawn(r)
<1> USE DEF TypeOK, db, os, mem, local, history, budget
<1>1. ASSUME NEW q \in Recordings,
             StartCreate(q) \/ StartFail(q) \/ StartRegister(q) \/ StartLaunch(q)
      PROVE FALSE
  BY <1>1 DEF StartCreate, StartFail, StartRegister, StartLaunch
<1>2. ASSUME NEW q \in Recordings, StartSpawn(q) PROVE StartSpawn(r)
  BY <1>2 DEF StartSpawn
<1>3. ASSUME NEW q \in Recordings,
             \/ ProcWrites(q) \/ ProcExits(q) \/ WatchTaskStep(q)
             \/ WatchdogExpires(q) \/ WatchdogCancels(q) \/ LeaseLapses(q)
      PROVE FALSE
  BY <1>3 DEF ProcWrites, ProcExits, WatchTaskStep, WatchReap, WatchClaim, WatchdogExpires,
              WatchdogCancels, LeaseLapses
<1>4. ASSUME NEW a \in Recordings \cup {Sweeper}, FinalizeStep(a) PROVE FALSE
  BY <1>4 DEF FinalizeStep, FinalizeStat, FinalizeCompleted, FinalizeFailed
<1>5. ASSUME NEW a \in Clients \cup {Sweeper, Closer}, StopRecordingStep(a) PROVE FALSE
  BY <1>5 DEF StopRecordingStep, StopClaim, StopReadRow, StopMarkRow, StopComplete, StopWrites,
              StopCancel, StopSeesExit, StopKills, StopGivesUp
<1>6. ASSUME NEW c \in Clients, NEW q \in Recordings,
             ClientStop(c, q) \/ ClientDelete(c, q) \/ ClientHeartbeat(c, q)
      PROVE FALSE
  BY <1>6 DEF ClientStop, ClientDelete, ClientHeartbeat, Call
<1>7. ASSUME NEW c \in Clients, HeartbeatRenew(c) \/ DeleteRecordingStep(c) PROVE FALSE
  BY <1>7 DEF HeartbeatRenew, DeleteRecordingStep, DeleteChecksActive, DeleteRemovesFile,
              DeleteRemovesRow
<1>8. ASSUME SweepStep \/ \E a \in {Sweeper, Closer} : StopAllStep(a) PROVE FALSE
  BY <1>8 DEF SweepStep, SweepScan, SweepClaim, SweepLeases, StopAllStep, StopNext, StopsDone
<1>9. ASSUME BeginShutdown \/ ShutdownStep PROVE FALSE
  BY <1>9 DEF BeginShutdown, ShutdownStep, CancelStartup, WaitStartup, ShutdownSnapshot
<1>10. ASSUME ReconcileStep PROVE FALSE
  BY <1>10 DEF ReconcileStep, ReconcileList, ReconcileWrites, ReconcileDone, StartupGivesUp,
               ReconcileSkips, ReconcileStats
<1>11. ASSUME Restart PROVE FALSE
  BY <1>11 DEF Restart
<1>12. ASSUME UNCHANGED vars PROVE FALSE
  BY <1>12 DEF vars
<1> QED
  BY <1>1, <1>2, <1>3, <1>4, <1>5, <1>6, <1>7, <1>8, <1>9, <1>10, <1>11, <1>12
     DEF Next, StartRecordingStep

\* After BeginShutdown no FFmpeg child is spawned.
THEOREM NoSpawn == Spec => NoSpawnAfterShutdown
<1> DEFINE Quenched ==
      \A r \in Recordings : shuttingDown /\ proc'[r] = "running" => proc[r] = "running"
<1>1. TypeOK /\ ShutdownInv /\ [Next]_vars => [Quenched]_vars
  <2> SUFFICES ASSUME TypeOK, ShutdownInv, [Next]_vars, NEW r \in Recordings,
                      shuttingDown, proc'[r] = "running", proc[r] # "running"
               PROVE  FALSE
    OBVIOUS
  <2>1. StartSpawn(r)
    BY OnlySpawnRuns
  <2> QED
    BY <2>1 DEF StartSpawn, ShutdownInv, AdmissionClosed, Starting
<1> QED
  BY <1>1, ShutdownInvariant, Typing, PTL DEF Spec, NoSpawnAfterShutdown
-----------------------------------------------------------------------------
(***************************************************************************)
(* Nothing is forgotten.  A session is held while its task is in the map or*)
(* somebody has claimed it.  Whoever lets go of it has written a terminal  *)
(* status, failed to (lost) or given up (abandoned); and, unless it gave   *)
(* up, has seen its process gone, which therefore never runs again.        *)
(***************************************************************************)
Gone(r) == proc[r] \in {"exited", "reaped", "orphan"}
Ending  == {"complete", "stat", "finalize"}
Held(r) == r \in tasks \/ \E a \in Actors : pc[a] \in Claimed /\ arg[a] = r

\* A child is spawned once, by the call that created the row.
SpawnedOnce == \A r \in Recordings : start[r] \in {"idle", "created"} => proc[r] = "none"

\* The watcher does not run before StartRecording launches it.
WatcherLaunched == \A r \in Recordings : start[r] # "started" => pc[r] = "idle"

\* Who finalizes has seen the process gone, the sweep when it made its list.
EndingGone ==
    /\ \A a \in Actors : pc[a] \in Ending => Gone(arg[a])
    /\ pc[Sweeper] \in {"sweepNext", "stat", "finalize"} => \A r \in todo[Sweeper] : Gone(r)

HoldInv == SpawnedOnce /\ WatcherLaunched /\ EndingGone

\* A step that leaves the processes, the watchers and the sweep's list alone,
\* and moves nobody to the writing of a status whose process is not gone.
Harmless ==
    /\ proc' = proc /\ start' = start
    /\ \A r \in Recordings : pc[r] = "idle" => pc'[r] = "idle"
    /\ \A a \in Actors :
          pc'[a] \in Ending => Gone(arg'[a]) \/ (pc[a] \in Ending /\ arg'[a] = arg[a])
    /\ pc'[Sweeper] \in {"sweepNext", "stat", "finalize"} =>
          /\ pc[Sweeper] \in {"sweepNext", "stat", "finalize"}
          /\ todo'[Sweeper] \subseteq todo[Sweeper]

LEMMA HarmlessKeeps == TypeOK /\ TypeOK' /\ HoldInv /\ Harmless => HoldInv'
  BY DEF HoldInv, SpawnedOnce, WatcherLaunched, EndingGone, Harmless, Gone, TypeOK, Ending, Busy, Claimed

LEMMA HoldStep == TypeOK /\ HoldInv /\ [Next]_vars => HoldInv'
<1> SUFFICES ASSUME TypeOK, HoldInv, [Next]_vars PROVE HoldInv'
  OBVIOUS
<1>0. TypeOK'
  BY TypeStep
<1>a. Harmless => HoldInv'
  BY <1>0, HarmlessKeeps
<1> USE DistinctActors DEF TypeOK, Actors, Goto, Ending
<1> USE DEF db, os, mem, local, history, budget
<1>1. ASSUME NEW r \in Recordings, StartCreate(r) \/ StartSpawn(r) PROVE HoldInv'
  <2>1. /\ start[r] \in {"idle", "created"} /\ proc[r] = "none" /\ ~Gone(r)
        /\ start'[r] # "idle" /\ start' = [start EXCEPT ![r] = start'[r]]
        /\ proc' = [proc EXCEPT ![r] = proc'[r]]
        /\ start'[r] = "created" => proc'[r] = "none"
        /\ start'[r] # "started"
        /\ pc' = pc /\ arg' = arg /\ todo' = todo
    BY <1>1 DEF StartCreate, StartSpawn, HoldInv, SpawnedOnce, Gone
  <2> QED
    BY <2>1 DEF HoldInv, SpawnedOnce, WatcherLaunched, EndingGone, Gone, Busy, Claimed
<1>2. ASSUME NEW r \in Recordings, StartFail(r) \/ StartRegister(r) PROVE HoldInv'
  BY <1>2 DEF StartFail, StartRegister, HoldInv, SpawnedOnce, WatcherLaunched, EndingGone, Gone
<1>3. ASSUME NEW r \in Recordings, StartLaunch(r) PROVE HoldInv'
  BY <1>3 DEF StartLaunch, HoldInv, SpawnedOnce, WatcherLaunched, EndingGone, Gone
<1>4. ASSUME NEW r \in Recordings, ProcExits(r) \/ WatchReap(r) PROVE HoldInv'
  BY <1>4 DEF ProcExits, WatchReap, HoldInv, SpawnedOnce, WatcherLaunched, EndingGone, Gone, Busy, Claimed
<1>5. ASSUME NEW r \in Recordings,
             ProcWrites(r) \/ WatchdogExpires(r) \/ WatchdogCancels(r) \/ LeaseLapses(r)
      PROVE Harmless
  BY <1>5 DEF ProcWrites, WatchdogExpires, WatchdogCancels, LeaseLapses, Harmless
<1>6. ASSUME NEW r \in Recordings, WatchClaim(r) PROVE Harmless
  BY <1>6 DEF WatchClaim, Harmless, Gone, Busy
<1>7. ASSUME NEW a \in Recordings \cup {Sweeper}, FinalizeStep(a) PROVE Harmless
  BY <1>7 DEF FinalizeStep, FinalizeStat, FinalizeCompleted, FinalizeFailed, AfterFinalize, Harmless
<1>8. ASSUME NEW a \in Clients \cup {Sweeper, Closer}, StopRecordingStep(a) PROVE Harmless
  <2>1. CASE StopClaim(a) \/ StopReadRow(a)
    BY <2>1 DEF StopClaim, StopReadRow, Return, Harmless
  <2>2. CASE StopMarkRow(a) \/ StopComplete(a)
    BY <2>2 DEF StopMarkRow, StopComplete, StopWrites, Return, Harmless
  <2>3. CASE StopCancel(a) \/ StopKills(a) \/ StopGivesUp(a)
    BY <2>3 DEF StopCancel, StopKills, StopGivesUp, Return, Harmless
  <2>4. CASE StopSeesExit(a)
    BY <2>4 DEF StopSeesExit, Exited, Gone, Harmless
  <2> QED
    BY <1>8, <2>1, <2>2, <2>3, <2>4 DEF StopRecordingStep
<1>9. ASSUME NEW c \in Clients, NEW r \in Recordings,
             ClientStop(c, r) \/ ClientDelete(c, r) \/ ClientHeartbeat(c, r)
      PROVE Harmless
  BY <1>9 DEF ClientStop, ClientDelete, ClientHeartbeat, Call, Harmless
<1>10. ASSUME NEW c \in Clients, HeartbeatRenew(c) \/ DeleteRecordingStep(c) PROVE Harmless
  BY <1>10 DEF HeartbeatRenew, DeleteRecordingStep, DeleteChecksActive, DeleteRemovesFile,
               DeleteRemovesRow, Done, Harmless
<1>11. CASE SweepScan
  BY <1>11 DEF SweepScan, Exited, HoldInv, SpawnedOnce, WatcherLaunched, EndingGone, Gone
<1>12. ASSUME NEW r \in Recordings, SweepClaim(r) PROVE Harmless
  BY <1>12 DEF SweepClaim, HoldInv, EndingGone, Harmless
<1>13. CASE SweepLeases
  BY <1>a, <1>13 DEF SweepLeases, Harmless
<1>14. ASSUME NEW a \in {Sweeper, Closer}, StopAllStep(a) PROVE Harmless
  BY <1>14 DEF StopAllStep, StopNext, StopsDone, Harmless
<1>15. CASE BeginShutdown \/ ShutdownStep
  BY <1>a, <1>15 DEF BeginShutdown, ShutdownStep, CancelStartup, WaitStartup, ShutdownSnapshot, Harmless
<1>16. CASE ReconcileStep
  BY <1>a, <1>16 DEF ReconcileStep, ReconcileList, ReconcileWrites, ReconcileDone, StartupGivesUp,
               ReconcileSkips, ReconcileStats, Harmless
<1>17. CASE Restart
  BY <1>17 DEF Restart, FreshPc, HoldInv, SpawnedOnce, WatcherLaunched, EndingGone, Gone
<1>18. CASE UNCHANGED vars
  BY <1>a, <1>18 DEF vars, Harmless
<1> QED
  BY <1>a, <1>1, <1>2, <1>3, <1>4, <1>5, <1>6, <1>7, <1>8, <1>9, <1>10, <1>11, <1>12, <1>13,
     <1>14, <1>15, <1>16, <1>17, <1>18 DEF Next, StartRecordingStep, WatchTaskStep, SweepStep

\* What a step does to the account of r.
Accounts(r) ==
    /\ row'[r] = "recording" => row[r] = "recording" \/ start'[r] = "created"
    /\ r \in lost /\ row'[r] = "recording" => r \in lost'
    /\ abandoned \subseteq abandoned'
    /\ start[r] \in {"created", "spawned"} =>
          \/ start'[r] \in {"created", "spawned"} \/ r \in tasks'
          \/ row'[r] # "recording" \/ r \in lost'
    /\ start[r] = "spawned" => start'[r] = "spawned" \/ r \in tasks' \/ proc'[r] # "running"
    /\ Held(r) =>
          \/ Held(r)'
          \/ /\ row'[r] # "recording" \/ r \in lost' \cup abandoned'
             /\ proc'[r] # "running" \/ r \in abandoned'

\* A goroutine that works on r and leaves its claim, if it has one, as it is.
Holds(a) ==
    /\ tasks' = tasks
    /\ \A b \in Actors \ {a} : pc'[b] = pc[b] /\ arg'[b] = arg[b]
    /\ pc[a] \in Claimed => pc'[a] \in Claimed /\ arg'[a] = arg[a]

\* A step that writes no status, no start and no history.
Silent == row' = row /\ start' = start /\ lost' = lost /\ abandoned' = abandoned

LEMMA SilentAccounts ==
    ASSUME TypeOK, Silent, NEW a \in Actors, Holds(a), NEW r \in Recordings
    PROVE  Accounts(r)
  BY DEF Silent, Holds, Accounts, Held, TypeOK

\* The write of a terminal status of q by goroutine a, which may let go of it.
LEMMA WriteAccounts ==
    ASSUME TypeOK, TypeOK', HoldInv, NEW a \in Actors, NEW q \in Recordings,
           NEW s \in Terminal, SetStatus(q, s) \/ SetStatusFails(q),
           tasks' = tasks, proc' = proc, start' = start, abandoned' = abandoned,
           pc[a] \in Claimed => pc[a] \in Ending /\ arg[a] = q,
           \A b \in Actors \ {a} : pc'[b] = pc[b] /\ arg'[b] = arg[b],
           NEW r \in Recordings
    PROVE  Accounts(r)
<1>1. /\ row'[r] = "recording" => row[r] = "recording"
      /\ r \in lost /\ row'[r] = "recording" => r \in lost'
      /\ row'[q] # "recording" \/ q \in lost'
  BY DEF SetStatus, SetStatusFails, TypeOK, Terminal
<1>2. pc[a] \in Claimed => Gone(q)
  BY DEF HoldInv, EndingGone
<1>3. Held(r) => Held(r)' \/ (r = q /\ proc'[r] # "running")
  BY <1>2 DEF Held, Gone
<1> QED
  BY <1>1, <1>3 DEF Accounts

LEMMA EveryAccount ==
    ASSUME TypeOK, HoldInv, [Next]_vars, NEW r \in Recordings
    PROVE  Accounts(r)
<1>0. TypeOK'
  BY TypeStep
<1> USE DistinctActors DEF Actors, Goto
<1> USE DEF db, os, mem, local, history, budget
<1>1. ASSUME NEW q \in Recordings, StartCreate(q) \/ StartSpawn(q) \/ StartRegister(q)
      PROVE Accounts(r)
  BY <1>1 DEF StartCreate, StartSpawn, StartRegister, Accounts, Held, TypeOK
<1>2. ASSUME NEW q \in Recordings, StartFail(q) PROVE Accounts(r)
  BY <1>2 DEF StartFail, SetStatus, SetStatusFails, Accounts, Held, TypeOK
<1>3. ASSUME NEW q \in Recordings, StartLaunch(q) PROVE Accounts(r)
  <2>1. pc[q] \notin Claimed
    BY <1>3 DEF StartLaunch, HoldInv, WatcherLaunched, Claimed
  <2> QED
    BY <1>3, <2>1 DEF StartLaunch, Accounts, Held, TypeOK
<1>4. ASSUME NEW q \in Recordings,
             \/ ProcWrites(q) \/ ProcExits(q) \/ WatchReap(q)
             \/ WatchdogExpires(q) \/ WatchdogCancels(q) \/ LeaseLapses(q)
      PROVE Accounts(r)
  <2> Silent /\ Holds(q)
    BY <1>4 DEF ProcWrites, ProcExits, WatchReap, WatchdogExpires, WatchdogCancels, LeaseLapses,
                Silent, Holds
  <2> QED
    BY SilentAccounts
<1>5. ASSUME NEW q \in Recordings, WatchClaim(q) PROVE Accounts(r)
  <2>1. arg[q] = q /\ arg' = arg /\ pc[q] \notin Claimed
    BY <1>5 DEF WatchClaim, TypeOK, Busy, Claimed
  <2>2. Silent /\ tasks' = tasks \ {q} /\ (q \in tasks => pc'[q] \in Claimed)
        /\ \A b \in Actors \ {q} : pc'[b] = pc[b]
    BY <1>5 DEF WatchClaim, TypeOK, Claimed, Silent
  <2> QED
    BY <2>1, <2>2 DEF Accounts, Held, Silent
<1>6. ASSUME NEW a \in Recordings \cup {Sweeper}, FinalizeStep(a) PROVE Accounts(r)
  <2>1. CASE FinalizeStat(a)
    <3> Silent /\ Holds(a)
      BY <2>1 DEF FinalizeStat, Silent, Holds, Claimed, TypeOK
    <3> QED
      BY SilentAccounts
  <2>2. CASE FinalizeCompleted(a) \/ FinalizeFailed(a)
    <3>1. /\ pc[a] \in Ending /\ arg[a] \in Recordings
          /\ \E s \in Terminal : SetStatus(arg[a], s) \/ SetStatusFails(arg[a])
          /\ tasks' = tasks /\ proc' = proc /\ start' = start /\ abandoned' = abandoned
          /\ arg' = arg /\ \A b \in Actors \ {a} : pc'[b] = pc[b]
      BY <2>2 DEF FinalizeCompleted, FinalizeFailed, Ending, TypeOK, Busy, Claimed, Terminal
    <3> QED
      BY <3>1, <1>0, WriteAccounts
  <2> QED
    BY <1>6, <2>1, <2>2 DEF FinalizeStep
<1>7. ASSUME NEW a \in Clients \cup {Sweeper, Closer}, StopRecordingStep(a) PROVE Accounts(r)
  <2>1. CASE StopClaim(a)
    <3>1. Silent /\ tasks' = tasks \ {arg[a]} /\ (arg[a] \in tasks => pc'[a] \in Claimed)
          /\ arg' = arg /\ pc[a] \notin Claimed /\ \A b \in Actors \ {a} : pc'[b] = pc[b]
      BY <2>1 DEF StopClaim, TypeOK, Claimed, Silent
    <3> QED
      BY <3>1 DEF Accounts, Held, Silent
  <2>2. CASE StopReadRow(a)
    <3> Silent /\ Holds(a)
      BY <2>2 DEF StopReadRow, Return, Silent, Holds, Claimed, TypeOK
    <3> QED
      BY SilentAccounts
  <2>3. CASE StopMarkRow(a) \/ StopComplete(a)
    <3>1. /\ pc[a] \in {"markRow", "complete"} /\ arg[a] \in Recordings
          /\ \E s \in Terminal : SetStatus(arg[a], s) \/ SetStatusFails(arg[a])
          /\ tasks' = tasks /\ proc' = proc /\ start' = start /\ abandoned' = abandoned
          /\ \A b \in Actors \ {a} : pc'[b] = pc[b] /\ arg'[b] = arg[b]
      BY <2>3 DEF StopMarkRow, StopComplete, StopWrites, Return, TypeOK, Busy, Claimed, Terminal
    <3>2. pc[a] \in Claimed => pc[a] \in Ending
      BY <3>1 DEF Ending, Claimed
    <3> QED
      BY <3>1, <3>2, <1>0, WriteAccounts
  <2>4. CASE StopCancel(a) \/ StopSeesExit(a) \/ StopKills(a)
    <3> Silent /\ Holds(a)
      BY <2>4 DEF StopCancel, StopSeesExit, StopKills, Silent, Holds, Claimed, TypeOK
    <3> QED
      BY SilentAccounts
  <2>5. CASE StopGivesUp(a)
    <3>1. /\ arg[a] \in Recordings /\ abandoned' = abandoned \cup {arg[a]}
          /\ row' = row /\ start' = start /\ lost' = lost /\ tasks' = tasks
          /\ \A b \in Actors \ {a} : pc'[b] = pc[b] /\ arg'[b] = arg[b]
      BY <2>5 DEF StopGivesUp, Return, TypeOK, Busy, Claimed
    <3> QED
      BY <3>1 DEF Accounts, Held
  <2> QED
    BY <1>7, <2>1, <2>2, <2>3, <2>4, <2>5 DEF StopRecordingStep
<1>8. ASSUME NEW c \in Clients, NEW q \in Recordings,
             ClientStop(c, q) \/ ClientDelete(c, q) \/ ClientHeartbeat(c, q)
      PROVE Accounts(r)
  <2> Silent /\ Holds(c)
    BY <1>8 DEF ClientStop, ClientDelete, ClientHeartbeat, Call, Silent, Holds, Claimed, TypeOK
  <2> QED
    BY SilentAccounts
<1>9. ASSUME NEW c \in Clients, HeartbeatRenew(c) \/ DeleteRecordingStep(c) PROVE Accounts(r)
  <2>1. CASE DeleteRemovesRow(c)
    <3>1. Holds(c)
      BY <2>1 DEF DeleteRemovesRow, Done, Holds, Claimed, TypeOK
    <3>2. /\ row' = [row EXCEPT ![arg[c]] = "none"] /\ lost' = lost \ {arg[c]}
          /\ start' = start /\ abandoned' = abandoned
      BY <2>1 DEF DeleteRemovesRow
    <3> QED
      BY <3>1, <3>2 DEF Holds, Accounts, Held, TypeOK
  <2>2. ASSUME HeartbeatRenew(c) \/ DeleteChecksActive(c) \/ DeleteRemovesFile(c)
        PROVE Silent /\ Holds(c)
    BY <2>2 DEF HeartbeatRenew, DeleteChecksActive, DeleteRemovesFile, Done, Silent, Holds,
                Claimed, TypeOK
  <2> QED
    BY <1>9, <2>1, <2>2, SilentAccounts DEF DeleteRecordingStep
<1>10. ASSUME NEW q \in Recordings, SweepClaim(q) PROVE Accounts(r)
  <2>1. Silent /\ tasks' = tasks \ {q} /\ pc[Sweeper] \notin Claimed /\ arg'[Sweeper] = q
        /\ (q \in tasks => pc'[Sweeper] \in Claimed)
        /\ \A b \in Actors \ {Sweeper} : pc'[b] = pc[b] /\ arg'[b] = arg[b]
    BY <1>10 DEF SweepClaim, TypeOK, Claimed, Silent
  <2> QED
    BY <2>1 DEF Accounts, Held, Silent
<1>11. ASSUME \/ SweepScan \/ SweepLeases \/ BeginShutdown \/ ShutdownStep
              \/ \E a \in {Sweeper, Closer} : StopAllStep(a)
       PROVE Accounts(r)
  <2> Silent /\ \E a \in {Sweeper, Closer} : Holds(a)
    BY <1>11 DEF SweepScan, SweepLeases, BeginShutdown, ShutdownStep, CancelStartup, WaitStartup,
                 ShutdownSnapshot, StopAllStep, StopNext, StopsDone, Silent, Holds, Claimed, TypeOK
  <2> QED
    BY SilentAccounts
<1>12. ASSUME ReconcileStep PROVE Accounts(r)
  <2>1. CASE ReconcileWrites
    <3>1. /\ pc[Booter] \notin Claimed /\ arg[Booter] \in Recordings
          /\ \E s \in Terminal : SetStatus(arg[Booter], s) \/ SetStatusFails(arg[Booter])
          /\ tasks' = tasks /\ proc' = proc /\ start' = start /\ abandoned' = abandoned
          /\ \A b \in Actors \ {Booter} : pc'[b] = pc[b] /\ arg'[b] = arg[b]
      BY <2>1 DEF ReconcileWrites, TypeOK, Busy, Claimed, Terminal
    <3> QED
      BY <3>1, <1>0, WriteAccounts
  <2>2. ASSUME \/ ReconcileList \/ ReconcileDone \/ StartupGivesUp
               \/ \E q \in Recordings : ReconcileSkips(q) \/ ReconcileStats(q)
        PROVE Silent /\ Holds(Booter)
    BY <2>2 DEF ReconcileList, ReconcileDone, StartupGivesUp, ReconcileSkips, ReconcileStats,
                Silent, Holds, Claimed, TypeOK
  <2> QED
    BY <1>12, <2>1, <2>2, SilentAccounts DEF ReconcileStep
<1>13. CASE Restart
  <2>1. row' = row /\ abandoned' = abandoned /\ proc'[r] # "running"
        /\ lost' = lost \cup {q \in Recordings : row[q] = "recording"}
    BY <1>13 DEF Restart, TypeOK
  <2> QED
    BY <2>1 DEF Accounts
<1>14. CASE UNCHANGED vars
  BY <1>14 DEF vars, Accounts, Held
<1> QED
  BY <1>1, <1>2, <1>3, <1>4, <1>5, <1>6, <1>7, <1>8, <1>9, <1>10, <1>11, <1>12, <1>13, <1>14
     DEF Next, StartRecordingStep, WatchTaskStep, SweepStep

HeldInv ==
    /\ HoldInv
    /\ \A r \in Recordings :
          /\ proc[r] = "running" => start[r] = "spawned" \/ Held(r) \/ r \in abandoned
          /\ row[r] = "recording" =>
                start[r] \in {"created", "spawned"} \/ Held(r) \/ r \in lost \cup abandoned

\* The accounts balance at all times.
LEMMA HeldInvariant == Spec => []HeldInv
<1>1. Init => HeldInv
  BY DistinctActors DEF Init, HeldInv, HoldInv, SpawnedOnce, WatcherLaunched, EndingGone, FreshPc,
     Actors, Ending
<1>2. TypeOK /\ HeldInv /\ [Next]_vars => HeldInv'
  <2> SUFFICES ASSUME TypeOK, HeldInv, [Next]_vars PROVE HeldInv'
    OBVIOUS
  <2>1. HoldInv'
    BY HoldStep DEF HeldInv
  <2>2. ASSUME NEW r \in Recordings, proc'[r] = "running"
        PROVE start'[r] = "spawned" \/ Held(r)' \/ r \in abandoned'
    <3>1. CASE proc[r] # "running"
      BY <2>2, <3>1, OnlySpawnRuns DEF StartSpawn, TypeOK
    <3>2. CASE proc[r] = "running"
      <4>1. Accounts(r)
        BY EveryAccount DEF HeldInv
      <4> QED
        BY <2>2, <3>2, <4>1 DEF HeldInv, Accounts, Held
    <3> QED
      BY <3>1, <3>2
  <2>3. ASSUME NEW r \in Recordings, row'[r] = "recording"
        PROVE start'[r] \in {"created", "spawned"} \/ Held(r)' \/ r \in lost' \cup abandoned'
    <3>1. Accounts(r)
      BY EveryAccount DEF HeldInv
    <3> QED
      BY <2>3, <3>1 DEF HeldInv, Accounts, Held
  <2> QED
    BY <2>1, <2>2, <2>3 DEF HeldInv
<1> QED
  BY <1>1, <1>2, Typing, PTL DEF Spec

\* A running FFmpeg child always has somebody who will stop or reap it, unless
\* a stop gave up on it.
THEOREM ProcessHeld == Spec => []ProcessAccounted
<1>1. HeldInv => ProcessAccounted
  BY DEF HeldInv, Held, ProcessAccounted, Claimants
<1> QED
  BY <1>1, HeldInvariant, PTL

\* A row in state recording is somebody's to finalize, unless a failed write,
\* a crash or an unkillable process left it.
THEOREM RowHeld == Spec => []RowAccounted
<1>1. HeldInv => RowAccounted
  BY DEF HeldInv, Held, RowAccounted, Claimants
<1> QED
  BY <1>1, HeldInvariant, PTL
=============================================================================
