------------------------------ MODULE Recorder ------------------------------
(***************************************************************************)
(* The single-file recording sessions of internal/service/recorder.go      *)
(* (RTSP manual sessions and every GB28181 session): the tasks map, the    *)
(* goroutines that may take a task out of it, the recordings rows in       *)
(* SQLite and the FFmpeg children.  Each SQL statement is one step, since  *)
(* the database has a single connection; each critical section of mu is    *)
(* one step; everything else interleaves.  Publishing a status on the      *)
(* event bus never blocks and changes nothing read here (module EventBus). *)
(***************************************************************************)
EXTENDS Naturals

CONSTANTS
    Recordings,     \* recording ids; the database never reuses one
    Clients,        \* HTTP request goroutines
    Sweeper,        \* the goroutine of sweepLoop
    Closer,         \* main, from the exit signal on
    Booter,         \* the goroutine of startRecordingSubsystems
    None,           \* no recording
    ZombieVisible,  \* processExited sees an exited child before Wait reaps it
                    \* (the Windows build; Unix only after Wait)
    MaxRestarts,    \* bound on restarts of the server, after a crash or an exit
    MaxDbFaults     \* bound on failed writes of a terminal status

Actors == Clients \cup Recordings \cup {Sweeper, Closer, Booter}

ASSUME DistinctActors ==
    /\ Clients \cap Recordings = {}
    /\ {Sweeper, Closer, Booter} \cap (Clients \cup Recordings) = {}
    /\ Sweeper # Closer /\ Sweeper # Booter /\ Closer # Booter
    /\ None \notin Recordings
ASSUME Switches == ZombieVisible \in BOOLEAN
ASSUME Budgets == MaxRestarts \in Nat /\ MaxDbFaults \in Nat

VARIABLES
    row,           \* recordings.status; "none": no such row
    lease,         \* recordings.heartbeat_at: younger or older than 60 s
    file,          \* the file at file_path: missing or empty, with data, or
                   \* removed while FFmpeg still had it open
    proc,          \* the FFmpeg child of the recording
    signalled,     \* its context was cancelled, or it was killed
    tasks,         \* RecorderService.tasks
    shuttingDown,  \* RecorderService.shuttingDown
    start,         \* progress of the StartRecording call that owns the id
    watchdog,      \* the maxDurationWatchdog goroutine of the recording
    pc, arg,       \* where each goroutine is, and on which recording;
                   \* recording r's own goroutine is watchTask(r)
    op,            \* what a client asked for
    todo,          \* ids a sweep or Shutdown has still to visit
    listed,        \* rows ReconcileLegacyOrphaned has still to visit
    lost,          \* history: rows left behind by a failed write or a crash
    abandoned,     \* history: sessions whose stop gave up on the process
    restarts, dbFaults

db      == <<row, lease>>
os      == <<file, proc, signalled>>
mem     == <<tasks, shuttingDown, start, watchdog>>
local   == <<pc, arg, op, todo, listed>>
history == <<lost, abandoned>>
budget  == <<restarts, dbFaults>>

vars    == <<row, lease, file, proc, signalled, tasks, shuttingDown, start, watchdog,
            pc, arg, op, todo, listed, lost, abandoned, restarts, dbFaults>>

Terminal == {"completed", "failed"}
Claimed  == {"cancel", "wait", "waitKilled", "complete", "stat", "finalize"}
Starting == {"created", "spawned", "registered"}

\* Where a goroutine is working on one recording, arg[a].
Busy     == Claimed \cup {"claim", "readRow", "markRow", "renew", "delCheck", "delFile", "delRow",
                          "watch", "bootCompleted", "bootFailed"}
Labels   == Busy \cup {"idle", "sweepNext", "stopNext", "end", "boot", "booting", "booted",
                       "draining", "joining", "shutdown", "closed"}

TypeOK ==
    /\ row \in [Recordings -> {"none", "recording"} \cup Terminal]
    /\ lease \in [Recordings -> {"none", "fresh", "stale"}]
    /\ file \in [Recordings -> {"absent", "data", "unlinked"}]
    /\ proc \in [Recordings -> {"none", "running", "exited", "reaped", "orphan"}]
    /\ signalled \in [Recordings -> BOOLEAN]
    /\ tasks \in SUBSET Recordings
    /\ shuttingDown \in BOOLEAN
    /\ start \in [Recordings -> {"idle", "started", "failed"} \cup Starting]
    /\ watchdog \in [Recordings -> {"none", "armed", "firing"}]
    /\ pc \in [Actors -> Labels]
    /\ arg \in [Actors -> Recordings \cup {None}]
    /\ \A a \in Actors : pc[a] \in Busy => arg[a] \in Recordings
    /\ \A r \in Recordings : arg[r] \in {r, None}
    /\ op \in [Clients -> {"none", "stop", "delete", "heartbeat"}]
    /\ todo \in [{Sweeper, Closer} -> SUBSET Recordings]
    /\ listed \in [Recordings -> {"none", "recording", "failed"}]
    /\ lost \in SUBSET Recordings /\ abandoned \in SUBSET Recordings
    /\ restarts \in 0..MaxRestarts
    /\ dbFaults \in 0..MaxDbFaults

(***************************************************************************)
(* State of a fresh server: what NewRecorderService and main set up, over  *)
(* whatever rows and files the previous life left.                         *)
(***************************************************************************)
FreshPc == [a \in Actors |-> IF a = Booter THEN "boot" ELSE "idle"]

Init ==
    /\ row = [r \in Recordings |-> "none"]
    /\ lease = [r \in Recordings |-> "none"]
    /\ file = [r \in Recordings |-> "absent"]
    /\ proc = [r \in Recordings |-> "none"]
    /\ signalled = [r \in Recordings |-> FALSE]
    /\ tasks = {}
    /\ shuttingDown = FALSE
    /\ start = [r \in Recordings |-> "idle"]
    /\ watchdog = [r \in Recordings |-> "none"]
    /\ pc = FreshPc
    /\ arg = [a \in Actors |-> None]
    /\ op = [c \in Clients |-> "none"]
    /\ todo = [a \in {Sweeper, Closer} |-> {}]
    /\ listed = [r \in Recordings |-> "none"]
    /\ lost = {} /\ abandoned = {}
    /\ restarts = 0 /\ dbFaults = 0

-----------------------------------------------------------------------------
(* Helpers *)

Goto(a, l) == pc' = [pc EXCEPT ![a] = l]

\* Mutant of SetStatus: a status no reader of the table knows.
SetStatusUnknown(r, s) ==
    /\ row' = IF row[r] = "none" THEN row ELSE [row EXCEPT ![r] = "stopped"]
    /\ lost' = lost \ {r}

\* UPDATE recordings SET status: no row, no effect and no error.
SetStatus(r, s) ==
    /\ row' = IF row[r] = "none" THEN row ELSE [row EXCEPT ![r] = s]
    /\ lost' = lost \ {r}

\* The same UPDATE failing (full or busy database).
SetStatusFails(r) ==
    /\ dbFaults < MaxDbFaults
    /\ dbFaults' = dbFaults + 1
    /\ lost' = IF row[r] = "recording" THEN lost \cup {r} ELSE lost
    /\ UNCHANGED row

Exited(r) == proc[r] = "reaped" \/ (ZombieVisible /\ proc[r] = "exited")

\* admissionMu: StartRecording holds it for reading, BeginShutdown and
\* ReconcileLegacyOrphaned for writing.
AdmissionReaders == {r \in Recordings : start[r] \in Starting}
ReconcileHoldsLock == pc[Booter] \in {"booting", "bootCompleted", "bootFailed"}

\* A caller can name every row of the table: the listing shows it as soon as
\* it is inserted, before StartRecording returns.
Known(r) == start[r] # "idle"

Claimants(r) == {a \in Actors : pc[a] \in Claimed /\ arg[a] = r}

-----------------------------------------------------------------------------
(* StartRecording.  Admission, validation and the INSERT are one step: the *)
(* caller holds admissionMu and the row does not exist before it.          *)

StartCreate(r) ==
    /\ start[r] = "idle" /\ ~shuttingDown /\ ~ReconcileHoldsLock
    /\ start' = [start EXCEPT ![r] = "created"]
    /\ row' = [row EXCEPT ![r] = "recording"]
    /\ \E manual \in BOOLEAN :
          lease' = [lease EXCEPT ![r] = IF manual THEN "fresh" ELSE "none"]
    /\ UNCHANGED <<os, tasks, shuttingDown, watchdog, local, history, budget>>

\* startFFmpegRecording or startGB28181Recording: cmd.Start succeeded.
StartSpawn(r) ==
    /\ start[r] = "created"
    /\ start' = [start EXCEPT ![r] = "spawned"]
    /\ proc' = [proc EXCEPT ![r] = "running"]
    /\ UNCHANGED <<db, file, signalled, tasks, shuttingDown, watchdog, local, history, budget>>

\* No stream, no pipe or no process: the row becomes failed.
StartFail(r) ==
    /\ start[r] = "created"
    /\ start' = [start EXCEPT ![r] = "failed"]
    /\ \/ SetStatus(r, "failed") /\ UNCHANGED dbFaults
       \/ SetStatusFails(r)
    /\ UNCHANGED <<lease, os, tasks, shuttingDown, watchdog, local, restarts, abandoned>>

StartRegister(r) ==
    /\ start[r] = "spawned"
    /\ start' = [start EXCEPT ![r] = "registered"]
    /\ tasks' = tasks \cup {r}
    /\ UNCHANGED <<db, os, shuttingDown, watchdog, local, history, budget>>

\* The goroutines are launched and admissionMu is released.
StartLaunch(r) ==
    /\ start[r] = "registered"
    /\ start' = [start EXCEPT ![r] = "started"]
    /\ \E limited \in BOOLEAN :
          watchdog' = [watchdog EXCEPT ![r] = IF limited THEN "armed" ELSE "none"]
    /\ pc' = [pc EXCEPT ![r] = "watch"]
    /\ arg' = [arg EXCEPT ![r] = r]
    /\ UNCHANGED <<db, os, tasks, shuttingDown, op, todo, listed, history, budget>>

-----------------------------------------------------------------------------
(* The FFmpeg child. *)

ProcWrites(r) ==
    /\ proc[r] \in {"running", "orphan"} /\ file[r] = "absent"
    /\ file' = [file EXCEPT ![r] = "data"]
    /\ UNCHANGED <<db, proc, signalled, mem, local, history, budget>>

ProcExits(r) ==
    /\ proc[r] \in {"running", "orphan"}
    /\ proc' = [proc EXCEPT ![r] = IF @ = "running" THEN "exited" ELSE "reaped"]
    /\ UNCHANGED <<db, file, signalled, mem, local, history, budget>>

-----------------------------------------------------------------------------
(* watchTask: the only caller of cmd.Wait, then the claim under mu. *)

WatchReap(r) ==
    /\ pc[r] = "watch" /\ proc[r] = "exited"
    /\ proc' = [proc EXCEPT ![r] = "reaped"]
    /\ UNCHANGED <<db, file, signalled, mem, local, history, budget>>

\* Mutant of WatchClaim: the watcher takes a cancelled task out of the map and
\* leaves its row to whoever cancelled it.
WatchClaimLeavesCancelled(r) ==
    /\ pc[r] = "watch" /\ proc[r] = "reaped"
    /\ tasks' = tasks \ {r}
    /\ Goto(r, IF r \in tasks /\ ~signalled[r] THEN "stat" ELSE "end")
    /\ UNCHANGED <<db, os, shuttingDown, start, watchdog, arg, op, todo, listed, history, budget>>

WatchClaim(r) ==
    /\ pc[r] = "watch" /\ proc[r] = "reaped"
    /\ tasks' = tasks \ {r}
    /\ Goto(r, IF r \in tasks THEN "stat" ELSE "end")
    /\ UNCHANGED <<db, os, shuttingDown, start, watchdog, arg, op, todo, listed, history, budget>>

(* finalizeRecording, called by watchTask and by the sweep: the size is    *)
(* read, the duration probed for up to 8 s, then the row is written.       *)

\* Where a goroutine continues after finalizeRecording.
AfterFinalize(a) == IF a = Sweeper THEN "sweepNext" ELSE "end"

FinalizeStat(a) ==
    /\ pc[a] = "stat" /\ file[arg[a]] = "data"
    /\ Goto(a, "finalize")
    /\ UNCHANGED <<db, os, mem, arg, op, todo, listed, history, budget>>

\* A valid file was seen: completed, whatever became of it since.
FinalizeCompleted(a) ==
    /\ pc[a] = "finalize"
    /\ \/ SetStatus(arg[a], "completed") /\ UNCHANGED dbFaults
       \/ SetStatusFails(arg[a])
    /\ Goto(a, AfterFinalize(a))
    /\ UNCHANGED <<lease, os, mem, arg, op, todo, listed, restarts, abandoned>>

FinalizeFailed(a) ==
    /\ pc[a] = "stat" /\ file[arg[a]] # "data"
    /\ \/ SetStatus(arg[a], "failed") /\ UNCHANGED dbFaults
       \/ SetStatusFails(arg[a])
    /\ Goto(a, AfterFinalize(a))
    /\ UNCHANGED <<lease, os, mem, arg, op, todo, listed, restarts, abandoned>>

-----------------------------------------------------------------------------
(* maxDurationWatchdog: check under mu, then cancel the context. *)

WatchdogExpires(r) ==
    /\ watchdog[r] = "armed"
    /\ watchdog' = [watchdog EXCEPT ![r] = IF r \in tasks THEN "firing" ELSE "none"]
    /\ UNCHANGED <<db, os, tasks, shuttingDown, start, local, history, budget>>

WatchdogCancels(r) ==
    /\ watchdog[r] = "firing"
    /\ watchdog' = [watchdog EXCEPT ![r] = "none"]
    /\ signalled' = [signalled EXCEPT ![r] = TRUE]
    /\ UNCHANGED <<db, file, proc, tasks, shuttingDown, start, local, history, budget>>

-----------------------------------------------------------------------------
(* stopRecording, run by a client, by the sweep for an expired lease and   *)
(* by Shutdown.                                                            *)

\* stopRecording returns to its caller.
Return(a, ok) ==
    LET deletes == ok /\ a \in Clients /\ op[a] = "delete"
        next == IF a \in {Sweeper, Closer} THEN "stopNext"
                ELSE IF deletes THEN "delFile" ELSE "idle"
    IN  /\ Goto(a, next)
        /\ arg' = [arg EXCEPT ![a] = IF deletes THEN @ ELSE None]
        /\ op' = IF a \in Clients /\ ~deletes THEN [op EXCEPT ![a] = "none"] ELSE op

\* Mutant of StopClaim: the task is looked up and left in the map.
StopClaimKeepsTask(a) ==
    /\ pc[a] = "claim"
    /\ Goto(a, IF arg[a] \in tasks THEN "cancel" ELSE "readRow")
    /\ UNCHANGED <<db, os, mem, arg, op, todo, listed, history, budget>>

\* Under mu: whoever removes the task finalizes the recording.
StopClaim(a) ==
    /\ pc[a] = "claim"
    /\ tasks' = tasks \ {arg[a]}
    /\ Goto(a, IF arg[a] \in tasks THEN "cancel" ELSE "readRow")
    /\ UNCHANGED <<db, os, shuttingDown, start, watchdog, arg, op, todo, listed, history, budget>>

\* No task in memory: unknown ids are an error, a terminal row is a success.
StopReadRow(a) ==
    /\ pc[a] = "readRow"
    /\ IF row[arg[a]] = "recording"
         THEN Goto(a, "markRow") /\ UNCHANGED <<arg, op>>
         ELSE Return(a, row[arg[a]] \in Terminal)
    /\ UNCHANGED <<db, os, mem, todo, listed, history, budget>>

\* The status UPDATE that ends stopRecording, with or without a task.
StopWrites(a) ==
    /\ \/ SetStatus(arg[a], "completed") /\ UNCHANGED dbFaults /\ Return(a, TRUE)
       \/ SetStatusFails(arg[a]) /\ Return(a, FALSE)
    /\ UNCHANGED <<lease, os, mem, todo, listed, restarts, abandoned>>

StopMarkRow(a) == pc[a] = "markRow" /\ StopWrites(a)

StopCancel(a) ==
    /\ pc[a] = "cancel"
    /\ signalled' = [signalled EXCEPT ![arg[a]] = TRUE]
    /\ Goto(a, "wait")
    /\ UNCHANGED <<db, file, proc, mem, arg, op, todo, listed, history, budget>>

\* waitForTaskExit sees the exit, in the first or the second wait.
StopSeesExit(a) ==
    /\ pc[a] \in {"wait", "waitKilled"} /\ Exited(arg[a])
    /\ Goto(a, "complete")
    /\ UNCHANGED <<db, os, mem, arg, op, todo, listed, history, budget>>

\* 5 s passed: the process is killed and waited for again.
StopKills(a) ==
    /\ pc[a] = "wait" /\ ~Exited(arg[a])
    /\ Goto(a, "waitKilled")
    /\ UNCHANGED <<db, os, mem, arg, op, todo, listed, history, budget>>

\* 2 s more: an error is returned, the task is already out of the map.
StopGivesUp(a) ==
    /\ pc[a] = "waitKilled" /\ ~Exited(arg[a])
    /\ abandoned' = abandoned \cup {arg[a]}
    /\ Return(a, FALSE)
    /\ UNCHANGED <<db, os, mem, todo, listed, lost, budget>>

StopComplete(a) == pc[a] = "complete" /\ StopWrites(a)

StopRecordingStep(a) ==
    \/ StopClaim(a) \/ StopReadRow(a) \/ StopMarkRow(a) \/ StopCancel(a)
    \/ StopSeesExit(a) \/ StopKills(a) \/ StopGivesUp(a) \/ StopComplete(a)

-----------------------------------------------------------------------------
(* Clients: POST /recordings/stop, DELETE /recordings/:id, heartbeat. *)

Call(c, r, o, l) ==
    /\ pc[c] = "idle" /\ Known(r)
    /\ Goto(c, l)
    /\ arg' = [arg EXCEPT ![c] = r]
    /\ op' = [op EXCEPT ![c] = o]
    /\ UNCHANGED <<db, os, mem, todo, listed, history, budget>>

ClientStop(c, r) == Call(c, r, "stop", "claim")

\* GetRecording finds the row.
ClientDelete(c, r) == row[r] # "none" /\ Call(c, r, "delete", "delCheck")

\* The row is an active manual session.
ClientHeartbeat(c, r) ==
    /\ row[r] = "recording" /\ lease[r] # "none"
    /\ Call(c, r, "heartbeat", "renew")

Done(c) ==
    /\ Goto(c, "idle")
    /\ arg' = [arg EXCEPT ![c] = None]
    /\ op' = [op EXCEPT ![c] = "none"]

\* UPDATE ... SET heartbeat_at, whatever the status is by now.
HeartbeatRenew(c) ==
    /\ pc[c] = "renew"
    /\ lease' = IF row[arg[c]] = "none" THEN lease ELSE [lease EXCEPT ![arg[c]] = "fresh"]
    /\ Done(c)
    /\ UNCHANGED <<row, os, mem, todo, listed, history, budget>>

DeleteChecksActive(c) ==
    /\ pc[c] = "delCheck"
    /\ Goto(c, IF arg[c] \in tasks THEN "claim" ELSE "delFile")
    /\ UNCHANGED <<db, os, mem, arg, op, todo, listed, history, budget>>

\* A failed removal (Windows: the file is open) is only logged.
DeleteRemovesFile(c) ==
    /\ pc[c] = "delFile"
    /\ \E f \in IF proc[arg[c]] \in {"running", "orphan"}
                  THEN {file[arg[c]], "unlinked"} ELSE {"absent"} :
          file' = [file EXCEPT ![arg[c]] = f]
    /\ Goto(c, "delRow")
    /\ UNCHANGED <<db, proc, signalled, mem, arg, op, todo, listed, history, budget>>

DeleteRemovesRow(c) ==
    /\ pc[c] = "delRow"
    /\ row' = [row EXCEPT ![arg[c]] = "none"]
    /\ lease' = [lease EXCEPT ![arg[c]] = "none"]
    /\ lost' = lost \ {arg[c]}
    /\ Done(c)
    /\ UNCHANGED <<os, mem, todo, listed, budget, abandoned>>

\* 60 s without a renewal; of no interest once the row is terminal.
LeaseLapses(r) ==
    /\ lease[r] = "fresh" /\ row[r] = "recording" /\ start[r] \notin Starting
    /\ lease' = [lease EXCEPT ![r] = "stale"]
    /\ UNCHANGED <<row, os, mem, local, history, budget>>

-----------------------------------------------------------------------------
(* sweepDeadProcesses, every 15 s once startup activated it. *)

\* Mutant of SweepScan: without the processExited check.
SweepScanAll ==
    /\ pc[Sweeper] = "idle" /\ pc[Booter] = "booted"
    /\ todo' = [todo EXCEPT ![Sweeper] = tasks]
    /\ Goto(Sweeper, "sweepNext")
    /\ UNCHANGED <<db, os, mem, arg, op, listed, history, budget>>

SweepScan ==
    /\ pc[Sweeper] = "idle" /\ pc[Booter] = "booted"
    /\ todo' = [todo EXCEPT ![Sweeper] = {r \in tasks : Exited(r)}]
    /\ Goto(Sweeper, "sweepNext")
    /\ UNCHANGED <<db, os, mem, arg, op, listed, history, budget>>

\* The task is finalized only if it is still the sweep that removes it.
SweepClaim(r) ==
    /\ pc[Sweeper] = "sweepNext" /\ r \in todo[Sweeper]
    /\ todo' = [todo EXCEPT ![Sweeper] = @ \ {r}]
    /\ tasks' = tasks \ {r}
    /\ Goto(Sweeper, IF r \in tasks THEN "stat" ELSE "sweepNext")
    /\ arg' = [arg EXCEPT ![Sweeper] = r]
    /\ UNCHANGED <<db, os, shuttingDown, start, watchdog, op, listed, history, budget>>

\* Mutant of SweepLeases: only sessions with a task in memory.
SweepLeasesOfTasks ==
    /\ pc[Sweeper] = "sweepNext" /\ todo[Sweeper] = {}
    /\ todo' = [todo EXCEPT ![Sweeper] =
                  {r \in tasks : row[r] = "recording" /\ lease[r] = "stale"}]
    /\ Goto(Sweeper, "stopNext")
    /\ UNCHANGED <<db, os, mem, arg, op, listed, history, budget>>

\* sweepExpiredManualHeartbeats: the ids are read once, then stopped in turn.
SweepLeases ==
    /\ pc[Sweeper] = "sweepNext" /\ todo[Sweeper] = {}
    /\ todo' = [todo EXCEPT ![Sweeper] =
                  {r \in Recordings : row[r] = "recording" /\ lease[r] = "stale"}]
    /\ Goto(Sweeper, "stopNext")
    /\ UNCHANGED <<db, os, mem, arg, op, listed, history, budget>>

StopNext(a, r) ==
    /\ pc[a] = "stopNext" /\ r \in todo[a]
    /\ todo' = [todo EXCEPT ![a] = @ \ {r}]
    /\ arg' = [arg EXCEPT ![a] = r]
    /\ Goto(a, "claim")
    /\ UNCHANGED <<db, os, mem, op, listed, history, budget>>

StopsDone(a) ==
    /\ pc[a] = "stopNext" /\ todo[a] = {}
    /\ arg' = [arg EXCEPT ![a] = None]
    /\ Goto(a, IF a = Closer THEN "closed" ELSE "idle")
    /\ UNCHANGED <<db, os, mem, op, todo, listed, history, budget>>

-----------------------------------------------------------------------------
(* main after the signal: BeginShutdown, cancel startup and wait for it,   *)
(* then Shutdown.                                                          *)

\* Mutant of BeginShutdown: the flag is set without admissionMu.
BeginShutdownUnlocked ==
    /\ pc[Closer] = "idle"
    /\ shuttingDown' = TRUE
    /\ Goto(Closer, "draining")
    /\ UNCHANGED <<db, os, tasks, start, watchdog, arg, op, todo, listed, history, budget>>

BeginShutdown ==
    /\ pc[Closer] = "idle" /\ AdmissionReaders = {} /\ ~ReconcileHoldsLock
    /\ shuttingDown' = TRUE
    /\ Goto(Closer, "draining")
    /\ UNCHANGED <<db, os, tasks, start, watchdog, arg, op, todo, listed, history, budget>>

CancelStartup ==
    /\ pc[Closer] = "draining"
    /\ Goto(Closer, "joining")
    /\ UNCHANGED <<db, os, mem, arg, op, todo, listed, history, budget>>

WaitStartup ==
    /\ pc[Closer] = "joining" /\ pc[Booter] \in {"booted", "end"}
    /\ Goto(Closer, "shutdown")
    /\ UNCHANGED <<db, os, mem, arg, op, todo, listed, history, budget>>

\* Mutant of ShutdownSnapshot: tasks whose process is gone are left out.
ShutdownSnapshotAlive ==
    /\ pc[Closer] = "shutdown"
    /\ todo' = [todo EXCEPT ![Closer] = {r \in tasks : ~Exited(r)}]
    /\ Goto(Closer, "stopNext")
    /\ UNCHANGED <<db, os, mem, arg, op, listed, history, budget>>

ShutdownSnapshot ==
    /\ pc[Closer] = "shutdown"
    /\ todo' = [todo EXCEPT ![Closer] = tasks]
    /\ Goto(Closer, "stopNext")
    /\ UNCHANGED <<db, os, mem, arg, op, listed, history, budget>>

-----------------------------------------------------------------------------
(* ReconcileLegacyOrphaned, run by startup under the admission lock while  *)
(* the HTTP server already answers.                                        *)

ReconcileList ==
    /\ pc[Booter] = "boot" /\ AdmissionReaders = {}
    /\ listed' = [r \in Recordings |->
                    IF row[r] \in {"recording", "failed"} THEN row[r] ELSE "none"]
    /\ Goto(Booter, "booting")
    /\ UNCHANGED <<db, os, mem, arg, op, todo, history, budget>>

\* Rows with a task are skipped, and rows already failed without a file.
ReconcileSkips(r) ==
    /\ pc[Booter] = "booting" /\ listed[r] # "none"
    /\ r \in tasks \/ (listed[r] = "failed" /\ file[r] # "data")
    /\ listed' = [listed EXCEPT ![r] = "none"]
    /\ UNCHANGED <<db, os, mem, pc, arg, op, todo, history, budget>>

\* os.Stat decides; probing the duration comes before the write.
ReconcileStats(r) ==
    /\ pc[Booter] = "booting" /\ listed[r] # "none" /\ r \notin tasks
    /\ file[r] = "data" \/ listed[r] = "recording"
    /\ Goto(Booter, IF file[r] = "data" THEN "bootCompleted" ELSE "bootFailed")
    /\ arg' = [arg EXCEPT ![Booter] = r]
    /\ UNCHANGED <<db, os, mem, op, todo, listed, history, budget>>

\* The result of this UPDATE is not looked at.
ReconcileWrites ==
    LET r == arg[Booter]
    IN  /\ pc[Booter] \in {"bootCompleted", "bootFailed"}
        /\ \/ /\ SetStatus(r, IF pc[Booter] = "bootCompleted" THEN "completed" ELSE "failed")
              /\ UNCHANGED dbFaults
           \/ SetStatusFails(r)
        /\ listed' = [listed EXCEPT ![r] = "none"]
        /\ arg' = [arg EXCEPT ![Booter] = None]
        /\ Goto(Booter, "booting")
        /\ UNCHANGED <<lease, os, mem, op, todo, restarts, abandoned>>

\* Mutant of ReconcileDone: the retry does not look at the cancellation.
ReconcileDoneRetries ==
    /\ pc[Booter] = "booting" /\ \A r \in Recordings : listed[r] = "none"
    /\ \E l \in {"booted", "boot"} : Goto(Booter, l)
    /\ UNCHANGED <<db, os, mem, arg, op, todo, listed, history, budget>>

\* The lock is released.  Startup activates the sweep, or retries the whole
\* preparation because retention failed, or has been cancelled.
ReconcileDone ==
    /\ pc[Booter] = "booting" /\ \A r \in Recordings : listed[r] = "none"
    /\ \E l \in IF pc[Closer] = "joining" THEN {"end"} ELSE {"booted", "boot"} :
          Goto(Booter, l)
    /\ UNCHANGED <<db, os, mem, arg, op, todo, listed, history, budget>>

\* The preparation failed before this pass, and startup is cancelled.
StartupGivesUp ==
    /\ pc[Booter] = "boot" /\ pc[Closer] = "joining"
    /\ Goto(Booter, "end")
    /\ UNCHANGED <<db, os, mem, arg, op, todo, listed, history, budget>>

-----------------------------------------------------------------------------
(* The server crashes, or main returns (after Shutdown, requests get 15 s  *)
(* to finish and other goroutines nothing), and a new process starts.      *)
(* FFmpeg children outlive it; goroutines and the tasks map do not.        *)

Restart ==
    /\ restarts < MaxRestarts
    /\ restarts' = restarts + 1
    /\ tasks' = {}
    /\ shuttingDown' = FALSE
    /\ start' = [r \in Recordings |-> IF start[r] \in Starting THEN "failed" ELSE start[r]]
    /\ watchdog' = [r \in Recordings |-> "none"]
    /\ proc' = [r \in Recordings |-> IF proc[r] = "running" THEN "orphan"
                                      ELSE IF proc[r] = "exited" THEN "reaped" ELSE proc[r]]
    /\ signalled' = [r \in Recordings |-> FALSE]
    /\ pc' = FreshPc
    /\ arg' = [a \in Actors |-> None]
    /\ op' = [c \in Clients |-> "none"]
    /\ todo' = [a \in {Sweeper, Closer} |-> {}]
    /\ listed' = [r \in Recordings |-> "none"]
    /\ lost' = lost \cup {r \in Recordings : row[r] = "recording"}
    /\ UNCHANGED <<row, lease, file, abandoned, dbFaults>>

-----------------------------------------------------------------------------
StartRecordingStep(r) ==
    StartSpawn(r) \/ StartFail(r) \/ StartRegister(r) \/ StartLaunch(r)

WatchTaskStep(r) == WatchReap(r) \/ WatchClaim(r)

FinalizeStep(a) == FinalizeStat(a) \/ FinalizeCompleted(a) \/ FinalizeFailed(a)

DeleteRecordingStep(c) ==
    DeleteChecksActive(c) \/ DeleteRemovesFile(c) \/ DeleteRemovesRow(c)

SweepStep ==
    SweepScan \/ (\E r \in Recordings : SweepClaim(r)) \/ SweepLeases

StopAllStep(a) == (\E r \in Recordings : StopNext(a, r)) \/ StopsDone(a)

ShutdownStep == CancelStartup \/ WaitStartup \/ ShutdownSnapshot

ReconcileStep ==
    \/ ReconcileList \/ ReconcileWrites \/ ReconcileDone \/ StartupGivesUp
    \/ \E r \in Recordings : ReconcileSkips(r) \/ ReconcileStats(r)

Next ==
    \/ \E r \in Recordings :
          \/ StartCreate(r) \/ StartRecordingStep(r)
          \/ ProcWrites(r) \/ ProcExits(r)
          \/ WatchTaskStep(r) \/ FinalizeStep(r)
          \/ WatchdogExpires(r) \/ WatchdogCancels(r)
          \/ LeaseLapses(r)
    \/ \E c \in Clients :
          \/ \E r \in Recordings : ClientStop(c, r) \/ ClientDelete(c, r) \/ ClientHeartbeat(c, r)
          \/ StopRecordingStep(c) \/ HeartbeatRenew(c) \/ DeleteRecordingStep(c)
    \/ \E a \in {Sweeper, Closer} : StopRecordingStep(a) \/ StopAllStep(a)
    \/ SweepStep \/ FinalizeStep(Sweeper)
    \/ BeginShutdown \/ ShutdownStep
    \/ ReconcileStep
    \/ Restart

Spec == Init /\ [][Next]_vars

(***************************************************************************)
(* Fairness.  A goroutine that can take its next step eventually does, and *)
(* a killed process eventually exits.  Nobody is obliged to start, stop,   *)
(* delete or renew anything, to write, to expire or to shut down, and a    *)
(* timed wait may end either way.                                          *)
(***************************************************************************)
Fairness ==
    /\ \A r \in Recordings :
          /\ WF_vars(StartRecordingStep(r))
          /\ WF_vars(WatchTaskStep(r)) /\ WF_vars(FinalizeStep(r))
          /\ WF_vars(WatchdogCancels(r))
          /\ WF_vars(signalled[r] /\ ProcExits(r))
    /\ \A c \in Clients :
          WF_vars(StopRecordingStep(c) \/ HeartbeatRenew(c) \/ DeleteRecordingStep(c))
    /\ \A a \in {Sweeper, Closer} : WF_vars(StopRecordingStep(a) \/ StopAllStep(a))
    /\ WF_vars(SweepStep \/ FinalizeStep(Sweeper))
    /\ WF_vars(ShutdownStep)
    /\ WF_vars(ReconcileStep)

FairSpec == Spec /\ Fairness

-----------------------------------------------------------------------------
(* Properties *)

\* Of all the goroutines that may end a session (its watcher, a stop request,
\* the sweep, Shutdown) at most one has taken its task out of the map, and
\* only once it is out: no two of them wait for, kill and finalize it.
OneClaimant ==
    \A r \in Recordings :
       /\ \A a, b \in Claimants(r) : a = b
       /\ r \in tasks => Claimants(r) = {}

\* A running FFmpeg child always has somebody who will stop or reap it: the
\* StartRecording call that spawned it, its entry in the map, or the
\* goroutine that claimed it; unless a stop gave up on it.
ProcessAccounted ==
    \A r \in Recordings : proc[r] = "running" =>
       \/ start[r] = "spawned" \/ r \in tasks
       \/ Claimants(r) # {} \/ r \in abandoned

\* A row that says "recording" is one that somebody will still finalize, or
\* one that a failed write, a crash or an unkillable process left behind.
RowAccounted ==
    \A r \in Recordings : row[r] = "recording" =>
       \/ start[r] \in {"created", "spawned"} \/ r \in tasks
       \/ Claimants(r) # {} \/ r \in lost \cup abandoned

\* Once BeginShutdown returned no new FFmpeg child appears: StartRecording
\* checks the flag under the lock it holds until the child is registered.
NoSpawnAfterShutdown ==
    [][\A r \in Recordings : shuttingDown /\ proc'[r] = "running" => proc[r] = "running"]_vars

\* When Shutdown returns no task is registered: nothing was added after its
\* snapshot of the map and everything in it was claimed.
ShutdownDrainsTasks == pc[Closer] = "closed" => tasks = {}

\* The session of a process that is gone does not stay "recording", whoever
\* stops, deletes or sweeps it meanwhile.
DeadProcessFinalized ==
    \A r \in Recordings :
       (proc[r] \in {"exited", "reaped"} /\ row[r] = "recording")
          ~> (row[r] # "recording" \/ r \in lost \cup abandoned)

\* A manual session whose client stopped renewing ends, even when an earlier
\* stop of it failed, unless the client renews it or the server shuts down.
LeaseEnds ==
    \A r \in Recordings :
       (row[r] = "recording" /\ lease[r] = "stale" /\ pc[Booter] = "booted")
          ~> (row[r] # "recording" \/ lease[r] = "fresh" \/ shuttingDown)

\* BeginShutdown is followed by the end of Shutdown: it waits neither for a
\* startup that keeps retrying nor for a process that will not die.
ShutdownEnds == shuttingDown ~> (pc[Closer] = "closed" \/ ~shuttingDown)

(* What comments and plans of the repository say, and the code does not do. *)

\* recorder.go:237: Shutdown updates the rows, so that no "recording" orphan
\* is left for the next start.
ShutdownLeavesNoOrphan ==
    [][pc[Closer] = "closed" /\ restarts' # restarts =>
          \A r \in Recordings : row[r] = "recording" => r \in lost \cup abandoned]_vars

\* recorder.go:1268: a session that is recording is stopped before its file
\* is removed.
DeleteStopsFirst ==
    [][\A c \in Clients : pc[c] = "delFile" /\ pc'[c] = "delRow" =>
          proc[arg[c]] # "running" \/ start[arg[c]] # "started"]_vars

\* docs/superpowers/plans/2026-08-07-recording-stop-lifecycle.md:7: exactly one
\* path finalizes; so, startup recovery apart, a terminal status never changes.
FinalizedOnce ==
    [][\A r \in Recordings :
          row[r] \in Terminal /\ start[r] = "started" /\ ~ReconcileHoldsLock =>
             row'[r] \in {row[r], "none"}]_vars
=============================================================================
