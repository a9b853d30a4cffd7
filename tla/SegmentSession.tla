--------------------------- MODULE SegmentSession ---------------------------
(***************************************************************************)
(* One segmented session (RTSP, scheduled) of the recorder, from the       *)
(* return of StartRecording on: recording_segmenter.go's supervisor with   *)
(* its four goroutines (waitForProcess, scanLoop, stopProcess and the      *)
(* recorder's watchSegmentTask), the sweep that retries a failed           *)
(* finalization, callers that stop or delete the session, and the          *)
(* ReconcileSegments pass of startup.  FFmpeg writes segment files         *)
(* 1, 2, ... in name order, the last one being the one it has open.        *)
(* A step is one database statement or transaction, one reading of the     *)
(* directory, or one critical section of mu.                               *)
(***************************************************************************)
EXTENDS Naturals, FiniteSetsExt

CONSTANTS
    Callers,        \* goroutines of stop and delete requests, the scheduler, Shutdown
    Watcher,        \* watchSegmentTask
    Sweeper,        \* sweepLoop
    Booter,         \* startRecordingSubsystems
    MaxFiles,       \* bound on the segments FFmpeg writes
    MaxFaults,      \* bound on failed reads, writes, removals and kills
    MaxRestarts     \* bound on restarts of the server

ASSUME DistinctActors ==
    /\ Watcher # Sweeper /\ Watcher # Booter /\ Sweeper # Booter
    /\ {Watcher, Sweeper, Booter} \cap Callers = {}
    /\ "scanLoop" \notin {Watcher, Sweeper, Booter} \cup Callers
ASSUME Bounds == MaxFiles \in Nat /\ MaxFaults \in Nat /\ MaxRestarts \in Nat

Finalizers == {Watcher, Sweeper}
Actors     == Callers \cup Finalizers \cup {Booter}
Segments   == 1..MaxFiles

VARIABLES
    row,          \* recordings.status; "none": the row was deleted
    index,        \* segments with a row in recording_segments
    playable,     \* those whose row says completed
    dir, disk,    \* the session directory exists; the segment files in it
    open,         \* the last segment FFmpeg created, 0 before the first
    proc,         \* the FFmpeg child
    killed,       \* it was sent a kill
    waiter,       \* waitForProcess: in cmd.Wait, in scanWG.Wait, done closed
    scanner,      \* scanLoop: between scans, inside one, returned
    mapped,       \* RecorderService.tasks holds the task
    finalizing,   \* task.finalizing
    closings,     \* times task.finalized was closed; the second one panics
    stopper,      \* the goroutine stopOnce starts
    stopErr,      \* supervisor.stopErr # nil
    pc,           \* where each actor is
    seen,         \* the unindexed segments a scan in progress has found
    verdict,      \* the status a finalization in progress will write
    op, result,   \* what a caller is doing, how its last stop ended
    rowSeen,      \* the status ReconcileSegments has loaded
    faults, restarts

db      == <<row, index, playable>>
disks   == <<dir, disk, open>>
child   == <<proc, killed>>
super   == <<waiter, scanner, stopper, stopErr>>
task    == <<mapped, finalizing, closings>>
work    == <<pc, verdict, op, result, rowSeen>>
budget  == <<faults, restarts>>

vars    == <<row, index, playable, dir, disk, open, proc, killed, waiter, scanner, stopper,
            stopErr, mapped, finalizing, closings, pc, verdict, op, result, rowSeen, seen,
            faults, restarts>>

Terminal  == {"completed", "failed"}
Finishing == {"scan", "store", "count", "write", "close"}
Labels    == Finishing \cup {"idle", "end", "watch", "claim", "stopWait", "finalWait", "readRow",
                             "delFiles", "delRows", "boot", "bootCheck", "booted"}

TypeOK ==
    /\ row \in {"none", "recording"} \cup Terminal
    /\ index \in SUBSET Segments /\ playable \in SUBSET index
    /\ dir \in BOOLEAN /\ disk \in SUBSET Segments /\ open \in 0..MaxFiles
    /\ disk \in SUBSET (1..open) /\ (~dir => disk = {})
    /\ proc \in {"running", "exited", "reaped", "orphan"} /\ killed \in BOOLEAN
    /\ waiter \in {"wait", "scanWait", "closed", "none"}
    /\ scanner \in {"idle", "listed", "ended"}
    /\ stopper \in {"none", "request", "grace", "reap", "finished"}
    /\ stopErr \in BOOLEAN
    /\ mapped \in BOOLEAN /\ finalizing \in BOOLEAN /\ closings \in 0..2
    /\ pc \in [Actors -> Labels]
    /\ seen \in [Actors \cup {"scanLoop"} -> SUBSET Segments]
    /\ verdict \in [Actors -> Terminal]
    /\ op \in [Callers -> {"none", "stop", "delete"}]
    /\ result \in [Callers -> {"none", "ok", "error"}]
    /\ rowSeen \in {"none", "recording"} \cup Terminal
    /\ faults \in 0..MaxFaults /\ restarts \in 0..MaxRestarts

\* The task is in the map and its goroutines run; startup may still be
\* reconciling, for requests are served meanwhile.
Init ==
    /\ row = "recording" /\ index = {} /\ playable = {}
    /\ dir = TRUE /\ disk = {} /\ open = 0
    /\ proc = "running" /\ killed = FALSE
    /\ waiter = "wait" /\ scanner = "idle" /\ stopper = "none" /\ stopErr = FALSE
    /\ mapped = TRUE /\ finalizing = FALSE /\ closings = 0
    /\ \E b \in {"boot", "booted"} :
          pc = [a \in Actors |-> IF a = Watcher THEN "watch" ELSE IF a = Booter THEN b ELSE "idle"]
    /\ seen = [a \in Actors \cup {"scanLoop"} |-> {}]
    /\ verdict = [a \in Actors |-> "failed"]
    /\ op = [c \in Callers |-> "none"] /\ result = [c \in Callers |-> "none"]
    /\ rowSeen = "none"
    /\ faults = 0 /\ restarts = 0

Goto(a, l) == pc' = [pc EXCEPT ![a] = l]

Fault == faults < MaxFaults /\ faults' = faults + 1

-----------------------------------------------------------------------------
(* FFmpeg and the goroutine that waits for it. *)

ProcWrites ==
    /\ proc \in {"running", "orphan"} /\ dir /\ open < MaxFiles
    /\ open' = open + 1
    /\ disk' = disk \cup {open + 1}
    /\ UNCHANGED <<db, dir, child, super, task, work, seen, budget>>

ProcExits ==
    /\ proc \in {"running", "orphan"}
    /\ proc' = IF proc = "running" THEN "exited" ELSE "reaped"
    /\ UNCHANGED <<db, disks, killed, super, task, work, seen, budget>>

\* cmd.Wait returns and the scan loop is cancelled.
WaitReaps ==
    /\ waiter = "wait" /\ proc = "exited"
    /\ proc' = "reaped"
    /\ waiter' = "scanWait"
    /\ UNCHANGED <<db, disks, killed, scanner, stopper, stopErr, task, work, seen, budget>>

WaitCloses ==
    /\ waiter = "scanWait" /\ scanner = "ended"
    /\ waiter' = "closed"
    /\ UNCHANGED <<db, disks, child, scanner, stopper, stopErr, task, work, seen, budget>>

-----------------------------------------------------------------------------
(* scanCompleted: list the directory and the known rows, probe the rest,   *)
(* store them in one transaction.  Conflicting paths are left alone.       *)

\* Mutant of Listing: a scan of a running session takes every file.
ListingWithOpen(final) == disk

\* The last file may still be open, unless this is the final scan.
Listing(final) == IF final \/ disk = {} THEN disk ELSE disk \ {Max(disk)}

\* A file of the listing may be gone by the time it is opened.
Stores(segments) ==
    /\ index' = index \cup segments
    /\ \E new \in SUBSET (segments \ index) : playable' = playable \cup new

\* Reading the directory, probing or storing fails.
ScanFails(segments) ==
    \/ Fault
    \/ segments \ disk # {} /\ UNCHANGED faults

ScanList ==
    /\ scanner = "idle" /\ waiter # "none"
    /\ scanner' = "listed"
    /\ seen' = [seen EXCEPT !["scanLoop"] = Listing(FALSE) \ index]
    /\ UNCHANGED <<db, disks, child, waiter, stopper, stopErr, task, work, budget>>

\* An error is logged; the next tick scans again.
ScanStore ==
    /\ scanner = "listed"
    /\ scanner' = "idle"
    /\ \/ Stores(seen["scanLoop"]) /\ UNCHANGED faults
       \/ ScanFails(seen["scanLoop"]) /\ UNCHANGED <<index, playable>>
    /\ seen' = [seen EXCEPT !["scanLoop"] = {}]
    /\ UNCHANGED <<row, disks, child, waiter, stopper, stopErr, task, work, restarts>>

\* Both channels may be ready: select picks either.
ScannerEnds ==
    /\ scanner = "idle" /\ waiter = "scanWait"
    /\ scanner' = "ended"
    /\ UNCHANGED <<db, disks, child, waiter, stopper, stopErr, task, work, seen, budget>>

-----------------------------------------------------------------------------
(* stopProcess: ask, wait for a grace period, kill, wait. *)

\* Writing to the pipe of a process that is gone is an error.
StopRequests ==
    /\ stopper = "request"
    /\ stopper' = "grace"
    /\ stopErr' = (proc # "running")
    /\ UNCHANGED <<db, disks, child, waiter, scanner, task, work, seen, budget>>

StopSeesDone ==
    /\ stopper \in {"grace", "reap"} /\ waiter = "closed"
    /\ stopper' = "finished"
    /\ UNCHANGED <<db, disks, child, waiter, scanner, stopErr, task, work, seen, budget>>

\* Mutant of StopKills: the grace period ends without a kill.
StopKillsNothing ==
    /\ stopper = "grace" /\ waiter # "closed"
    /\ stopper' = "reap"
    /\ UNCHANGED <<db, disks, child, waiter, scanner, stopErr, task, work, seen, budget>>

\* The grace period is over.  A kill that fails ends the stop, for good.
StopKills ==
    /\ stopper = "grace" /\ waiter # "closed"
    /\ \/ /\ stopper' = "reap"
          /\ killed' = (killed \/ proc = "running")
          /\ UNCHANGED <<stopErr, faults>>
       \/ /\ proc = "running" /\ Fault
          /\ stopper' = "finished" /\ stopErr' = TRUE
          /\ UNCHANGED killed
    /\ UNCHANGED <<db, disks, proc, waiter, scanner, task, work, seen, restarts>>

-----------------------------------------------------------------------------
(* finalizeSegmentTask, by the watcher or by the sweep. *)

\* Mutant of FinalizeBegins: the sweep does not look at task.finalizing.
FinalizeBeginsUnguarded(a) ==
    /\ waiter = "closed" /\ mapped
    /\ pc[a] = IF a = Watcher THEN "watch" ELSE "idle"
    /\ a = Sweeper => pc[Booter] = "booted"
    /\ finalizing' = TRUE
    /\ Goto(a, "scan")
    /\ UNCHANGED <<db, disks, child, super, mapped, closings, verdict, op, result, rowSeen, seen, budget>>

FinalizeBegins(a) ==
    /\ waiter = "closed" /\ mapped /\ ~finalizing
    /\ pc[a] = IF a = Watcher THEN "watch" ELSE "idle"
    /\ a = Sweeper => pc[Booter] = "booted"
    /\ finalizing' = TRUE
    /\ Goto(a, "scan")
    /\ UNCHANGED <<db, disks, child, super, mapped, closings, verdict, op, result, rowSeen, seen, budget>>

\* Somebody else finalizes, or has finalized.
WatcherYields ==
    /\ pc[Watcher] = "watch" /\ waiter = "closed" /\ (finalizing \/ ~mapped)
    /\ Goto(Watcher, "end")
    /\ UNCHANGED <<db, disks, child, super, task, verdict, op, result, rowSeen, seen, budget>>

\* Where an actor goes when its finalization fails: the watcher is gone, the
\* sweep tries again, startup retries, a request fails.
FailTo(a) == CASE a = Watcher -> "end" [] a = Booter -> "boot" [] OTHER -> "idle"

\* Mutant of GivesUp: task.finalizing stays set after an error.
GivesUpHolding(a) ==
    /\ Goto(a, FailTo(a))
    /\ result' = IF a \in Callers THEN [result EXCEPT ![a] = "error"] ELSE result
    /\ op' = IF a \in Callers THEN [op EXCEPT ![a] = "none"] ELSE op
    /\ UNCHANGED finalizing

GivesUp(a) ==
    /\ Goto(a, FailTo(a))
    /\ result' = IF a \in Callers THEN [result EXCEPT ![a] = "error"] ELSE result
    /\ op' = IF a \in Callers THEN [op EXCEPT ![a] = "none"] ELSE op
    /\ finalizing' = (finalizing /\ a \notin Finalizers)

\* A final scan: by a finalizer, by recoverSegmentedRecording, or the listing
\* of reconcileSegmentDirectory; without a directory only the last goes on.
FinalList(a) ==
    /\ pc[a] = "scan"
    /\ \/ /\ dir \/ a = Booter
          /\ seen' = [seen EXCEPT ![a] = Listing(TRUE) \ index]
          /\ Goto(a, "store")
          /\ UNCHANGED <<op, result, finalizing, faults>>
       \/ /\ Fault \/ (~dir /\ a # Booter /\ UNCHANGED faults)
          /\ GivesUp(a)
          /\ UNCHANGED seen
    /\ UNCHANGED <<db, disks, child, super, mapped, closings, verdict, rowSeen, restarts>>

FinalStore(a) ==
    /\ pc[a] = "store" /\ a # Booter
    /\ \/ /\ Stores(seen[a])
          /\ Goto(a, "count")
          /\ UNCHANGED <<op, result, finalizing, faults>>
       \/ /\ ScanFails(seen[a])
          /\ GivesUp(a)
          /\ UNCHANGED <<index, playable>>
    /\ seen' = [seen EXCEPT ![a] = {}]
    /\ UNCHANGED <<row, disks, child, super, mapped, closings, verdict, rowSeen, restarts>>

\* Mutant of Verdict: any indexed segment makes the session completed.
VerdictAnySegment == IF index = {} THEN "failed" ELSE "completed"

Verdict == IF playable = {} THEN "failed" ELSE "completed"

\* finalizeSegmentedRecording loads the row and counts playable segments.
FinalCount(a) ==
    /\ pc[a] = "count"
    /\ \/ /\ row # "none" \/ a = Booter
          /\ verdict' = [verdict EXCEPT ![a] = Verdict]
          /\ Goto(a, "write")
          /\ UNCHANGED <<op, result, finalizing, faults>>
       \/ /\ Fault \/ (row = "none" /\ a # Booter /\ UNCHANGED faults)
          /\ GivesUp(a)
          /\ UNCHANGED verdict
    /\ UNCHANGED <<db, disks, child, super, mapped, closings, rowSeen, seen, restarts>>

\* Where an actor goes when the row is written.
WrittenTo(a) == CASE a \in Finalizers -> "close" [] a = Booter -> "booted"
                  [] OTHER -> IF op[a] = "delete" THEN "delFiles" ELSE "idle"

Succeeds(c) == result' = [result EXCEPT ![c] = "ok"]

FinalWrite(a) ==
    /\ pc[a] = "write"
    /\ \/ /\ row' = IF row = "none" THEN row ELSE verdict[a]
          /\ Goto(a, WrittenTo(a))
          /\ IF a \in Callers
                THEN /\ Succeeds(a)
                     /\ op' = [op EXCEPT ![a] = IF @ = "stop" THEN "none" ELSE @]
                ELSE UNCHANGED <<op, result>>
          /\ UNCHANGED <<finalizing, faults>>
       \/ Fault /\ GivesUp(a) /\ UNCHANGED row
    /\ UNCHANGED <<index, playable, disks, child, super, mapped, closings, verdict, rowSeen, seen,
                  restarts>>

\* The task leaves the map and whoever waits for the stop is released.
FinalClose(a) ==
    /\ pc[a] = "close"
    /\ mapped' = FALSE
    /\ closings' = closings + 1
    /\ Goto(a, IF a = Watcher THEN "end" ELSE "idle")
    /\ UNCHANGED <<db, disks, child, super, finalizing, verdict, op, result, rowSeen, seen, budget>>

-----------------------------------------------------------------------------
(* stopRecording and DeleteRecording. *)

Stop(c) ==
    /\ pc[c] = "idle"
    /\ op' = [op EXCEPT ![c] = "stop"]
    /\ Goto(c, "claim")
    /\ UNCHANGED <<db, disks, child, super, task, verdict, result, rowSeen, seen, budget>>

\* The row is loaded, and the map consulted.
Delete(c) ==
    /\ pc[c] = "idle" /\ row # "none"
    /\ op' = [op EXCEPT ![c] = "delete"]
    /\ Goto(c, IF mapped THEN "claim" ELSE "delFiles")
    /\ UNCHANGED <<db, disks, child, super, task, verdict, result, rowSeen, seen, budget>>

\* The task is only marked; the first stop starts stopProcess.
StopClaims(c) ==
    /\ pc[c] = "claim"
    /\ Goto(c, IF mapped THEN "stopWait" ELSE "readRow")
    /\ stopper' = IF mapped /\ stopper = "none" THEN "request" ELSE stopper
    /\ UNCHANGED <<db, disks, child, waiter, scanner, stopErr, task, verdict, op, result, rowSeen,
                  seen, budget>>

\* A stop ends, well or not; a delete goes on only if it ended well.
StopReturns(c, ok) ==
    /\ result' = [result EXCEPT ![c] = IF ok THEN "ok" ELSE "error"]
    /\ op' = [op EXCEPT ![c] = IF ok /\ @ = "delete" THEN @ ELSE "none"]
    /\ Goto(c, IF ok /\ op[c] = "delete" THEN "delFiles" ELSE "idle")

\* Mutant of StopWaits: a stop returns once FFmpeg is gone.
StopWaitsForExit(c) ==
    /\ pc[c] = "stopWait"
    /\ stopper = "finished"
    /\ StopReturns(c, ~stopErr)
    /\ UNCHANGED <<db, disks, child, super, task, verdict, rowSeen, seen, budget>>

\* Wait for stopProcess, at most until the context of the call expires.
StopWaits(c) ==
    /\ pc[c] = "stopWait"
    /\ \/ stopper = "finished" /\ ~stopErr /\ Goto(c, "finalWait") /\ UNCHANGED <<op, result>>
       \/ stopper = "finished" /\ stopErr /\ StopReturns(c, FALSE)
       \/ StopReturns(c, FALSE)
    /\ UNCHANGED <<db, disks, child, super, task, verdict, rowSeen, seen, budget>>

StopWaitsFinal(c) ==
    /\ pc[c] = "finalWait"
    /\ \/ closings > 0 /\ StopReturns(c, TRUE)
       \/ StopReturns(c, FALSE)
    /\ UNCHANGED <<db, disks, child, super, task, verdict, rowSeen, seen, budget>>

\* No task: a terminal row is a success, otherwise recoverSegmentedRecording.
StopReadsRow(c) ==
    /\ pc[c] = "readRow"
    /\ IF row = "recording"
         THEN Goto(c, "scan") /\ UNCHANGED <<op, result>>
         ELSE StopReturns(c, row # "none")
    /\ UNCHANGED <<db, disks, child, super, task, verdict, rowSeen, seen, budget>>

\* Every file and the directory; a file that cannot be removed ends the call,
\* and so does one that an FFmpeg without a server adds meanwhile.
DeleteRemovesFiles(c) ==
    /\ pc[c] = "delFiles"
    /\ \/ disk' = {} /\ dir' = FALSE /\ Goto(c, "delRows") /\ UNCHANGED <<op, result, faults>>
       \/ /\ Fault \/ (proc = "orphan" /\ UNCHANGED faults)
          /\ disk' \in SUBSET disk /\ UNCHANGED dir
          /\ StopReturns(c, FALSE)
    /\ UNCHANGED <<db, open, child, super, task, verdict, rowSeen, seen, restarts>>

DeleteRemovesRows(c) ==
    /\ pc[c] = "delRows"
    /\ \/ row' = "none" /\ index' = {} /\ playable' = {} /\ UNCHANGED faults
       \/ Fault /\ UNCHANGED db
    /\ op' = [op EXCEPT ![c] = "none"]
    /\ Goto(c, "idle")
    /\ UNCHANGED <<disks, child, super, task, verdict, result, rowSeen, seen, restarts>>

-----------------------------------------------------------------------------
(* ReconcileSegments for this session: load the row, skip a registered     *)
(* task, list and store, count and write if the row said recording.        *)

BootLoads ==
    /\ pc[Booter] = "boot"
    /\ rowSeen' = row
    /\ Goto(Booter, IF row = "none" THEN "booted" ELSE "bootCheck")
    /\ UNCHANGED <<db, disks, child, super, task, verdict, op, result, seen, budget>>

BootChecks ==
    /\ pc[Booter] = "bootCheck"
    /\ Goto(Booter, IF mapped THEN "booted" ELSE "scan")
    /\ UNCHANGED <<db, disks, child, super, task, verdict, op, result, rowSeen, seen, budget>>

\* Rows without a file become failed, the others are probed again, unindexed
\* files get a row each; an error leaves what was written before it.
BootStores ==
    /\ pc[Booter] = "store"
    /\ LET probed == (index \cap disk) \cup seen[Booter]
       IN  \/ /\ index' = index \cup seen[Booter]
              /\ playable' \in SUBSET probed
              /\ Goto(Booter, IF rowSeen = "recording" THEN "count" ELSE "booted")
              /\ UNCHANGED faults
           \/ /\ ScanFails(seen[Booter])
              /\ \E some \in SUBSET seen[Booter] :
                    /\ index' = index \cup some
                    /\ playable' \in SUBSET (playable \cup (index \cap disk) \cup some)
              /\ Goto(Booter, "boot")
    /\ seen' = [seen EXCEPT ![Booter] = {}]
    /\ UNCHANGED <<row, disks, child, super, task, verdict, op, result, rowSeen, restarts>>

\* The server ends and starts again; FFmpeg and what is stored stay.
Restart ==
    /\ restarts < MaxRestarts
    /\ restarts' = restarts + 1
    /\ proc' = CASE proc = "running" -> "orphan" [] proc = "exited" -> "reaped" [] OTHER -> proc
    /\ waiter' = "none" /\ scanner' = "ended" /\ stopper' = "none" /\ stopErr' = FALSE
    /\ mapped' = FALSE /\ finalizing' = FALSE /\ closings' = 0
    /\ pc' = [a \in Actors |-> IF a = Watcher THEN "end" ELSE IF a = Booter THEN "boot" ELSE "idle"]
    /\ seen' = [a \in Actors \cup {"scanLoop"} |-> {}]
    /\ verdict' = [a \in Actors |-> "failed"]
    /\ op' = [c \in Callers |-> "none"] /\ result' = [c \in Callers |-> "none"]
    /\ rowSeen' = "none"
    /\ UNCHANGED <<db, disks, killed, faults>>

-----------------------------------------------------------------------------
WaitStep == WaitReaps \/ WaitCloses

StopProcessStep == StopRequests \/ StopSeesDone \/ StopKills

FinalStep(a) == FinalList(a) \/ FinalStore(a) \/ FinalCount(a) \/ FinalWrite(a) \/ FinalClose(a)

FinalizerStep(a) == FinalizeBegins(a) \/ FinalStep(a)

CallerStep(c) ==
    \/ StopClaims(c) \/ StopWaits(c) \/ StopWaitsFinal(c) \/ StopReadsRow(c)
    \/ DeleteRemovesFiles(c) \/ DeleteRemovesRows(c) \/ FinalStep(c)

BootStep == BootLoads \/ BootChecks \/ BootStores \/ FinalStep(Booter)

Next ==
    \/ ProcWrites \/ ProcExits
    \/ WaitStep
    \/ ScanList \/ ScanStore \/ ScannerEnds
    \/ StopProcessStep
    \/ WatcherYields
    \/ \E a \in Finalizers : FinalizerStep(a)
    \/ \E c \in Callers : Stop(c) \/ Delete(c) \/ CallerStep(c)
    \/ BootStep
    \/ Restart

Spec == Init /\ [][Next]_vars

(***************************************************************************)
(* Goroutines run; a killed process exits; a select between a tick and a   *)
(* cancelled context does not choose the tick for ever.  FFmpeg need not   *)
(* write nor heed the request, callers need not call.                      *)
(***************************************************************************)
Fairness ==
    /\ WF_vars(killed /\ ProcExits)
    /\ WF_vars(WaitStep) /\ WF_vars(StopProcessStep)
    /\ WF_vars(ScanStore) /\ SF_vars(ScannerEnds)
    /\ \A a \in Finalizers : WF_vars(FinalizerStep(a))
    /\ \A c \in Callers : WF_vars(CallerStep(c))
    /\ WF_vars(BootStep)

FairSpec == Spec /\ Fairness

-----------------------------------------------------------------------------
(* Properties *)

\* task.finalized is closed at most once (a second close would panic and end
\* the server), though the watcher and every sweep may try to finalize.
ClosedOnce == closings <= 1

\* The final scan never overlaps a scan of the loop: waitForProcess closes
\* done only after the loop has returned.
ScansApart == \A a \in Finalizers : pc[a] \in {"scan", "store"} => scanner = "ended"

\* A session has one finalizer: nobody closes finalized a second time, and
\* nobody indexes files while the loop still does.
FinalizedAlone == ClosedOnce /\ ScansApart

\* While the server's own FFmpeg runs, the segment it has open has no row:
\* what the archive lists is finished.
OpenSegmentUnindexed == proc = "running" => open \notin index

\* A stop that reports success has left a terminal row, a dead FFmpeg and an
\* index of every file, whichever goroutine did the work; after a restart
\* only the row is sure, since FFmpeg may have outlived its server.
StopMeansFinal ==
    [][\A c \in Callers :
          /\ pc[c] \in {"stopWait", "finalWait", "readRow", "write"}
          /\ pc'[c] \in {"idle", "delFiles"} /\ result'[c] = "ok"
          => /\ row' # "recording"
             /\ restarts = 0 => proc # "running" /\ disk \subseteq index]_vars

\* The rows fit the files.  Until a restart, after which a recovering stop and
\* startup may count and store side by side, the status that ends a session
\* is "completed" exactly when it has a playable segment at that moment:
\* nothing is stored between the count and the write.  And, restart or not,
\* a deleted recording stays deleted and no listing made since finds a file of
\* it: the rows it may get back are those of files that startup's pass, or a
\* stop that recovers the session, had listed before.
RowsFit ==
    [][/\ row = "recording" /\ row' \in Terminal /\ restarts = 0 =>
             (row' = "completed" <=> playable # {})
       /\ row = "none" =>
             /\ row' = "none"
             /\ index' \subseteq index \cup UNION {seen[a] : a \in Callers \cup {Booter}}
             /\ \A a \in DOMAIN seen : seen'[a] \subseteq seen[a]]_vars

\* Files of a deleted session do not come back, whatever restarts there are
\* and although an FFmpeg that outlived its server goes on writing.  Its rows
\* do not come back while the server that recorded it lives, since no scan or
\* finalization was still under way when it was deleted; after a restart they
\* may, for neither startup's pass nor a recovering stop looks whether the
\* recording is still there when it stores what it has probed (see RowsFit).
DeletedStaysDeleted ==
    row = "none" => /\ disk = {} /\ ~dir
                    /\ restarts = 0 => index = {}

\* What the archive lists is there, finished and wanted.
ArchiveSound == TypeOK /\ OpenSegmentUnindexed /\ DeletedStaysDeleted

\* A session whose FFmpeg is gone ends, even when the watcher's finalization
\* failed: the sweep takes it up.
SessionEnds == proc # "running" ~> row # "recording"

\* A stop request ends FFmpeg, by the request or by the kill after the grace
\* period, unless the kill itself fails.
StopTakesEffect == stopper = "request" ~> (proc # "running" \/ (stopper = "finished" /\ stopErr))
=============================================================================
