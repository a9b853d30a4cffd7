----------------------------- MODULE Retention ------------------------------
(***************************************************************************)
(* The files and rows of segmented recordings of one camera, over restarts *)
(* of the server: ReconcileSegments and RunRetentionOnce of                *)
(* internal/service/recording_retention.go, in the order of                *)
(* cmd/server/main.go, with DeleteRecording of recorder.go, the scans of   *)
(* recording_segmenter.go and files removed by others.  Module             *)
(* SegmentSession has the threads of one session; here a session writes,   *)
(* scans and ends, and its files are numbered in the order of their names, *)
(* which is that of their times.  An FFmpeg that outlives its server goes  *)
(* on writing files, which nobody scans.                                   *)
(***************************************************************************)
EXTENDS Integers, Sequences, FiniteSets, Playback

CONSTANTS
    MaxSessions, MaxSegments,   \* bounds on sessions and files
    Quota,                      \* files above which the disk is to be cleaned
    Full,                       \* files from which no session is admitted
    MaxRestarts,                \* bound on restarts of the server
    MaxLate,                    \* bound on files no pass has listed
    MaxMishaps                  \* bound on failing calls, deletions and files
                                \* removed by others, taken together

ASSUME RetentionBounds ==
    {MaxSessions, MaxSegments, Quota, Full, MaxRestarts, MaxLate, MaxMishaps} \subseteq Nat

VARIABLES
    status,      \* Recording.Status of each session
    task,        \* RecorderService.tasks: none, its FFmpeg runs, or has ended
    orphans,     \* sessions whose FFmpeg has outlived the server that ran it
    owner,       \* the session of each file written so far
    file,        \* the files on disk
    bad,         \* files that are empty or that ffprobe rejects
    late,        \* files of orphans since the last pass that went through
                 \* their session listed it; only for stating properties
    row,         \* RecordingSegment.Status of each file, or none
    place,       \* RecordingSegment.Sequence
    total,       \* the segments summed in the Recording's size and duration
    expired,     \* segments up to this one ended before the last run's cutoff
    boot,        \* what startRecordingSubsystems is at
    recon,       \* a pass of ReconcileSegments
    ret,         \* a run of RunRetentionOnce
    del,         \* the session that DeleteRecording is removing
    restarts, mishaps

disk   == <<owner, file, bad, late>>
ffmpeg == <<task, orphans>>
table  == <<status, row, place, total>>
passes == <<boot, recon, ret>>
bounds == <<restarts, mishaps>>
vars   == <<disk, table, ffmpeg, expired, passes, del, bounds>>

Sessions == 1..MaxSessions
Segments == 1..MaxSegments
Made     == 1..Len(owner)
Rows     == {f \in Made : row[f] # "none"}

FilesOf(s) == {f \in file : owner[f] = s}
RowsOf(s)  == {f \in Rows : owner[f] = s}
GoodOf(s)  == {f \in RowsOf(s) : row[f] = "completed"}
Least(S)   == CHOOSE f \in S : \A g \in S : f <= g
Newest(S)  == IF S = {} THEN 0 ELSE CHOOSE f \in S : \A g \in S : g <= f

\* A pass of ReconcileSegments: the sessions to come, and of the one at hand
\* what was read of it: whether it was recording, its files and its rows, the
\* sequence numbers in use, and what the last file probed is.
NoPass == [stage |-> "idle", sessions |-> {}, session |-> 0, live |-> FALSE,
           listing |-> {}, known |-> {}, used |-> {}, todo |-> {}, found |-> "failed"]
\* A run of RunRetentionOnce: the loop it is in, the newest segment, the
\* candidates to come and those that failed.
NoRun  == [stage |-> "idle", phase |-> "age", keep |-> 0, todo |-> {}, failed |-> {}]

TypeOK ==
    /\ status \in [Sessions -> {"none", "recording", "completed", "failed", "deleted"}]
    /\ task \in [Sessions -> {"none", "runs", "ended"}]
    /\ owner \in Seq(Sessions) /\ Len(owner) <= MaxSegments
    /\ bad \subseteq file /\ file \subseteq Made /\ late \subseteq Made
    /\ orphans \subseteq Sessions
    /\ row \in [Segments -> {"none", "completed", "failed"}]
    /\ place \in [Segments -> 0..MaxSegments]
    /\ \A f, g \in Rows : f # g /\ owner[f] = owner[g] => place[f] # place[g]
    /\ total \in [Sessions -> SUBSET Segments]
    /\ expired \in 0..MaxSegments
    /\ boot \in {"reconcile", "retention", "up"}
    /\ recon.stage \in {"idle", "sessions", "files", "store"}
    /\ recon.sessions \subseteq Sessions /\ recon.todo \subseteq recon.listing
    /\ ret.stage \in {"idle", "select", "remove", "row", "stat"}
    /\ ret.todo \subseteq Segments /\ ret.keep \notin ret.todo
    /\ del \in 0..MaxSessions

Init ==
    /\ status = [s \in Sessions |-> "none"] /\ task = [s \in Sessions |-> "none"]
    /\ orphans = {}
    /\ owner = <<>> /\ file = {} /\ bad = {} /\ late = {}
    /\ row = [f \in Segments |-> "none"] /\ place = [f \in Segments |-> 0]
    /\ total = [s \in Sessions |-> {}]
    /\ expired = 0
    /\ boot = "reconcile" /\ recon = NoPass /\ ret = NoRun /\ del = 0
    /\ restarts = 0 /\ mishaps = 0

\* Something goes wrong, or away.
Mishap ==
    /\ mishaps < MaxMishaps /\ mishaps' = mishaps + 1
    /\ UNCHANGED restarts

-----------------------------------------------------------------------------
(* Sessions                                                                *)

\* checkRecordingAdmission under admissionMu, which a pass of
\* ReconcileSegments holds.
StartSession(s) ==
    /\ status[s] = "none" /\ \A r \in 1..(s - 1) : status[r] # "none"
    /\ recon.stage = "idle"
    /\ Cardinality(file) < Full
    /\ status' = [status EXCEPT ![s] = "recording"]
    /\ task' = [task EXCEPT ![s] = "runs"]
    /\ UNCHANGED <<orphans, disk, row, place, total, expired, passes, del, bounds>>

\* FFmpeg begins the next file; the one before is complete.
WriteSegment(s) ==
    /\ task[s] = "runs" /\ Len(owner) < MaxSegments
    /\ owner' = Append(owner, s)
    /\ file' = file \cup {Len(owner) + 1}
    /\ UNCHANGED <<bad, late, table, ffmpeg, expired, passes, del, bounds>>

\* The row of a file that was probed.
RowFor(f) == IF f \in bad THEN "failed" ELSE "completed"

\* The listing's position of a file, which becomes its sequence number.
Position(listing, f) == Cardinality({g \in listing : g <= f})

\* Mutant of Indexes: a sequence number in use passes over the file.
IndexesFree(listing, s) ==
    LET new == {f \in listing \ RowsOf(s) :
                    \A g \in RowsOf(s) : place[g] # Position(listing, f)}
    IN  /\ row' = [f \in Segments |-> IF f \in new THEN RowFor(f) ELSE row[f]]
        /\ place' = [f \in Segments |-> IF f \in new THEN Position(listing, f) ELSE place[f]]
        /\ total' = [total EXCEPT ![s] = GoodOf(s) \cup (new \ bad)]

\* scanCompleted and storeSegments: one transaction for all the new files,
\* which a sequence number in use makes fail.
Indexes(listing, s) ==
    LET new == listing \ RowsOf(s)
    IN  /\ \A f \in new, g \in RowsOf(s) : place[g] # Position(listing, f)
        /\ row' = [f \in Segments |-> IF f \in new THEN RowFor(f) ELSE row[f]]
        /\ place' = [f \in Segments |-> IF f \in new THEN Position(listing, f) ELSE place[f]]
        /\ total' = [total EXCEPT ![s] = GoodOf(s) \cup (new \ bad)]

\* The scan of every second leaves the last file out, which is being written.
Scan(s) ==
    /\ task[s] = "runs" /\ FilesOf(s) # {}
    /\ LET listing == FilesOf(s) \ {Newest(FilesOf(s))}
       IN  listing \ RowsOf(s) # {} /\ Indexes(listing, s)
    /\ UNCHANGED <<disk, status, ffmpeg, expired, passes, del, bounds>>

\* FFmpeg ends, when it is stopped or by itself; its last file may be unusable.
FFmpegEnds(s) ==
    /\ task[s] = "runs"
    /\ task' = [task EXCEPT ![s] = "ended"]
    /\ \E last \in SUBSET ({Newest(FilesOf(s))} \cap (FilesOf(s) \ RowsOf(s))) : bad' = bad \cup last
    /\ UNCHANGED <<orphans, owner, file, late, table, expired, passes, del, bounds>>

\* The final scan and the verdict.  When the scan fails the task stays, and
\* the sweep, which starts with the scheduler, tries again and again.
Finalize(s) ==
    /\ task[s] = "ended"
    /\ Indexes(FilesOf(s), s)
    /\ status' = [status EXCEPT ![s] = IF total'[s] = {} THEN "failed" ELSE "completed"]
    /\ task' = [task EXCEPT ![s] = "none"]
    /\ UNCHANGED <<orphans, disk, expired, passes, del, bounds>>

\* The file that the FFmpeg of a session has open, unless it was removed.
Open(s) == {Newest({f \in Made : owner[f] = s})} \cap file

\* An FFmpeg without a server begins the next file, which may be read while it
\* is still empty or not yet usable; in a directory that is gone it cannot.
OrphanWrites(s) ==
    /\ s \in orphans /\ status[s] # "deleted"
    /\ Len(owner) < MaxSegments /\ Cardinality(late) < MaxLate
    /\ LET f == Len(owner) + 1
       IN  /\ owner' = Append(owner, s)
           /\ file' = file \cup {f}
           /\ late' = late \cup {f}
           /\ \E unusable \in SUBSET {f} : bad' = (bad \ Open(s)) \cup unusable
    /\ UNCHANGED <<table, ffmpeg, expired, passes, del, bounds>>

OrphanEnds(s) ==
    /\ s \in orphans
    /\ orphans' = orphans \ {s}
    /\ \E unusable \in SUBSET Open(s) : bad' = (bad \ Open(s)) \cup unusable
    /\ UNCHANGED <<owner, file, late, table, task, expired, passes, del, bounds>>

-----------------------------------------------------------------------------
(* ReconcileSegments, until it has passed once                             *)

BeginReconcile ==
    /\ boot = "reconcile" /\ recon.stage = "idle"
    /\ recon' = [NoPass EXCEPT !.stage = "sessions",
                               !.sessions = {s \in Sessions : status[s] \notin {"none", "deleted"}}]
    /\ UNCHANGED <<disk, table, ffmpeg, expired, boot, ret, del, bounds>>

\* One session that has no task: what is there of it is read, and rows whose
\* file is missing are marked failed.
LoadSession ==
    /\ recon.stage = "sessions"
    /\ recon.sessions # {}
    /\ LET s == Least(recon.sessions) IN
        /\ task[s] = "none" /\ status[s] # "deleted"
        /\ row' = [f \in Segments |-> IF f \in RowsOf(s) \ file THEN "failed" ELSE row[f]]
        /\ recon' = [recon EXCEPT !.stage = "files", !.session = s, !.sessions = @ \ {s},
                                  !.live = status[s] = "recording",
                                  !.listing = FilesOf(s), !.todo = FilesOf(s),
                                  !.known = RowsOf(s), !.used = {place[f] : f \in RowsOf(s)}]
    /\ UNCHANGED <<disk, status, place, total, ffmpeg, expired, boot, ret, del, bounds>>

\* A session with a task, or deleted since the rows were loaded.
PassSession ==
    /\ recon.stage = "sessions"
    /\ recon.sessions # {}
    /\ LET s == Least(recon.sessions) IN
        /\ task[s] # "none" \/ status[s] = "deleted"
        /\ recon' = [recon EXCEPT !.sessions = @ \ {s}]
    /\ UNCHANGED <<disk, table, ffmpeg, expired, boot, ret, del, bounds>>

\* The position, or the first sequence number that is free.
FreePlace(f) ==
    LET p == Position(recon.listing, f)
    IN  IF p \in recon.used THEN Least(Segments \ recon.used) ELSE p

\* One file is looked at and probed ...
ProbeFile ==
    /\ recon.stage = "files" /\ recon.todo # {} /\ Least(recon.todo) \in file
    /\ recon' = [recon EXCEPT !.stage = "store", !.found = RowFor(Least(recon.todo))]
    /\ UNCHANGED <<disk, table, ffmpeg, expired, boot, ret, del, bounds>>

\* ... and its row is brought up to date, or made unless another row has its
\* sequence number.  The file may be gone by now, and its session too.
StoreFile ==
    /\ recon.stage = "store"
    /\ LET f == Least(recon.todo)
           p == FreePlace(f)
       IN  /\ IF f \in recon.known
              THEN /\ row' = [row EXCEPT ![f] = IF @ = "none" THEN @ ELSE recon.found]
                   /\ UNCHANGED place
              ELSE IF \E g \in RowsOf(recon.session) : place[g] = p
              THEN UNCHANGED <<row, place>>
              ELSE row' = [row EXCEPT ![f] = recon.found] /\ place' = [place EXCEPT ![f] = p]
           /\ recon' = [recon EXCEPT !.stage = "files", !.todo = @ \ {f}, !.found = "failed",
                                     !.used = IF f \in recon.known THEN @ ELSE @ \cup {p}]
    /\ UNCHANGED <<disk, status, total, ffmpeg, expired, boot, ret, del, bounds>>

\* The sums, and the verdict of a session that was recording when it was read.
FinishSession ==
    /\ recon.stage = "files" /\ recon.todo = {}
    /\ LET s == recon.session
       IN  /\ total' = [total EXCEPT ![s] = GoodOf(s)]
           /\ status' = [status EXCEPT ![s] =
                            IF ~recon.live \/ @ = "deleted" THEN @
                            ELSE IF GoodOf(s) = {} THEN "failed" ELSE "completed"]
    /\ recon' = [NoPass EXCEPT !.stage = "sessions", !.sessions = recon.sessions]
    /\ late' = late \ recon.listing
    /\ UNCHANGED <<owner, file, bad, row, place, ffmpeg, expired, boot, ret, del, bounds>>

\* The first run of retention follows.
EndReconcile ==
    /\ recon.stage = "sessions" /\ recon.sessions = {}
    /\ recon' = NoPass /\ boot' = "retention"
    /\ UNCHANGED <<disk, table, ffmpeg, expired, ret, del, bounds>>

\* A call fails, or a file is gone when it is to be read: the pass ends, and
\* startRecordingSubsystems tries again after five seconds.
ReconcileFails ==
    /\ recon.stage # "idle"
    /\ IF recon.stage = "files" /\ recon.todo \ file # {} THEN UNCHANGED bounds ELSE Mishap
    /\ recon' = NoPass
    /\ UNCHANGED <<disk, table, ffmpeg, expired, boot, ret, del>>

-----------------------------------------------------------------------------
(* RunRetentionOnce: once at startup and then every five minutes           *)

\* completedRetentionCandidates.
Candidates == {f \in Rows : row[f] = "completed" /\ status[owner[f]] = "completed"}

Low == Cardinality(file) > Quota

\* The cutoff is that of the time at which a run begins.
BeginRetention ==
    /\ boot \in {"retention", "up"} /\ ret.stage = "idle"
    /\ expired' \in expired..Len(owner)
    /\ ret' = [NoRun EXCEPT !.stage = "select", !.keep = Newest(Candidates)]
    /\ UNCHANGED <<disk, table, ffmpeg, boot, recon, del, bounds>>

\* Mutant of SelectExpired: the newest is not left out.
SelectAllExpired ==
    /\ ret.stage = "select"
    /\ ret' = [ret EXCEPT !.stage = "remove", !.todo = {f \in Candidates : f <= expired}]
    /\ UNCHANGED <<disk, table, ffmpeg, expired, boot, recon, del, bounds>>

\* A second query: the candidates that ended before the cutoff.
SelectExpired ==
    /\ ret.stage = "select"
    /\ ret' = [ret EXCEPT !.stage = "remove",
                          !.todo = {f \in Candidates : f <= expired} \ {ret.keep}]
    /\ UNCHANGED <<disk, table, ffmpeg, expired, boot, recon, del, bounds>>

\* Mutant of RemoveFile: a file that is gone is an error.
RemovePresent ==
    /\ ret.stage = "remove" /\ ret.todo # {}
    /\ LET f == Least(ret.todo)
       IN  \/ /\ f \in file /\ file' = file \ {f} /\ bad' = bad \ {f}
              /\ ret' = [ret EXCEPT !.stage = "row"]
              /\ UNCHANGED bounds
           \/ /\ f \notin file
              /\ ret' = [ret EXCEPT !.todo = @ \ {f}, !.failed = @ \cup {f}]
              /\ UNCHANGED <<file, bad, bounds>>
           \/ /\ Mishap
              /\ ret' = [ret EXCEPT !.todo = @ \ {f}, !.failed = @ \cup {f}]
              /\ UNCHANGED <<file, bad>>
    /\ UNCHANGED <<owner, late, table, ffmpeg, expired, boot, recon, del>>

\* deleteRetainedSegment: the file first, which may be gone.
RemoveFile ==
    /\ ret.stage = "remove" /\ ret.todo # {}
    /\ LET f == Least(ret.todo)
       IN  \/ /\ file' = file \ {f} /\ bad' = bad \ {f}
              /\ ret' = [ret EXCEPT !.stage = "row"]
              /\ UNCHANGED bounds
           \/ /\ Mishap
              /\ ret' = [ret EXCEPT !.todo = @ \ {f}, !.failed = @ \cup {f}]
              /\ UNCHANGED <<file, bad>>
    /\ UNCHANGED <<owner, late, table, ffmpeg, expired, boot, recon, del>>

\* Mutant of RemoveRow: the sums are left as they are.
RemoveRowOnly ==
    /\ ret.stage = "row"
    /\ LET f == Least(ret.todo)
       IN  /\ row' = [row EXCEPT ![f] = "none"] /\ place' = [place EXCEPT ![f] = 0]
           /\ ret' = [ret EXCEPT !.todo = @ \ {f},
                                 !.stage = IF ret.phase = "age" THEN "remove" ELSE "stat"]
    /\ UNCHANGED <<disk, status, total, ffmpeg, expired, boot, recon, del, bounds>>

\* Then the row and the sums of its session, in one transaction.
RemoveRow ==
    /\ ret.stage = "row"
    /\ LET f == Least(ret.todo)
       IN  \/ /\ row' = [row EXCEPT ![f] = "none"] /\ place' = [place EXCEPT ![f] = 0]
              /\ total' = [total EXCEPT ![owner[f]] = GoodOf(owner[f]) \ {f}]
              /\ ret' = [ret EXCEPT !.todo = @ \ {f},
                                    !.stage = IF ret.phase = "age" THEN "remove" ELSE "stat"]
              /\ UNCHANGED bounds
           \/ /\ Mishap
              /\ ret' = [ret EXCEPT !.stage = "remove", !.todo = @ \ {f}, !.failed = @ \cup {f}]
              /\ UNCHANGED <<row, place, total>>
    /\ UNCHANGED <<disk, status, ffmpeg, expired, boot, recon, del>>

\* The run returns; at startup an error begins again with ReconcileSegments.
EndsRetention(failed) ==
    /\ ret' = NoRun
    /\ boot' = IF boot = "up" \/ ~failed THEN "up" ELSE "reconcile"

\* The disk is looked at when the expired segments are done and after every
\* removal that follows.
Looks == ret.stage = "stat" \/ (ret.stage = "remove" /\ ret.todo = {} /\ ret.phase = "age")

Stat ==
    /\ Looks
    /\ \/ /\ ~Low /\ EndsRetention(ret.failed # {})
          /\ UNCHANGED bounds
       \/ /\ Mishap /\ EndsRetention(TRUE)
    /\ UNCHANGED <<disk, table, ffmpeg, expired, recon, del>>

\* The disk is low: every candidate, but for the newest and those that failed.
SelectPressed ==
    /\ Looks /\ Low /\ ret.phase = "age"
    /\ ret' = [ret EXCEPT !.stage = "remove", !.phase = "pressure", !.keep = Newest(Candidates),
                          !.todo = Candidates \ ({Newest(Candidates)} \cup ret.failed)]
    /\ UNCHANGED <<disk, table, ffmpeg, expired, boot, recon, del, bounds>>

StillLow ==
    /\ Looks /\ Low /\ ret.phase = "pressure"
    /\ ret' = [ret EXCEPT !.stage = "remove"]
    /\ UNCHANGED <<disk, table, ffmpeg, expired, boot, recon, del, bounds>>

NothingLeft ==
    /\ ret.stage = "remove" /\ ret.todo = {} /\ ret.phase = "pressure"
    /\ EndsRetention(ret.failed # {})
    /\ UNCHANGED <<disk, table, ffmpeg, expired, recon, del, bounds>>

-----------------------------------------------------------------------------
(* DeleteRecording, the clock, other programs and the server               *)

\* A session with a task is stopped first.
BeginDelete(s) ==
    /\ del = 0 /\ task[s] = "none" /\ status[s] \notin {"none", "deleted"}
    /\ Mishap
    /\ del' = s
    /\ UNCHANGED <<disk, table, ffmpeg, expired, passes>>

DeleteFile ==
    /\ del # 0 /\ FilesOf(del) # {}
    /\ LET f == Least(FilesOf(del)) IN file' = file \ {f} /\ bad' = bad \ {f}
    /\ UNCHANGED <<owner, late, table, ffmpeg, expired, passes, del, bounds>>

\* The directory is empty: the rows go, in one transaction.
DeleteRows ==
    /\ del # 0 /\ FilesOf(del) = {}
    /\ row' = [f \in Segments |-> IF f \in RowsOf(del) THEN "none" ELSE row[f]]
    /\ place' = [f \in Segments |-> IF f \in RowsOf(del) THEN 0 ELSE place[f]]
    /\ total' = [total EXCEPT ![del] = {}]
    /\ status' = [status EXCEPT ![del] = "deleted"]
    /\ del' = 0
    /\ UNCHANGED <<disk, ffmpeg, expired, passes, bounds>>

RemovedByOthers(f) ==
    /\ f \in file /\ Mishap
    /\ file' = file \ {f} /\ bad' = bad \ {f}
    /\ UNCHANGED <<owner, late, table, ffmpeg, expired, passes, del>>

\* A call fails, or the directory is not empty in the end: the recording stays.
DeleteFails ==
    /\ del # 0
    /\ del' = 0
    /\ UNCHANGED <<disk, table, ffmpeg, expired, passes, bounds>>

\* The server dies and comes back.  FFmpeg, a plain child, lives on; the file
\* that it has open may be unusable so far.
Restart ==
    /\ restarts < MaxRestarts /\ restarts' = restarts + 1
    /\ LET left == {s \in Sessions : task[s] = "runs"}
       IN  /\ orphans' = orphans \cup left
           /\ \E unusable \in SUBSET (UNION {Open(s) : s \in left} \ Rows) : bad' = bad \cup unusable
    /\ task' = [s \in Sessions |-> "none"]
    /\ boot' = "reconcile" /\ recon' = NoPass /\ ret' = NoRun /\ del' = 0
    /\ UNCHANGED <<owner, file, late, table, expired, mishaps>>

-----------------------------------------------------------------------------
(* The specification                                                       *)

ReconcileStep ==
    \/ BeginReconcile \/ LoadSession \/ PassSession \/ ProbeFile \/ StoreFile
    \/ FinishSession \/ EndReconcile \/ ReconcileFails

RetentionStep ==
    \/ BeginRetention \/ SelectExpired \/ RemoveFile \/ RemoveRow
    \/ Stat \/ SelectPressed \/ StillLow \/ NothingLeft

SessionStep ==
    \E s \in Sessions :
        StartSession(s) \/ WriteSegment(s) \/ Scan(s) \/ FFmpegEnds(s) \/ Finalize(s)

OrphanStep == \E s \in Sessions : OrphanWrites(s) \/ OrphanEnds(s)

Next ==
    \/ SessionStep \/ OrphanStep \/ ReconcileStep \/ RetentionStep
    \/ \E s \in Sessions : BeginDelete(s)
    \/ DeleteFile \/ DeleteRows \/ DeleteFails \/ Restart
    \/ \E f \in Segments : RemovedByOthers(f)

Spec == Init /\ [][Next]_vars

\* The startup goroutine, and after it the retention loop, goes on, whatever
\* else happens.
Fairness == WF_vars(ReconcileStep \/ RetentionStep)

FairSpec == Spec /\ Fairness

-----------------------------------------------------------------------------
(* Properties                                                              *)

\* No file is left behind: every file of a session that has ended has a row,
\* so that playback shows it and retention will remove it, after crashes,
\* failed passes, sequence numbers in use and files removed by others.  The
\* limit is an FFmpeg that outlives its server: what it writes after startup
\* has listed its session has no row, until the pass of a later startup has
\* gone through the session again.
AllIndexed ==
    \A f \in file \ late : status[owner[f]] \in {"completed", "failed"} => row[f] # "none"

\* The rows are a sound index of the files.
IndexSound == TypeOK /\ AllIndexed

\* Once the startup passes are over, the size and the duration shown for an
\* ended session are those of its completed rows, whatever retention removed.
AggregateFits ==
    boot = "up" =>
        \A s \in Sessions : status[s] \in {"completed", "failed"} => total[s] = GoodOf(s)

\* What retention removes is neither in use nor the last there is, although it
\* works from lists and from a newest segment that it read before: the session
\* of a removed file has ended for this server (an FFmpeg that outlived its own
\* server may have the file open still), and another completed segment stays listed, so
\* that neither age nor a full disk takes the newest recording.  Only the
\* deletion of the session that has the newest one can undo this.
RetentionSpares ==
    [][RetentionStep =>
        \A f \in file \ file' :
            /\ task[owner[f]] = "none" /\ status[owner[f]] # "recording"
            /\ Candidates \ {f} # {} \/ ret.keep \notin Rows]_vars

\* Retention catches up: again and again no listed segment has expired, and
\* the disk is not low, as far as there is more than the newest segment to
\* remove.  Sessions, restarts and failing calls only delay it.
RetentionCatchesUp ==
    []<>(\A f \in Candidates \ {Newest(Candidates)} : f > expired /\ ~Low)

-----------------------------------------------------------------------------
(* What playback shows of the rows                                         *)

\* A file begins four seconds after the one before, and three more in a later
\* session; it ends with the next file of its session, or after four seconds,
\* of the even ones five: sessions overlap, follow each other after two seconds
\* or three, and a file that is gone leaves four or more.
LastLength(f) == IF f % 2 = 0 THEN 5 ELSE 4
StartOf(f) == 4 * f + 3 * owner[f]
EndOf(f) ==
    LET later == {g \in Made : g > f /\ owner[g] = owner[f]}
    IN  IF later = {} THEN StartOf(f) + LastLength(f) ELSE StartOf(Least(later))

Playable == {[id |-> f, start |-> StartOf(f), end |-> EndOf(f)] :
                f \in {g \in Rows : row[g] = "completed"}}

Covered(S, at)   == \E s \in S : s.start <= at /\ at < s.end
Apart(S)         == \A s, t \in S : s # t => s.end <= t.start \/ t.end <= s.start
Continuous(S, at, t) ==
    \A x \in at..(t.start - Tolerance - 1) : \E y \in x..(x + Tolerance) : Covered(S, y)

\* What is played when every segment is followed by its NextSegmentID.
Played(S) ==
    LET from[s \in S] == {s} \cup UNION {from[n] : n \in NextSegment(S, s)} IN from

\* Whatever crashes, failed segments, retention and deletions have left of the
\* rows, playback resolves every covered time to the media of that time, and
\* from there plays what follows up to the first gap and nothing beyond it.
\* Sessions that overlap are excepted: their segments follow no single line.
PlaybackFollows ==
    LET S == Playable
    IN  \A at \in UNION {{s.start, s.end - 1, s.end} : s \in S} :
            LET found == Resolve(S, at)
            IN  /\ Covered(S, at) <=> found # {}
                /\ \A p \in found : /\ p.segment.start + p.offset = at
                                    /\ ListTimeline(S, at, at + 1) \ {p.segment} # {} => ~Apart(S)
                /\ Apart(S) => \A p \in found, t \in S :
                        t.start > at => (t \in Played(S)[p.segment] <=> Continuous(S, at, t))
=============================================================================
