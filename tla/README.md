# Verification of CameraIO

CameraIO is a Go server that manages IP cameras: it records them with FFmpeg
children, starts and stops recordings by schedules, keeps the disk from filling,
serves live pictures, speaks GB28181 (SIP and RTP) to national-standard devices,
watches whether cameras are online, and tells browsers about all of it over a
WebSocket. This directory holds TLA+ models of its concurrent parts, the TLC
configurations that check them and TLAPS proofs about them.

Paths below are relative to the repository.

## 1. The system

`cmd/server/main.go` builds the services, starts their goroutines and shuts them
down in order. They share one SQLite database, opened with
`SetMaxOpenConns(1)` (`internal/pkg/database.go`): statements never
overlap and a transaction is atomic for everybody. Everything else interleaves.

| Component | State | Operations | What is hard | What makes it correct |
|---|---|---|---|---|
| Single-file recorder, `internal/service/recorder.go` | `tasks` under `mu`, `shuttingDown` under `admissionMu`, a row and an FFmpeg child per session | start, stop, delete, heartbeat; goroutines `watchTask`, `maxDurationWatchdog`, `sweepLoop`; `BeginShutdown`/`Shutdown`; `ReconcileLegacyOrphaned` | five goroutines may end one session; every step of ending it may fail or be overtaken; restart at any point | one claimant per session; no forgotten child or row; nothing starts after shutdown began |
| Segmented recorder, `internal/service/recording_segmenter.go` and `watchSegmentTask`, `finalizeSegmentTask` of the recorder | per session: supervisor channels, `finalizing`, the segment index, the directory | scan loop, `waitForProcess`, stop with grace and kill, finalization, its retry by the sweep, delete, `recoverSegmentedRecording` | index and directory change under each other's feet; a failed finalization is retried by another goroutine | `finalized` closed once; scans do not overlap; the open segment is not indexed; success means a final row |
| Scheduler, `internal/service/scheduler.go` | `active`, rows of `recording_schedules` | a check every 15 s, `watchdogStop`, `Stop`, edits by requests | edits between two reads of one check, midnight, failing stops | every session tracked, one per schedule, none outside its window |
| Event bus, `internal/service/eventbus.go`, `internal/api/websocket.go` | `clients`, `broadcast`, `Send` of each client | `run`, `Publish`, `Register`, `Unregister`; a reader and a writer per connection | full channels, slow clients, several goroutines unregistering one client | no send on a closed channel, order kept, a client that missed an event is removed |
| Startup and shutdown, `cmd/server/main.go` | `recordingStartupCoordinator` | prepare recording, retry, cancel, graceful shutdown | signal during startup | see Recorder |
| Retention and reconciliation, `recording_retention.go` | segment rows, their sequence numbers and sums, the files | `ReconcileSegments` at startup, `RunRetentionOnce` every five minutes | a crash or an error between removing a file and its row; sequence numbers given out twice; lists that are stale when used | every file of an ended session has a row, but for those an FFmpeg that outlived its server writes after the listing; sums fit, the newest segment stays, the disk is cleaned in the end |
| Queries and playback, `recording_query.go` | none | segments of an interval, the segment at a time and the next one | ends of intervals, gaps, what retention left | every covered time is played, up to the first gap |
| Live streams, `stream.go`, `mjpeg.go`, `internal/api/stream.go` | `streams` under `mu`, per stream a context, viewer count, puller and transcoder; the status column | start, stop, stop when idle, subscribe, `Shutdown`; the recorder and INVITEs start streams too | a viewer that comes while the last one leaves; stop and start of one camera at the same time | one live stream per camera, none lost, a stopped one ends, one without viewers is stopped |
| GB28181, `gb28181.go`, `rtp_receiver.go`, `ps_demuxer.go` | `devices`, snapshot waiters, the port counter, receivers | REGISTER, Keepalive and its check, INVITE, snapshot; RTP and program streams | every datagram has its own goroutine; late, double and missing answers; packets cut anywhere | a device that is gone is offline, an answer reaches its request, a port has one owner, NAL units within one PES arrive intact |
| Monitor, `monitor.go` | status of cameras | probe in turn, publish changes | writes the column that GB28181 and the streams write | see GB28181 |
| Local cameras, `cmd/localcam`, `localcamera.go` | `RTSPServer.clients` under `mu`, a transport and a sequence number per client | SETUP, TEARDOWN, `Broadcast` of FFmpeg's output as RTP | clients come, go and change their transport during a broadcast; fragments | whole units in numbered packets unless a second SETUP loses one, nothing to a closed connection |
| Cameras, ONVIF, network configuration, discovery, users, configuration | tables, none | requests | none of concurrency: one statement per request, or device input and output | not modelled |
| Web front end, `frontend/src` | views, heartbeat timers | renews the lease of a manual session | closed and resumed pages | a watched session is renewed |

How they call each other: requests, the scheduler and `main` call the recorder;
the recorder asks the live streams for a GB28181 stream; recorder, scheduler and
monitor publish on the event bus, which never blocks them; retention and the
recorder meet in the segment index; startup runs reconciliation while the HTTP
server already answers.

The hazards of this code, each at its line with the properties that watch it, are
listed in `PROJECT.json`. Those without a property say why.

## 2. The modules

### Recorder

The life of single-file sessions: RTSP manual sessions and every GB28181 one.
A step is one SQL statement, one critical section of `mu`, or one thing the
operating system does.

| Variable | Code |
|---|---|
| `row`, `lease` | `recordings.status`, `heartbeat_at` (younger or older than 60 s) |
| `file`, `proc`, `signalled` | the file, the FFmpeg child, its cancelled context |
| `tasks`, `shuttingDown` | the fields of `RecorderService` |
| `start`, `watchdog` | how far the `StartRecording` call of the id came; `maxDurationWatchdog` |
| `pc`, `arg`, `op`, `todo`, `listed` | local variables of the goroutines |
| `lost`, `abandoned` | history: rows that a crash or a failed write left, sessions whose stop gave up on the process |

Its actors are the clients (HTTP requests), one `watchTask` per recording,
`Sweeper` (`sweepLoop`), `Closer` (`main` from the signal on) and `Booter`
(the goroutine of `startRecordingSubsystems`). `StopClaim`, `WatchClaim` and
`SweepClaim` are the three places that remove a task from the map under `mu`;
each then waits, stats and writes in further steps. `stopRecording` is one
sequence of actions run by clients, by the sweep for expired leases and by
`Shutdown`. `Restart` covers a crash and a normal exit: goroutines and the map
vanish, children survive as orphans.

`ZombieVisible` tells the builds apart: `processExited` sees an exited child
before `Wait` reaped it on Windows, on Unix only afterwards.

### SegmentSession

One segmented session from its registration on. The supervisor's goroutines are
`waiter` (`waitForProcess`), `scanner` (`scanLoop`) and `stopper` (`stopOnce`);
`Watcher` is `watchSegmentTask`, which finalizes, `Sweeper` retries a failed
finalization, `Callers` stop or delete, `Booter` runs `ReconcileSegments`.
Segments are numbered in the order FFmpeg writes them; `open` is the last one,
`index` and `disk` are the rows and the files. A scan lists the directory in one
step (`seen`) and stores what it found in a later one, so that the directory may
change between the two. `Restart` makes a running FFmpeg an `orphan`, which goes
on writing files until the directory is gone.

A deleted session is where the code makes no unlimited promise. Its files never
come back (`DeletedStaysDeleted`). Its rows do not while the server that recorded
it lives, because no scan is under way any more when it is deleted. After a restart
they may: `reconcileSegmentDirectory` and the recovering stop probe the files they
have listed and then store rows without looking whether the recording is still
there. `RowsFit` says how far this goes: only rows of files listed before the
deletion, and the recording itself stays deleted. `BootStores` stores a listing in
one step where the code stores file by file, so that it may store any part of it.

### EventBus

`run` is a loop that receives from `register`, `unreg` and `broadcast`; sending
on the first two waits for it, the third has a buffer. While it delivers
(`event`, `todo`) it receives nothing. A slow client is removed by a goroutine of
its own (`asking`), which like the writer and the reader may find the client gone
already. `send` and `closings` are the `Send` channels; a second close or a send
on a closed channel would panic.

### Scheduler

Minutes of a short day in a short week. `CheckLoads` reads the enabled schedules
and the clock; the following steps of the check (`loop`) work on what it read
(`snap`, `due`) while requests edit the table, sessions die and `Stop` runs.
`Overdue` reads a schedule again, as `watchdogStop` does. The recorder appears as
the scheduler sees it: a start may be refused, a stop may fail, a session may
end, its maximum duration may end it. Three history variables say what the
properties except: `lost` has the sessions whose tracking a failed call cost,
`edited` those whose schedule was edited after the start, and `moved` those
whose schedule was deleted or got another window.

### Stream and StreamLife

The streams of one camera. Instances are numbered as `StartStream` makes them;
`current` is the one in the map, `cancelled` those whose context is cancelled,
`count` their viewers. Each instance has a `puller` and a `transcoder` (RTSP) or a
goroutine that only waits for the context (GB28181), and an `invite`, which may
itself start a stream when its own was stopped meanwhile. Clients are the
requests of `internal/api/stream.go`, step by step: a viewer looks for the stream,
starts one, looks again, is counted, leaves, and the last one reads the
recordings before it stops whatever stream the camera has by then.

`StreamLife` is what the service promises, without requests, goroutines and
contexts: one live instance, which is dropped and then ends, and never comes
back. `Stream` implements it: `Life == INSTANCE StreamLife`, an instance being
live while it is in the map, dropped until it is cancelled and its goroutines have
returned, and ended then.

### Signalling, Snapshots, Invites, Demux, AnnexB, LocalRtsp

`Signalling` is the status of one GB28181 camera. REGISTER and Keepalive write
the session under `mu` and the row after it; `checkKeepalive` drops sessions that
are too old and then scans the rows; the monitor compares a probe with the status
it loaded before. Ages are counted up to just past the timeout. `Snapshots` has
the two tables in which a `CaptureSnapshot` waits, and handlers that take it out
of both before they send to its channel. `Invites` has the port counter, which is
incremented and wrapped in two steps, the listeners and `rtpRecvs`. `Demux` takes
a program stream out of RTP packets, and `AnnexB` takes NAL units and JPEG frames
out of FFmpeg's output; in both the bytes arrive cut anywhere. `LocalRtsp` is the
RTSP server of `cmd/localcam`: connections that set up, leave and close, and a
`Broadcast` that serves one client after the other.

In `Snapshots` a request is its Call-ID; the code derives Call-IDs from the clock
in nanoseconds, and that two requests get the same one is left out. `Invites` says
of a receiver that it is in `rtpRecvs`, or that the call which opened it enters it
next; one entered after `Stop` has gone through `rtpRecvs` stays open until the
process ends.

What a device sends (`Encoded`) is pack headers, structures that are skipped, video
PES with a length, which may begin with the rest of a NAL unit (`lead`) and end
with a part of one, and video PES without a length, with any bytes in them. Two
things the demuxer does with them are limits of `DemuxExact`, not promises of the
code. `extractNALUs` treats the payload of every PES by itself: a unit that goes on in
another PES, as each one above 64 KB must, is delivered cut, and its rest is
dropped. `parsePES` takes the first start code of the payload for the end of a PES
without a length, or the end of what has arrived, so that units of such a PES are
cut or lost, and with them perhaps what follows in the buffer. So `DemuxExact`
says: whatever is sent, nothing delivered is joined of two units or made up
(`Genuine`); and when every PES has a length, what is delivered is of every unit
the part in the PES with its start code, in order, once, and nothing is missing
(`Sent`). A unit that lies in one PES arrives whole.

In `LocalRtsp` a packet is three steps. `BuildPacket` numbers it and looks at `rtpConn`;
`WriteDatagram` reads `rtpConn` again and writes to it, and `WriteHeader` and
`WriteFrame` are the two writes on the RTSP connection. A SETUP sets `rtpConn`
without the lock (`main.go:600`), also while `Broadcast` sends to that client: a
datagram then goes to a nil connection, which loses it (`lost`) or ends the server
in a panic (`crashed`). `OnlySwitchesLose` says that nothing else does this: it
takes a client that sends a second SETUP. The two writes on the RTSP connection
share it with the answers to requests. `Broadcast` passes over a client that has no
`rtpConn` when its turn comes (`main.go:715`), so that a packet goes that way only
to a client that gave up UDP in the middle of its turn; its goroutine then waits
for `mu` to enter the client, which `Broadcast` holds, and answers afterwards. This is
`Unbroken`. A client that was TCP from the start gets nothing. `Broadcast` splits each
read by itself; the units promised to a client are those found in each read, and
of a unit that goes on in the next read the rest is not among them.

`MCProtocols` checks the six in one run. They share no variable, so that their
product would only multiply states: `Init` chooses one of `Parts`, and the others
rest. `MediaIntact` joins the properties of the two parsers.

### Retention and Playback

The files and rows of the segmented sessions of one camera over the lives of the
server. Files are numbered in the order of their names; `row` and `place` are the
status and sequence number of their rows, `total` the segments that the sums of a
recording count. `recon` and `ret` are a pass of `ReconcileSegments` and a run of
`RunRetentionOnce` with what they have read; `boot` is the order in which
`startRecordingSubsystems` runs and repeats them. SegmentSession has the
goroutines of one session; here a session starts, writes, scans, ends and is
finalized in one step each, so that several of them, deletion, restarts, failing
calls and files removed by others fit into one instance. FFmpeg outlives its
server here too: `Restart` puts the sessions whose FFmpeg runs into `orphans`, and
`OrphanWrites` goes on adding files, also to a session that startup has ended in the
meantime. Nobody scans for them. `late` has the files an orphan wrote since the last
pass that went through their session had listed it; `AllIndexed` excepts exactly
these, and the pass of a later startup indexes them. `BeginRetention` takes its
cutoff from the clock: which segments have expired only grows. The limit of free disk
space is one of files. From the limit `CAMERAIO_RECORDING_STOP_FREE_PERCENT` on,
sessions in progress go on and new ones are refused (`StartSession`).

`LoadSession` and `FinishSession` each stand for several statements of the database
(missing rows marked and rows read; sums and verdict written). Between the former
the session has no task and retention waits for the pass; a file that a deletion or
somebody else takes away there makes the pass fail when it comes to it, as one
that goes a moment later does. A restart between the latter leaves the session
recording, and the next pass sets both again.

`Playback` has the queries on the completed rows. `PlaybackFollows` compares them
with a definition by the times that are covered, on every set of rows that
sessions, retention, reconciliation and deletion leave.

### MC and proof modules

`MCRecorder`, `MCSegmentSession`, `MCEventBus`, `MCScheduler`, `MCStream` and
`MCProtocols` add the symmetry sets, the windows of the scheduler and the streams
of bytes, for TLC; `Retention` needs none. Theorems are in a module beside the
one they are about, `RecorderProofs`, `SegmentProofs`, `EventBusProofs`,
`SchedulerProofs`, `StreamProofs` and `RetentionProofs` (with the queries of
`Playback`), those about the bytes of `Demux`, `AnnexB` and `LocalRtsp` in
`MediaProofs`, and those about the handlers of protocols together in
`ProtocolProofs`.

Definitions whose comment begins with "Mutant of" are slips a programmer could
make in that place; no specification uses them. Put in the place of the
definition they name, each makes the property it is listed with in
`PROJECT.json` fail.

## 3. The runs

| Run | Instance | Shows |
|---|---|---|
| `recorder_safety` | 1 recording, 1 client, 1 restart, 1 failed write, `ZombieVisible` | every race of stop, delete, heartbeat, watcher, watchdog, sweep, shutdown, startup: `OneClaimant`, `ProcessAccounted`, `RowAccounted` (a row in state recording is somebody's business, or explained), `ShutdownDrainsTasks`, `NoSpawnAfterShutdown` |
| `recorder_live` | 1 recording, 1 client, fair | dead processes are finalized, expired leases end, shutdown terminates |
| `segment` | 1 caller, 2 segments, 1 fault, 1 restart, fair | `FinalizedAlone`, `ArchiveSound`, `StopMeansFinal`, `RowsFit`; a session whose FFmpeg is gone ends after a failed finalization too, and a stop takes effect |
| `event_bus` | 2 clients, 2 events, buffers of 1, fair | no send on a closed channel, order, a gap means removal, slow and leaving clients are removed |
| `scheduler_safety` | 1 schedule, 2 sessions, week of 2 days of 5 minutes, 1 fault, 1 edit | `SessionsAccounted`, `WithinWindow`, `LimitedSessionEnds` (at most two minutes beyond its length) |
| `stream` | 2 clients, 2 instances, 1 recording, both protocols, fair | `NoStray`, `OnlineMeansPulled`, the refinement `ImplementsLife` with its fairness, `UnwatchedStops` |
| `protocols` | 1 device and 1 restart; 2 snapshots and 2 handlers; 3 INVITEs on 2 ports; program streams of 3 units; 4 outputs of FFmpeg; 2 RTSP clients and 2 reads | `OffShownOffline`, `SilentForgotten`; `SnapshotsSound`; `ReceiversSound`; `MediaIntact`; `LocalSound` |
| `retention` | 2 sessions, 3 segments, 1 restart, 1 file no pass has listed, 1 mishap or deletion, fair | `IndexSound`, `AggregateFits`, `PlaybackFollows`, `RetentionSpares`, `RetentionCatchesUp` |

Four more runs end in a counterexample. Each states what a comment of the
repository says and the code does not do.

| Run | What happens |
|---|---|
| `recorder_orphan` | A watcher claims a session whose FFmpeg exited; `Shutdown` takes its snapshot without it and `main` returns before the watcher wrote the row. The row stays recording until the next start, which `recorder.go:237` says is avoided. |
| `recorder_delete` | A `StartRecording` has written its row and not registered its task yet, or a stop has claimed the session and waits for FFmpeg; `DeleteRecording` sees no task and removes file and row of the running session, which `recorder.go:1268` says is stopped first. |
| `recorder_finalize` | FFmpeg has exited and the watcher has claimed the session; a stop finds no task, reads the row as recording, and writes completed after the watcher wrote failed. Claims are exclusive (`OneClaimant`), but this stop writes without one, though `docs/superpowers/plans/2026-08-07-recording-stop-lifecycle.md:7` has exactly one path finalize. |
| `scheduler_missed` | A schedule over midnight is disabled while it records: the loop visits enabled schedules only, `watchdogStop` passes over schedules over midnight, and these get no maximum duration. The session never ends, though `scheduler.go:171` wants none missed. |

### Bounds, and why they are enough

Sessions share nothing but the map, the lists of a sweep or a shutdown, and the
admission lock; every claim is about one id. So one recording shows the races,
and the proofs cover any number of clients too. One caller races against the
watcher, the watchdog, the sweep, startup and shutdown; the second one matters to
`DeleteStopsFirst`, whose run has it. `MaxRestarts` and `MaxDbFaults` are 0 or 1:
one crash or failed write already leaves a row behind, and what recovery does
with it does not depend on how often that happened. In the segmented session two
files give a closed and an open segment, and the fault can strike any read,
write, removal or kill. The buffers of the event bus are the smallest ones the
code's behaviour allows, so that each is full within two events. In the scheduler
the windows are 1 to 3 on every day and 4 to 1 on the first day: one inside the
day, one over midnight whose day of the week ends before the window does. The
days are long enough for a minute before, in and after each; two sessions are
needed for a schedule to record twice.

Two instances of a stream give an old one that ends beside its successor, and two
clients a viewer that leaves beside one that comes or a request that stops; the
proofs cover the rest. In `protocols` an age is young, old or just too old;
two snapshots and handlers give an answer for another request and one that
comes twice; three calls on two ports make the counter wrap while others take
from it. The packets of `Demux` are cut at every byte, with and without CSRCs,
extension and padding; the units hold zeros, the rest of an earlier NAL unit, a part
of one, start codes without a unit, headers of every length class, and a PES
without a length. Reads of `AnnexB` are up to six bytes long, shorter than an item,
and one output exceeds the limit. In `LocalRtsp` a packet holds four bytes, so
that units of 3, 5 and 6 bytes are a single packet, two full fragments and three
fragments, the last one short, and sequence numbers wrap at 4. Retention has a newest segment, one before it and
one of another session, one restart at any step of any pass, one file that an orphan
writes after it (`MaxLate`), and one mishap, which is a deletion, a failing call or a
file removed by others. Segments last four seconds (the last of a session five, if its number is even) and follow each other in their
session; those of two sessions overlap, or are two or three seconds apart, and files
that are gone leave gaps of four or more, so that the tolerance of two seconds is met from
both sides.

Checking for deadlock is off, since each system may stop: the server has been
closed and nobody asks for anything.

### Fairness

A goroutine that can take its next step eventually takes it: weak fairness on
each. A channel send competes with others for `run`'s select, which chooses at
random, so registering, unregistering and the end of `scanLoop` get strong
fairness. A killed process exits. In the scheduler (`scheduler_missed`) time passes and, ticks being
15 s apart, a check begins in every minute. Streams: goroutines go on, and an
FFmpeg whose context is cancelled is killed. Signalling: time passes, started
handlers go on, the keepalive check and the monitor come round. Retention: the
startup goroutine and after it the retention loop go on. Nothing obliges a client to ask, a
signal to come, FFmpeg to write or to exit by itself, or a timed wait to end one
way rather than the other. A stop that gives up on a process that will not die
is always among the behaviours.

### Abstractions

Reads of the database succeed, except where a run's budget of faults covers them
(SegmentSession, Scheduler, Retention). Publishing is left out of Recorder: it never blocks
and nothing in the recorder reads its effect. Paths, sizes, durations and
messages are reduced to what decisions depend on: a file is absent, has data, or
was unlinked while open. The status column is shared by three writers: Stream has
the puller's writes, Signalling those of GB28181 and the monitor, since a camera is
either pulled by RTSP or speaks GB28181. RTP packets arrive in order, and the
program streams begin with a start code: the parser does not reorder. Row ids are not reused, as in the table, except in the
Scheduler, where an id that nobody refers to stands for a new session.

## 4. The proofs

`RecorderProofs`, for any sets of recordings and clients and any bounds, from the
assumptions `DistinctActors`, `Switches` and `Budgets`:

- `Typing`: `Spec => []TypeOK`.
- `SingleClaimant`: `Spec => []OneClaimant`. `OneClaimant` is inductive together
  with `TypeOK`. An action either gives nobody a claim, or takes one task out
  of the map and gives its claim to one actor; `OneClaimant` before the step says
  that nobody held a claim while the task was in the map. The lemmas separate the
  two kinds of step, so that the invariant is argued twice and not per action.
- `ShutdownDrains`: `Spec => []ShutdownDrainsTasks`. That property is not
  inductive: it needs that no registration is under way once admission is closed
  (`AdmissionClosed`) and that every task still in the map is in the list
  `Shutdown` works through (`Draining`). Their conjunction is `ShutdownInv`.
- `NoSpawn`: `Spec => NoSpawnAfterShutdown`, from `AdmissionClosed`.
- `ProcessHeld` and `RowHeld`: `ProcessAccounted` and `RowAccounted`. Both say that
  something is somebody's, so the danger is the step that lets go. `HoldInv` says
  that who writes a final status has seen the process gone (`EndingGone`), that
  the watcher does not run before it is launched and that a child is spawned
  once; so letting go of the claim ends the account of the process. `HeldInv`
  adds who is responsible for a row. Steps are sorted by what they do to the
  account of a session (`Harmless`, `Holds`, `Silent`), not one by one.

`EventBusProofs`, for any set of clients and any buffer sizes, from `Buffers` and
`Bound`:

- `Typing`: `Spec => []TypeOK`, the capacities of the channels included.
- `SendClosedOnce`: `Spec => []SendNeverReopened`. It needs that a connection that
  has not registered yet has an untouched channel (`Fresh`).
- `GapRemoved`: `Spec => []GapMeansRemoval`. The invariant of both is
  `Inv == Fresh /\ SendNeverReopened /\ GapMeansRemoval`.
- `OrderPreserved`: `Spec => []OrderKept`. An event passes from `bus` to the event in
  delivery, to a `Send` channel and to the client; `OrderInv` says of each of these
  places that it is increasing and comes after what has gone on from it. The
  lemmas are about increasing sequences: appending a later number, taking the head.

`SchedulerProofs`, for any schedules, sessions and windows, over midnight or not, and
days and weeks of any length, from `Clock`, `WindowsOK`, `Bounds` and `Tables`:

- `Typing`, and `Accounted`: `Spec => []SessionsAccounted`. `TrackInv` adds that an
  entry of `active` belongs to the schedule of its session (`Entries`) and that what
  the loop or `Stop` has in hand is in no entry (`Hands`).
- `InsideWindow`: `Spec => []WithinWindow`. A check decides with rows and a time
  that it read before. `Began` is that time, this minute or the one before, and
  `WindowInv` says that a schedule nobody edited still has the row its session was
  started with, that what is due was inside its window at `Began`, and that a
  session which is not due is still to be visited, or is being stopped.
- `LimitKept`: `LimitedSessionEnds` if `MaxFaults <= 1`. The timer of the recorder and
  the watchdog of the loop back each other up: `LimitInv` says that a session
  escapes its timer only by the one failure (`TimerInv`), and that the check after
  its last minute then has it among the overdue ones (`CaughtInv`). Two
  failures do let a session go on, one for each.

`SegmentProofs`, for any callers, segments, faults and restarts, from
`DistinctActors` and `Bounds`:

- `FinalizesAlone`: `Spec => []FinalizedAlone`, from `AloneInv`: while the task is in the
  map its finalizer is the watcher or the sweep, one of them (`OneFinalizer`);
  FFmpeg's goroutines have ended when it works (`Processes`); requests and startup
  work on files and rows only without a task (`AfterTask`).
- `ArchiveKept`, `StopFinal`, `RowsRight`: `ArchiveSound`, `StopMeansFinal` and
  `RowsFit`, from `ArchiveInv`: what a scan has found are files that FFmpeg had
  closed (`Found`); a finalization has indexed every file before it counts
  (`Finalization`), and nothing comes back after it (`Finalized`). The latter two
  are action properties, of steps that start in a state of the invariant.

`StreamProofs`, for any finite set of clients and any bounds, from `StreamBounds`.
`NoStray` is not inductive: that a `StopStream` cancels what it took, and that what
it took is not the stream of the map again, has to be known of every request.
The invariant is `IInv == TypeOK /\ HeldMade /\ CountExact /\ CurrentLives /\
NoStray`: who works on an instance has one; the viewer count is the number of
viewers; what is in the map is neither cancelled nor about to be.

- `Typing`, `ViewersCounted` and `NoneStrays`: `TypeOK`, `CountExact` and `NoStray`
  hold. `CountExact` is what keeps the count from going below zero.
- `OnlinePulled`: `Spec => []OnlineMeansPulled`, with the fact that instances that
  are not made have no puller.
- `RefinesLife`: `Spec => Life!Spec`. A step is one of three kinds, a start, a drop
  or an end; every other one leaves `life` as it is. This is the safety half of
  `ImplementsLife`; that dropped instances end is model-checked.

`RetentionProofs`, for any number of sessions, segments, restarts, mishaps and files
that orphans write, from `RetentionBounds`. `Invariance` is `Spec => []Inv` with
`Inv == Types /\ Turns /\ PassInv /\ SettledInv /\ AllIndexed /\ RunInv`:

- `Turns`: the startup goroutine runs either a pass or a run, and the order of `boot`.
- `PassInv`: a pass works on a listing that may be stale. Every file of its session
  is on its list or in `late`; it has rows only for files it has treated, and the
  sequence numbers in use in `recon.used`, so that it does not give out one twice.
- `SettledInv`: the sums of an ended session fit, or the pass that will set them is
  still to come.
- `AllIndexed`: part of the invariant, since a session ends only by a finalization
  or a pass that has treated every file it listed; what is not listed is in `late`.
- `RunInv`: a run's list has files of sessions that have ended, and a file is
  removed before its row.

- `IndexKept`, `SumsFit`: `IndexSound` and `AggregateFits` follow from `Inv`.
- `NewestSpared`: `Spec => RetentionSpares`. What is removed is older than the segment
  the run keeps, which is a row as long as its session is.
- `PlaybackRight`: `Spec => []PlaybackFollows`, on every set of rows that those
  actions leave. It rests on the first part of the module, about the queries of `Playback` alone:
  for a set of segments with times and ids (`Timed`), of any size and any gaps,
  `Resolve` finds the segment that covers a time and `Follow` plays what is
  connected to it by the definition (`Linked`, `OnFrom`). `Played` is a recursive
  function along `NextSegmentID`; what it computes is proved from the newest segment
  for which it would be wrong, whose successor is newer and right, since theorems of
  induction with an operator parameter are out of reach.

`MediaProofs`, for streams, packets, reads and items of any length and any limits, from
what the assumptions `DevicesSendPS` and `FFmpegWritesItems` say of devices and
of FFmpeg. `Demux`, `AnnexB` and `LocalRtsp` compute with recursive functions and
`FlattenSeq`. Theorems of induction with an operator parameter cannot be cited,
so the module first shows that a set of numbers has a least element (`NatMin`, from
the well-foundedness of <), and from it induction up to a number over a set
(`Induction`), that a recursive function on `0..n` exists (`Recursion`) and that
two with one equation agree (`SameRecursion`). What a function on bytes returns
is then a lemma: slices of slices, places of markers, what is left of a unit
without its trailing zeros, sums of lengths, the header and the payload of a
packet.

- `PacketsDemuxed`: `PsSpec => [](PsTypeOK /\ DemuxExact)`. Where each unit ends in the
  stream and how many NAL units are sent up to there is a layout of the
  stream (`LaidOut`). `PsInv` says of every stream that the buffer is an end of what
  has arrived and that what was delivered stands in the stream behind a start
  code (`Buffered`), since `extractNALUs` returns nothing else of any bytes and cutting
  off the front of a buffer makes no new start code. If every PES has a length
  (`Orderly`), it says that there is a layout in which the buffer is what has
  arrived since the end of some unit, that what was delivered is what the units
  before it hold, and that an idle demuxer has come to a unit that has not
  arrived whole (`Progress`). A parse of such a buffer consumes exactly that
  unit (no start code, length or zero can be mistaken for another), and
  `parseRTP` gives back the bytes that were put into the packet. The assumption
  `DevicesSendPS` leaves a device free to cut NAL units between PES and to send PES
  without a length; what is then promised is in `DemuxExact` itself.
- `ItemsExtracted`: `AnnSpec => [](AnnTypeOK /\ ItemsIntact)`. For NAL units and for
  frames there are places in the output where the head of an item has been read,
  where it can be given, and where its bytes stop (`Framing`), such that the
  reader finds the next item, a part of it or nothing, whatever slice of the output
  it holds (`Finds`). `AnnInv` says (`Holding`) that what is pending is the slice of
  the output behind some place, that the heads of the first `c` items, for some `c`,
  are before that place, and that what was extracted are items among those, with
  growing numbers (`Given`). When every item fits into the limit nothing is ever
  dropped, so that these are all `c` of them and the place is where the last one
  stops.

`ProtocolProofs` has the components of `MCProtocols`, each by itself and together.

- `SnapshotsAreSound`, for any requests and handlers from `NobodyIsNoRequest`: besides
  `SnapshotsSound` the invariant says that a waiter in a table has an empty
  channel and no handler bound to it, that a request not yet made is in no table,
  and that an image under way to a request is its own.
- `ReceiversAreSound`, for any calls and any range from `PortRange`: the counter never
  falls below the range (`PortsTaken`), and a port belongs to the call that
  listens on it from `Listen` to its INVITE (`PortsOwned`).
- `RtspInvariance` and `ViewersServed`: `RtspSpec => []LocalSound`, for any viewers and reads, any payload size
  and any number of sequence numbers, from `RtspBounds` and `FFmpegWritesH264`. A
  sequence number is the number of packets sent, taken modulo `SeqNumbers`
  (`Counted`). A Broadcast has one client of the map at hand (`CastShape`), which
  nobody can leave while it holds the lock. What was promised to a client is what
  it has put together and what it is still owed, and of the unit that is being
  sent it has the header and the bytes up to the offset (`Delivered`): the FU-A
  header bytes of a fragment give back the header of the unit, and the last
  fragment completes it. That needs what `splitNALUs` returns: units whose first
  byte is below 128. `Switched` has what a change
  of transport can do: a client with a UDP connection has set up; one that is at hand and
  has none has set up again and waits for `mu`, so that the connection stays cleared
  while a packet leaves on the RTSP one; and only such a client loses a packet or ends the
  server. A packet on the RTSP connection therefore meets no answer.
- `ProtocolsTyped` and `MediaKept`: `Spec => []TypeOK` and `Spec => []MediaIntact` of
  `MCProtocols`. A step of the composition is one of its component and leaves the
  others alone (`StepsOfParts`), so that the invariants of the components, that of
  Signalling with them, hold side by side (`ProtocolsInv`).

Only model-checked: everything under fairness, since liveness and `ENABLED` are
out of the prover's reach. These are the properties of `recorder_live`, the
liveness of `segment`, `event_bus`, `stream` (`UnwatchedStops` and that of
`ImplementsLife`), `OffShownOffline` and `SilentForgotten` of Signalling, and
`RetentionCatchesUp`. Every invariant and every other action property that a
passing run checks has a theorem.

No module with a theorem declares a RECURSIVE operator.

## 5. Not modelled, and the plan

Not modelled: requests that are one statement (cameras, users, paging and filters
of recordings), message formats of devices (ONVIF, SIP texts and digests, the
catalogue, PTZ, tool output of device enumeration), LAN discovery, host
statistics, configuration and installation. They keep no state between two steps
that somebody else could see, or only move data in and out. Of the live streams
the channels to the subscribers and the transcoder of GB28181 streams are left
out: they drop frames when a reader is slow and decide nothing else. The
front end appears as a client that renews its lease or does not.

Plan, in this order:

1. `Session`: what a session promises whoever implements it (starts once, ends
   once, a final status stays), with refinements from SegmentSession and, as far
   as they hold, from Recorder.
2. Compositions: Recorder with EventBus (a browser sees the final status last), and
   Stream with Invites (which receiver feeds which instance).
