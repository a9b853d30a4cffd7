------------------------------- MODULE Stream -------------------------------
(***************************************************************************)
(* Live streams of one camera: StreamService (internal/service/stream.go), *)
(* the MJPEG handlers of internal/api/stream.go, the recorder that reads a *)
(* GB28181 stream, and InviteStream of internal/service/gb28181.go as far  *)
(* as it starts streams (module Invites has its ports and receivers).      *)
(* Every StartStream that finds no stream makes a new instance; instances  *)
(* are numbered in that order and 0 stands for nil.  One step is what the  *)
(* code does between two accesses to shared state: under StreamService.mu  *)
(* or Stream.mu, or on a context.                                          *)
(***************************************************************************)
EXTENDS Naturals, FiniteSets

CONSTANTS
    Clients,           \* goroutines of HTTP requests: viewers, start and stop calls
    MaxStreams,        \* bound on the instances made
    MaxRecordings      \* bound on the recordings of the camera

ASSUME StreamBounds == IsFiniteSet(Clients) /\ MaxStreams \in Nat /\ MaxRecordings \in Nat

VARIABLES
    protocol,     \* Camera.AccessProtocol
    made,         \* number of instances made
    current,      \* StreamService.streams[id]
    cancelled,    \* instances whose context is cancelled
    count,        \* Stream.mjpegCount
    puller,       \* the goroutine that closes Stream.done when it ends
    transcoder,   \* the MJPEG transcoder of an RTSP stream
    status,       \* Camera.Status as the puller writes it
    pc, held,     \* progress of each request and the instance it works on
    swept,        \* what Shutdown took out of the map and has not cancelled yet
    down,         \* progress of Shutdown
    rec, recs,    \* the camera's recording, and how many there were
    invite        \* progress of the InviteStream that an instance started

stream  == <<made, current, puller, transcoder>>
slot    == <<stream, invite>>
calls   == <<pc, held, count>>
record  == <<rec, recs>>
halt    == <<swept, down>>
\* What the steps of an instance's goroutines, of a request and of an INVITE
\* leave alone.
besides == <<protocol, made, current, invite, cancelled, calls, halt, record>>
aside   == <<protocol, status, halt, record>>
around  == <<protocol, cancelled, status, calls, halt, record>>
vars    == <<protocol, slot, cancelled, status, calls, halt, record>>

Instances == 1..MaxStreams
Protocols == {"rtsp", "gb28181"}

TypeOK ==
    /\ protocol \in Protocols
    /\ made \in 0..MaxStreams /\ current \in 0..made
    /\ cancelled \in SUBSET (1..made)
    /\ count \in [Instances -> Nat]
    /\ puller \in [Instances -> {"none", "check", "starting", "pulling", "waiting", "done"}]
    /\ transcoder \in [Instances -> {"none", "check", "running", "done"}]
    /\ status \in {"online", "offline"}
    /\ pc \in [Clients -> {"idle", "starting", "getting", "joining", "viewing", "leaving",
                           "checking", "dropping", "stopping", "cancelling", "waiting"}]
    /\ held \in [Clients -> 0..made]
    /\ swept \in 0..made /\ down \in {"no", "cancelling", "done"}
    /\ rec \in {"none", "created", "getting", "on"} /\ recs \in 0..MaxRecordings
    /\ invite \in [Instances -> {"none", "attach", "create", "start", "ended"}]

Init ==
    /\ protocol \in Protocols
    /\ made = 0 /\ current = 0 /\ cancelled = {}
    /\ count = [i \in Instances |-> 0]
    /\ puller = [i \in Instances |-> "none"] /\ transcoder = [i \in Instances |-> "none"]
    /\ status = "offline"
    /\ pc = [c \in Clients |-> "idle"] /\ held = [c \in Clients |-> 0]
    /\ swept = 0 /\ down = "no"
    /\ rec = "none" /\ recs = 0
    /\ invite = [i \in Instances |-> "none"]

-----------------------------------------------------------------------------
(* StreamService                                                           *)

\* StartStream makes an instance unless the camera has one; all of it under
\* mu.  A GB28181 stream gets a goroutine that closes done and an INVITE, an
\* RTSP stream a puller and a transcoder.  inv is invite with the caller's own
\* progress in it.
Launch(inv) ==
    IF protocol = "gb28181"
    THEN /\ puller' = [puller EXCEPT ![made'] = "waiting"]
         /\ invite' = [inv EXCEPT ![made'] = "attach"]
         /\ UNCHANGED transcoder
    ELSE /\ puller' = [puller EXCEPT ![made'] = "check"]
         /\ transcoder' = [transcoder EXCEPT ![made'] = "check"]
         /\ invite' = inv

MakeStream(inv) ==
    /\ current = 0 /\ made < MaxStreams
    /\ made' = made + 1 /\ current' = made + 1
    /\ Launch(inv)

FindStream(inv) ==
    /\ current # 0
    /\ invite' = inv /\ UNCHANGED stream

\* Mutant of StartStream: the map is not looked at before an instance is made.
StartAnother(inv) ==
    /\ made < MaxStreams
    /\ made' = made + 1 /\ current' = made + 1
    /\ Launch(inv)

StartStream(inv) == FindStream(inv) \/ MakeStream(inv)

\* The camera cannot be read: StartStream returns the error.
StartStreamFails(inv) ==
    /\ current = 0
    /\ invite' = inv /\ UNCHANGED stream

-----------------------------------------------------------------------------
(* The goroutines of an RTSP instance                                      *)

\* The top of runPuller's loop, and the two seconds it waits before another try.
PullerChecks(i) ==
    /\ puller[i] = "check"
    /\ puller' = [puller EXCEPT ![i] = IF i \in cancelled THEN "done" ELSE "starting"]
    /\ UNCHANGED <<transcoder, status, besides>>

\* FFmpeg is started, which fails on a cancelled context, and the camera is
\* marked online.
PullStarts(i) ==
    /\ puller[i] = "starting"
    /\ \/ puller' = [puller EXCEPT ![i] = "check"] /\ UNCHANGED status
       \/ puller' = [puller EXCEPT ![i] = "pulling"] /\ status' = "online"
    /\ UNCHANGED <<transcoder, besides>>

\* Mutant of PullEnds: a cancelled puller returns before the status is written.
PullEndsSilently(i) ==
    /\ puller[i] = "pulling"
    /\ status' = IF i \in cancelled THEN status ELSE "offline"
    /\ puller' = [puller EXCEPT ![i] = IF i \in cancelled THEN "done" ELSE "check"]
    /\ UNCHANGED <<transcoder, besides>>

\* FFmpeg exits by itself or is killed with the context: the deferred write
\* marks the camera offline, and a cancelled puller does not try again.
PullEnds(i) ==
    /\ puller[i] = "pulling"
    /\ status' = "offline"
    /\ puller' = [puller EXCEPT ![i] = IF i \in cancelled THEN "done" ELSE "check"]
    /\ UNCHANGED <<transcoder, besides>>

TranscoderChecks(i) ==
    /\ transcoder[i] = "check"
    /\ transcoder' = [transcoder EXCEPT ![i] = IF i \in cancelled THEN "done" ELSE "running"]
    /\ UNCHANGED <<puller, status, besides>>

\* Mutant of TranscodeEnds: the loop does not look at the context.
TranscodeRestarts(i) ==
    /\ transcoder[i] = "running"
    /\ transcoder' = [transcoder EXCEPT ![i] = "running"]
    /\ UNCHANGED <<puller, status, besides>>

TranscodeEnds(i) ==
    /\ transcoder[i] = "running"
    /\ transcoder' = [transcoder EXCEPT ![i] = IF i \in cancelled THEN "done" ELSE "check"]
    /\ UNCHANGED <<puller, status, besides>>

\* The goroutine of a GB28181 stream that closes done with the context.
CloserEnds(i) ==
    /\ puller[i] = "waiting" /\ i \in cancelled
    /\ puller' = [puller EXCEPT ![i] = "done"]
    /\ UNCHANGED <<transcoder, status, besides>>

-----------------------------------------------------------------------------
(* The MJPEG handler and the other requests                                *)

Goes(c, stage) == pc' = [pc EXCEPT ![c] = stage]
Holds(c, i)    == held' = [held EXCEPT ![c] = i]

\* StreamMJPEG looks for a stream.
ViewerGets(c) ==
    /\ pc[c] = "idle"
    /\ Goes(c, IF current = 0 THEN "starting" ELSE "joining")
    /\ Holds(c, current)
    /\ UNCHANGED <<slot, cancelled, count, aside>>

\* It starts one where there is none, or answers with the error.
ViewerStarts(c) ==
    /\ pc[c] = "starting"
    /\ \/ StartStream(invite) /\ Goes(c, "getting")
       \/ StartStreamFails(invite) /\ Goes(c, "idle")
    /\ UNCHANGED <<held, cancelled, count, aside>>

\* It looks again.  The stream may be gone by now: joining nil panics, and
\* the request ends.
ViewerGetsAgain(c) ==
    /\ pc[c] = "getting"
    /\ Goes(c, IF current = 0 THEN "idle" ELSE "joining")
    /\ Holds(c, current)
    /\ UNCHANGED <<slot, cancelled, count, aside>>

\* Mutant of IncMJPEGClient: the viewer joins uncounted.
IncForgotten(c) ==
    /\ pc[c] = "joining"
    /\ Goes(c, "viewing")
    /\ UNCHANGED <<slot, held, cancelled, count, aside>>

IncMJPEGClient(c) ==
    /\ pc[c] = "joining"
    /\ count' = [count EXCEPT ![held[c]] = @ + 1]
    /\ Goes(c, "viewing")
    /\ UNCHANGED <<slot, held, cancelled, aside>>

\* The peer goes away, before the first frame or later.
ViewerLeaves(c) ==
    /\ pc[c] = "viewing"
    /\ Goes(c, "leaving")
    /\ UNCHANGED <<slot, held, cancelled, count, aside>>

\* The stream was stopped: Done, or the closed channel of frames.
ViewerSeesEnd(c) ==
    /\ pc[c] = "viewing" /\ held[c] \in cancelled
    /\ Goes(c, "leaving")
    /\ UNCHANGED <<slot, held, cancelled, count, aside>>

\* Mutant of DecMJPEGClient: the count is compared before it is lowered.
DecTooLate(c) ==
    /\ pc[c] = "leaving"
    /\ count' = [count EXCEPT ![held[c]] = @ - 1]
    /\ Goes(c, IF count[held[c]] <= 0 THEN "checking" ELSE "idle")
    /\ Holds(c, IF count[held[c]] <= 0 THEN held[c] ELSE 0)
    /\ UNCHANGED <<slot, cancelled, aside>>

\* stopIfIdle: the last viewer goes on to the recordings.
DecMJPEGClient(c) ==
    /\ pc[c] = "leaving"
    /\ count' = [count EXCEPT ![held[c]] = @ - 1]
    /\ Goes(c, IF count[held[c]] <= 1 THEN "checking" ELSE "idle")
    /\ Holds(c, IF count[held[c]] <= 1 THEN held[c] ELSE 0)
    /\ UNCHANGED <<slot, cancelled, aside>>

\* A recording in progress keeps the stream.
StopIfNotRecorded(c) ==
    /\ pc[c] = "checking"
    /\ Goes(c, IF rec = "none" THEN "dropping" ELSE "idle")
    /\ Holds(c, 0)
    /\ UNCHANGED <<slot, cancelled, count, aside>>

\* POST /streams/:id/start.
ApiStart(c) ==
    /\ pc[c] = "idle" /\ current = 0
    /\ StartStream(invite)
    /\ UNCHANGED <<calls, cancelled, aside>>

\* POST /streams/:id/stop.
ApiStop(c) ==
    /\ pc[c] = "idle"
    /\ Goes(c, "stopping")
    /\ UNCHANGED <<slot, held, cancelled, count, aside>>

\* StopStream takes whatever instance the camera has out of the map.
StopTakes(c) ==
    /\ pc[c] \in {"stopping", "dropping"}
    /\ current' = 0
    /\ Holds(c, current)
    /\ Goes(c, IF current = 0 THEN "idle" ELSE "cancelling")
    /\ UNCHANGED <<made, puller, transcoder, invite, cancelled, count, aside>>

StopCancels(c) ==
    /\ pc[c] = "cancelling"
    /\ cancelled' = cancelled \cup {held[c]}
    /\ Goes(c, "waiting")
    /\ UNCHANGED <<slot, held, count, aside>>

\* It returns when the goroutine that closes done has ended.
StopReturns(c) ==
    /\ pc[c] = "waiting" /\ puller[held[c]] = "done"
    /\ Goes(c, "idle") /\ Holds(c, 0)
    /\ UNCHANGED <<slot, cancelled, count, aside>>

-----------------------------------------------------------------------------
(* Shutdown and the recorder                                               *)

\* StreamService.Shutdown empties the map and then cancels what was in it,
\* waiting for nothing.
ShutdownSwaps ==
    /\ down = "no"
    /\ down' = "cancelling"
    /\ swept' = current /\ current' = 0
    /\ UNCHANGED <<protocol, made, puller, transcoder, invite, cancelled, status, calls, record>>

ShutdownCancels ==
    /\ down = "cancelling"
    /\ down' = "done"
    /\ cancelled' = IF swept = 0 THEN cancelled ELSE cancelled \cup {swept}
    /\ swept' = 0
    /\ UNCHANGED <<protocol, slot, status, calls, record>>

\* The recording row exists, with status recording, before FFmpeg is started.
RecordingBegins ==
    /\ rec = "none" /\ recs < MaxRecordings
    /\ recs' = recs + 1
    /\ rec' = IF protocol = "gb28181" THEN "created" ELSE "on"
    /\ UNCHANGED <<protocol, slot, cancelled, status, calls, halt>>

\* startGB28181Recording starts the stream ...
RecordingStartsStream ==
    /\ rec = "created"
    /\ \/ StartStream(invite) /\ rec' = "getting"
       \/ StartStreamFails(invite) /\ rec' = "none"
    /\ UNCHANGED <<protocol, cancelled, status, calls, halt, recs>>

\* ... and fails when somebody stopped it before it is looked up.
RecordingGetsStream ==
    /\ rec = "getting"
    /\ rec' = IF current = 0 THEN "none" ELSE "on"
    /\ UNCHANGED <<protocol, slot, cancelled, status, calls, halt, recs>>

\* Nothing stops the stream when a recording ends.
RecordingEnds ==
    /\ rec = "on"
    /\ rec' = "none"
    /\ UNCHANGED <<protocol, slot, cancelled, status, calls, halt, recs>>

-----------------------------------------------------------------------------
(* InviteStream, as far as it starts streams                               *)

Invites(i, stage) == invite' = [invite EXCEPT ![i] = stage]

\* InviteStream fails without a session of the device, which is only logged,
\* and the stream stays without a source.  Otherwise startRTPReceiver feeds the
\* stream in the map, which may be a later instance; its port may be taken.
InviteAttaches(i) ==
    /\ invite[i] = "attach"
    /\ \/ Invites(i, "ended")
       \/ Invites(i, IF current = 0 THEN "create" ELSE "start")
    /\ UNCHANGED <<stream, around>>

\* It makes a stream when that one was stopped meanwhile; the new instance
\* sends an INVITE of its own.
InviteMakesStream(i) ==
    /\ invite[i] = "create"
    /\ \/ \E stage \in {"start", "ended"} : StartStream([invite EXCEPT ![i] = stage])
       \/ StartStreamFails([invite EXCEPT ![i] = "ended"])
    /\ UNCHANGED around

\* StartStream once more, whatever it returns, and the INVITE is sent.
InviteStartsStream(i) ==
    /\ invite[i] = "start"
    /\ \/ StartStream([invite EXCEPT ![i] = "ended"])
       \/ StartStreamFails([invite EXCEPT ![i] = "ended"])
    /\ UNCHANGED around

-----------------------------------------------------------------------------
(* The specification                                                       *)

RequestStep(c) ==
    \/ ViewerStarts(c) \/ ViewerGetsAgain(c) \/ IncMJPEGClient(c) \/ ViewerSeesEnd(c)
    \/ DecMJPEGClient(c) \/ StopIfNotRecorded(c)
    \/ StopTakes(c) \/ StopCancels(c) \/ StopReturns(c)

Request(c) == ViewerGets(c) \/ ViewerLeaves(c) \/ ApiStart(c) \/ ApiStop(c)

InviteStep(i) ==
    \/ InviteAttaches(i) \/ InviteMakesStream(i) \/ InviteStartsStream(i)

InstanceStep(i) ==
    \/ PullerChecks(i) \/ PullStarts(i) \/ PullEnds(i)
    \/ TranscoderChecks(i) \/ TranscodeEnds(i)
    \/ CloserEnds(i)

ServiceStep ==
    \/ ShutdownSwaps \/ ShutdownCancels
    \/ RecordingBegins \/ RecordingStartsStream \/ RecordingGetsStream \/ RecordingEnds

Next ==
    \/ \E c \in Clients : RequestStep(c) \/ Request(c)
    \/ \E i \in Instances : InstanceStep(i) \/ InviteStep(i)
    \/ ServiceStep

Spec == Init /\ [][Next]_vars

\* Goroutines run, and an FFmpeg whose context is cancelled is killed.  A
\* request may come or not, a viewer may stay, an FFmpeg may run on.
Fairness ==
    /\ \A c \in Clients : WF_vars(RequestStep(c))
    /\ \A i \in Instances :
        /\ WF_vars(PullerChecks(i)) /\ WF_vars(PullStarts(i))
        /\ WF_vars(i \in cancelled /\ PullEnds(i))
        /\ WF_vars(TranscoderChecks(i)) /\ WF_vars(i \in cancelled /\ TranscodeEnds(i))
        /\ WF_vars(CloserEnds(i)) /\ WF_vars(InviteStep(i))
    /\ WF_vars(ShutdownCancels)

FairSpec == Spec /\ Fairness

-----------------------------------------------------------------------------
(* Properties                                                              *)

\* Stopping(i): somebody took the instance out of the map and cancels it next.
Stopping(i) ==
    \/ swept = i
    \/ \E c \in Clients : held[c] = i /\ pc[c] = "cancelling"

\* No instance is lost: one that nobody cancelled is the camera's stream or
\* is in the hands of a StopStream or of Shutdown.  StartStream, StopStream
\* and Shutdown keep this by holding mu around the map.
NoStray == \A i \in 1..made : i \in cancelled \/ i = current \/ Stopping(i)

\* A camera that the streams show online is being pulled: every exit of
\* pullRTSP writes the offline status, also that of a stopped stream.
OnlineMeansPulled == status = "online" => \E i \in Instances : puller[i] = "pulling"

\* The life of the instances: the one in the map is live, and one that is not
\* there any more has ended once it is cancelled and its goroutines returned.
Ended(i) == i \in cancelled /\ puller[i] = "done" /\ transcoder[i] \in {"none", "done"}

life ==
    [i \in Instances |->
        IF i > made THEN "new"
        ELSE IF i = current THEN "live"
        ELSE IF Ended(i) THEN "ended" ELSE "dropped"]

Life == INSTANCE StreamLife WITH Instances <- Instances, life <- life

\* The service keeps the promise of StreamLife: one live instance at a time,
\* and one that StopStream or Shutdown took out of the map is cancelled and
\* ends, so that no FFmpeg outlives its stream and StopStream, which waits for
\* the puller, returns.
ImplementsLife == Life!FairSpec

\* "the MJPEG clients are counted to stop the stream with the last one"
\* (stream.go:104): a stream that was viewed is stopped, or viewed again and
\* again, if no recording is made.
UnwatchedStops ==
    [](rec = "none") =>
        \A i \in Instances : []<>(count[i] > 0) \/ (count[i] > 0 ~> i \in cancelled)
=============================================================================
