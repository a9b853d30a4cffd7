---------------------------- MODULE StreamProofs ----------------------------
(***************************************************************************)
(* Proofs about module Stream, for any finite set of requests and any      *)
(* bounds: its types, the viewers of an instance, the instances that are   *)
(* never lost, and the steps of StreamLife that every step stands for.     *)
(***************************************************************************)
EXTENDS Stream, FiniteSetTheorems, TLAPS

\* The viewers that are counted in an instance.
Viewers(i) == {c \in Clients : pc[c] \in {"viewing", "leaving"} /\ held[c] = i}

\* mjpegCount is their number.
CountExact == \A i \in Instances : count[i] = Cardinality(Viewers(i))

\* A request that works on an instance has one.
HeldMade ==
    \A c \in Clients :
        pc[c] \in {"joining", "viewing", "leaving", "cancelling", "waiting"} => held[c] # 0

\* What is in the map is neither cancelled nor about to be.
CurrentLives ==
    /\ current \notin cancelled
    /\ \A c \in Clients : pc[c] = "cancelling" => held[c] # current
    /\ swept # 0 => swept # current
    /\ down # "cancelling" => swept = 0

IInv == TypeOK /\ HeldMade /\ CountExact /\ CurrentLives /\ NoStray

PullerStages     == {"none", "check", "starting", "pulling", "waiting", "done"}
TranscoderStages == {"none", "check", "running", "done"}
InviteStages     == {"none", "attach", "create", "start", "ended"}

-----------------------------------------------------------------------------
(* StartStream                                                             *)

\* Starts: the effect of a StartStream that makes an instance.
Starts ==
    /\ current = 0 /\ made < MaxStreams
    /\ made' = made + 1 /\ current' = made + 1
    /\ \E p \in PullerStages, t \in TranscoderStages :
        /\ puller' = [puller EXCEPT ![made + 1] = p]
        /\ transcoder' = [transcoder EXCEPT ![made + 1] = t]

\* Whatever StartStream returns, there is a new instance in an empty map, or
\* the streams are as they were; the INVITEs keep their types.
LEMMA StartCases ==
    ASSUME TypeOK, NEW inv \in [Instances -> InviteStages],
           StartStream(inv) \/ StartStreamFails(inv)
    PROVE  /\ invite' \in [Instances -> InviteStages]
           /\ Starts \/ UNCHANGED stream
<1>1. CASE FindStream(inv) \/ StartStreamFails(inv)
  BY <1>1 DEF FindStream, StartStreamFails
<1>2. CASE MakeStream(inv)
  <2>1. made + 1 \in Instances
    BY <1>2, StreamBounds DEF TypeOK, MakeStream, Instances
  <2>2. CASE protocol = "gb28181"
    <3>1. transcoder' = [transcoder EXCEPT ![made + 1] = transcoder[made + 1]]
      BY <1>2, <2>1, <2>2 DEF TypeOK, MakeStream, Launch
    <3>2. transcoder[made + 1] \in TranscoderStages
      BY <2>1 DEF TypeOK, TranscoderStages
    <3>3. puller' = [puller EXCEPT ![made + 1] = "waiting"]
      BY <1>2, <2>2 DEF MakeStream, Launch
    <3>4. invite' = [inv EXCEPT ![made + 1] = "attach"]
      BY <1>2, <2>2 DEF MakeStream, Launch
    <3>5. Starts
      BY <1>2, <3>1, <3>2, <3>3 DEF MakeStream, Starts, PullerStages
    <3> QED
      BY <2>1, <3>4, <3>5 DEF InviteStages
  <2>3. CASE protocol # "gb28181"
    BY <1>2, <2>3 DEF MakeStream, Launch, Starts, PullerStages, TranscoderStages
  <2> QED
    BY <2>2, <2>3
<1> QED
  BY <1>1, <1>2 DEF StartStream

\* A StartStream by anybody keeps the types of the streams ...
LEMMA StartTypes ==
    ASSUME TypeOK, Starts \/ UNCHANGED stream
    PROVE  /\ made' \in 0..MaxStreams /\ made <= made' /\ current' \in 0..made'
           /\ puller' \in [Instances -> PullerStages]
           /\ transcoder' \in [Instances -> TranscoderStages]
<1> USE StreamBounds DEF TypeOK, PullerStages, TranscoderStages
<1>1. CASE Starts
  BY <1>1 DEF Starts, Instances
<1>2. CASE UNCHANGED stream
  BY <1>2 DEF stream
<1> QED
  BY <1>1, <1>2

\* ... and the rest of the invariant, when it is between two other calls.
LEMMA StartKeeps ==
    ASSUME IInv, Starts \/ UNCHANGED stream, UNCHANGED <<held, cancelled, count, halt>>,
           \A c \in Clients : pc'[c] = pc[c] \/ (pc[c] = "starting" /\ pc'[c] \in {"getting", "idle"})
    PROVE  HeldMade' /\ CountExact' /\ CurrentLives' /\ NoStray'
<1> USE DEF halt
<1>1. HeldMade'
  BY DEF IInv, HeldMade
<1>2. CountExact'
  <2>1. ASSUME NEW i \in Instances PROVE Viewers(i)' = Viewers(i)
    BY DEF Viewers
  <2> QED
    BY <2>1 DEF IInv, CountExact, TypeOK
<1>3. CASE Starts
  <2>1. made + 1 \in Nat /\ made + 1 # 0 /\ made + 1 \notin cancelled
        /\ swept # made + 1 /\ \A c \in Clients : held[c] # made + 1
    BY StreamBounds DEF IInv, TypeOK
  <2>2. CurrentLives'
    BY <1>3, <2>1 DEF IInv, CurrentLives, Starts
  <2>3. ASSUME NEW i \in 1..made' PROVE (i \in cancelled \/ i = current \/ Stopping(i))'
    <3>1. CASE i = made + 1
      BY <1>3, <3>1 DEF Starts
    <3>2. CASE i # made + 1
      <4>1. i \in 1..made /\ i # current
        BY <1>3, <3>2, StreamBounds DEF Starts, IInv, TypeOK
      <4> QED
        BY <4>1 DEF IInv, NoStray, Stopping
    <3> QED
      BY <3>1, <3>2
  <2> QED
    BY <1>1, <1>2, <2>2, <2>3 DEF NoStray
<1>4. CASE UNCHANGED stream
  <2>1. CurrentLives'
    BY <1>4 DEF IInv, CurrentLives, stream
  <2>2. NoStray'
    BY <1>4 DEF IInv, NoStray, Stopping, stream
  <2> QED
    BY <1>1, <1>2, <2>1, <2>2
<1> QED
  BY <1>3, <1>4

-----------------------------------------------------------------------------
(* Requests                                                                *)

\* A request that neither joins nor leaves, and that is in no StopStream,
\* disturbs nothing but its own progress.
LEMMA CallKeeps ==
    ASSUME IInv, NEW c \in Clients,
           NEW s \in {"idle", "starting", "getting", "joining", "checking", "dropping", "stopping"},
           NEW i \in 0..made, s = "joining" => i # 0,
           pc[c] \notin {"viewing", "leaving", "cancelling"},
           Goes(c, s), Holds(c, i), UNCHANGED <<slot, cancelled, count, aside>>
    PROVE  IInv'
<1> USE DEF Goes, Holds, slot, stream, aside, halt, record
<1>1. TypeOK'
  BY DEF IInv, TypeOK
<1>2. HeldMade'
  BY DEF IInv, TypeOK, HeldMade
<1>3. CountExact'
  <2>1. ASSUME NEW j \in Instances PROVE Viewers(j)' = Viewers(j)
    BY DEF Viewers, IInv, TypeOK
  <2> QED
    BY <2>1 DEF IInv, CountExact, TypeOK
<1>4. CurrentLives'
  BY DEF IInv, CurrentLives, TypeOK
<1>5. NoStray'
  <2>1. ASSUME NEW j \in 1..made, Stopping(j) PROVE Stopping(j)'
    BY <2>1 DEF Stopping, IInv, TypeOK
  <2> QED
    BY <2>1 DEF IInv, NoStray
<1> QED
  BY <1>1, <1>2, <1>3, <1>4, <1>5 DEF IInv

\* A viewer is counted when it joins and not any more when it has left.
LEMMA ViewersFinite ==
    ASSUME NEW i \in Instances
    PROVE  IsFiniteSet(Viewers(i)) /\ Cardinality(Viewers(i)) \in Nat
BY StreamBounds, FS_Subset, FS_CardinalityType DEF Viewers

LEMMA JoinKeeps == ASSUME IInv, NEW c \in Clients, IncMJPEGClient(c) PROVE IInv'
<1> USE DEF Goes, IncMJPEGClient, slot, stream, aside, halt, record
<1>1. held[c] \in Instances
  BY StreamBounds DEF IInv, TypeOK, HeldMade, Instances
<1>2. TypeOK'
  BY <1>1 DEF IInv, TypeOK
<1>3. HeldMade'
  BY DEF IInv, TypeOK, HeldMade
<1>4. CountExact'
  <2>1. ASSUME NEW j \in Instances, j # held[c] PROVE count'[j] = Cardinality(Viewers(j)')
    <3>1. Viewers(j)' = Viewers(j)
      BY <2>1 DEF Viewers, IInv, TypeOK
    <3> QED
      BY <2>1, <3>1 DEF IInv, TypeOK, CountExact
  <2>2. count'[held[c]] = Cardinality(Viewers(held[c])')
    <3>1. Viewers(held[c])' = Viewers(held[c]) \cup {c} /\ c \notin Viewers(held[c])
      BY DEF Viewers, IInv, TypeOK
    <3>2. Cardinality(Viewers(held[c]) \cup {c}) = Cardinality(Viewers(held[c])) + 1
      BY <1>1, <3>1, ViewersFinite, FS_AddElement
    <3>3. count[held[c]] = Cardinality(Viewers(held[c]))
      BY <1>1 DEF IInv, CountExact
    <3>4. count'[held[c]] = count[held[c]] + 1
      BY <1>1 DEF IInv, TypeOK
    <3> QED
      BY <3>1, <3>2, <3>3, <3>4
  <2> QED
    BY <2>1, <2>2 DEF CountExact, Viewers
<1>5. CurrentLives'
  BY DEF IInv, CurrentLives, TypeOK
<1>6. NoStray'
  <2>1. ASSUME NEW j \in 1..made, Stopping(j) PROVE Stopping(j)'
    BY <2>1 DEF Stopping, IInv, TypeOK
  <2> QED
    BY <2>1 DEF IInv, NoStray
<1> QED
  BY <1>2, <1>3, <1>4, <1>5, <1>6 DEF IInv

LEMMA LeaveKeeps == ASSUME IInv, NEW c \in Clients, DecMJPEGClient(c) PROVE IInv'
<1> USE DEF Goes, Holds, DecMJPEGClient, slot, stream, aside, halt, record
<1>1. PICK h \in Instances : h = held[c]
  BY StreamBounds DEF IInv, TypeOK, HeldMade, Instances
<1>2. CountExact' /\ count' \in [Instances -> Nat]
  <2>1. ASSUME NEW j \in Instances, j # h
        PROVE count'[j] \in Nat /\ count'[j] = Cardinality(Viewers(j)')
    <3>1. Viewers(j)' = Viewers(j)
      BY <1>1, <2>1 DEF Viewers, IInv, TypeOK
    <3> QED
      BY <1>1, <2>1, <3>1 DEF IInv, TypeOK, CountExact
  <2>2. count'[h] \in Nat /\ count'[h] = Cardinality(Viewers(h)')
    <3>1. Viewers(h)' = Viewers(h) \ {c} /\ c \in Viewers(h)
      BY <1>1 DEF Viewers, IInv, TypeOK
    <3>2. /\ IsFiniteSet(Viewers(h) \ {c})
          /\ Cardinality(Viewers(h) \ {c}) = Cardinality(Viewers(h)) - 1
      BY <3>1, ViewersFinite, FS_RemoveElement
    <3>3. Cardinality(Viewers(h) \ {c}) \in Nat
      BY <3>2, FS_CardinalityType
    <3>4. count[h] = Cardinality(Viewers(h)) /\ count[h] \in Nat
      BY DEF IInv, CountExact, TypeOK
    <3>5. count'[h] = count[h] - 1
      BY <1>1 DEF IInv, TypeOK
    <3> QED
      BY <3>1, <3>2, <3>3, <3>4, <3>5
  <2>3. count' = [j \in Instances |-> count'[j]]
    BY <1>1 DEF IInv, TypeOK
  <2>4. count' \in [Instances -> Nat]
    BY <2>1, <2>2, <2>3
  <2> QED
    BY <2>1, <2>2, <2>4 DEF CountExact
<1>3. TypeOK'
  BY <1>2 DEF IInv, TypeOK
<1>4. HeldMade'
  BY DEF IInv, TypeOK, HeldMade
<1>5. CurrentLives'
  BY DEF IInv, CurrentLives, TypeOK
<1>6. NoStray'
  <2>1. ASSUME NEW j \in 1..made, Stopping(j) PROVE Stopping(j)'
    BY <2>1 DEF Stopping, IInv, TypeOK
  <2> QED
    BY <2>1 DEF IInv, NoStray
<1> QED
  BY <1>2, <1>3, <1>4, <1>5, <1>6 DEF IInv

\* The steps of StopStream and of a viewer that stops watching: nobody is
\* counted or discounted, and the instance stays in somebody's hands.
LEMMA StopKeeps ==
    ASSUME IInv, NEW c \in Clients,
           \/ StopTakes(c) \/ StopCancels(c) \/ StopReturns(c)
           \/ ViewerLeaves(c) \/ ViewerSeesEnd(c)
    PROVE  IInv'
<1> USE DEF Goes, Holds, slot, stream, aside, halt, record
<1>1. CASE StopTakes(c)
  <2> USE <1>1 DEF StopTakes
  <2>1. TypeOK'
    BY DEF IInv, TypeOK
  <2>2. HeldMade'
    BY DEF IInv, TypeOK, HeldMade
  <2>3. CountExact'
    <3>1. ASSUME NEW j \in Instances PROVE Viewers(j)' = Viewers(j)
      BY DEF Viewers, IInv, TypeOK
    <3> QED
      BY <3>1 DEF IInv, CountExact, TypeOK
  <2>4. CurrentLives'
    <3>1. current' = 0 /\ 0 \notin cancelled
      BY DEF IInv, TypeOK
    <3>2. ASSUME NEW d \in Clients, pc'[d] = "cancelling" PROVE held'[d] # 0
      BY <3>2 DEF IInv, TypeOK, HeldMade
    <3> QED
      BY <3>1, <3>2 DEF IInv, CurrentLives
  <2>5. NoStray'
    <3>1. ASSUME NEW j \in 1..made, Stopping(j) PROVE Stopping(j)'
      BY <3>1 DEF Stopping, IInv, TypeOK
    <3>2. ASSUME NEW j \in 1..made, j = current PROVE Stopping(j)'
      BY <3>2 DEF Stopping, IInv, TypeOK
    <3> QED
      BY <3>1, <3>2 DEF IInv, NoStray
  <2> QED
    BY <2>1, <2>2, <2>3, <2>4, <2>5 DEF IInv
<1>2. CASE StopCancels(c)
  <2> USE <1>2 DEF StopCancels
  <2>1. TypeOK'
    <3>1. held[c] \in 1..made
      BY DEF IInv, TypeOK, HeldMade
    <3> QED
      BY <3>1 DEF IInv, TypeOK
  <2>2. HeldMade'
    BY DEF IInv, TypeOK, HeldMade
  <2>3. CountExact'
    <3>1. ASSUME NEW j \in Instances PROVE Viewers(j)' = Viewers(j)
      BY DEF Viewers, IInv, TypeOK
    <3> QED
      BY <3>1 DEF IInv, CountExact, TypeOK
  <2>4. CurrentLives'
    BY DEF IInv, CurrentLives, TypeOK
  <2>5. NoStray'
    <3>1. ASSUME NEW j \in 1..made, Stopping(j) PROVE j \in cancelled' \/ Stopping(j)'
      BY <3>1 DEF Stopping, IInv, TypeOK
    <3> QED
      BY <3>1 DEF IInv, NoStray
  <2> QED
    BY <2>1, <2>2, <2>3, <2>4, <2>5 DEF IInv
<1>3. CASE StopReturns(c)
  <2>1. held' = [held EXCEPT ![c] = 0] /\ Goes(c, "idle") /\ 0 \in 0..made
    BY <1>3 DEF StopReturns, IInv, TypeOK
  <2> QED
    BY <1>3, <2>1, CallKeeps DEF StopReturns
<1>4. CASE ViewerLeaves(c) \/ ViewerSeesEnd(c)
  <2> USE <1>4 DEF ViewerLeaves, ViewerSeesEnd
  <2>1. TypeOK'
    BY DEF IInv, TypeOK
  <2>2. HeldMade'
    BY DEF IInv, TypeOK, HeldMade
  <2>3. CountExact'
    <3>1. ASSUME NEW j \in Instances PROVE Viewers(j)' = Viewers(j)
      BY DEF Viewers, IInv, TypeOK
    <3> QED
      BY <3>1 DEF IInv, CountExact, TypeOK
  <2>4. CurrentLives'
    BY DEF IInv, CurrentLives, TypeOK
  <2>5. NoStray'
    <3>1. ASSUME NEW j \in 1..made, Stopping(j) PROVE Stopping(j)'
      BY <3>1 DEF Stopping, IInv, TypeOK
    <3> QED
      BY <3>1 DEF IInv, NoStray
  <2> QED
    BY <2>1, <2>2, <2>3, <2>4, <2>5 DEF IInv
<1> QED
  BY <1>1, <1>2, <1>3, <1>4

LEMMA RequestKeeps ==
    ASSUME IInv, NEW c \in Clients, RequestStep(c) \/ Request(c)
    PROVE  IInv'
<1> current \in 0..made /\ held[c] \in 0..made /\ 0 \in 0..made /\ held \in [Clients -> 0..made]
  BY DEF IInv, TypeOK
<1>1. CASE ViewerGets(c)
  BY <1>1, CallKeeps DEF ViewerGets
<1>2. CASE ViewerGetsAgain(c)
  BY <1>2, CallKeeps DEF ViewerGetsAgain
<1>3. CASE StopIfNotRecorded(c)
  BY <1>3, CallKeeps DEF StopIfNotRecorded
<1>4. CASE ApiStop(c)
  <2>1. Holds(c, held[c])
    BY <1>4 DEF ApiStop, Holds
  <2> QED
    BY <1>4, <2>1, CallKeeps DEF ApiStop
<1>5. CASE ViewerStarts(c) \/ ApiStart(c)
  <2>1. StartStream(invite) \/ StartStreamFails(invite)
    BY <1>5 DEF ViewerStarts, ApiStart
  <2>2. invite' \in [Instances -> InviteStages] /\ (Starts \/ UNCHANGED stream)
    BY <2>1, StartCases DEF IInv, TypeOK, InviteStages
  <2>3. /\ UNCHANGED <<held, cancelled, count, aside>>
        /\ \A d \in Clients :
              pc'[d] = pc[d] \/ (pc[d] = "starting" /\ pc'[d] \in {"getting", "idle"})
        /\ pc' = [d \in Clients |-> pc'[d]]
    BY <1>5 DEF ViewerStarts, ApiStart, calls, Goes, IInv, TypeOK
  <2>4. TypeOK'
    <3>1. /\ made' \in 0..MaxStreams /\ made <= made' /\ current' \in 0..made'
          /\ puller' \in [Instances -> PullerStages]
          /\ transcoder' \in [Instances -> TranscoderStages]
      BY <2>2, StartTypes DEF IInv
    <3> QED
      BY <2>2, <2>3, <3>1
         DEF IInv, TypeOK, aside, halt, record, PullerStages, TranscoderStages, InviteStages
  <2> QED
    BY <2>2, <2>3, <2>4, StartKeeps DEF IInv, aside
<1>6. CASE IncMJPEGClient(c)
  BY <1>6, JoinKeeps
<1>7. CASE DecMJPEGClient(c)
  BY <1>7, LeaveKeeps
<1>8. CASE \/ StopTakes(c) \/ StopCancels(c) \/ StopReturns(c)
           \/ ViewerLeaves(c) \/ ViewerSeesEnd(c)
  BY <1>8, StopKeeps
<1> QED
  BY <1>1, <1>2, <1>3, <1>4, <1>5, <1>6, <1>7, <1>8 DEF RequestStep, Request

-----------------------------------------------------------------------------
(* Instances, INVITEs, Shutdown and the recorder                           *)

\* A goroutine of an instance changes no more than its own stage and the
\* status of the camera.
LEMMA GoroutineTypes ==
    ASSUME TypeOK, NEW i \in Instances, InstanceStep(i)
    PROVE  /\ UNCHANGED besides
           /\ puller' \in [Instances -> PullerStages]
           /\ transcoder' \in [Instances -> TranscoderStages]
           /\ status' \in {"online", "offline"}
<1> USE DEF TypeOK, PullerStages, TranscoderStages
<1>1. CASE PullerChecks(i) \/ PullStarts(i) \/ PullEnds(i) \/ CloserEnds(i)
  BY <1>1 DEF PullerChecks, PullStarts, PullEnds, CloserEnds
<1>2. CASE TranscoderChecks(i) \/ TranscodeEnds(i)
  BY <1>2 DEF TranscoderChecks, TranscodeEnds
<1> QED
  BY <1>1, <1>2 DEF InstanceStep

LEMMA GoroutineKeeps == ASSUME IInv, NEW i \in Instances, InstanceStep(i) PROVE IInv'
<1>1. /\ UNCHANGED <<protocol, made, current, invite, cancelled, pc, held, count>>
      /\ UNCHANGED <<swept, down, rec, recs>>
      /\ puller' \in [Instances -> PullerStages]
      /\ transcoder' \in [Instances -> TranscoderStages]
      /\ status' \in {"online", "offline"}
  BY GoroutineTypes DEF IInv, besides, calls, halt, record
<1>2. TypeOK'
  BY <1>1 DEF IInv, TypeOK, PullerStages, TranscoderStages
<1>3. CountExact'
  <2>1. ASSUME NEW j \in Instances PROVE Viewers(j)' = Viewers(j)
    BY <1>1 DEF Viewers
  <2> QED
    BY <1>1, <2>1 DEF IInv, CountExact
<1>4. HeldMade' /\ CurrentLives'
  BY <1>1 DEF IInv, HeldMade, CurrentLives
<1>5. NoStray'
  BY <1>1 DEF IInv, NoStray, Stopping
<1> QED
  BY <1>2, <1>3, <1>4, <1>5 DEF IInv

\* An INVITE changes the map by StartStream only.
LEMMA InviteCases ==
    ASSUME TypeOK, NEW i \in Instances, InviteStep(i)
    PROVE  /\ UNCHANGED around
           /\ invite' \in [Instances -> InviteStages]
           /\ Starts \/ UNCHANGED stream
<1>1. CASE InviteAttaches(i)
  BY <1>1 DEF InviteAttaches, Invites, TypeOK, InviteStages
<1>2. CASE InviteMakesStream(i) \/ InviteStartsStream(i)
  <2>1. PICK stage \in {"start", "ended"} :
            \/ StartStream([invite EXCEPT ![i] = stage])
            \/ StartStreamFails([invite EXCEPT ![i] = stage])
    BY <1>2 DEF InviteMakesStream, InviteStartsStream
  <2>2. [invite EXCEPT ![i] = stage] \in [Instances -> InviteStages]
    BY DEF TypeOK, InviteStages
  <2>3. UNCHANGED around
    BY <1>2 DEF InviteMakesStream, InviteStartsStream
  <2> QED
    BY <2>1, <2>2, <2>3, StartCases
<1> QED
  BY <1>1, <1>2 DEF InviteStep

LEMMA InviteKeeps == ASSUME IInv, NEW i \in Instances, InviteStep(i) PROVE IInv'
<1>1. /\ UNCHANGED around
      /\ invite' \in [Instances -> InviteStages]
      /\ Starts \/ UNCHANGED stream
  BY InviteCases DEF IInv
<1>2. TypeOK'
  <2>1. /\ made' \in 0..MaxStreams /\ made <= made' /\ current' \in 0..made'
        /\ puller' \in [Instances -> PullerStages]
        /\ transcoder' \in [Instances -> TranscoderStages]
    BY <1>1, StartTypes DEF IInv
  <2> QED
    BY <1>1, <2>1 DEF IInv, TypeOK, around, calls, halt, record, PullerStages, TranscoderStages,
                      InviteStages
<1> QED
  BY <1>1, <1>2, StartKeeps DEF IInv, around, calls

\* Shutdown takes the stream out of the map and cancels it in a second step.
LEMMA ShutdownKeeps == ASSUME IInv, ShutdownSwaps \/ ShutdownCancels PROVE IInv'
<1> USE DEF slot, stream, calls, record
<1>1. HeldMade'
  BY DEF IInv, HeldMade, ShutdownSwaps, ShutdownCancels
<1>2. CountExact'
  <2>1. ASSUME NEW j \in Instances PROVE Viewers(j)' = Viewers(j)
    BY DEF Viewers, ShutdownSwaps, ShutdownCancels
  <2> QED
    BY <2>1 DEF IInv, CountExact, ShutdownSwaps, ShutdownCancels
<1>3. CASE ShutdownSwaps
  <2>1. TypeOK'
    BY <1>3 DEF IInv, TypeOK, ShutdownSwaps
  <2>2. CurrentLives'
    BY <1>3 DEF IInv, TypeOK, CurrentLives, HeldMade, ShutdownSwaps
  <2>3. NoStray'
    BY <1>3 DEF IInv, TypeOK, CurrentLives, NoStray, Stopping, ShutdownSwaps
  <2> QED
    BY <1>1, <1>2, <2>1, <2>2, <2>3 DEF IInv
<1>4. CASE ShutdownCancels
  <2>1. TypeOK'
    BY <1>4 DEF IInv, TypeOK, ShutdownCancels
  <2>2. CurrentLives'
    BY <1>4 DEF IInv, TypeOK, CurrentLives, ShutdownCancels
  <2>3. NoStray'
    BY <1>4 DEF IInv, TypeOK, NoStray, Stopping, ShutdownCancels
  <2> QED
    BY <1>1, <1>2, <2>1, <2>2, <2>3 DEF IInv
<1> QED
  BY <1>3, <1>4

LEMMA RecordingKeeps ==
    ASSUME IInv,
           \/ RecordingBegins \/ RecordingStartsStream
           \/ RecordingGetsStream \/ RecordingEnds
    PROVE  IInv'
<1>1. /\ UNCHANGED <<protocol, cancelled, status, calls, halt>>
      /\ rec' \in {"none", "created", "getting", "on"} /\ recs' \in 0..MaxRecordings
  BY StreamBounds DEF RecordingBegins, RecordingStartsStream, RecordingGetsStream, RecordingEnds,
                      IInv, TypeOK
<1>2. invite' \in [Instances -> InviteStages] /\ (Starts \/ UNCHANGED stream)
  <2>1. CASE RecordingStartsStream
    BY <2>1, StartCases DEF RecordingStartsStream, IInv, TypeOK, InviteStages
  <2>2. CASE RecordingBegins \/ RecordingGetsStream \/ RecordingEnds
    BY <2>2 DEF RecordingBegins, RecordingGetsStream, RecordingEnds, slot, IInv, TypeOK,
                InviteStages
  <2> QED
    BY <2>1, <2>2
<1>3. TypeOK'
  <2>1. /\ made' \in 0..MaxStreams /\ made <= made' /\ current' \in 0..made'
        /\ puller' \in [Instances -> PullerStages]
        /\ transcoder' \in [Instances -> TranscoderStages]
    BY <1>2, StartTypes DEF IInv
  <2> QED
    BY <1>1, <1>2, <2>1 DEF IInv, TypeOK, calls, halt, PullerStages, TranscoderStages,
                            InviteStages
<1> QED
  BY <1>1, <1>2, <1>3, StartKeeps DEF IInv, calls

-----------------------------------------------------------------------------
(* Theorems                                                                *)

LEMMA InvInit == Init => IInv
<1> SUFFICES ASSUME Init PROVE IInv
  OBVIOUS
<1> USE DEF Init
<1>1. TypeOK
  BY StreamBounds DEF TypeOK, Protocols
<1>2. CountExact
  <2>1. ASSUME NEW i \in Instances PROVE Viewers(i) = {}
    BY DEF Viewers
  <2> QED
    BY <2>1, FS_EmptySet DEF CountExact
<1>3. HeldMade /\ CurrentLives /\ NoStray
  BY DEF HeldMade, CurrentLives, NoStray
<1> QED
  BY <1>1, <1>2, <1>3 DEF IInv

LEMMA InvNext == IInv /\ [Next]_vars => IInv'
<1> SUFFICES ASSUME IInv, [Next]_vars PROVE IInv'
  OBVIOUS
<1>1. ASSUME NEW c \in Clients, RequestStep(c) \/ Request(c) PROVE IInv'
  BY <1>1, RequestKeeps
<1>2. ASSUME NEW i \in Instances, InstanceStep(i) \/ InviteStep(i) PROVE IInv'
  BY <1>2, GoroutineKeeps, InviteKeeps
<1>3. CASE ServiceStep
  BY <1>3, ShutdownKeeps, RecordingKeeps DEF ServiceStep
<1>4. CASE UNCHANGED vars
  <2> USE <1>4 DEF vars, slot, stream, calls, halt, record
  <2>1. TypeOK' /\ HeldMade' /\ CurrentLives' /\ NoStray'
    BY DEF IInv, TypeOK, HeldMade, CurrentLives, NoStray, Stopping
  <2>2. CountExact'
    BY DEF IInv, CountExact, Viewers
  <2> QED
    BY <2>1, <2>2 DEF IInv
<1> QED
  BY <1>1, <1>2, <1>3, <1>4 DEF Next

\* The strengthened invariant of the streams.
THEOREM Invariance == Spec => []IInv
<1> QED
  BY InvInit, InvNext, PTL DEF Spec

\* Every variable keeps its type; that mjpegCount is never negative rests on
\* its being the number of viewers.
THEOREM Typing == Spec => []TypeOK
<1>1. IInv => TypeOK
  BY DEF IInv
<1> QED
  BY <1>1, Invariance, PTL

\* mjpegCount is the number of requests that watch the instance, whatever
\* stops it meanwhile.
THEOREM ViewersCounted == Spec => []CountExact
<1>1. IInv => CountExact
  BY DEF IInv
<1> QED
  BY <1>1, Invariance, PTL

\* No instance is lost, for any number of requests: one that is neither
\* cancelled nor in the map is in the hands of a StopStream or of Shutdown.
THEOREM NoneStrays == Spec => []NoStray
<1>1. IInv => NoStray
  BY DEF IInv
<1> QED
  BY <1>1, Invariance, PTL

-----------------------------------------------------------------------------
(* The status of the camera                                                *)

\* An instance to come has no puller.
Unmade == \A i \in Instances : i > made => puller[i] = "none"

\* Only a puller writes the status or changes the stage of a puller; the other
\* steps at most make an instance.
LEMMA StatusByPuller ==
    ASSUME IInv,
           \/ \E c \in Clients : RequestStep(c) \/ Request(c)
           \/ \E i \in Instances : InviteStep(i)
           \/ ServiceStep
    PROVE  UNCHANGED status /\ (Starts \/ UNCHANGED <<made, puller>>)
<1>1. ASSUME NEW c \in Clients, RequestStep(c) \/ Request(c)
      PROVE UNCHANGED status /\ (Starts \/ UNCHANGED <<made, puller>>)
  <2>1. CASE ViewerStarts(c) \/ ApiStart(c)
    <3>1. StartStream(invite) \/ StartStreamFails(invite)
      BY <2>1 DEF ViewerStarts, ApiStart
    <3>2. Starts \/ UNCHANGED stream
      BY <3>1, StartCases DEF IInv, TypeOK, InviteStages
    <3> QED
      BY <2>1, <3>2 DEF ViewerStarts, ApiStart, aside, stream
  <2>2. CASE ~(ViewerStarts(c) \/ ApiStart(c))
    BY <1>1, <2>2 DEF RequestStep, Request, ViewerGets, ViewerGetsAgain, IncMJPEGClient,
          ViewerLeaves, ViewerSeesEnd, DecMJPEGClient, StopIfNotRecorded, ApiStop, StopTakes,
          StopCancels, StopReturns, aside, slot, stream
  <2> QED
    BY <2>1, <2>2
<1>2. ASSUME NEW i \in Instances, InviteStep(i)
      PROVE UNCHANGED status /\ (Starts \/ UNCHANGED <<made, puller>>)
  BY <1>2, InviteCases DEF IInv, around, stream
<1>3. CASE ServiceStep
  <2>1. CASE RecordingStartsStream
    <3>1. Starts \/ UNCHANGED stream
      BY <2>1, StartCases DEF RecordingStartsStream, IInv, TypeOK, InviteStages
    <3> QED
      BY <2>1, <3>1 DEF RecordingStartsStream, stream
  <2>2. CASE ~RecordingStartsStream
    BY <1>3, <2>2 DEF ServiceStep, ShutdownSwaps, ShutdownCancels, RecordingBegins,
          RecordingGetsStream, RecordingEnds, slot, stream
  <2> QED
    BY <2>1, <2>2
<1> QED
  BY <1>1, <1>2, <1>3

LEMMA OnlineStep == IInv /\ Unmade /\ OnlineMeansPulled /\ [Next]_vars => (Unmade /\ OnlineMeansPulled)'
<1> SUFFICES ASSUME IInv, Unmade, OnlineMeansPulled, [Next]_vars
             PROVE  Unmade' /\ OnlineMeansPulled'
  OBVIOUS
<1> made \in Nat /\ puller \in [Instances -> PullerStages]
  BY StreamBounds DEF IInv, TypeOK, PullerStages
<1>1. ASSUME NEW i \in Instances, InstanceStep(i) PROVE Unmade' /\ OnlineMeansPulled'
  <2>1. UNCHANGED made
    BY <1>1, GoroutineTypes DEF IInv, besides
  <2>2. CASE PullerChecks(i) \/ CloserEnds(i)
    BY <2>1, <2>2 DEF PullerChecks, CloserEnds, Unmade, OnlineMeansPulled
  <2>3. CASE PullStarts(i) \/ PullEnds(i)
    BY <2>1, <2>3 DEF PullStarts, PullEnds, Unmade, OnlineMeansPulled
  <2>4. CASE TranscoderChecks(i) \/ TranscodeEnds(i)
    BY <2>1, <2>4 DEF TranscoderChecks, TranscodeEnds, Unmade, OnlineMeansPulled
  <2> QED
    BY <1>1, <2>2, <2>3, <2>4 DEF InstanceStep
<1>2. CASE UNCHANGED status /\ (Starts \/ UNCHANGED <<made, puller>>)
  <2>1. CASE UNCHANGED <<made, puller>>
    BY <1>2, <2>1 DEF Unmade, OnlineMeansPulled
  <2>2. CASE Starts
    <3>1. Unmade'
      <4>1. made' = made + 1 /\ \E p \in PullerStages : puller' = [puller EXCEPT ![made + 1] = p]
        BY <2>2 DEF Starts
      <4>2. ASSUME NEW i \in Instances, i > made + 1 PROVE puller'[i] = "none"
        BY <4>1, <4>2 DEF Unmade, Instances
      <4> QED
        BY <4>1, <4>2 DEF Unmade
    <3>2. ASSUME NEW i \in Instances, puller[i] = "pulling" PROVE puller'[i] = "pulling"
      BY <2>2, <3>2 DEF Starts, Unmade
    <3> QED
      BY <1>2, <3>1, <3>2 DEF OnlineMeansPulled
  <2> QED
    BY <1>2, <2>1, <2>2
<1>3. CASE UNCHANGED vars
  BY <1>2, <1>3 DEF vars, slot, stream
<1> QED
  BY <1>1, <1>2, <1>3, StatusByPuller DEF Next

\* A camera that the streams show online is pulled by one of its instances, for
\* any number of them: no exit of pullRTSP leaves the status behind.
THEOREM OnlinePulled == Spec => []OnlineMeansPulled
<1>1. Init => Unmade /\ OnlineMeansPulled
  BY DEF Init, Unmade, OnlineMeansPulled
<1> QED
  BY <1>1, OnlineStep, Invariance, PTL DEF Spec

-----------------------------------------------------------------------------
(* The refinement                                                          *)

\* Where neither the map nor an instance's end changes, StreamLife stutters.
LEMMA Stutters ==
    ASSUME UNCHANGED <<made, current>>, \A i \in Instances : Ended(i)' <=> Ended(i)
    PROVE  UNCHANGED life
BY DEF life

\* A new instance is a Start.
LEMMA StartRefines == ASSUME IInv, Starts, UNCHANGED cancelled PROVE Life!Next
<1> USE StreamBounds DEF IInv, TypeOK, Starts, Instances
<1>1. PICK n \in Instances : n = made + 1
  OBVIOUS
<1>2. life[n] = "new" /\ \A j \in Instances : life[j] # "live"
  BY <1>1 DEF life
<1>3. ASSUME NEW j \in Instances, j # n PROVE life'[j] = life[j]
  <2>1. Ended(j)' <=> Ended(j)
    BY <1>1, <1>3 DEF Ended
  <2> QED
    BY <1>1, <1>3, <2>1 DEF life
<1>4. life'[n] = "live"
  BY <1>1 DEF life
<1>5. life' = [life EXCEPT ![n] = "live"]
  BY <1>3, <1>4 DEF life
<1> QED
  BY <1>2, <1>5 DEF Life!Next, Life!Start

\* Taking the instance out of the map is a Drop: it cannot have ended, since
\* nobody cancels what is in the map.
LEMMA DropRefines ==
    ASSUME IInv, current' = 0, UNCHANGED <<made, puller, transcoder, cancelled>>
    PROVE  [Life!Next]_life
<1>1. \A i \in Instances : Ended(i)' <=> Ended(i)
  BY DEF Ended
<1>2. CASE current = 0
  BY <1>1, <1>2, Stutters
<1>3. CASE current # 0
  <2>1. PICK h \in Instances : h = current /\ h <= made /\ ~Ended(h)
    BY <1>3, StreamBounds DEF IInv, TypeOK, CurrentLives, Instances, Ended
  <2>2. life[h] = "live"
    BY <2>1, StreamBounds DEF life, IInv, TypeOK, Instances
  <2>3. life'[h] = "dropped"
    BY <1>1, <2>1, StreamBounds DEF life, IInv, TypeOK, Instances
  <2>4. ASSUME NEW j \in Instances, j # h PROVE life'[j] = life[j]
    BY <1>1, <2>1, <2>4, StreamBounds DEF life, IInv, TypeOK, Instances
  <2>5. life' = [life EXCEPT ![h] = "dropped"]
    BY <2>3, <2>4 DEF life
  <2> QED
    BY <2>2, <2>5 DEF Life!Next, Life!Drop
<1> QED
  BY <1>2, <1>3

\* The last goroutine or the cancel of one instance is its End, and anything
\* else in its life is a stutter.
LEMMA EndRefines ==
    ASSUME IInv, NEW i \in Instances, UNCHANGED <<made, current>>,
           \A j \in Instances \ {i} : Ended(j)' <=> Ended(j),
           Ended(i) => Ended(i)'
    PROVE  [Life!Next]_life
<1>1. CASE Ended(i)' <=> Ended(i)
  BY <1>1, Stutters
<1>2. CASE ~Ended(i) /\ Ended(i)'
  <2>1. CASE i > made \/ i = current
    <3>1. \A j \in Instances : life'[j] = life[j]
      BY <2>1 DEF life
    <3> QED
      BY <3>1 DEF life
  <2>2. CASE ~(i > made) /\ i # current
    <3>1. life[i] = "dropped" /\ life'[i] = "ended"
      BY <1>2, <2>2 DEF life
    <3>2. \A j \in Instances \ {i} : life'[j] = life[j]
      BY DEF life
    <3>3. life' = [life EXCEPT ![i] = "ended"]
      BY <3>1, <3>2 DEF life
    <3> QED
      BY <3>1, <3>3 DEF Life!Next, Life!End
  <2> QED
    BY <2>1, <2>2
<1> QED
  BY <1>1, <1>2

LEMMA GoroutineRefines ==
    ASSUME IInv, NEW i \in Instances, InstanceStep(i)
    PROVE  [Life!Next]_life
<1>1. UNCHANGED <<made, current, cancelled>>
  BY GoroutineTypes DEF IInv, besides
<1>2. \A j \in Instances \ {i} : puller'[j] = puller[j] /\ transcoder'[j] = transcoder[j]
  BY DEF InstanceStep, PullerChecks, PullStarts, PullEnds, TranscoderChecks, TranscodeEnds,
         CloserEnds, IInv, TypeOK
<1>3. /\ puller[i] = "done" => puller'[i] = "done"
      /\ transcoder[i] \in {"none", "done"} => transcoder'[i] = transcoder[i]
  BY DEF InstanceStep, PullerChecks, PullStarts, PullEnds, TranscoderChecks, TranscodeEnds,
         CloserEnds, IInv, TypeOK
<1>4. /\ \A j \in Instances \ {i} : Ended(j)' <=> Ended(j)
      /\ Ended(i) => Ended(i)'
  BY <1>1, <1>2, <1>3 DEF Ended
<1> QED
  BY <1>1, <1>4, EndRefines

\* Cancelling an instance that is not in the map any more.
LEMMA CancelRefines ==
    ASSUME IInv, NEW i \in Instances, cancelled' = cancelled \cup {i}, UNCHANGED stream
    PROVE  [Life!Next]_life
<1>1. /\ \A j \in Instances \ {i} : Ended(j)' <=> Ended(j)
      /\ Ended(i) => Ended(i)'
  BY DEF Ended, stream
<1> QED
  BY <1>1, EndRefines DEF stream

\* The safety half of ImplementsLife, for any number of requests and
\* instances: every step of the service is a step of StreamLife or none.
THEOREM RefinesLife == Spec => Life!Spec
<1>1. Init => Life!Init
  BY StreamBounds DEF Init, Life!Init, life, Instances
<1>2. IInv /\ [Next]_vars => [Life!Next]_life
  <2> SUFFICES ASSUME IInv, [Next]_vars PROVE [Life!Next]_life
    OBVIOUS
  <2>1. ASSUME Starts \/ UNCHANGED stream, UNCHANGED cancelled PROVE [Life!Next]_life
    <3>1. CASE Starts
      BY <2>1, <3>1, StartRefines
    <3>2. CASE UNCHANGED stream
      BY <2>1, <3>2, Stutters DEF stream, Ended
    <3> QED
      BY <2>1, <3>1, <3>2
  <2>2. ASSUME NEW c \in Clients, RequestStep(c) \/ Request(c) PROVE [Life!Next]_life
    <3>1. CASE StopTakes(c)
      BY <3>1, DropRefines DEF StopTakes
    <3>2. CASE StopCancels(c)
      <4>1. held[c] \in Instances
        BY <3>2, StreamBounds DEF StopCancels, IInv, TypeOK, HeldMade, Instances
      <4> QED
        BY <3>2, <4>1, CancelRefines DEF StopCancels, slot
    <3>3. CASE ViewerStarts(c) \/ ApiStart(c)
      <4>1. StartStream(invite) \/ StartStreamFails(invite)
        BY <3>3 DEF ViewerStarts, ApiStart
      <4>2. Starts \/ UNCHANGED stream
        BY <4>1, StartCases DEF IInv, TypeOK, InviteStages
      <4> QED
        BY <2>1, <3>3, <4>2 DEF ViewerStarts, ApiStart
    <3>4. CASE \/ ViewerGets(c) \/ ViewerGetsAgain(c) \/ IncMJPEGClient(c) \/ ViewerLeaves(c)
               \/ ViewerSeesEnd(c) \/ DecMJPEGClient(c) \/ StopIfNotRecorded(c)
               \/ ApiStop(c) \/ StopReturns(c)
      <4>1. UNCHANGED <<slot, cancelled>>
        BY <3>4 DEF ViewerGets, ViewerGetsAgain, IncMJPEGClient, ViewerLeaves, ViewerSeesEnd,
                    DecMJPEGClient, StopIfNotRecorded, ApiStop, StopReturns
      <4> QED
        BY <2>1, <4>1 DEF slot
    <3> QED
      BY <2>2, <3>1, <3>2, <3>3, <3>4 DEF RequestStep, Request
  <2>3. ASSUME NEW i \in Instances, InstanceStep(i) PROVE [Life!Next]_life
    BY <2>3, GoroutineRefines
  <2>4. ASSUME NEW i \in Instances, InviteStep(i) PROVE [Life!Next]_life
    BY <2>1, <2>4, InviteCases DEF IInv, around
  <2>5. CASE ServiceStep
    <3>1. CASE ShutdownSwaps
      BY <3>1, DropRefines DEF ShutdownSwaps
    <3>2. CASE ShutdownCancels
      <4>1. CASE swept = 0
        BY <2>1, <3>2, <4>1 DEF ShutdownCancels, slot
      <4>2. CASE swept # 0
        <5>1. swept \in Instances
          BY <4>2, StreamBounds DEF IInv, TypeOK, Instances
        <5> QED
          BY <3>2, <4>2, <5>1, CancelRefines DEF ShutdownCancels, slot
      <4> QED
        BY <4>1, <4>2
    <3>3. CASE RecordingStartsStream
      <4>1. Starts \/ UNCHANGED stream
        BY <3>3, StartCases DEF RecordingStartsStream, IInv, TypeOK, InviteStages
      <4> QED
        BY <2>1, <3>3, <4>1 DEF RecordingStartsStream
    <3>4. CASE RecordingBegins \/ RecordingGetsStream \/ RecordingEnds
      BY <2>1, <3>4 DEF RecordingBegins, RecordingGetsStream, RecordingEnds, slot
    <3> QED
      BY <2>5, <3>1, <3>2, <3>3, <3>4 DEF ServiceStep
  <2>6. CASE UNCHANGED vars
    BY <2>1, <2>6 DEF vars, slot
  <2> QED
    BY <2>2, <2>3, <2>4, <2>5, <2>6 DEF Next
<1> QED
  BY <1>1, <1>2, Invariance, PTL DEF Spec, Life!Spec
=============================================================================
