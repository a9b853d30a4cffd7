--------------------------- MODULE ProtocolProofs ---------------------------
(***************************************************************************)
(* Theorems about the components that handle a protocol: the snapshots of  *)
(* GB28181 cameras and the ports of their streams, and the RTSP server of  *)
(* a local camera, for any requests, handlers, calls and clients; then all *)
(* components of MCProtocols together, with the bytes of MediaProofs.      *)
(***************************************************************************)
EXTENDS MCProtocols, MediaProofs, FiniteSetTheorems

-----------------------------------------------------------------------------
(* Snapshots: any requests and any number of datagrams *)

\* A request waits with an empty channel that no handler is about to fill.
WaitersFree ==
    \A r \in waiters : result[r] = Nobody /\ \A h \in Handlers : ~Bound(h, r)

\* A request that was not made yet is nowhere.
NewIsNowhere ==
    \A r \in Requests : stage[r] = "new" =>
        /\ r \notin waiters \cup bySN
        /\ result[r] = Nobody /\ \A h \in Handlers : ~Bound(h, r)

\* What is under way to a request, or in its channel, was taken for it.
OwnImages ==
    /\ \A h \in Handlers : target[h] # Nobody => carries[h] = target[h]
    /\ \A r \in Requests : result[r] \in {r, Nobody}

SnapInv == SnapTypeOK /\ WaitersFree /\ NewIsNowhere /\ OwnImages /\ SnapshotsSound

LEMMA SnapInvInit == SnapInit => SnapInv
<1> SUFFICES ASSUME SnapInit PROVE SnapInv
  OBVIOUS
<1> USE NobodyIsNoRequest DEF SnapInit
<1>1. SnapTypeOK
  BY DEF SnapTypeOK
<1>2. WaitersFree /\ NewIsNowhere /\ OwnImages
  BY DEF WaitersFree, NewIsNowhere, OwnImages, Bound
<1>3. HandlersNeverBlock /\ AnswerMatches /\ WaitersRemoved
  BY DEF HandlersNeverBlock, AnswerMatches, WaitersRemoved
<1> QED
  BY <1>1, <1>2, <1>3 DEF SnapInv, SnapshotsSound

\* The steps of CaptureSnapshot.
LEMMA RequestKeeps ==
    ASSUME SnapInv, NEW r \in Requests,
           Capture(r) \/ CaptureRefused(r) \/ Receives(r) \/ TimesOut(r) \/ Leaves(r)
    PROVE  SnapInv'
<1> USE NobodyIsNoRequest DEF SnapInv, tables, handlers
<1>1. SnapTypeOK'
  BY DEF SnapTypeOK, Capture, CaptureRefused, Receives, TimesOut, Leaves
<1>2. WaitersFree'
  BY DEF SnapTypeOK, WaitersFree, NewIsNowhere, Bound,
         Capture, CaptureRefused, Receives, TimesOut, Leaves
<1>3. NewIsNowhere'
  BY DEF SnapTypeOK, NewIsNowhere, Bound, Capture, CaptureRefused, Receives, TimesOut, Leaves
<1>4. OwnImages'
  BY DEF SnapTypeOK, OwnImages, Capture, CaptureRefused, Receives, TimesOut, Leaves
<1>5. HandlersNeverBlock'
  BY DEF SnapTypeOK, SnapshotsSound, HandlersNeverBlock, Bound,
         Capture, CaptureRefused, Receives, TimesOut, Leaves
<1>6. AnswerMatches'
  BY DEF SnapTypeOK, SnapshotsSound, AnswerMatches, OwnImages,
         Capture, CaptureRefused, Receives, TimesOut, Leaves
<1>7. WaitersRemoved'
  BY DEF SnapTypeOK, SnapshotsSound, WaitersRemoved, NewIsNowhere,
         Capture, CaptureRefused, Receives, TimesOut, Leaves
<1> QED
  BY <1>1, <1>2, <1>3, <1>4, <1>5, <1>6, <1>7 DEF SnapshotsSound

\* A handler that finds a waiter takes it out, so that the next finds none.
LEMMA AnswerKeeps ==
    ASSUME SnapInv, NEW h \in Handlers, NEW r \in Requests, CompleteSnapshot(h, r)
    PROVE  SnapInv'
<1>1. /\ target[h] = Nobody /\ r \in waiters
      /\ waiters' = waiters \ {r} /\ bySN' = bySN \ {r}
      /\ target' = [target EXCEPT ![h] = r] /\ carries' = [carries EXCEPT ![h] = r]
      /\ UNCHANGED <<stage, result, returned>>
  BY DEF CompleteSnapshot, Matches
<1> USE NobodyIsNoRequest, <1>1 DEF SnapInv
<1>2. SnapTypeOK' /\ OwnImages'
  BY DEF SnapTypeOK, OwnImages
<1>3. WaitersFree' /\ NewIsNowhere'
  BY DEF SnapTypeOK, WaitersFree, NewIsNowhere, Bound
<1>4. HandlersNeverBlock'
  BY DEF SnapTypeOK, WaitersFree, SnapshotsSound, HandlersNeverBlock, Bound
<1>5. AnswerMatches' /\ WaitersRemoved'
  BY DEF SnapshotsSound, AnswerMatches, WaitersRemoved
<1> QED
  BY <1>2, <1>3, <1>4, <1>5 DEF SnapshotsSound

LEMMA SendKeeps == ASSUME SnapInv, NEW h \in Handlers, Send(h) PROVE SnapInv'
<1>1. PICK r \in Requests : r = target[h] /\ carries[h] = r
  BY DEF Send, SnapInv, SnapTypeOK, OwnImages
<1>2. /\ result' = [result EXCEPT ![r] = r]
      /\ target' = [target EXCEPT ![h] = Nobody] /\ carries' = [carries EXCEPT ![h] = Nobody]
      /\ UNCHANGED <<stage, waiters, bySN, returned>>
  BY <1>1 DEF Send, tables
<1> USE NobodyIsNoRequest, <1>1, <1>2 DEF SnapInv
<1>3. SnapTypeOK' /\ OwnImages'
  BY DEF SnapTypeOK, OwnImages
<1>4. WaitersFree' /\ NewIsNowhere'
  BY DEF SnapTypeOK, WaitersFree, NewIsNowhere, Bound
<1>5. HandlersNeverBlock'
  BY DEF SnapTypeOK, SnapshotsSound, HandlersNeverBlock, Bound
<1>6. AnswerMatches' /\ WaitersRemoved'
  BY DEF SnapshotsSound, AnswerMatches, WaitersRemoved
<1> QED
  BY <1>3, <1>4, <1>5, <1>6 DEF SnapshotsSound

LEMMA SnapInvNext == SnapInv /\ [SnapNext]_snapVars => SnapInv'
<1> SUFFICES ASSUME SnapInv, [SnapNext]_snapVars PROVE SnapInv'
  OBVIOUS
<1>1. CASE SnapNext
  BY <1>1, RequestKeeps, AnswerKeeps, SendKeeps DEF SnapNext
<1>2. CASE UNCHANGED snapVars
  BY <1>2 DEF snapVars, SnapInv, SnapTypeOK, WaitersFree, NewIsNowhere, OwnImages, Bound,
              SnapshotsSound, HandlersNeverBlock, AnswerMatches, WaitersRemoved
<1> QED
  BY <1>1, <1>2

THEOREM SnapInvariance == SnapSpec => []SnapInv
BY SnapInvInit, SnapInvNext, PTL DEF SnapSpec

\* However many answers and requests there are, and however late they come: no
\* handler waits on a channel, a request returns its own image, and one that is
\* over has left the tables.
THEOREM SnapshotsAreSound == SnapSpec => []SnapshotsSound
<1>1. SnapInv => SnapshotsSound
  BY DEF SnapInv
<1> QED
  BY <1>1, SnapInvariance, PTL

-----------------------------------------------------------------------------
(* Invites: any number of calls and any range of ports *)

\* The counter never falls below the range, and a call that may listen has a
\* port of the range.
PortsTaken ==
    /\ rtpPorts >= PortMin
    /\ \A i \in Calls : leg[i] \in {"listen", "track", "send"} => port[i] \in PortMin..PortMax

\* The port of a call between its Listen and its INVITE is its own until Stop,
\* and a call that has sent its INVITE takes no other port.
PortsOwned ==
    /\ ~stopped => \A i \in Calls : leg[i] \in {"track", "send"} =>
                        port[i] \in OpenPorts /\ listening[port[i]] = i
    /\ \A i \in sent : leg[i] = "over"

RtpInv == RtpTypeOK /\ PortsTaken /\ PortsOwned /\ ReceiversSound

LEMMA RtpInvInit == RtpInit => RtpInv
<1> SUFFICES ASSUME RtpInit PROVE RtpInv
  OBVIOUS
<1>1. OpenPorts = {}
  BY DEF RtpInit, OpenPorts
<1>2. listening \in [{} -> Calls]
  BY DEF RtpInit
<1>3. RtpTypeOK
  BY <1>1, <1>2, PortRange DEF RtpInit, RtpTypeOK
<1>4. PortsTaken /\ PortsOwned
  BY PortRange DEF RtpInit, PortsTaken, PortsOwned
<1>5. ReceiversSound
  BY <1>1 DEF RtpInit, ReceiversSound, PortsInRange, ReceiversTracked, MediaToOwnReceiver
<1> QED
  BY <1>3, <1>4, <1>5 DEF RtpInv

\* The steps of a call that open and track nothing.
LEMMA CallKeeps ==
    ASSUME RtpInv, NEW i \in Calls,
           InviteRefused(i) \/ TakePort(i) \/ WrapPort(i) \/ SendInvite(i)
    PROVE  RtpInv'
<1> USE PortRange DEF RtpInv, receivers
<1>0. UNCHANGED <<listening, OpenPorts, rtpRecvs, stopped>>
  BY DEF InviteRefused, TakePort, WrapPort, SendInvite, OpenPorts
<1>1. RtpTypeOK'
  BY <1>0 DEF RtpTypeOK, InviteRefused, TakePort, WrapPort, SendInvite
<1>2. PortsTaken'
  BY DEF RtpTypeOK, PortsTaken, InviteRefused, TakePort, WrapPort, SendInvite
<1>3. PortsOwned'
  BY <1>0 DEF RtpTypeOK, PortsOwned, InviteRefused, TakePort, WrapPort, SendInvite
<1>4. PortsInRange'
  BY <1>0 DEF ReceiversSound, PortsInRange
<1>5. ReceiversTracked'
  <2>1. ASSUME NEW p \in OpenPorts, p \notin rtpRecvs
        PROVE leg'[listening[p]] = "track" /\ port'[listening[p]] = p
    BY <2>1 DEF RtpTypeOK, ReceiversSound, ReceiversTracked,
                InviteRefused, TakePort, WrapPort, SendInvite
  <2> QED
    BY <1>0, <2>1 DEF ReceiversTracked
<1>6. MediaToOwnReceiver'
  <2>1. ASSUME ~stopped, NEW j \in sent' PROVE port'[j] \in OpenPorts /\ listening[port'[j]] = j
    BY <2>1 DEF RtpTypeOK, PortsOwned, ReceiversSound, MediaToOwnReceiver,
                InviteRefused, TakePort, WrapPort, SendInvite
  <2> QED
    BY <1>0, <2>1 DEF MediaToOwnReceiver
<1> QED
  BY <1>1, <1>2, <1>3, <1>4, <1>5, <1>6 DEF ReceiversSound

\* A port that is open is not opened again: nobody loses its receiver.
LEMMA ListenKeeps == ASSUME RtpInv, NEW i \in Calls, Listen(i) PROVE RtpInv'
<1> USE PortRange DEF RtpInv
<1>1. CASE port[i] \in OpenPorts
  BY <1>1 DEF Listen, RtpTypeOK, PortsTaken, PortsOwned, ReceiversSound, PortsInRange,
              ReceiversTracked, MediaToOwnReceiver, OpenPorts
<1>2. CASE port[i] \notin OpenPorts
  <2>1. /\ leg[i] = "listen" /\ leg' = [leg EXCEPT ![i] = "track"]
        /\ listening' = [p \in OpenPorts \cup {port[i]} |-> IF p \in OpenPorts THEN listening[p] ELSE i]
        /\ UNCHANGED <<port, rtpPorts, rtpRecvs, sent, stopped>>
    BY <1>2 DEF Listen
  <2>2. OpenPorts' = OpenPorts \cup {port[i]}
    BY <2>1 DEF OpenPorts
  <2>3. listening'[port[i]] = i /\ \A p \in OpenPorts : listening'[p] = listening[p]
    BY <1>2, <2>1
  <2>4. RtpTypeOK'
    <3>1. listening' \in [OpenPorts' -> Calls]
      BY <2>1, <2>2 DEF RtpTypeOK
    <3>2. OpenPorts' \subseteq Nat
      BY <2>2 DEF RtpTypeOK
    <3> QED
      BY <2>1, <3>1, <3>2 DEF RtpTypeOK
  <2>5. PortsTaken'
    BY <2>1 DEF RtpTypeOK, PortsTaken
  <2>6. PortsOwned'
    BY <2>1, <2>2, <2>3 DEF RtpTypeOK, PortsOwned
  <2>7. PortsInRange'
    BY <2>1, <2>2 DEF PortsTaken, ReceiversSound, PortsInRange
  <2>8. ReceiversTracked'
    BY <2>1, <2>2, <2>3 DEF RtpTypeOK, ReceiversSound, ReceiversTracked
  <2>9. MediaToOwnReceiver'
    BY <2>1, <2>2, <2>3 DEF RtpTypeOK, ReceiversSound, MediaToOwnReceiver
  <2> QED
    BY <2>4, <2>5, <2>6, <2>7, <2>8, <2>9 DEF ReceiversSound
<1> QED
  BY <1>1, <1>2

LEMMA TrackKeeps == ASSUME RtpInv, NEW i \in Calls, Track(i) PROVE RtpInv'
<1> USE PortRange DEF RtpInv, Track
<1>1. UNCHANGED OpenPorts
  BY DEF OpenPorts
<1>2. RtpTypeOK' /\ PortsTaken' /\ PortsOwned'
  BY <1>1 DEF RtpTypeOK, PortsTaken, PortsOwned
<1>3. PortsInRange' /\ MediaToOwnReceiver'
  BY <1>1 DEF ReceiversSound, PortsInRange, MediaToOwnReceiver
<1>4. ReceiversTracked'
  <2>1. ASSUME NEW p \in OpenPorts, p \notin rtpRecvs'
        PROVE leg'[listening[p]] = "track" /\ port'[listening[p]] = p
    BY <2>1 DEF RtpTypeOK, ReceiversSound, ReceiversTracked
  <2> QED
    BY <1>1, <2>1 DEF ReceiversTracked
<1> QED
  BY <1>2, <1>3, <1>4 DEF ReceiversSound

\* Stop leaves the receivers that were not tracked yet, and the rest closes.
LEMMA StopKeeps == ASSUME RtpInv, Stop PROVE RtpInv'
<1> USE PortRange DEF RtpInv, Stop
<1>1. OpenPorts' = OpenPorts \ rtpRecvs /\ \A p \in OpenPorts' : listening'[p] = listening[p]
  BY DEF OpenPorts
<1>2. RtpTypeOK'
  BY <1>1 DEF RtpTypeOK
<1>3. PortsTaken' /\ PortsOwned'
  BY <1>1 DEF PortsTaken, PortsOwned
<1>4. PortsInRange' /\ ReceiversTracked' /\ MediaToOwnReceiver'
  BY <1>1 DEF ReceiversSound, PortsInRange, ReceiversTracked, MediaToOwnReceiver
<1> QED
  BY <1>2, <1>3, <1>4 DEF ReceiversSound

LEMMA RtpInvNext == RtpInv /\ [RtpNext]_rtpVars => RtpInv'
<1> SUFFICES ASSUME RtpInv, [RtpNext]_rtpVars PROVE RtpInv'
  OBVIOUS
<1>1. CASE RtpNext
  BY <1>1, CallKeeps, ListenKeeps, TrackKeeps, StopKeeps DEF RtpNext
<1>2. CASE UNCHANGED rtpVars
  BY <1>2 DEF rtpVars, RtpInv, RtpTypeOK, OpenPorts, PortsTaken, PortsOwned, ReceiversSound,
              PortsInRange, ReceiversTracked, MediaToOwnReceiver
<1> QED
  BY <1>1, <1>2

THEOREM RtpInvariance == RtpSpec => []RtpInv
BY RtpInvInit, RtpInvNext, PTL DEF RtpSpec

\* For any number of INVITEs at a time and any range of ports, also one that is
\* used up: receivers are inside the range, one stream's own, and known to Stop
\* or entered next by the call that opened them.
THEOREM ReceiversAreSound == RtpSpec => []ReceiversSound
<1>1. RtpInv => ReceiversSound
  BY DEF RtpInv
<1> QED
  BY <1>1, RtpInvariance, PTL
-----------------------------------------------------------------------------
(* LocalRtsp: any connections and any reads of FFmpeg's output *)

\* A Broadcast is a record, nothing is left of it when it has ended, and it has
\* one client of the map at hand for as long as the read lock is held.
CastShape ==
    /\ cast = [on |-> cast.on, units |-> cast.units, todo |-> cast.todo, client |-> cast.client,
               sets |-> cast.sets, rest |-> cast.rest, offset |-> cast.offset]
    /\ cast.on \in BOOLEAN
    /\ ~cast.on => cast = NoCast
    /\ cast.client \subseteq clients /\ \A v, w \in cast.client : v = w

\* A connection that is being closed is in the map no longer.
Deleted == \A v \in Viewers : peer[v] \in {"closing", "closed"} => v \notin clients

\* How a packet leaves is typed.
WritesTyped == way \in {"none", "udp", "header", "frame"} /\ lost \subseteq Viewers /\ crashed \in BOOLEAN

\* The number of the next packet counts those that were built.
Counted ==
    /\ got \in [Viewers -> Seq(Packets)]
    /\ \A v \in Viewers : seqNum[v] = Len(got[v]) % SeqNumbers

\* The parameter sets, and what a Broadcast has to send: units, the first ones
\* parameter sets, and never a fragment of those.
MaybeUnit == NalUnits \cup {<<>>}
UnitsToSend ==
    /\ sps \in MaybeUnit /\ pps \in MaybeUnit
    /\ cast.units \in Seq(NalUnits) /\ cast.rest \in Seq(NalUnits)
    /\ cast.sets \in 0..Len(cast.rest) /\ \A i \in 1..cast.sets : cast.rest[i] \in {sps, pps}
    /\ cast.offset \in Nat
    /\ cast.offset > 0 => /\ cast.rest # <<>> /\ cast.sets = 0
                          /\ Len(Head(cast.rest)) > MaxPayload
                          /\ cast.offset < Len(Head(cast.rest)) - 1

\* What was promised to a client is what it has put together and what it is
\* still owed; of the unit at hand it has the header and offset bytes.
PartOf(v) ==
    IF v \in cast.client /\ cast.offset > 0 THEN SubSeq(Head(cast.rest), 1, cast.offset + 1) ELSE <<>>
Delivered ==
    \A v \in Viewers :
        /\ promised[v] = Received(got[v]).units \o Owed(v)
        /\ Received(got[v]).part = PartOf(v)
        /\ Received(got[v]).units \in Seq(NalUnits)
        /\ \A i \in DOMAIN got[v] : Fits(got[v][i].load)

RtspInv ==
    /\ RtspTypeOK /\ CastShape /\ Deleted /\ Counted /\ Numbered
    /\ UnitsToSend /\ promised \in [Viewers -> Seq(NalUnits)] /\ Delivered

\* A client that Broadcast has at hand has a UDP connection, or a second SETUP
\* has cleared it; then its goroutine waits for the lock, so that the connection
\* stays cleared while a packet leaves on the RTSP connection.
Switched ==
    /\ \A v \in Viewers : rtpConn[v] => setups[v] > 0
    /\ \A v \in cast.client : rtpConn[v] \/ (peer[v] = "joining" /\ setups[v] > 1)
    /\ \A v \in cast.client : way \in {"header", "frame"} => ~rtpConn[v]
    /\ OnlySwitchesLose

\* Division with remainder, and what it says of a counter that wraps.
LEMMA Division ==
    ASSUME NEW a \in Nat, NEW n \in Nat \ {0}
    PROVE  a % n \in 0..(n - 1) /\ a \div n \in Nat /\ a = n * (a \div n) + (a % n)
OBVIOUS

LEMMA Remainder ==
    ASSUME NEW n \in Nat \ {0}, NEW q \in Nat, NEW r \in 0..(n - 1)
    PROVE  (n * q + r) % n = r
OBVIOUS

LEMMA CounterWraps ==
    ASSUME NEW a \in Nat, NEW n \in Nat \ {0}
    PROVE  ((a % n) + 1) % n = (a + 1) % n
<1>1. PICK q \in Nat, r \in 0..(n - 1) : r = a % n /\ a = n * q + r
  BY Division
<1>2. CASE r + 1 < n
  <2>1. (n * q + (r + 1)) % n = r + 1 /\ (n * 0 + (r + 1)) % n = r + 1
    BY <1>2, Remainder
  <2>2. a + 1 = n * q + (r + 1) /\ r + 1 = n * 0 + (r + 1)
    BY <1>1
  <2> QED
    BY <2>1, <2>2, <1>1
<1>3. CASE r + 1 = n
  <2>1. (n * (q + 1) + 0) % n = 0 /\ (n * 1 + 0) % n = 0
    BY Remainder
  <2>2. n * (q + 1) = n * q + n
    OBVIOUS
  <2>3. a + 1 = n * (q + 1) + 0 /\ r + 1 = n * 1 + 0
    BY <1>1, <1>3, <2>2
  <2> QED
    BY <2>1, <2>3, <1>1
<1> QED
  BY <1>2, <1>3

LEMMA RtspInvInit == RtspInit => RtspInv /\ Switched
<1> SUFFICES ASSUME RtspInit PROVE RtspInv /\ Switched
  OBVIOUS
<1> USE RtspBounds DEF RtspInit, NoCast
<1>1. RtspTypeOK
  <2>1. Cardinality(cast.client) = 0
    BY FS_EmptySet
  <2>2. 0 \in 0..(SeqNumbers - 1) /\ 0 \in 0..MaxChunks /\ 0 \in 0..MaxSetups
    OBVIOUS
  <2>3. WritesTyped
    BY DEF WritesTyped
  <2>4. /\ cast.todo = {} /\ cast.rest = <<>> /\ clients \subseteq Viewers
        /\ peer \in [Viewers -> {"open", "joining", "leaving", "closing", "closed"}]
        /\ rtpConn \in [Viewers -> BOOLEAN] /\ seqNum \in [Viewers -> 0..(SeqNumbers - 1)]
        /\ chunks \in 0..MaxChunks /\ setups \in [Viewers -> 0..MaxSetups]
    BY <2>2
  <2> QED
    BY <2>1, <2>3, <2>4 DEF RtspTypeOK, WritesTyped
<1>2. CastShape /\ Deleted
  BY DEF CastShape, Deleted
<1>3. /\ <<>> \in Seq(Packets) /\ <<>> \in Seq(NalUnits) /\ Len(<<>>) = 0
      /\ <<>> \in Seq(Bytes) /\ <<>> \o <<>> = <<>>
  BY EmptySeq, ConcatEmptySeq
<1>4. Counted /\ Numbered
  <2>1. 0 % SeqNumbers = 0
    BY Remainder
  <2>2. \A v \in Viewers : got[v] = << >> /\ seqNum[v] = 0
    OBVIOUS
  <2>3. got \in [Viewers -> Seq(Packets)]
    BY <1>3
  <2> QED
    BY <1>3, <2>1, <2>2, <2>3 DEF Counted, Numbered
<1>5. UnitsToSend /\ promised \in [Viewers -> Seq(NalUnits)]
  BY <1>3 DEF UnitsToSend, MaybeUnit
<1>6. Delivered
  <2> SUFFICES ASSUME NEW v \in Viewers
               PROVE  /\ promised[v] = Received(got[v]).units \o Owed(v)
                      /\ Received(got[v]).part = PartOf(v)
                      /\ Received(got[v]).units \in Seq(NalUnits)
                      /\ \A i \in DOMAIN got[v] : Fits(got[v][i].load)
    BY DEF Delivered
  <2>1. got[v] = <<>> /\ promised[v] = <<>> /\ Owed(v) = <<>> /\ PartOf(v) = <<>>
    BY DEF Owed, PartOf
  <2>2. Received(got[v]).units = <<>> /\ Received(got[v]).part = <<>>
    BY <2>1, ReceivedEmpty DEF Nothing
  <2>3. DOMAIN got[v] = {}
    BY <2>1
  <2>4. promised[v] = Received(got[v]).units \o Owed(v)
    BY <1>3, <2>1, <2>2
  <2> QED
    BY <1>3, <2>1, <2>2, <2>3, <2>4
<1>7. Switched
  BY DEF Switched, OnlySwitchesLose
<1> QED
  BY <1>1, <1>2, <1>4, <1>5, <1>6, <1>7 DEF RtspInv

\* A packet takes the next number, and is the last of those that were sent.
LEMMA SendKeepsCount ==
    ASSUME RtspInv, NEW v \in Viewers, NEW e \in Packets, e.seq = seqNum[v],
           got' = [got EXCEPT ![v] = Append(@, e)],
           seqNum' = [seqNum EXCEPT ![v] = (@ + 1) % SeqNumbers]
    PROVE  Counted' /\ Numbered'
<1> USE RtspBounds
<1>1. got \in [Viewers -> Seq(Packets)] /\ seqNum[v] = Len(got[v]) % SeqNumbers
  BY DEF RtspInv, Counted
<1>2. /\ got'[v] = Append(got[v], e) /\ seqNum'[v] = (seqNum[v] + 1) % SeqNumbers
      /\ \A w \in Viewers \ {v} : got'[w] = got[w] /\ seqNum'[w] = seqNum[w]
  BY <1>1 DEF RtspInv, RtspTypeOK
<1>3. /\ got'[v] \in Seq(Packets) /\ Len(got[v]) \in Nat /\ Len(got'[v]) = Len(got[v]) + 1
      /\ \A i \in 1..Len(got[v]) : got'[v][i] = got[v][i]
      /\ got'[v][Len(got[v]) + 1] = e
  BY <1>1, <1>2, AppendProperties, LenProperties
<1>4. seqNum'[v] = Len(got'[v]) % SeqNumbers
  BY <1>1, <1>2, <1>3, CounterWraps
<1>5. Counted'
  <2>1. got' \in [Viewers -> Seq(Packets)]
    BY <1>1, <1>2, <1>3
  <2> QED
    BY <1>2, <1>4, <2>1 DEF RtspInv, Counted
<1>6. Numbered'
  <2> SUFFICES ASSUME NEW w \in Viewers, NEW i \in DOMAIN got'[w]
               PROVE  got'[w][i].seq = (i - 1) % SeqNumbers
    BY DEF Numbered
  <2>1. CASE w # v
    BY <2>1, <1>2 DEF RtspInv, Numbered
  <2>2. CASE w = v
    <3>1. i \in 1..(Len(got[v]) + 1) /\ DOMAIN got[v] = 1..Len(got[v])
      BY <1>1, <1>3, <2>2, LenProperties
    <3>2. CASE i = Len(got[v]) + 1
      <4>1. i - 1 = Len(got[v])
        BY <1>3, <3>2
      <4> QED
        BY <1>1, <1>3, <2>2, <3>2, <4>1
    <3>3. CASE i # Len(got[v]) + 1
      <4>1. i \in 1..Len(got[v])
        BY <1>3, <3>1, <3>3
      <4> QED
        BY <1>3, <2>2, <3>1, <4>1 DEF RtspInv, Numbered
    <3> QED
      BY <3>2, <3>3
  <2> QED
    BY <2>1, <2>2
<1> QED
  BY <1>5, <1>6

\* What the steps of Broadcast make of the record and the clients.
LEMMA CastIs ==
    ASSUME RtspInv, UNCHANGED viewerVars, seqNum' \in [Viewers -> 0..(SeqNumbers - 1)],
           chunks' \in 0..MaxChunks, WritesTyped',
           cast' = [on |-> cast'.on, units |-> cast'.units, todo |-> cast'.todo, client |-> cast'.client,
                    sets |-> cast'.sets, rest |-> cast'.rest, offset |-> cast'.offset],
           cast'.on \in BOOLEAN, ~cast'.on => cast' = NoCast,
           cast'.todo \subseteq clients, cast'.client \subseteq clients,
           Cardinality(cast'.client) <= 1, \A v, w \in cast'.client : v = w,
           cast'.rest # <<>> => cast'.on /\ cast'.client # {}
    PROVE  RtspTypeOK' /\ CastShape' /\ Deleted'
<1>1. /\ peer' = peer /\ setups' = setups /\ clients' = clients /\ rtpConn' = rtpConn
  BY DEF viewerVars
<1>2. RtspTypeOK'
  BY <1>1 DEF RtspInv, RtspTypeOK, WritesTyped
<1>3. CastShape'
  BY <1>1 DEF CastShape, NoCast
<1> QED
  BY <1>1, <1>2, <1>3 DEF RtspInv, Deleted

LEMMA CastNow ==
    ASSUME RtspInv
    PROVE  /\ cast = [on |-> cast.on, units |-> cast.units, todo |-> cast.todo, client |-> cast.client,
                      sets |-> cast.sets, rest |-> cast.rest, offset |-> cast.offset]
           /\ cast.on \in BOOLEAN /\ cast.todo \subseteq clients /\ cast.client \subseteq clients
           /\ Cardinality(cast.client) <= 1 /\ \A v, w \in cast.client : v = w
           /\ cast.rest # <<>> => cast.on /\ cast.client # {}
           /\ ~cast.on => cast = NoCast
           /\ clients \subseteq Viewers /\ seqNum \in [Viewers -> 0..(SeqNumbers - 1)]
           /\ chunks \in 0..MaxChunks
           /\ WritesTyped /\ (UNCHANGED writeVars => WritesTyped')
BY DEF RtspInv, RtspTypeOK, CastShape, WritesTyped, writeVars

\* A step that sends and promises nothing, and leaves each client owed and
\* holding what it is owed and holds.
LEMMA NothingSent ==
    ASSUME RtspInv, UNCHANGED <<got, seqNum, promised>>, RtspTypeOK', CastShape', Deleted', UnitsToSend',
           sps # <<>> => sps' = sps, pps # <<>> => pps' = pps,
           \A v \in Viewers : Owed(v)' = Owed(v) /\ PartOf(v)' = PartOf(v)
    PROVE  RtspInv'
<1>1. Counted' /\ Numbered' /\ promised' \in [Viewers -> Seq(NalUnits)]
  BY DEF RtspInv, Counted, Numbered
<1>2. Delivered'
  <2> SUFFICES ASSUME NEW v \in Viewers
               PROVE  /\ promised'[v] = Received(got'[v]).units \o Owed(v)'
                      /\ Received(got'[v]).part = PartOf(v)'
                      /\ Received(got'[v]).units \in Seq(NalUnits)
                      /\ \A i \in DOMAIN got'[v] : Fits(got[v][i].load)'
    BY DEF Delivered
  <2>1. /\ promised[v] = Received(got[v]).units \o Owed(v)
        /\ Received(got[v]).part = PartOf(v)
        /\ Received(got[v]).units \in Seq(NalUnits)
        /\ \A i \in DOMAIN got[v] : Fits(got[v][i].load)
    BY DEF RtspInv, Delivered
  <2>2. ASSUME NEW i \in DOMAIN got[v] PROVE Fits(got[v][i].load)'
    <3>1. Len(<<>>) = 0 /\ MaxPayload \in Nat
      BY RtspBounds
    <3> QED
      BY <2>1, <2>2, <3>1 DEF Fits
  <2>3. got'[v] = got[v] /\ promised'[v] = promised[v]
    OBVIOUS
  <2> QED
    BY <2>1, <2>2, <2>3
<1> QED
  BY <1>1, <1>2 DEF RtspInv

LEMMA BeginKeeps == ASSUME RtspInv, BeginCast PROVE RtspInv'
<1>1. PICK s \in Chunks :
         /\ sps' = IF sps = <<>> THEN FirstOfType(SplitNALUs(s), 7) ELSE sps
         /\ pps' = IF pps = <<>> THEN FirstOfType(SplitNALUs(s), 8) ELSE pps
         /\ cast' = [NoCast EXCEPT !.on = TRUE, !.units = SplitNALUs(s), !.todo = clients]
  BY DEF BeginCast
<1> DEFINE us == SplitNALUs(s)
<1>2. us \in Seq(NalUnits) /\ <<>> \in Seq(NalUnits) /\ Len(<<>>) = 0
  BY SplitNALUsIs, EmptySeq
<1> HIDE DEF us
<1>3. cast' = [on |-> TRUE, units |-> us, todo |-> clients, client |-> {},
               sets |-> 0, rest |-> <<>>, offset |-> 0]
  BY <1>1 DEF NoCast, us
<1>4. UNCHANGED viewerVars /\ UNCHANGED <<got, seqNum, promised>> /\ UNCHANGED writeVars /\ ~cast.on
  BY DEF BeginCast, sentVars
<1>5. chunks' \in 0..MaxChunks
  BY RtspBounds DEF BeginCast, RtspInv, RtspTypeOK
<1>6. Cardinality({}) <= 1
  BY FS_EmptySet
<1>7. /\ cast'.on = TRUE /\ cast'.todo = clients /\ cast'.units = us /\ cast'.client = {}
      /\ cast'.sets = 0 /\ cast'.rest = <<>> /\ cast'.offset = 0
  BY <1>3
<1>8. RtspTypeOK' /\ CastShape' /\ Deleted'
  BY <1>3, <1>4, <1>5, <1>6, <1>7, CastNow, CastIs
<1>9. sps' \in MaybeUnit /\ pps' \in MaybeUnit
  <2>1. FirstOfType(us, 7) \in MaybeUnit /\ FirstOfType(us, 8) \in MaybeUnit
    BY <1>2, FirstOfTypeIs DEF MaybeUnit
  <2> QED
    BY <1>1, <2>1 DEF RtspInv, UnitsToSend, us
<1>10. UnitsToSend'
  BY <1>2, <1>7, <1>9 DEF UnitsToSend
<1>11. \A v \in Viewers : Owed(v)' = Owed(v) /\ PartOf(v)' = PartOf(v)
  <2>1. cast.client = {} /\ cast'.client = {}
    BY <1>4, <1>7, CastNow DEF NoCast
  <2> QED
    BY <2>1 DEF Owed, PartOf
<1>12. (sps # <<>> => sps' = sps) /\ (pps # <<>> => pps' = pps)
  BY <1>1
<1> QED
  BY <1>4, <1>10, <1>11, <1>12, <1>8, NothingSent

LEMMA EndKeeps == ASSUME RtspInv, EndCast PROVE RtspInv'
<1>1. cast' = [on |-> FALSE, units |-> <<>>, todo |-> {}, client |-> {},
               sets |-> 0, rest |-> <<>>, offset |-> 0] /\ cast' = NoCast
  BY DEF EndCast, NoCast
<1>2. /\ UNCHANGED viewerVars /\ UNCHANGED <<got, seqNum, promised, sps, pps, chunks>>
      /\ UNCHANGED writeVars /\ cast.rest = <<>>
  BY DEF EndCast, sentVars
<1>3. Cardinality({}) <= 1 /\ <<>> \in Seq(NalUnits) /\ Len(<<>>) = 0
  BY FS_EmptySet, EmptySeq
<1>4. /\ cast'.on = FALSE /\ cast'.todo = {} /\ cast'.units = <<>> /\ cast'.client = {}
      /\ cast'.sets = 0 /\ cast'.rest = <<>> /\ cast'.offset = 0
  BY <1>1
<1>5. RtspTypeOK' /\ CastShape' /\ Deleted'
  BY <1>1, <1>2, <1>3, <1>4, CastNow, CastIs
<1>6. UnitsToSend'
  BY <1>2, <1>3, <1>4 DEF RtspInv, UnitsToSend
<1>7. \A v \in Viewers : Owed(v)' = Owed(v) /\ PartOf(v)' = PartOf(v)
  BY <1>2, <1>4 DEF RtspInv, UnitsToSend, Owed, PartOf
<1> QED
  BY <1>2, <1>6, <1>7, <1>5, NothingSent

LEMMA SetsForIs ==
    ASSUME UnitsToSend, NEW us
    PROVE  SetsFor(us) \in Seq(NalUnits) /\ \A i \in 1..Len(SetsFor(us)) : SetsFor(us)[i] \in {sps, pps}
<1> DEFINE S == NalUnits \cap {sps, pps}
<1>1. Filled(sps) \in Seq(S) /\ Filled(pps) \in Seq(S) /\ <<>> \in Seq(S)
  <2>1. ASSUME NEW u \in MaybeUnit, u \in {sps, pps} PROVE Filled(u) \in Seq(S)
    <3>1. CASE u = <<>>
      BY <3>1, EmptySeq DEF Filled
    <3>2. CASE u # <<>>
      <4>1. u \in S /\ Filled(u) = <<u>>
        BY <2>1, <3>2 DEF MaybeUnit, Filled
      <4> HIDE DEF S
      <4> QED
        BY <4>1
    <3> QED
      BY <3>1, <3>2
  <2> QED
    BY <2>1, EmptySeq DEF UnitsToSend
<1>2. SetsFor(us) \in Seq(S)
  BY <1>1, ConcatProperties DEF SetsFor
<1>3. SetsFor(us) \in Seq(NalUnits)
  BY <1>2, SeqMonotonic
<1>4. \A i \in 1..Len(SetsFor(us)) : SetsFor(us)[i] \in S
  BY <1>2, ElementOfSeq
<1> QED
  BY <1>3, <1>4

\* Taking up a client promises it what it is owed from then on.
LEMMA TakeKeeps == ASSUME RtspInv, NEW v \in Viewers, TakeClient(v) PROVE RtspInv'
<1>0. /\ cast.on /\ cast.rest = <<>> /\ v \in cast.todo /\ v \in clients
      /\ UNCHANGED viewerVars /\ UNCHANGED <<seqNum, got, sps, pps, chunks>> /\ UNCHANGED writeVars
  BY CastNow DEF TakeClient
<1>1. /\ cast.todo \ {v} \subseteq clients /\ {v} \subseteq clients /\ Cardinality({v}) <= 1
      /\ cast.offset = 0 /\ \A w \in Viewers : Owed(w) = <<>> /\ PartOf(w) = <<>>
  <2>1. Cardinality({v}) = 1
    BY FS_Singleton
  <2>2. cast.offset = 0
    BY <1>0 DEF RtspInv, UnitsToSend
  <2> QED
    BY <1>0, <2>1, <2>2, CastNow DEF Owed, PartOf
<1>2. CASE ~rtpConn[v]
  <2>1. cast' = [cast EXCEPT !.todo = @ \ {v}] /\ promised' = promised
    BY <1>2 DEF TakeClient
  <2>2. cast' = [on |-> TRUE, units |-> cast.units, todo |-> cast.todo \ {v}, client |-> cast.client,
                 sets |-> cast.sets, rest |-> cast.rest, offset |-> cast.offset]
    BY <1>0, <2>1, CastNow
  <2>3. /\ cast'.on = TRUE /\ cast'.todo = cast.todo \ {v}
        /\ cast'.units = cast.units /\ cast'.client = cast.client
        /\ cast'.sets = cast.sets /\ cast'.rest = cast.rest /\ cast'.offset = cast.offset
    BY <2>2
  <2>4. RtspTypeOK' /\ CastShape' /\ Deleted'
    BY <1>0, <1>1, <2>2, <2>3, CastNow, CastIs
  <2>5. UnitsToSend'
    BY <1>0, <2>3 DEF RtspInv, UnitsToSend
  <2>6. \A w \in Viewers : Owed(w)' = Owed(w) /\ PartOf(w)' = PartOf(w)
    BY <2>3 DEF Owed, PartOf
  <2> QED
    BY <1>0, <2>1, <2>5, <2>6, <2>4, NothingSent
<1>3. CASE rtpConn[v]
  <2> DEFINE sets == SetsFor(cast.units)
             rest == sets \o cast.units
  <2>1. /\ cast' = [cast EXCEPT !.todo = @ \ {v}, !.client = {v}, !.sets = Len(sets),
                                !.rest = rest, !.offset = 0]
        /\ promised' = [promised EXCEPT ![v] = @ \o sets \o cast.units]
    BY <1>3 DEF TakeClient
  <2>2. /\ sets \in Seq(NalUnits) /\ \A i \in 1..Len(sets) : sets[i] \in {sps, pps}
        /\ cast.units \in Seq(NalUnits)
    BY SetsForIs DEF RtspInv, UnitsToSend
  <2> HIDE DEF sets
  <2>3. /\ rest \in Seq(NalUnits) /\ Len(rest) = Len(sets) + Len(cast.units)
        /\ Len(sets) \in Nat /\ Len(cast.units) \in Nat
        /\ \A i \in 1..Len(sets) : rest[i] = sets[i]
    BY <2>2, ConcatProperties, LenProperties
  <2> HIDE DEF rest
  <2>4. cast' = [on |-> TRUE, units |-> cast.units, todo |-> cast.todo \ {v}, client |-> {v},
                 sets |-> Len(sets), rest |-> rest, offset |-> 0]
    BY <1>0, <2>1, CastNow
  <2>5. /\ cast'.on = TRUE /\ cast'.todo = cast.todo \ {v}
        /\ cast'.units = cast.units /\ cast'.client = {v}
        /\ cast'.sets = Len(sets) /\ cast'.rest = rest /\ cast'.offset = 0
    BY <2>4
  <2>6. RtspTypeOK' /\ CastShape' /\ Deleted'
    BY <1>0, <1>1, <2>4, <2>5, CastNow, CastIs
  <2>7. UnitsToSend'
    BY <1>0, <2>2, <2>3, <2>5 DEF RtspInv, UnitsToSend
  <2>8. Counted' /\ Numbered'
    BY <1>0 DEF RtspInv, Counted, Numbered
  <2>9. promised \in [Viewers -> Seq(NalUnits)] /\ promised[v] \in Seq(NalUnits)
    BY DEF RtspInv
  <2>10. promised[v] \o sets \o cast.units = promised[v] \o rest /\ promised[v] \o rest \in Seq(NalUnits)
    <3>1. \A a, b, c \in Seq(NalUnits) : (a \o b) \o c = a \o (b \o c)
      BY ConcatAssociative
    <3>2. (promised[v] \o sets) \o cast.units = promised[v] \o (sets \o cast.units)
      BY <2>2, <2>9, <3>1
    <3>3. promised[v] \o rest \in Seq(NalUnits)
      BY <2>3, <2>9, ConcatProperties
    <3> QED
      BY <3>2, <3>3 DEF rest
  <2>11. promised' \in [Viewers -> Seq(NalUnits)] /\ promised'[v] = promised[v] \o rest
         /\ \A w \in Viewers \ {v} : promised'[w] = promised[w]
    BY <2>1, <2>9, <2>10
  <2>12. Delivered'
    <3> SUFFICES ASSUME NEW w \in Viewers
                 PROVE  /\ promised'[w] = Received(got'[w]).units \o Owed(w)'
                        /\ Received(got'[w]).part = PartOf(w)'
                        /\ Received(got'[w]).units \in Seq(NalUnits)
                        /\ \A i \in DOMAIN got'[w] : Fits(got[w][i].load)'
      BY DEF Delivered
    <3>1. /\ promised[w] = Received(got[w]).units \o <<>>
          /\ Received(got[w]).part = <<>> /\ Received(got[w]).units \in Seq(NalUnits)
          /\ \A i \in DOMAIN got[w] : Fits(got[w][i].load)
      BY <1>1 DEF RtspInv, Delivered
    <3>2. promised[w] = Received(got[w]).units
      BY <3>1, ConcatEmptySeq
    <3>3. got'[w] = got[w] /\ \A i \in DOMAIN got'[w] : Fits(got[w][i].load)'
      BY <1>0, <3>1 DEF Fits
    <3>4. PartOf(w)' = <<>>
      BY <2>5 DEF PartOf
    <3>5. CASE w = v
      <4>1. Owed(w)' = rest
        BY <2>5, <3>5 DEF Owed
      <4> QED
        BY <2>11, <3>1, <3>2, <3>3, <3>4, <3>5, <4>1
    <3>6. CASE w # v
      <4>1. Owed(w)' = <<>> /\ promised'[w] = promised[w]
        BY <2>5, <2>11, <3>6 DEF Owed
      <4> QED
        BY <3>1, <3>3, <3>4, <4>1
    <3> QED
      BY <3>5, <3>6
  <2> QED
    BY <2>7, <2>8, <2>11, <2>12, <2>6 DEF RtspInv
<1> QED
  BY <1>2, <1>3
\* What the next packet is to its receiver: the rest of the unit at hand, or
\* bytes of it after which there are more.
LEMMA PacketIs ==
    ASSUME RtspInv, NEW v \in Viewers, v \in cast.client, cast.rest # <<>>
    PROVE  LET u    == Head(cast.rest)
               load == NextPacket
               r    == Received(got[v])
               to   == cast.offset + Len(load.bytes)
           IN  /\ load \in Loads /\ Fits(load) /\ u \in NalUnits
               /\ \/ /\ ~(load.fu /\ ~load.end)
                     /\ Takes(r, load) = [units |-> Append(r.units, u), part |-> <<>>]
                  \/ /\ load.fu /\ ~load.end /\ cast.sets = 0 /\ Len(u) > MaxPayload
                     /\ to \in Nat \ {0} /\ to < Len(u) - 1
                     /\ Takes(r, load) = [units |-> r.units, part |-> SubSeq(u, 1, to + 1)]
<1> DEFINE u    == Head(cast.rest)
           load == NextPacket
           r    == Received(got[v])
           to   == cast.offset + Len(load.bytes)
<1>1. /\ cast.rest \in Seq(NalUnits) /\ cast.sets \in 0..Len(cast.rest) /\ cast.offset \in Nat
      /\ \A i \in 1..cast.sets : cast.rest[i] \in {sps, pps}
      /\ cast.offset > 0 => cast.sets = 0 /\ Len(u) > MaxPayload /\ cast.offset < Len(u) - 1
  BY DEF RtspInv, UnitsToSend
<1>2. u \in NalUnits /\ u = cast.rest[1] /\ Len(cast.rest) \in Nat \ {0}
  BY <1>1, HeadIsFirst, EmptySeq
<1>3. Len(u) \in Nat \ {0} /\ u \in Bytes
  BY <1>2, NalUnitIs
<1>4. r.part = IF cast.offset > 0 THEN SubSeq(u, 1, cast.offset + 1) ELSE <<>>
  BY DEF RtspInv, Delivered, PartOf
<1> HIDE DEF u, r
<1>5. CASE cast.sets > 0 \/ Len(u) <= MaxPayload
  <2>1. load = [fu |-> FALSE, bytes |-> u]
    BY <1>5 DEF NextPacket, Single, u
  <2> HIDE DEF load
  <2>2. load \in Loads
    BY <1>3, <2>1 DEF Loads
  <2>3. Fits(load)
    <3>1. cast.sets > 0 => 1 \in 1..cast.sets
      BY <1>1
    <3> QED
      BY <1>1, <1>2, <1>5, <2>1, <3>1 DEF Fits
  <2>4. Takes(r, load) = [units |-> Append(r.units, u), part |-> <<>>] /\ ~load.fu
    BY <2>1 DEF Takes
  <2> QED
    BY <1>2, <2>2, <2>3, <2>4 DEF u, r, load
<1>6. CASE ~(cast.sets > 0 \/ Len(u) <= MaxPayload)
  <2>1. load = Fragment(u, cast.offset)
    BY <1>6 DEF NextPacket, u
  <2> HIDE DEF load
  <2>2. cast.sets = 0 /\ Len(u) > MaxPayload /\ cast.offset < Len(u) - 1
    BY <1>1, <1>3, <1>6, RtspBounds
  <2>3. /\ load \in Loads /\ load.fu /\ (load.start <=> cast.offset = 0)
        /\ Len(load.bytes) \in Nat \ {0} /\ Len(load.bytes) + 2 <= MaxPayload /\ to <= Len(u) - 1
        /\ load.end <=> to = Len(u) - 1
        /\ load.start => <<32 * load.ref + load.type>> = SubSeq(u, 1, cast.offset + 1)
        /\ SubSeq(u, 1, cast.offset + 1) \o load.bytes = SubSeq(u, 1, to + 1)
    BY <1>1, <1>2, <2>1, <2>2, FragmentIs
  <2>4. Fits(load)
    BY <2>3 DEF Fits
  <2> DEFINE bytes == (IF load.start THEN <<32 * load.ref + load.type>> ELSE r.part) \o load.bytes
  <2>5. bytes = SubSeq(u, 1, to + 1)
    <3>1. CASE load.start
      BY <2>3, <3>1
    <3>2. CASE ~load.start
      <4>1. r.part = SubSeq(u, 1, cast.offset + 1)
        BY <1>1, <1>4, <2>3, <3>2
      <4> QED
        BY <2>3, <3>2, <4>1
    <3> QED
      BY <3>1, <3>2
  <2>6. Takes(r, load) = IF load.end THEN [units |-> Append(r.units, bytes), part |-> <<>>]
                         ELSE [units |-> r.units, part |-> bytes]
    BY <2>3 DEF Takes
  <2> HIDE DEF bytes
  <2>7. CASE load.end
    <3>1. to + 1 = Len(u)
      BY <1>3, <2>3, <2>7
    <3>2. SubSeq(u, 1, Len(u)) = u
      BY <1>3, SubSeqFull DEF Bytes
    <3>3. bytes = u
      BY <2>5, <3>1, <3>2
    <3> QED
      BY <1>2, <2>3, <2>4, <2>6, <2>7, <3>3 DEF u, r, load
  <2>8. CASE ~load.end
    <3>1. to # Len(u) - 1
      BY <2>3, <2>8, Zenon
    <3>2. cast.offset \in Nat /\ Len(u) \in Nat /\ Len(load.bytes) \in Nat \ {0} /\ to <= Len(u) - 1
      BY <1>1, <1>3, <2>3, Zenon
    <3>3. to \in Nat \ {0} /\ to < Len(u) - 1
      BY <3>1, <3>2
    <3> QED
      BY <1>2, <2>2, <2>3, <2>4, <2>5, <2>6, <2>8, <3>3 DEF u, r, load
  <2> QED
    BY <2>7, <2>8
<1> QED
  BY <1>5, <1>6

LEMMA PacketKeeps == ASSUME RtspInv, NEW v \in Viewers, BuildPacket(v) PROVE RtspInv'
<1> DEFINE u    == Head(cast.rest)
           load == NextPacket
           r    == Received(got[v])
           to   == cast.offset + Len(load.bytes)
           e    == [seq |-> seqNum[v], load |-> load]
           goes == load.fu /\ ~load.end
<1>1. /\ v \in cast.client /\ cast.rest # <<>>
      /\ got' = [got EXCEPT ![v] = Append(@, e)]
      /\ cast' = IF goes THEN [cast EXCEPT !.offset = @ + Len(load.bytes)]
                 ELSE [cast EXCEPT !.rest = Tail(@), !.offset = 0, !.sets = IF @ = 0 THEN 0 ELSE @ - 1]
      /\ seqNum' = [seqNum EXCEPT ![v] = (@ + 1) % SeqNumbers]
      /\ UNCHANGED viewerVars /\ UNCHANGED <<promised, sps, pps, chunks>>
  BY DEF BuildPacket
<1>0. WritesTyped'
  BY CastNow DEF BuildPacket, WritesTyped
<1>2. /\ load \in Loads /\ Fits(load) /\ u \in NalUnits
      /\ \/ ~goes /\ Takes(r, load) = [units |-> Append(r.units, u), part |-> <<>>]
         \/ /\ goes /\ cast.sets = 0 /\ Len(u) > MaxPayload
            /\ to \in Nat \ {0} /\ to < Len(u) - 1
            /\ Takes(r, load) = [units |-> r.units, part |-> SubSeq(u, 1, to + 1)]
  BY <1>1, PacketIs
<1>3. /\ got \in [Viewers -> Seq(Packets)] /\ got[v] \in Seq(Packets)
      /\ promised \in [Viewers -> Seq(NalUnits)]
      /\ promised[v] = r.units \o cast.rest /\ r.units \in Seq(NalUnits)
      /\ \A i \in DOMAIN got[v] : Fits(got[v][i].load)
      /\ seqNum \in [Viewers -> 0..(SeqNumbers - 1)] /\ rtpConn \in [Viewers -> BOOLEAN]
  BY <1>1 DEF RtspInv, RtspTypeOK, Counted, Delivered, Owed
<1> HIDE DEF load
<1>4. e \in Packets /\ e.seq = seqNum[v] /\ e.load = load
  <2>1. seqNum[v] \in Nat
    BY <1>3, RtspBounds
  <2> QED
    BY <1>2, <1>3, <2>1 DEF Packets
<1> HIDE DEF e, goes
<1>5. Counted' /\ Numbered'
  BY <1>1, <1>4, SendKeepsCount
<1>6. /\ got'[v] = Append(got[v], e) /\ Received(got'[v]) = Takes(r, load)
      /\ \A w \in Viewers \ {v} : got'[w] = got[w]
  BY <1>1, <1>3, <1>4, ReceivedAppend
<1>7. seqNum' \in [Viewers -> 0..(SeqNumbers - 1)]
  <2>1. seqNum[v] + 1 \in Nat
    BY <1>3, RtspBounds
  <2>2. (seqNum[v] + 1) % SeqNumbers \in 0..(SeqNumbers - 1)
    BY <2>1, RtspBounds, Division
  <2> QED
    BY <1>1, <1>3, <2>2
<1>8. ASSUME NEW i \in DOMAIN got'[v] PROVE Fits(got[v][i].load)'
  <2>1. /\ Len(got[v]) \in Nat /\ DOMAIN got[v] = 1..Len(got[v])
        /\ DOMAIN got'[v] = 1..(Len(got[v]) + 1)
        /\ \A j \in 1..Len(got[v]) : got'[v][j] = got[v][j]
        /\ got'[v][Len(got[v]) + 1] = e
    BY <1>3, <1>4, <1>6, AppendProperties, LenProperties
  <2>2. CASE i = Len(got[v]) + 1
    BY <1>1, <1>2, <1>4, <2>1, <2>2 DEF Fits
  <2>3. CASE i # Len(got[v]) + 1
    <3>1. i \in DOMAIN got[v] /\ got'[v][i] = got[v][i]
      BY <1>8, <2>1, <2>3
    <3> QED
      BY <1>1, <1>3, <3>1 DEF Fits
  <2> QED
    BY <2>2, <2>3
<1>9. \A w \in Viewers \ {v} : w \notin cast.client
  BY <1>1, CastNow
<1>10. ASSUME cast'.client = cast.client, promised[v] = Received(got'[v]).units \o cast'.rest,
              Received(got'[v]).units \in Seq(NalUnits), Received(got'[v]).part = PartOf(v)'
       PROVE  Delivered'
  <2> SUFFICES ASSUME NEW w \in Viewers
               PROVE  /\ promised'[w] = Received(got'[w]).units \o Owed(w)'
                      /\ Received(got'[w]).part = PartOf(w)'
                      /\ Received(got'[w]).units \in Seq(NalUnits)
                      /\ \A i \in DOMAIN got'[w] : Fits(got[w][i].load)'
    BY DEF Delivered
  <2>1. CASE w = v
    <3>1. Owed(w)' = cast'.rest
      BY <1>1, <1>10, <2>1 DEF Owed
    <3> QED
      BY <1>1, <1>8, <1>10, <2>1, <3>1
  <2>2. CASE w # v
    <3>1. w \notin cast.client /\ got'[w] = got[w] /\ promised'[w] = promised[w]
      BY <1>1, <1>6, <1>9, <2>2
    <3>2. Owed(w)' = Owed(w) /\ PartOf(w)' = PartOf(w)
      BY <1>10, <3>1 DEF Owed, PartOf
    <3>3. /\ promised[w] = Received(got[w]).units \o Owed(w)
          /\ Received(got[w]).part = PartOf(w)
          /\ Received(got[w]).units \in Seq(NalUnits)
          /\ \A i \in DOMAIN got[w] : Fits(got[w][i].load)
      BY DEF RtspInv, Delivered
    <3>4. \A i \in DOMAIN got'[w] : Fits(got[w][i].load)'
      BY <1>1, <3>1, <3>3 DEF Fits
    <3> QED
      BY <3>1, <3>2, <3>3, <3>4
  <2> QED
    BY <2>1, <2>2
<1>11. /\ cast.rest \in Seq(NalUnits) /\ Len(cast.rest) \in Nat \ {0} /\ cast.units \in Seq(NalUnits)
       /\ cast.sets \in 0..Len(cast.rest) /\ \A i \in 1..cast.sets : cast.rest[i] \in {sps, pps}
       /\ cast.offset \in Nat /\ sps \in MaybeUnit /\ pps \in MaybeUnit
  BY <1>1, EmptySeq DEF RtspInv, UnitsToSend
<1>12. CASE goes
  <2>1. /\ cast'.on = cast.on /\ cast'.todo = cast.todo /\ cast'.units = cast.units
        /\ cast'.client = cast.client /\ cast'.sets = cast.sets /\ cast'.rest = cast.rest
        /\ cast'.offset = to
        /\ cast' = [on |-> cast'.on, units |-> cast'.units, todo |-> cast'.todo, client |-> cast'.client,
                    sets |-> cast'.sets, rest |-> cast'.rest, offset |-> cast'.offset]
    <3>1. cast' = [on |-> cast.on, units |-> cast.units, todo |-> cast.todo, client |-> cast.client,
                   sets |-> cast.sets, rest |-> cast.rest, offset |-> to]
      BY <1>1, <1>12, CastNow
    <3> QED
      BY <3>1
  <2>2. RtspTypeOK' /\ CastShape' /\ Deleted'
    BY <1>0, <1>1, <1>7, <2>1, CastNow, CastIs
  <2>3. UnitsToSend'
    BY <1>1, <1>2, <1>11, <1>12, <2>1 DEF UnitsToSend
  <2>4. Received(got'[v]) = [units |-> r.units, part |-> SubSeq(u, 1, to + 1)] /\ to > 0
    BY <1>2, <1>6, <1>12
  <2>5. PartOf(v)' = SubSeq(u, 1, to + 1)
    BY <1>1, <2>1, <2>4 DEF PartOf
  <2>6. Delivered'
    <3> DEFINE bytes == SubSeq(u, 1, to + 1)
    <3> HIDE DEF bytes
    <3>1. Received(got'[v]).units = r.units /\ Received(got'[v]).part = PartOf(v)'
      <4>1. Received(got'[v]) = [units |-> r.units, part |-> bytes] /\ PartOf(v)' = bytes
        BY <2>4, <2>5, Zenon DEF bytes
      <4> QED
        BY <4>1
    <3>2. promised[v] = Received(got'[v]).units \o cast'.rest
      BY <1>3, <2>1, <3>1, Zenon
    <3> QED
      BY <1>3, <1>10, <2>1, <3>1, <3>2, Zenon
  <2> QED
    BY <1>1, <1>3, <1>5, <2>2, <2>3, <2>6 DEF RtspInv
<1>13. CASE ~goes
  <2> DEFINE sets == IF cast.sets = 0 THEN 0 ELSE cast.sets - 1
  <2>1. /\ cast'.on = cast.on /\ cast'.todo = cast.todo /\ cast'.units = cast.units
        /\ cast'.client = cast.client /\ cast'.sets = sets /\ cast'.rest = Tail(cast.rest)
        /\ cast'.offset = 0
        /\ cast' = [on |-> cast'.on, units |-> cast'.units, todo |-> cast'.todo, client |-> cast'.client,
                    sets |-> cast'.sets, rest |-> cast'.rest, offset |-> cast'.offset]
    <3>1. cast' = [on |-> cast.on, units |-> cast.units, todo |-> cast.todo, client |-> cast.client,
                   sets |-> sets, rest |-> Tail(cast.rest), offset |-> 0]
      BY <1>1, <1>13, CastNow
    <3> QED
      BY <3>1
  <2>2. RtspTypeOK' /\ CastShape' /\ Deleted'
    BY <1>0, <1>1, <1>7, <2>1, CastNow, CastIs
  <2>3. /\ Tail(cast.rest) \in Seq(NalUnits) /\ Len(Tail(cast.rest)) = Len(cast.rest) - 1
        /\ \A i \in 1..Len(Tail(cast.rest)) : Tail(cast.rest)[i] = cast.rest[i + 1]
    BY <1>1, <1>11, HeadTailProperties
  <2>4. sets \in 0..Len(Tail(cast.rest)) /\ \A i \in 1..sets : Tail(cast.rest)[i] \in {sps, pps}
    <3>1. sets \in 0..Len(Tail(cast.rest))
      BY <1>11, <2>3
    <3>2. ASSUME NEW i \in 1..sets PROVE Tail(cast.rest)[i] \in {sps, pps}
      <4>1. i \in 1..Len(Tail(cast.rest)) /\ i + 1 \in 1..cast.sets
        BY <1>11, <3>1, <3>2
      <4> QED
        BY <1>11, <2>3, <4>1
    <3> QED
      BY <3>1, <3>2
  <2> HIDE DEF sets
  <2>5. UnitsToSend'
    BY <1>1, <1>11, <2>1, <2>3, <2>4 DEF UnitsToSend
  <2>6. Received(got'[v]) = [units |-> Append(r.units, u), part |-> <<>>]
    BY <1>2, <1>6, <1>13
  <2>7. PartOf(v)' = <<>>
    BY <2>1 DEF PartOf
  <2>8. Append(r.units, u) \in Seq(NalUnits) /\ Append(r.units, u) \o Tail(cast.rest) = r.units \o cast.rest
    BY <1>1, <1>3, <1>11, MovesOn
  <2>9. Delivered'
    <3>1. Received(got'[v]).units = Append(r.units, u) /\ Received(got'[v]).part = PartOf(v)'
      BY <2>6, <2>7
    <3>2. promised[v] = Received(got'[v]).units \o cast'.rest
      BY <1>3, <2>1, <2>8, <3>1, Zenon
    <3>3. Received(got'[v]).units \in Seq(NalUnits)
      BY <2>8, <3>1, Zenon
    <3> QED
      BY <1>10, <2>1, <3>1, <3>2, <3>3, Zenon
  <2> QED
    BY <1>1, <1>3, <1>5, <2>2, <2>5, <2>9 DEF RtspInv
<1> QED
  BY <1>12, <1>13

\* The connections leave what is sent to the Broadcast, and wait for its lock
\* before they touch the map.
LEMMA PeerKeeps ==
    ASSUME RtspInv, NEW v \in Viewers,
           Setup(v) \/ Joins(v) \/ Teardown(v) \/ Removes(v) \/ Closes(v)
    PROVE  RtspInv'
<1>1. UNCHANGED <<seqNum, promised, got, sps, pps, chunks, cast>> /\ UNCHANGED <<way, crashed, lost>>
  BY DEF Setup, Joins, Teardown, Removes, Closes, sentVars, writeVars
<1>2. cast.todo \subseteq clients' /\ cast.client \subseteq clients'
  <2>1. CASE clients \subseteq clients'
    BY <2>1, CastNow
  <2>2. CASE ~(clients \subseteq clients')
    <3>1. cast = NoCast
      BY <2>2, CastNow DEF Setup, Joins, Teardown, Removes, Closes
    <3> QED
      BY <3>1 DEF NoCast
  <2> QED
    BY <2>1, <2>2
<1>3. RtspTypeOK'
  <2>1. peer' \in [Viewers -> {"open", "joining", "leaving", "closing", "closed"}]
    BY DEF RtspInv, RtspTypeOK, Setup, Joins, Teardown, Removes, Closes
  <2>2. clients' \subseteq Viewers /\ rtpConn' \in [Viewers -> BOOLEAN]
    BY DEF RtspInv, RtspTypeOK, Setup, Joins, Teardown, Removes, Closes
  <2>3. setups' \in [Viewers -> 0..MaxSetups]
    <3>1. setups \in [Viewers -> 0..MaxSetups] /\ MaxSetups \in Nat
      BY RtspBounds DEF RtspInv, RtspTypeOK
    <3>2. \/ setups' = setups
          \/ setups[v] < MaxSetups /\ setups' = [setups EXCEPT ![v] = @ + 1]
      BY DEF Setup, Joins, Teardown, Removes, Closes
    <3> QED
      BY <3>1, <3>2
  <2> QED
    BY <1>1, <1>2, <2>1, <2>2, <2>3 DEF RtspInv, RtspTypeOK
<1>4. CastShape'
  BY <1>1, <1>2 DEF RtspInv, CastShape, NoCast
<1>5. Deleted'
  BY DEF RtspInv, RtspTypeOK, Deleted, Setup, Joins, Teardown, Removes, Closes
<1>6. UnitsToSend'
  BY <1>1 DEF RtspInv, UnitsToSend
<1>7. \A w \in Viewers : Owed(w)' = Owed(w) /\ PartOf(w)' = PartOf(w)
  BY <1>1 DEF Owed, PartOf
<1> QED
  BY <1>1, <1>3, <1>4, <1>5, <1>6, <1>7, NothingSent

\* A packet at hand leaves, or does not.
LEMMA WriteKeeps ==
    ASSUME RtspInv, NEW v \in Viewers, WriteDatagram(v) \/ WriteHeader(v) \/ WriteFrame(v)
    PROVE  RtspInv'
<1>1. UNCHANGED viewerVars /\ UNCHANGED <<seqNum, promised, got, sps, pps, chunks, cast>>
  BY DEF WriteDatagram, WriteHeader, WriteFrame, sentVars
<1>2. WritesTyped'
  BY CastNow DEF WriteDatagram, WriteHeader, WriteFrame, WritesTyped
<1>3. RtspTypeOK' /\ CastShape' /\ Deleted'
  BY <1>1, <1>2 DEF RtspInv, RtspTypeOK, CastShape, Deleted, viewerVars, WritesTyped
<1>4. UnitsToSend'
  BY <1>1 DEF RtspInv, UnitsToSend
<1>5. \A w \in Viewers : Owed(w)' = Owed(w) /\ PartOf(w)' = PartOf(w)
  BY <1>1 DEF Owed, PartOf
<1> QED
  BY <1>1, <1>3, <1>4, <1>5, NothingSent

LEMMA RtspInvNext == RtspInv /\ [RtspNext]_rtspVars => RtspInv'
<1> SUFFICES ASSUME RtspInv, [RtspNext]_rtspVars PROVE RtspInv'
  OBVIOUS
<1>1. CASE BeginCast
  BY <1>1, BeginKeeps
<1>2. CASE EndCast
  BY <1>2, EndKeeps
<1>3. CASE \E v \in Viewers : TakeClient(v)
  BY <1>3, TakeKeeps
<1>4. CASE \E v \in Viewers : BuildPacket(v)
  BY <1>4, PacketKeeps
<1>5. CASE \E v \in Viewers : WriteDatagram(v) \/ WriteHeader(v) \/ WriteFrame(v)
  BY <1>5, WriteKeeps
<1>6. CASE \E v \in Viewers : Setup(v) \/ Joins(v) \/ Teardown(v) \/ Removes(v) \/ Closes(v)
  BY <1>6, PeerKeeps
<1>7. CASE UNCHANGED rtspVars
  <2>1. UNCHANGED viewerVars /\ UNCHANGED <<seqNum, promised, got, sps, pps, chunks, cast>>
    BY <1>7 DEF rtspVars, sentVars
  <2>2. UNCHANGED <<way, crashed, lost>>
    BY <1>7 DEF rtspVars, writeVars
  <2>3. RtspTypeOK' /\ CastShape' /\ Deleted'
    BY <2>1, <2>2 DEF RtspInv, RtspTypeOK, CastShape, Deleted, viewerVars
  <2>4. UnitsToSend'
    BY <2>1 DEF RtspInv, UnitsToSend
  <2>5. \A w \in Viewers : Owed(w)' = Owed(w) /\ PartOf(w)' = PartOf(w)
    BY <2>1 DEF Owed, PartOf
  <2> QED
    BY <2>1, <2>3, <2>4, <2>5, NothingSent
<1> QED
  BY <1>1, <1>2, <1>3, <1>4, <1>5, <1>6, <1>7 DEF RtspNext

\* What SETUPs do to the client at hand.
LEMMA SwitchedNext == RtspInv /\ Switched /\ [RtspNext]_rtspVars => Switched'
<1> SUFFICES ASSUME RtspInv, Switched, [RtspNext]_rtspVars PROVE Switched'
  OBVIOUS
<1>0. /\ setups \in [Viewers -> 0..MaxSetups] /\ MaxSetups \in Nat /\ rtpConn \in [Viewers -> BOOLEAN]
      /\ peer \in [Viewers -> {"open", "joining", "leaving", "closing", "closed"}]
      /\ cast.client \subseteq Viewers /\ lost \subseteq Viewers
      /\ (~cast.on => cast.client = {}) /\ \A v, w \in cast.client : v = w
  BY CastNow, RtspBounds DEF RtspInv, RtspTypeOK, NoCast
<1>1. CASE UNCHANGED viewerVars /\ UNCHANGED writeVars /\ cast'.client \subseteq cast.client
  BY <1>1 DEF Switched, OnlySwitchesLose, viewerVars, writeVars
<1>2. CASE BeginCast \/ EndCast
  <2>1. UNCHANGED viewerVars /\ UNCHANGED writeVars
    BY <1>2 DEF BeginCast, EndCast
  <2>2. cast'.client = {}
    <3>1. CASE BeginCast
      <4>1. PICK us : cast' = [NoCast EXCEPT !.on = TRUE, !.units = us, !.todo = clients]
        BY <3>1, Zenon DEF BeginCast
      <4> QED
        BY <4>1 DEF NoCast
    <3>2. CASE EndCast
      <4>1. cast' = NoCast
        BY <3>2 DEF EndCast
      <4> QED
        BY <4>1 DEF NoCast
    <3> QED
      BY <1>2, <3>1, <3>2
  <2> QED
    BY <1>1, <2>1, <2>2
<1>3. ASSUME NEW v \in Viewers, TakeClient(v) PROVE Switched'
  <2>1. UNCHANGED viewerVars /\ UNCHANGED writeVars /\ way = "none"
    BY <1>3 DEF TakeClient
  <2>2. CASE rtpConn[v]
    <3>1. cast'.client = {v}
      BY <1>3, <2>2, CastNow DEF TakeClient
    <3> QED
      BY <2>1, <2>2, <3>1 DEF Switched, OnlySwitchesLose, viewerVars, writeVars
  <2>3. CASE ~rtpConn[v]
    <3>1. cast'.client = cast.client
      BY <1>3, <2>3, CastNow DEF TakeClient
    <3> QED
      BY <1>1, <2>1, <3>1
  <2> QED
    BY <2>2, <2>3
<1>4. ASSUME NEW v \in Viewers, BuildPacket(v) PROVE Switched'
  <2>1. UNCHANGED viewerVars /\ UNCHANGED <<lost, crashed>> /\ v \in cast.client
        /\ way' = IF rtpConn[v] THEN "udp" ELSE "header"
    BY <1>4 DEF BuildPacket
  <2>2. cast'.client = cast.client
    BY <1>4, CastNow DEF BuildPacket
  <2>3. \A w \in cast'.client : way' \in {"header", "frame"} => ~rtpConn'[w]
    BY <1>0, <2>1, <2>2 DEF viewerVars
  <2> QED
    BY <2>1, <2>2, <2>3 DEF Switched, OnlySwitchesLose, viewerVars
<1>5. ASSUME NEW v \in Viewers, WriteDatagram(v) PROVE Switched'
  <2>1. UNCHANGED viewerVars /\ UNCHANGED cast /\ v \in cast.client /\ way' = "none"
    BY <1>5 DEF WriteDatagram
  <2>2. \/ UNCHANGED <<lost, crashed>>
        \/ ~rtpConn[v] /\ lost' \subseteq lost \cup {v}
    BY <1>5 DEF WriteDatagram
  <2>3. ~rtpConn[v] => setups[v] > 1
    BY <2>1 DEF Switched
  <2>4. OnlySwitchesLose'
    BY <2>1, <2>2, <2>3 DEF Switched, OnlySwitchesLose, viewerVars
  <2> QED
    BY <2>1, <2>4 DEF Switched, viewerVars
<1>6. ASSUME NEW v \in Viewers, WriteHeader(v) \/ WriteFrame(v) PROVE Switched'
  <2>1. UNCHANGED viewerVars /\ UNCHANGED cast /\ UNCHANGED <<lost, crashed>>
        /\ way \in {"header", "frame"} /\ way' \in {"none", "frame"}
    BY <1>6 DEF WriteHeader, WriteFrame
  <2> QED
    BY <2>1 DEF Switched, OnlySwitchesLose, viewerVars
<1>7. ASSUME NEW v \in Viewers, Setup(v) PROVE Switched'
  <2>1. /\ peer[v] = "open" /\ setups' = [setups EXCEPT ![v] = @ + 1]
        /\ peer' = [peer EXCEPT ![v] = "joining"] /\ UNCHANGED <<cast, way, lost, crashed>>
        /\ \A w \in Viewers \ {v} : rtpConn'[w] = rtpConn[w]
    BY <1>0, <1>7 DEF Setup, writeVars
  <2>2. setups'[v] = setups[v] + 1 /\ setups[v] \in Nat /\ peer'[v] = "joining"
        /\ \A w \in Viewers \ {v} : setups'[w] = setups[w] /\ peer'[w] = peer[w]
    BY <1>0, <2>1
  <2>3. v \in cast.client => rtpConn[v] /\ setups[v] > 0 /\ ~(way \in {"header", "frame"})
    BY <2>1 DEF Switched
  <2>4. \A w \in Viewers : rtpConn'[w] => setups'[w] > 0
    BY <2>1, <2>2 DEF Switched
  <2>5. \A w \in cast'.client : rtpConn'[w] \/ (peer'[w] = "joining" /\ setups'[w] > 1)
    BY <1>0, <2>1, <2>2, <2>3 DEF Switched
  <2>6. \A w \in cast'.client : way' \in {"header", "frame"} => ~rtpConn'[w]
    BY <1>0, <2>1, <2>3 DEF Switched
  <2>7. OnlySwitchesLose'
    <3>1. \A w \in Viewers : setups[w] > 1 => setups'[w] > 1
      BY <2>2
    <3> QED
      BY <1>0, <2>1, <3>1 DEF Switched, OnlySwitchesLose
  <2> QED
    BY <2>4, <2>5, <2>6, <2>7 DEF Switched
<1>8. ASSUME NEW v \in Viewers, Joins(v) \/ Teardown(v) \/ Removes(v) \/ Closes(v) PROVE Switched'
  <2>1. UNCHANGED <<setups, rtpConn, cast, way, lost, crashed>>
    BY <1>8 DEF Joins, Teardown, Removes, Closes, writeVars
  <2>2. \A w \in cast.client : peer[w] = "joining" => peer'[w] = "joining"
    <3>1. CASE Joins(v)
      BY <1>0, <3>1 DEF Joins
    <3>2. CASE Teardown(v) \/ Removes(v) \/ Closes(v)
      <4>1. peer[v] # "joining" /\ \A w \in Viewers \ {v} : peer'[w] = peer[w]
        BY <1>0, <3>2 DEF Teardown, Removes, Closes
      <4> QED
        BY <1>0, <4>1
    <3> QED
      BY <1>8, <3>1, <3>2
  <2> QED
    BY <2>1, <2>2 DEF Switched, OnlySwitchesLose
<1>9. CASE UNCHANGED rtspVars
  <2>1. UNCHANGED viewerVars /\ UNCHANGED writeVars /\ cast'.client = cast.client
    BY <1>9 DEF rtspVars
  <2> QED
    BY <1>1, <2>1
<1> QED
  BY <1>2, <1>3, <1>4, <1>5, <1>6, <1>7, <1>8, <1>9 DEF RtspNext

\* What the invariant says of a client that is owed nothing: it has put all
\* its units together, and holds no fragment of another.
LEMMA ServedIs ==
    ASSUME RtspInv, NEW v \in Viewers
    PROVE  /\ IsPrefix(Received(got[v]).units, promised[v])
           /\ Owed(v) = <<>> => Received(got[v]) = [units |-> promised[v], part |-> <<>>]
<1> DEFINE r == Received(got[v])
<1>1. /\ promised[v] = r.units \o Owed(v) /\ r.part = PartOf(v) /\ r.units \in Seq(NalUnits)
      /\ got[v] \in Seq(Packets)
  BY DEF RtspInv, Delivered, Counted
<1>2. Owed(v) \in Seq(NalUnits)
  BY EmptySeq DEF RtspInv, UnitsToSend, Owed
<1>3. r \in Receipts
  <2>1. PICK f : /\ f = [i \in 0..Len(got[v]) |-> IF i = 0 THEN Nothing ELSE Takes(f[i - 1], got[v][i].load)]
                 /\ \A i \in 0..Len(got[v]) : f[i] \in Receipts
                 /\ Received(got[v]) = f[Len(got[v])]
    BY <1>1, ReceivedIs
  <2>2. Len(got[v]) \in 0..Len(got[v])
    BY <1>1, LenProperties
  <2> QED
    BY <2>1, <2>2
<1>4. r = [units |-> r.units, part |-> r.part]
  BY <1>3 DEF Receipts
<1> HIDE DEF r
<1>5. IsPrefix(r.units, promised[v])
  BY <1>1, <1>2, PrefixIs
<1>6. ASSUME Owed(v) = <<>> PROVE r = [units |-> promised[v], part |-> <<>>]
  <2>1. r.units = promised[v]
    BY <1>1, <1>6, ConcatEmptySeq
  <2>2. PartOf(v) = <<>>
    BY <1>6 DEF RtspInv, UnitsToSend, Owed, PartOf
  <2> QED
    BY <1>1, <1>4, <2>1, <2>2
<1> QED
  BY <1>5, <1>6 DEF r

\* The state of the clients is typed, and their numbers, packets, units and
\* SETUPs are what the invariant relates them to.
THEOREM RtspInvariance == RtspSpec => [](RtspInv /\ Switched)
<1>1. RtspInit => RtspInv /\ Switched
  BY RtspInvInit
<1>2. RtspInv /\ Switched /\ [RtspNext]_rtspVars => (RtspInv /\ Switched)'
  BY RtspInvNext, SwitchedNext
<1> QED
  BY <1>1, <1>2, PTL DEF RtspSpec

\* The RTSP server is sound, whatever FFmpeg writes and however the clients come,
\* set up and go: packets are numbered without a gap, a client puts together
\* exactly the units that Broadcast took up for it, from packets that fit; only
\* one that leaves UDP by a second SETUP may lose a packet, or end the server
\* (Broadcast looks at rtpConn and then reads it again); no answer comes into an
\* interleaved packet; and nothing is sent on a closed connection.
THEOREM ViewersServed == RtspSpec => []LocalSound
<1>1. RtspInv /\ Switched => LocalSound
  <2> SUFFICES ASSUME RtspInv, Switched PROVE LocalSound
    OBVIOUS
  <2>1. Numbered
    BY DEF RtspInv
  <2>2. Reassembled
    <3>1. \A v \in Viewers : ~Served(v) => Owed(v) = <<>>
      BY DEF Served, Owed
    <3> QED
      BY <3>1, ServedIs DEF Reassembled, RtspInv, Delivered
  <2>3. ClosedUnused
    BY DEF ClosedUnused, RtspInv, Deleted, CastShape, Served
  <2>4. OnlySwitchesLose /\ Unbroken
    BY DEF Switched, Unbroken
  <2> QED
    BY <2>1, <2>2, <2>3, <2>4 DEF LocalSound
<1> QED
  BY <1>1, RtspInvariance, PTL

-----------------------------------------------------------------------------
(* MCProtocols: the components together, each as its module says, whichever *)
(* of them a behaviour is about                                            *)

\* The type invariant of Signalling is inductive as it is.
LEMMA SigInvInit == SigInit => SigTypeOK
<1> SUFFICES ASSUME SigInit PROVE SigTypeOK
  OBVIOUS
<1>1. 0 \in Ages /\ Timeout + 1 \in Ages /\ 0 \in 0..MaxRestarts
  BY SignallingBounds DEF Ages
<1> QED
  BY <1>1, Zenon DEF SigInit, SigTypeOK

LEMMA SigInvNext == SigTypeOK /\ [SigNext]_sigVars => SigTypeOK'
<1> SUFFICES ASSUME SigTypeOK, [SigNext]_sigVars PROVE SigTypeOK'
  OBVIOUS
<1> USE DEF SigTypeOK, row, conn, jobs
<1>1. /\ 0 \in Ages /\ \A a \in Ages : Older(a) \in Ages
      /\ \A n \in 0..MaxRestarts : n < MaxRestarts => n + 1 \in 0..MaxRestarts
  BY SignallingBounds DEF Ages, Older
<1>2. CASE Register
  BY <1>1, <1>2 DEF Register
<1>3. CASE RegisterWrites
  BY <1>3 DEF RegisterWrites
<1>4. CASE Message
  BY <1>1, <1>4 DEF Message
<1>5. CASE KeepaliveWrites
  BY <1>1, <1>5 DEF KeepaliveWrites
<1>6. CASE CheckSessions
  BY <1>6 DEF CheckSessions
<1>7. CASE CheckRows
  BY <1>7 DEF CheckRows
<1>8. CASE CheckMarks
  BY <1>8 DEF CheckMarks
<1>9. CASE MonitorLoads
  BY <1>9 DEF MonitorLoads
<1>10. CASE MonitorProbes
  BY <1>10 DEF MonitorProbes, Probe
<1>11. CASE Tick
  BY <1>1, <1>11 DEF Tick
<1>12. CASE SwitchOff
  BY <1>12 DEF SwitchOff
<1>13. CASE Restart
  BY <1>1, <1>13 DEF Restart
<1>14. CASE UNCHANGED sigVars
  BY <1>14 DEF sigVars
<1> QED
  BY <1>2, <1>3, <1>4, <1>5, <1>6, <1>7, <1>8, <1>9, <1>10, <1>11, <1>12, <1>13, <1>14 DEF SigNext

\* The invariants of the components; a demuxer that rests has an empty stream.
ProtocolsInv ==
    /\ SigTypeOK /\ SnapInv /\ RtpInv /\ PsInv /\ AnnInv /\ RtspInv
    /\ part = "demux" => PsUnits

LEMMA ProtocolsInvInit == Init => ProtocolsInv
<1> SUFFICES ASSUME Init PROVE ProtocolsInv
  OBVIOUS
<1>1. SigTypeOK
  BY SigInvInit, Zenon DEF Init
<1>2. SnapInv /\ RtpInv /\ RtspInv
  BY SnapInvInit, RtpInvInit, RtspInvInit, Zenon DEF Init
<1>3. PsInv /\ (part = "demux" => PsUnits)
  <2>1. CASE part = "demux"
    BY <2>1, PsInitInv, Zenon DEF Init, PsInit, PsUnits
  <2>2. CASE part # "demux"
    <3>1. units = <<>> /\ fed = 0 /\ buffer = <<>> /\ idle = TRUE /\ out = <<>>
      BY <2>2, Zenon DEF Init
    <3>2. 0 \in Nat /\ units \in [1..0 -> Units]
      BY <3>1
    <3> QED
      BY <2>2, <3>1, <3>2, PsBegins
  <2> QED
    BY <2>1, <2>2
<1>4. AnnInv
  <2>1. AnnInit
    BY FFmpegWritesItems, Zenon DEF Init, AnnInit
  <2> QED
    BY <2>1, AnnInitInv
<1> QED
  BY <1>1, <1>2, <1>3, <1>4, Zenon DEF ProtocolsInv

\* A step is one of its component, and the others rest.
LEMMA StepsOfParts ==
    ASSUME [Next]_allVars
    PROVE  /\ [SigNext]_sigVars /\ [SnapNext]_snapVars /\ [RtpNext]_rtpVars
           /\ [PsNext]_psVars /\ [AnnNext]_annVars /\ [RtspNext]_rtspVars
           /\ part' = part
<1>1. CASE UNCHANGED allVars
  <2>1. UNCHANGED <<part, sigVars, snapVars, rtpVars, psVars, annVars, rtspVars>>
    BY <1>1 DEF allVars, resting
  <2> QED
    BY <2>1
<1>2. CASE SigNext /\ RestOf("signalling")
  BY <1>2 DEF RestOf
<1>3. CASE SnapNext /\ RestOf("snapshots")
  BY <1>3 DEF RestOf
<1>4. CASE RtpNext /\ RestOf("invites")
  BY <1>4 DEF RestOf
<1>5. CASE PsNext /\ RestOf("demux")
  BY <1>5 DEF RestOf
<1>6. CASE AnnNext /\ RestOf("annexb")
  BY <1>6 DEF RestOf
<1>7. CASE RtspNext /\ RestOf("localcam")
  BY <1>7 DEF RestOf
<1> QED
  BY <1>1, <1>2, <1>3, <1>4, <1>5, <1>6, <1>7, Zenon DEF Next

LEMMA ProtocolsInvNext == ProtocolsInv /\ [Next]_allVars => ProtocolsInv'
<1> SUFFICES ASSUME ProtocolsInv, [Next]_allVars PROVE ProtocolsInv'
  OBVIOUS
<1>1. /\ SigTypeOK /\ SnapInv /\ RtpInv /\ PsInv /\ AnnInv /\ RtspInv
      /\ part = "demux" => PsUnits
  BY Zenon DEF ProtocolsInv
<1>2. /\ [SigNext]_sigVars /\ [SnapNext]_snapVars /\ [RtpNext]_rtpVars
      /\ [PsNext]_psVars /\ [AnnNext]_annVars /\ [RtspNext]_rtspVars
      /\ part' = part
  BY StepsOfParts, Zenon
<1>3. SigTypeOK' /\ SnapInv' /\ RtpInv' /\ PsInv' /\ AnnInv' /\ RtspInv'
  BY <1>1, <1>2, SigInvNext, SnapInvNext, RtpInvNext, PsNextInv, AnnNextInv, RtspInvNext, Zenon
<1>4. part' = "demux" => PsUnits'
  BY <1>1, <1>2, PsUnitsKept, Zenon
<1> QED
  BY <1>3, <1>4, Zenon DEF ProtocolsInv

THEOREM ProtocolsInvariance == Spec => []ProtocolsInv
<1> QED
  BY ProtocolsInvInit, ProtocolsInvNext, PTL DEF Spec

\* The state of every component is typed: sessions and rows of a GB28181
\* camera, snapshot tables, RTP ports, the buffers of its demuxer and of
\* FFmpeg's readers, which stay within their limits, and the RTSP clients.
THEOREM ProtocolsTyped == Spec => []TypeOK
<1>1. ProtocolsInv => TypeOK
  <2> SUFFICES ASSUME ProtocolsInv PROVE TypeOK
    OBVIOUS
  <2>1. SigTypeOK /\ SnapTypeOK /\ RtpTypeOK /\ RtspTypeOK
    BY Zenon DEF ProtocolsInv, SnapInv, RtpInv, RtspInv
  <2>2. AnnTypeOK /\ (part = "demux" => PsTypeOK)
    BY AnnInvTyped, PsTyped, Zenon DEF ProtocolsInv
  <2> QED
    BY <2>1, <2>2, Zenon DEF TypeOK
<1> QED
  BY <1>1, ProtocolsInvariance, PTL

\* Wherever the packets of a GB28181 stream and the reads of FFmpeg's output
\* are cut: the readers deliver NAL units and JPEG frames that FFmpeg wrote, whole
\* and in order, and all of them when each fits their limit; the demuxer joins
\* nothing of two units and, if every PES gives its length, delivers of each NAL
\* unit the part in the PES it begins in, once and in order.  It loses what stands
\* in a further PES, and of a PES without a length it may lose units (parseRTP,
\* PSDemuxer, the readers of stream.go).
THEOREM MediaKept == Spec => []MediaIntact
<1>1. ProtocolsInv => MediaIntact
  BY PsInvExact, AnnInvIntact, Zenon DEF ProtocolsInv, MediaIntact
<1> QED
  BY <1>1, ProtocolsInvariance, PTL
=============================================================================
