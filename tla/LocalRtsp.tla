------------------------------ MODULE LocalRtsp ------------------------------
(***************************************************************************)
(* The RTSP server of cmd/localcam: a goroutine for every connection, and  *)
(* one that reads H.264 from FFmpeg and broadcasts it as RTP.  A step is   *)
(* what is done between two accesses to a client, its connections or       *)
(* RTSPServer.mu.  Bytes are numbers; markers, timestamps and SSRCs are    *)
(* left out, and so are datagrams that the network loses.                  *)
(***************************************************************************)
EXTENDS Naturals, Sequences, FiniteSets, SequencesExt

CONSTANTS
    Viewers,       \* connections
    Chunks,        \* what one Read of FFmpeg's stdout may return
    MaxChunks,     \* bound on the reads
    MaxSetups,     \* bound on the SETUPs of a connection
    MaxPayload,    \* maxPayloadSize, 1200 in the code
    SeqNumbers     \* 2^16 in the code

ASSUME RtspBounds ==
    /\ MaxPayload \in Nat /\ MaxPayload > 2 /\ SeqNumbers \in Nat \ {0}
    /\ MaxChunks \in Nat /\ MaxSetups \in Nat

VARIABLES
    peer,          \* progress of handleClient
    setups,        \* SETUPs of each connection
    clients,       \* RTSPServer.clients
    rtpConn,       \* the client has a UDP connection, and not the RTSP one
    seqNum,        \* its next sequence number
    sps, pps,      \* the parameter sets, empty until they are seen
    chunks,        \* reads so far
    cast,          \* a Broadcast: its NAL units, the clients to come, the one
                   \* at hand, the units it has still to get, how many of them
                   \* are parameter sets, and what of the first one it has
    way,           \* how the packet at hand leaves: over UDP, or on the RTSP
                   \* connection as a header and then the frame
    crashed,       \* the process has ended in a panic
    promised,      \* history: the units Broadcast has taken up for each client
    got,           \* history: the packets numbered for it
    lost           \* history: the clients a packet of which went nowhere

viewerVars == <<peer, setups, clients, rtpConn>>
sentVars   == <<seqNum, promised, got>>
writeVars  == <<way, crashed, lost>>
rtspVars   == <<viewerVars, sentVars, writeVars, sps, pps, chunks, cast>>

NoCast == [on |-> FALSE, units |-> <<>>, todo |-> {}, client |-> {},
           sets |-> 0, rest |-> <<>>, offset |-> 0]

RtspTypeOK ==
    /\ peer \in [Viewers -> {"open", "joining", "leaving", "closing", "closed"}]
    /\ clients \subseteq Viewers /\ rtpConn \in [Viewers -> BOOLEAN]
    /\ seqNum \in [Viewers -> 0..(SeqNumbers - 1)]
    /\ chunks \in 0..MaxChunks /\ setups \in [Viewers -> 0..MaxSetups]
    /\ cast.todo \subseteq clients /\ Cardinality(cast.client) <= 1
    /\ cast.rest # <<>> => cast.on /\ cast.client # {}
    /\ way \in {"none", "udp", "header", "frame"} /\ lost \subseteq Viewers /\ crashed \in BOOLEAN

RtspInit ==
    /\ peer = [v \in Viewers |-> "open"] /\ setups = [v \in Viewers |-> 0]
    /\ clients = {} /\ rtpConn = [v \in Viewers |-> FALSE]
    /\ seqNum = [v \in Viewers |-> 0]
    /\ sps = <<>> /\ pps = <<>> /\ chunks = 0 /\ cast = NoCast
    /\ promised = [v \in Viewers |-> <<>>] /\ got = [v \in Viewers |-> <<>>]
    /\ way = "none" /\ lost = {} /\ crashed = FALSE

-----------------------------------------------------------------------------
(* NAL units and packets                                                   *)

IsCode(s, i) == i + 2 <= Len(s) /\ s[i] = 0 /\ s[i + 1] = 0 /\ s[i + 2] = 1

\* The unit behind the start code at i reaches to the next one, which may be
\* four bytes long.
UnitAt(s, i) ==
    LET later == {k \in (i + 3)..Len(s) : IsCode(s, k)}
        last  == IF later = {} THEN Len(s)
                 ELSE IF s[Min(later) - 1] = 0 THEN Min(later) - 2 ELSE Min(later) - 1
    IN  SubSeq(s, i + 3, last)

\* splitNALUs.  What stands before the first start code is lost; the empty
\* units, of which sendRTPPacket sends nothing, are left out here.
WithUnitAt(us, s, i) ==
    IF IsCode(s, i) /\ UnitAt(s, i) # <<>> THEN Append(us, UnitAt(s, i)) ELSE us
SplitNALUs(s) ==
    LET split[i \in 0..Len(s)] == IF i = 0 THEN <<>> ELSE WithUnitAt(split[i - 1], s, i)
    IN  split[Len(s)]

\* FFmpeg writes bytes, and the first of a NAL unit has no forbidden_zero_bit.
ASSUME FFmpegWritesH264 ==
    \A s \in Chunks :
        /\ s \in Seq(0..255)
        /\ \A i \in DOMAIN s : IsCode(s, i) /\ i + 3 <= Len(s) => s[i + 3] < 128

OfType(u, type) == u # <<>> /\ u[1] % 32 = type
FirstOfType(us, type) ==
    LET found == {i \in DOMAIN us : OfType(us[i], type)} IN IF found = {} THEN <<>> ELSE us[Min(found)]

\* The parameter sets go first when there is an IDR picture in the read.
Filled(u) == IF u = <<>> THEN <<>> ELSE <<u>>
SetsFor(us) ==
    IF \E i \in DOMAIN us : OfType(us[i], 5) THEN Filled(sps) \o Filled(pps) ELSE <<>>

Single(u) == [fu |-> FALSE, bytes |-> u]

\* One turn of the loop of sendFragmentedRTPPackets: the header byte goes into
\* every FU-A packet, of the rest what fits beside its two bytes.
Fragment(u, offset) ==
    LET size == Len(u) - 1
        to   == IF offset + MaxPayload - 2 > size THEN size ELSE offset + MaxPayload - 2
    IN  [fu |-> TRUE, start |-> offset = 0, end |-> to = size,
         type |-> u[1] % 32, ref |-> (u[1] \div 32) % 4, bytes |-> SubSeq(u, offset + 2, to + 1)]

\* sendRTPPacket sends a small unit as it is; parameter sets are, of any size.
NextPacket ==
    LET u == Head(cast.rest)
    IN  IF cast.sets > 0 \/ Len(u) <= MaxPayload THEN Single(u) ELSE Fragment(u, cast.offset)

-----------------------------------------------------------------------------
(* Broadcast                                                               *)

\* The read is split, parameter sets that are still missing are kept, and mu
\* is taken for reading.
BeginCast ==
    /\ ~cast.on /\ chunks < MaxChunks
    /\ chunks' = chunks + 1
    /\ \E chunk \in Chunks :
        LET us == SplitNALUs(chunk)
        IN  /\ us # <<>>
            /\ sps' = IF sps = <<>> THEN FirstOfType(us, 7) ELSE sps
            /\ pps' = IF pps = <<>> THEN FirstOfType(us, 8) ELSE pps
            /\ cast' = [NoCast EXCEPT !.on = TRUE, !.units = us, !.todo = clients]
    /\ UNCHANGED <<viewerVars, sentVars, writeVars>>

\* The next client of the map; one without a UDP connection is passed over.
TakeClient(v) ==
    /\ cast.on /\ cast.rest = <<>> /\ way = "none" /\ v \in cast.todo
    /\ IF rtpConn[v]
       THEN LET sets == SetsFor(cast.units)
            IN  /\ cast' = [cast EXCEPT !.todo = @ \ {v}, !.client = {v}, !.sets = Len(sets),
                                        !.rest = sets \o cast.units, !.offset = 0]
                /\ promised' = [promised EXCEPT ![v] = @ \o sets \o cast.units]
       ELSE cast' = [cast EXCEPT !.todo = @ \ {v}] /\ UNCHANGED promised
    /\ UNCHANGED <<viewerVars, writeVars, seqNum, got, sps, pps, chunks>>

\* A packet of its own or the next fragment is numbered, and rtpConn looked at
\* once more: a SETUP may have cleared it since.
BuildPacket(v) ==
    /\ v \in cast.client /\ cast.rest # <<>> /\ way = "none"
    /\ LET load == NextPacket
       IN  /\ got' = [got EXCEPT ![v] = Append(@, [seq |-> seqNum[v], load |-> load])]
           /\ cast' = IF load.fu /\ ~load.end
                      THEN [cast EXCEPT !.offset = @ + Len(load.bytes)]
                      ELSE [cast EXCEPT !.rest = Tail(@), !.offset = 0,
                                        !.sets = IF @ = 0 THEN 0 ELSE @ - 1]
    /\ seqNum' = [seqNum EXCEPT ![v] = (@ + 1) % SeqNumbers]
    /\ way' = IF rtpConn[v] THEN "udp" ELSE "header"
    /\ UNCHANGED <<viewerVars, promised, crashed, lost, sps, pps, chunks>>

\* The connection that was there is read again to be written to.  If a SETUP has
\* cleared it in between, Write is called on nil: it fails, which nobody looks
\* at, or it panics.
WriteDatagram(v) ==
    /\ v \in cast.client /\ way = "udp"
    /\ way' = "none"
    /\ IF rtpConn[v] THEN UNCHANGED <<lost, crashed>>
       ELSE \/ lost' = lost \cup {v} /\ UNCHANGED crashed
            \/ crashed' = TRUE /\ UNCHANGED lost
    /\ UNCHANGED <<viewerVars, sentVars, sps, pps, chunks, cast>>

\* sendTCPPacket: two writes to the connection that handleClient answers on.
WriteHeader(v) ==
    /\ v \in cast.client /\ way = "header"
    /\ way' = "frame"
    /\ UNCHANGED <<viewerVars, sentVars, crashed, lost, sps, pps, chunks, cast>>

WriteFrame(v) ==
    /\ v \in cast.client /\ way = "frame"
    /\ way' = "none"
    /\ UNCHANGED <<viewerVars, sentVars, crashed, lost, sps, pps, chunks, cast>>

EndCast ==
    /\ cast.on /\ cast.rest = <<>> /\ cast.todo = {} /\ way = "none"
    /\ cast' = NoCast
    /\ UNCHANGED <<viewerVars, sentVars, writeVars, sps, pps, chunks>>

-----------------------------------------------------------------------------
(* handleClient                                                            *)

\* A connection answers its requests one after the other: while it is "open".
\* SETUP sets the transport at once, without mu (one that cannot dial changes
\* nothing) ...
Setup(v) ==
    /\ peer[v] = "open" /\ setups[v] < MaxSetups
    /\ setups' = [setups EXCEPT ![v] = @ + 1]
    /\ \E udp \in BOOLEAN : rtpConn' = [rtpConn EXCEPT ![v] = udp]
    /\ peer' = [peer EXCEPT ![v] = "joining"]
    /\ UNCHANGED <<clients, sentVars, writeVars, sps, pps, chunks, cast>>

\* ... and enters the client under it, as often as it comes.
Joins(v) ==
    /\ peer[v] = "joining" /\ ~cast.on
    /\ clients' = clients \cup {v}
    /\ peer' = [peer EXCEPT ![v] = "open"]
    /\ UNCHANGED <<setups, rtpConn, sentVars, writeVars, sps, pps, chunks, cast>>

\* TEARDOWN, or the peer has gone.
Teardown(v) ==
    /\ peer[v] = "open"
    /\ peer' = [peer EXCEPT ![v] = "leaving"]
    /\ UNCHANGED <<setups, clients, rtpConn, sentVars, writeVars, sps, pps, chunks, cast>>

\* Mutant of Removes: the client is deleted without mu.
RemovesUnlocked(v) ==
    /\ peer[v] = "leaving"
    /\ clients' = clients \ {v}
    /\ cast' = [cast EXCEPT !.todo = @ \ {v}]
    /\ peer' = [peer EXCEPT ![v] = "closing"]
    /\ UNCHANGED <<setups, rtpConn, sentVars, writeVars, sps, pps, chunks>>

\* The deferred removal waits for the Broadcast that may be sending to it.
Removes(v) ==
    /\ peer[v] = "leaving" /\ ~cast.on
    /\ clients' = clients \ {v}
    /\ peer' = [peer EXCEPT ![v] = "closing"]
    /\ UNCHANGED <<setups, rtpConn, sentVars, writeVars, sps, pps, chunks, cast>>

Closes(v) ==
    /\ peer[v] = "closing"
    /\ peer' = [peer EXCEPT ![v] = "closed"]
    /\ UNCHANGED <<setups, clients, rtpConn, sentVars, writeVars, sps, pps, chunks, cast>>

RtspNext ==
    /\ ~crashed
    /\ \/ BeginCast \/ EndCast
       \/ \E v \in Viewers :
           \/ TakeClient(v) \/ BuildPacket(v) \/ WriteDatagram(v) \/ WriteHeader(v) \/ WriteFrame(v)
           \/ Setup(v) \/ Joins(v) \/ Teardown(v) \/ Removes(v) \/ Closes(v)

RtspSpec == RtspInit /\ [][RtspNext]_rtspVars

-----------------------------------------------------------------------------
(* Properties                                                              *)

\* What a receiver makes of the packets: units, and what it has of one whose
\* fragments it joins, from the start bit to the end bit.
Nothing == [units |-> <<>>, part |-> <<>>]
Takes(r, load) ==
    LET part == (IF load.start THEN <<32 * load.ref + load.type>> ELSE r.part) \o load.bytes
    IN  IF ~load.fu THEN [units |-> Append(r.units, load.bytes), part |-> <<>>]
        ELSE IF load.end THEN [units |-> Append(r.units, part), part |-> <<>>]
        ELSE [units |-> r.units, part |-> part]
Received(ps) ==
    LET after[i \in 0..Len(ps)] == IF i = 0 THEN Nothing ELSE Takes(after[i - 1], ps[i].load)
    IN  after[Len(ps)]

\* What a client has still to get of the Broadcast that has it at hand.
Owed(v) == IF v \in cast.client THEN cast.rest ELSE <<>>
Served(v) == v \in cast.client /\ (cast.rest # <<>> \/ way # "none")

\* The packets of a client are numbered from 0 without a gap, whoever else is
\* served between two of them, and through as many SETUPs as it sends.
Numbered ==
    \A v \in Viewers : \A i \in DOMAIN got[v] : got[v][i].seq = (i - 1) % SeqNumbers

\* Packets fit into a datagram, but for parameter sets, which are not cut.
Fits(load) ==
    IF load.fu THEN Len(load.bytes) + 2 <= MaxPayload
    ELSE Len(load.bytes) <= MaxPayload \/ load.bytes \in {sps, pps}

\* While other clients come and go, the packets written for a client fit, and it
\* can put together, in order, exactly the units that were taken up for it: those
\* Broadcast finds in each read of FFmpeg's output.  (What of a unit is in the
\* next read is lost: splitNALUs finds no start code before it.)  A client one of
\* whose packets went nowhere is excepted.
Reassembled ==
    \A v \in Viewers :
        /\ \A i \in DOMAIN got[v] : Fits(got[v][i].load)
        /\ v \notin lost =>
            /\ IsPrefix(Received(got[v]).units, promised[v])
            /\ ~Served(v) => Received(got[v]) = [units |-> promised[v], part |-> <<>>]

\* A SETUP between the look at rtpConn and its use loses a packet or ends the
\* server, and nothing else does: a client that sets up once loses none, and
\* a server with such clients alone goes on.
OnlySwitchesLose ==
    /\ \A v \in lost : setups[v] > 1
    /\ crashed => \E v \in Viewers : setups[v] > 1

\* No answer comes between the header and the frame of an interleaved packet:
\* only a client that has left UDP during the Broadcast is sent one, and the
\* connection's goroutine waits for mu until the Broadcast has ended.
Unbroken == \A v \in cast.client : way = "frame" => peer[v] = "joining"

\* Nothing is sent on a connection that is closed: the client is deleted from
\* the map first, and no Broadcast has it at hand.
ClosedUnused ==
    \A v \in Viewers : peer[v] \in {"closing", "closed"} => v \notin clients /\ ~Served(v)

\* The server is sound for its clients.
LocalSound == Numbered /\ Reassembled /\ OnlySwitchesLose /\ Unbroken /\ ClosedUnused
=============================================================================
