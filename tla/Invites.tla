------------------------------- MODULE Invites -------------------------------
(***************************************************************************)
(* The RTP ports of GB28181 streams: InviteStream, startRTPReceiver and    *)
(* Stop of internal/service/gb28181.go.  INVITEs of several cameras run at *)
(* the same time; what they do to the streams themselves is in module      *)
(* Stream.  No receiver is closed before Stop.                             *)
(***************************************************************************)
EXTENDS Naturals

CONSTANTS
    Calls,             \* goroutines of InviteStream
    PortMin, PortMax   \* the configured range of RTP ports

ASSUME PortRange == PortMin \in Nat /\ PortMax \in Nat /\ PortMin <= PortMax

VARIABLES
    leg,             \* progress of a call
    port,              \* the port it has taken
    rtpPorts,          \* the counter
    listening,         \* for every open port, the call that opened it
    rtpRecvs,          \* the ports Stop will close
    sent,              \* calls that have sent their INVITE, with their port in it
    stopped

rtpVars == <<leg, port, rtpPorts, listening, rtpRecvs, sent, stopped>>
receivers == <<listening, rtpRecvs>>

OpenPorts == DOMAIN listening

RtpTypeOK ==
    /\ leg \in [Calls -> {"new", "wrap", "listen", "track", "send", "over"}]
    /\ port \in [Calls -> Nat] /\ rtpPorts \in Nat
    /\ OpenPorts \subseteq Nat /\ listening \in [OpenPorts -> Calls]
    /\ rtpRecvs \subseteq Nat /\ sent \subseteq Calls /\ stopped \in BOOLEAN

RtpInit ==
    /\ leg = [i \in Calls |-> "new"] /\ port = [i \in Calls |-> 0]
    /\ rtpPorts = PortMin
    /\ listening = [p \in {} |-> CHOOSE i \in Calls : TRUE] /\ rtpRecvs = {}
    /\ sent = {} /\ stopped = FALSE

-----------------------------------------------------------------------------
\* The channel has no camera or its device no session.
InviteRefused(i) ==
    /\ leg[i] = "new"
    /\ leg' = [leg EXCEPT ![i] = "over"]
    /\ UNCHANGED <<port, rtpPorts, receivers, sent, stopped>>

\* rtpPorts.Add(1) returns the new value, so that the first port is PortMin + 1.
TakePort(i) ==
    /\ leg[i] = "new"
    /\ rtpPorts' = rtpPorts + 1
    /\ port' = [port EXCEPT ![i] = rtpPorts + 1]
    /\ leg' = [leg EXCEPT ![i] = IF rtpPorts + 1 > PortMax THEN "wrap" ELSE "listen"]
    /\ UNCHANGED <<receivers, sent, stopped>>

\* Past the range the counter is stored back, and others may have added to it
\* meanwhile: then several calls take the smallest port.
WrapPort(i) ==
    /\ leg[i] = "wrap"
    /\ rtpPorts' = PortMin
    /\ port' = [port EXCEPT ![i] = PortMin]
    /\ leg' = [leg EXCEPT ![i] = "listen"]
    /\ UNCHANGED <<receivers, sent, stopped>>

\* Mutant of Listen: the error of a port in use is not returned.
ListenAnyway(i) ==
    /\ leg[i] = "listen"
    /\ leg' = [leg EXCEPT ![i] = "track"]
    /\ listening' = [p \in OpenPorts \cup {port[i]} |-> IF p \in OpenPorts THEN listening[p] ELSE i]
    /\ UNCHANGED <<port, rtpPorts, rtpRecvs, sent, stopped>>

\* RTPReceiver.Start; a port in use ends the call with an error.
Listen(i) ==
    /\ leg[i] = "listen"
    /\ IF port[i] \in OpenPorts
       THEN /\ leg' = [leg EXCEPT ![i] = "over"]
            /\ UNCHANGED listening
       ELSE /\ leg' = [leg EXCEPT ![i] = "track"]
            /\ listening' = [p \in OpenPorts \cup {port[i]} |-> IF p \in OpenPorts THEN listening[p] ELSE i]
    /\ UNCHANGED <<port, rtpPorts, rtpRecvs, sent, stopped>>

\* rtpRecvs[port] = recv, under mu.
Track(i) ==
    /\ leg[i] = "track"
    /\ rtpRecvs' = rtpRecvs \cup {port[i]}
    /\ leg' = [leg EXCEPT ![i] = "send"]
    /\ UNCHANGED <<port, rtpPorts, listening, sent, stopped>>

\* The INVITE with the port in its SDP is sent.
SendInvite(i) ==
    /\ leg[i] = "send"
    /\ sent' = sent \cup {i}
    /\ leg' = [leg EXCEPT ![i] = "over"]
    /\ UNCHANGED <<port, rtpPorts, receivers, stopped>>

\* Stop closes the receivers in the map, under mu.
Stop ==
    /\ ~stopped /\ stopped' = TRUE
    /\ listening' = [p \in OpenPorts \ rtpRecvs |-> listening[p]]
    /\ rtpRecvs' = {}
    /\ UNCHANGED <<leg, port, rtpPorts, sent>>

RtpNext ==
    \/ \E i \in Calls :
        \/ InviteRefused(i) \/ TakePort(i) \/ WrapPort(i) \/ Listen(i) \/ Track(i) \/ SendInvite(i)
    \/ Stop

RtpSpec == RtpInit /\ [][RtpNext]_rtpVars

-----------------------------------------------------------------------------
(* Properties                                                              *)

\* Every receiver listens inside the configured range, although the counter
\* is incremented and wrapped in two steps.
PortsInRange == OpenPorts \subseteq PortMin..PortMax

\* No receiver is forgotten: each open one is in rtpRecvs, where Stop looks, or
\* is entered next by the call that opened it.
ReceiversTracked ==
    \A p \in OpenPorts : p \in rtpRecvs \/ (leg[listening[p]] = "track" /\ port[listening[p]] = p)

\* The media of a stream is its own: the port in an INVITE that was sent is
\* the one its receiver listens on, and no other call's, until Stop.
MediaToOwnReceiver ==
    ~stopped => \A i \in sent : port[i] \in OpenPorts /\ listening[port[i]] = i

\* However many INVITEs run at the same time, their receivers are inside the
\* range, are shared by no two streams, and are in rtpRecvs or about to be
\* entered.  (One that is entered after Stop has gone through rtpRecvs stays
\* open until the process ends.)
ReceiversSound == PortsInRange /\ ReceiversTracked /\ MediaToOwnReceiver
=============================================================================
