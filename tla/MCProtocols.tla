---------------------------- MODULE MCProtocols ----------------------------
(***************************************************************************)
(* Small instances of the components that handle a protocol: the status of *)
(* a GB28181 camera (Signalling), its snapshots (Snapshots), the ports of  *)
(* its streams (Invites), the bytes of its media (Demux) and of FFmpeg     *)
(* (AnnexB), and the RTSP server of a local camera (LocalRtsp).  They      *)
(* share no variable, so that one behaviour shows a single one of them,    *)
(* the one Init chooses, while the others rest.                            *)
(***************************************************************************)
EXTENDS Signalling, Snapshots, Invites, Demux, AnnexB, LocalRtsp, TLC

CONSTANT Parts       \* the components of this instance

VARIABLE part        \* the component of this behaviour

resting == <<sigVars, snapVars, rtpVars, psVars, annVars, rtspVars>>
allVars == <<part, resting>>

Init ==
    /\ part \in Parts
    /\ SnapInit /\ RtpInit /\ RtspInit
    /\ IF part = "signalling" THEN SigInit ELSE SigInit /\ sync = Never
    /\ IF part = "demux" THEN PsInit
       ELSE units = <<>> /\ fed = 0 /\ buffer = <<>> /\ idle = TRUE /\ out = <<>>
    /\ IF part = "annexb" THEN AnnInit
       ELSE /\ output = CHOOSE o \in Outputs : TRUE
            /\ taken = 0 /\ pending = <<>> /\ phase = "read" /\ eof = FALSE /\ items = <<>>

RestOf(name) ==
    /\ part = name /\ UNCHANGED part
    /\ name # "signalling" => UNCHANGED sigVars
    /\ name # "snapshots" => UNCHANGED snapVars
    /\ name # "invites" => UNCHANGED rtpVars
    /\ name # "demux" => UNCHANGED psVars
    /\ name # "annexb" => UNCHANGED annVars
    /\ name # "localcam" => UNCHANGED rtspVars

Next ==
    \/ SigNext /\ RestOf("signalling")
    \/ SnapNext /\ RestOf("snapshots")
    \/ RtpNext /\ RestOf("invites")
    \/ PsNext /\ RestOf("demux")
    \/ AnnNext /\ RestOf("annexb")
    \/ RtspNext /\ RestOf("localcam")

\* The fairness of Signalling, for the behaviours that are about it.
Spec ==
    /\ Init /\ [][Next]_allVars
    /\ WF_allVars(RegisterWrites /\ RestOf("signalling"))
    /\ WF_allVars(KeepaliveWrites /\ RestOf("signalling"))
    /\ WF_allVars(CheckSessions /\ RestOf("signalling"))
    /\ WF_allVars(CheckRows /\ RestOf("signalling"))
    /\ WF_allVars(CheckMarks /\ RestOf("signalling"))
    /\ WF_allVars(MonitorLoads /\ RestOf("signalling"))
    /\ WF_allVars(MonitorProbes /\ RestOf("signalling"))
    /\ WF_allVars(Tick /\ RestOf("signalling"))

\* The type invariants of the components; the demuxer has a stream when the
\* behaviour is about it.
TypeOK ==
    /\ SigTypeOK /\ SnapTypeOK /\ RtpTypeOK /\ AnnTypeOK /\ RtspTypeOK
    /\ part = "demux" => PsTypeOK

\* The bytes of a medium, wherever packets and reads are cut: what is taken out of
\* a stream was put into it, and within the limits DemuxExact and ItemsIntact
\* state, all of it, in order.
MediaIntact == DemuxExact /\ ItemsIntact

-----------------------------------------------------------------------------
(* Values of the constants                                                 *)

MCUnits ==
    {[kind |-> "pack", rest |-> [i \in 1..9 |-> 4]],
     [kind |-> "other", code |-> 187, body |-> <<0, 0, 1>>], [kind |-> "other", code |-> 188, body |-> <<>>],
     [kind |-> "other", code |-> 190, body |-> <<128, 0, 0>>],
     [kind |-> "video", code |-> 224, opt |-> <<>>, lead |-> <<>>, nalus |-> <<<<103>>, <<101, 0>>>>],
     [kind |-> "video", code |-> 239, opt |-> <<0, 1>>, lead |-> <<2, 0>>, nalus |-> <<<<104, 0, 2>>, <<>>>>],
     [kind |-> "open", code |-> 224, opt |-> <<>>, load |-> <<0, 0, 1, 103, 1>>]}

MCForms ==
    [csrc : {0, 1}, ext : {0, 1}, pad : {0}] \cup {[csrc |-> 0, ext |-> 0, pad |-> 2]}

MCOutputs ==
    {[kind |-> "nalu", items |-> <<<<103>>, <<104, 0, 2>>, <<101, 0, 0, 3>>, <<65>>>>],
     [kind |-> "nalu", items |-> <<<<103>>, [i \in 1..15 |-> 101], <<65, 1>>, <<66>>>>],
     [kind |-> "jpeg", items |-> <<<<255, 216, 1, 255, 217>>, <<255, 216, 255, 0, 2, 255, 217>>,
                                   <<255, 216, 255, 217>>>>],
     [kind |-> "jpeg", items |-> <<<<255, 216, 3, 255, 217>>,
                                   <<255, 216>> \o [i \in 1..12 |-> 4] \o <<255, 217>>,
                                   <<255, 216, 5, 255, 217>>, <<255, 216, 6, 255, 217>>>>]}

MCChunks ==
    {<<0, 0, 0, 1, 103, 9, 8, 7, 6, 0, 0, 0, 1, 104, 9, 8, 7, 6>>,
     <<0, 0, 0, 1, 101, 1, 2, 3, 4, 0>>, <<7, 7, 0, 0, 1, 65, 3, 2, 0, 0, 0, 1>>}
=============================================================================
