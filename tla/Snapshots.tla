------------------------------ MODULE Snapshots ------------------------------
(***************************************************************************)
(* CaptureSnapshot of internal/service/gb28181.go: requests that each wait *)
(* five seconds for the JPEG of their own ImageCmd=Snap, and the SIP       *)
(* handlers that complete them.  A device may answer late, twice or not at *)
(* all, in a response with the request's Call-ID or in a MESSAGE of its    *)
(* own that only repeats the SN.  A request stands for its Call-ID and for *)
(* its SN, which are both new for every call.                              *)
(***************************************************************************)
EXTENDS Naturals, FiniteSets

CONSTANTS
    Requests,      \* calls of CaptureSnapshot
    Handlers,      \* goroutines of SIP datagrams
    Nobody         \* no request

ASSUME NobodyIsNoRequest == Nobody \notin Requests

VARIABLES
    stage,         \* progress of a request
    waiters,       \* snapshotWaiters, by Call-ID
    bySN,          \* snapshotBySN: the SNs with a Call-ID
    result,        \* the channel of one result: Nobody when empty, else the
                   \* request the JPEG in it was taken for
    returned,      \* what CaptureSnapshot returned, in the same terms
    target,        \* the request a handler has found and will send to
    carries        \* the request its JPEG was taken for

snapVars  == <<stage, waiters, bySN, result, returned, target, carries>>
tables   == <<waiters, bySN>>
handlers == <<target, carries>>

SnapTypeOK ==
    /\ stage \in [Requests -> {"new", "waiting", "leaving", "done"}]
    /\ waiters \subseteq Requests /\ bySN \subseteq Requests
    /\ result \in [Requests -> Requests \cup {Nobody}]
    /\ returned \in [Requests -> Requests \cup {Nobody}]
    /\ target \in [Handlers -> Requests \cup {Nobody}]
    /\ carries \in [Handlers -> Requests \cup {Nobody}]

SnapInit ==
    /\ stage = [r \in Requests |-> "new"]
    /\ waiters = {} /\ bySN = {}
    /\ result = [r \in Requests |-> Nobody] /\ returned = [r \in Requests |-> Nobody]
    /\ target = [h \in Handlers |-> Nobody] /\ carries = [h \in Handlers |-> Nobody]

-----------------------------------------------------------------------------
\* The device is registered with version 2022 and reachable: both tables are
\* filled under snapshotMu, and then the request is sent.
Capture(r) ==
    /\ stage[r] = "new"
    /\ waiters' = waiters \cup {r} /\ bySN' = bySN \cup {r}
    /\ stage' = [stage EXCEPT ![r] = "waiting"]
    /\ UNCHANGED <<result, returned, handlers>>

\* No camera, no session, another version or no connection: an error, and
\* nothing is registered.
CaptureRefused(r) ==
    /\ stage[r] = "new"
    /\ stage' = [stage EXCEPT ![r] = "done"]
    /\ UNCHANGED <<tables, result, returned, handlers>>

Receives(r) ==
    /\ stage[r] = "waiting" /\ result[r] # Nobody
    /\ returned' = [returned EXCEPT ![r] = result[r]]
    /\ result' = [result EXCEPT ![r] = Nobody]
    /\ stage' = [stage EXCEPT ![r] = "leaving"]
    /\ UNCHANGED <<tables, handlers>>

\* Five seconds, or the HTTP client has gone.
TimesOut(r) ==
    /\ stage[r] = "waiting"
    /\ stage' = [stage EXCEPT ![r] = "leaving"]
    /\ UNCHANGED <<tables, result, returned, handlers>>

\* The deferred removeSnapshotWaiter, under snapshotMu.
Leaves(r) ==
    /\ stage[r] = "leaving"
    /\ waiters' = waiters \ {r} /\ bySN' = bySN \ {r}
    /\ stage' = [stage EXCEPT ![r] = "done"]
    /\ UNCHANGED <<result, returned, handlers>>

\* The waiter of an answer taken for r: by its Call-ID, and otherwise by its
\* SN, as far as the Call-ID found there still waits.
Matches(r, withCallID) == IF withCallID THEN {r} \cap waiters ELSE {r} \cap bySN \cap waiters

\* Mutant of CompleteSnapshot: the waiter stays in the tables.
CompleteAgain(h, r) ==
    /\ target[h] = Nobody /\ stage[r] # "new"
    /\ \E withCallID \in BOOLEAN : \E w \in Matches(r, withCallID) :
        /\ target' = [target EXCEPT ![h] = w]
        /\ carries' = [carries EXCEPT ![h] = r]
    /\ UNCHANGED <<stage, tables, result, returned>>

\* An answer arrives: the first that finds the waiter takes it out of both
\* tables, all under snapshotMu; the others are dropped.
CompleteSnapshot(h, r) ==
    /\ target[h] = Nobody /\ stage[r] # "new"
    /\ \E withCallID \in BOOLEAN : \E w \in Matches(r, withCallID) :
        /\ waiters' = waiters \ {w} /\ bySN' = bySN \ {w}
        /\ target' = [target EXCEPT ![h] = w]
        /\ carries' = [carries EXCEPT ![h] = r]
    /\ UNCHANGED <<stage, result, returned>>

\* The result is sent after the unlock.
Send(h) ==
    /\ target[h] # Nobody /\ result[target[h]] = Nobody
    /\ result' = [result EXCEPT ![target[h]] = carries[h]]
    /\ target' = [target EXCEPT ![h] = Nobody] /\ carries' = [carries EXCEPT ![h] = Nobody]
    /\ UNCHANGED <<stage, tables, returned>>

SnapNext ==
    \/ \E r \in Requests :
        \/ Capture(r) \/ CaptureRefused(r) \/ Receives(r) \/ TimesOut(r) \/ Leaves(r)
        \/ \E h \in Handlers : CompleteSnapshot(h, r)
    \/ \E h \in Handlers : Send(h)

SnapSpec == SnapInit /\ [][SnapNext]_snapVars

-----------------------------------------------------------------------------
(* Properties                                                              *)

\* Bound(h, r): handler h will send its JPEG to request r.
Bound(h, r) == target[h] = r

\* The handler of a datagram never waits on a result channel: at most one of
\* them ever sends to a request, also when the device answers twice and when
\* the request has timed out and nobody will receive.
HandlersNeverBlock ==
    \A h \in Handlers : target[h] # Nobody =>
        /\ result[target[h]] = Nobody
        /\ \A g \in Handlers \ {h} : ~Bound(g, target[h])

\* Whatever is late or repeated, a request returns the image that was taken
\* for it, and not the one another request asked for.
AnswerMatches == \A r \in Requests : returned[r] \in {r, Nobody}

\* A request that is over is in neither table: they do not grow.
WaitersRemoved == \A r \in Requests : stage[r] = "done" => r \notin waiters \cup bySN

\* The answers of the device and the end of the requests do not get into each
\* other's way.
SnapshotsSound == HandlersNeverBlock /\ AnswerMatches /\ WaitersRemoved
=============================================================================
