------------------------------ MODULE Playback ------------------------------
(***************************************************************************)
(* The queries of internal/service/recording_query.go on the completed     *)
(* segments of one camera: a set of records [id, start, end] whose times   *)
(* are counted in seconds.                                                 *)
(***************************************************************************)
EXTENDS Integers, FiniteSets

Tolerance == 2    \* seconds that playback passes over

Duration(s) == s.end - s.start

\* ORDER BY start_time, id: the first of a set, and the last.
Before(s, t) == s.start < t.start \/ (s.start = t.start /\ s.id < t.id)
FirstOf(S) == {s \in S : \A t \in S \ {s} : Before(s, t)}
LastOf(S)  == {s \in S : \A t \in S \ {s} : Before(t, s)}

\* ListTimeline: the segments that overlap the half-open range.
ListTimeline(S, from, to) == {s \in S : s.end > from /\ s.start < to}

ClampOffset(offset, duration) ==
    IF offset < 0 \/ duration <= 0 THEN 0
    ELSE IF offset >= duration THEN duration - 1 ELSE offset

\* Mutant of NextSegment: a segment that begins within the tolerance of the start.
NextByStart(S, s) ==
    {n \in FirstOf({t \in S : Duration(t) > 0 /\ t.start > s.start}) :
        n.start - s.start \in -Tolerance..Tolerance}

\* NextSegmentID: the segment that starts next, unless there is a gap.
NextSegment(S, s) ==
    {n \in FirstOf({t \in S : Duration(t) > 0 /\ t.start > s.start}) :
        n.start - s.end \in -Tolerance..Tolerance}

\* ResolvePlaybackPoint: the segment played at that time with its offset, if
\* the time is covered.
Resolve(S, at) ==
    {[segment |-> s, offset |-> ClampOffset(at - s.start, Duration(s)), next |-> NextSegment(S, s)] :
        s \in LastOf({t \in S : t.start <= at /\ t.end > at /\ Duration(t) > 0})}
=============================================================================
