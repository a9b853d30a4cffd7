--------------------------- MODULE RetentionProofs ---------------------------
(***************************************************************************)
(* For any number of sessions, files, deletions, restarts and mishaps:     *)
(* every file of an ended session has a row, the sums shown after startup  *)
(* fit the rows, and retention removes only files of ended sessions and    *)
(* leaves a newer one.  The queries of module Playback return what they    *)
(* promise on any segments.                                                *)
(***************************************************************************)
EXTENDS Retention, FiniteSetTheorems, WellFoundedInduction, TLAPS

-----------------------------------------------------------------------------
(* The least and the newest of a set of numbers *)

\* What is proved by induction elsewhere is proved here from a least
\* counterexample, or from the newest.
LEMMA NatMin ==
    ASSUME NEW S \in SUBSET Nat, S # {}
    PROVE  \E x \in S : \A y \in S : x <= y
<1> DEFINE R == OpToRel(<, Nat)
<1>1. IsWellFoundedOn(R, Nat)
  BY NatLessThanWellFounded
<1>2. \A x, y \in Nat : y < x => <<y, x>> \in R
  <2> SUFFICES ASSUME NEW x \in Nat, NEW y \in Nat, y < x PROVE <<y, x>> \in R
    OBVIOUS
  <2>1. <<y, x>> \in Nat \X Nat /\ <<y, x>>[1] < <<y, x>>[2]
    OBVIOUS
  <2> QED
    BY <2>1 DEF OpToRel
<1> HIDE DEF R
<1>3. PICK x \in S : \A y \in S : ~(<<y, x>> \in R)
  BY <1>1, WFMin
<1>4. \A y \in S : ~(y < x)
  BY <1>2, <1>3
<1> QED
  BY <1>4

LEMMA LeastIn ==
    ASSUME NEW S \in SUBSET Nat, S # {}
    PROVE  Least(S) \in S
BY NatMin DEF Least

LEMMA NewestIs ==
    ASSUME NEW S \in SUBSET Nat, NEW n \in Nat, \A f \in S : f <= n, S # {}
    PROVE  \E x \in S : \A y \in S : y <= x
<1> DEFINE T == {k \in Nat : n - k \in S}
<1>1. T # {}
  <2>1. PICK f \in S : TRUE
    OBVIOUS
  <2>2. n - f \in Nat /\ n - (n - f) = f
    BY <2>1
  <2> QED
    BY <2>1, <2>2
<1>2. PICK x \in T : \A y \in T : x <= y
  <2>1. T \in SUBSET Nat
    OBVIOUS
  <2> HIDE DEF T
  <2> QED
    BY <1>1, <2>1, NatMin
<1>3. \A g \in S : g <= n - x
  <2> SUFFICES ASSUME NEW g \in S PROVE g <= n - x
    OBVIOUS
  <2>1. n - g \in Nat /\ n - (n - g) = g
    OBVIOUS
  <2>2. n - g \in T
    BY <2>1
  <2>3. x <= n - g /\ x \in Nat
    BY <1>2, <2>2
  <2> QED
    BY <2>3
<1>4. n - x \in S
  BY <1>2
<1> QED
  BY <1>3, <1>4

LEMMA NewestIn ==
    ASSUME NEW S \in SUBSET Nat, NEW n \in Nat, \A f \in S : f <= n, S # {}
    PROVE  Newest(S) \in S
BY NewestIs DEF Newest


-----------------------------------------------------------------------------
(* Segments in the order of their times *)

\* Segments have some length, times that are numbers, and ids of their own;
\* they start at n at the latest.
Timed(S, n) ==
    /\ \A s \in S : /\ s.start \in 0..n /\ s.id \in 0..n
                    /\ s.end \in Nat /\ s.start < s.end
    /\ \A s, t \in S : s.id = t.id => s = t

LEMMA FirstIs ==
    ASSUME NEW S, NEW n \in Nat, Timed(S, n), S # {}
    PROVE  \E f \in S : FirstOf(S) = {f} /\ \A t \in S : f.start <= t.start
<1> DEFINE Starts == {s.start : s \in S}
<1>1. PICK m \in Starts : \A k \in Starts : m <= k
  <2>1. Starts \in SUBSET Nat /\ Starts # {}
    BY DEF Timed
  <2> HIDE DEF Starts
  <2> QED
    BY <2>1, NatMin
<1>2. \A t \in S : m <= t.start
  BY <1>1
<1> DEFINE Ids == {s.id : s \in {t \in S : t.start = m}}
<1>3. PICK i \in Ids : \A k \in Ids : i <= k
  <2>1. Ids \in SUBSET Nat /\ Ids # {}
    BY <1>1 DEF Timed
  <2> HIDE DEF Ids
  <2> QED
    BY <2>1, NatMin
<1>4. PICK f \in S : f.start = m /\ f.id = i
  BY <1>3
<1>5. \A t \in S : t.start = m => i <= t.id
  BY <1>3
<1> HIDE DEF Starts, Ids
<1>6. \A t \in S \ {f} : Before(f, t) /\ ~Before(t, f)
  BY <1>2, <1>4, <1>5 DEF Before, Timed
<1>7. FirstOf(S) = {f}
  BY <1>4, <1>6 DEF FirstOf
<1> QED
  BY <1>2, <1>4, <1>7

LEMMA LastIs ==
    ASSUME NEW S, NEW n \in Nat, Timed(S, n), S # {}
    PROVE  \E f \in S : LastOf(S) = {f} /\ \A t \in S : t.start <= f.start
<1> DEFINE Starts == {s.start : s \in S}
<1>1. PICK m \in Starts : \A k \in Starts : k <= m
  <2>1. Starts \in SUBSET Nat /\ Starts # {} /\ \A k \in Starts : k <= n
    BY DEF Timed
  <2> HIDE DEF Starts
  <2> QED
    BY <2>1, NewestIs
<1>2. \A t \in S : t.start <= m
  BY <1>1
<1> DEFINE Ids == {s.id : s \in {t \in S : t.start = m}}
<1>3. PICK i \in Ids : \A k \in Ids : k <= i
  <2>1. Ids \in SUBSET Nat /\ Ids # {} /\ \A k \in Ids : k <= n
    BY <1>1 DEF Timed
  <2> HIDE DEF Ids
  <2> QED
    BY <2>1, NewestIs
<1>4. PICK f \in S : f.start = m /\ f.id = i
  BY <1>3
<1>5. \A t \in S : t.start = m => t.id <= i
  BY <1>3
<1> HIDE DEF Starts, Ids
<1>6. \A t \in S \ {f} : Before(t, f) /\ ~Before(f, t)
  BY <1>2, <1>4, <1>5 DEF Before, Timed
<1>7. LastOf(S) = {f}
  BY <1>4, <1>6 DEF LastOf
<1> QED
  BY <1>2, <1>4, <1>7

LEMMA TimedPart ==
    ASSUME NEW S, NEW n \in Nat, Timed(S, n), NEW T \in SUBSET S
    PROVE  Timed(T, n)
BY DEF Timed

\* ResolvePlaybackPoint finds a segment exactly at the times covered, and the
\* offset into it is that of the time.
LEMMA ResolvesCovered ==
    ASSUME NEW S, NEW n \in Nat, Timed(S, n), NEW at \in Int
    PROVE  /\ Covered(S, at) <=> Resolve(S, at) # {}
           /\ \A p \in Resolve(S, at) :
                 /\ p.segment \in S /\ p.segment.start <= at /\ at < p.segment.end
                 /\ p.segment.start + p.offset = at
<1> DEFINE T == {t \in S : t.start <= at /\ t.end > at /\ Duration(t) > 0}
<1>1. T \in SUBSET S /\ Timed(T, n) /\ (Covered(S, at) <=> T # {})
  <2>1. \A t \in S : Duration(t) > 0
    BY DEF Timed, Duration
  <2>2. \A t \in S : t.end > at <=> at < t.end
    BY DEF Timed
  <2>3. T \in SUBSET S
    OBVIOUS
  <2>4. Covered(S, at) <=> T # {}
    BY <2>1, <2>2 DEF Covered
  <2> QED
    BY <2>3, <2>4, TimedPart
<1>2. \A t \in T : t \in S /\ t.start <= at /\ at < t.end
  BY DEF Timed
<1>3. LastOf(T) \subseteq T
  BY DEF LastOf
<1>4. Resolve(S, at) = {[segment |-> s, offset |-> ClampOffset(at - s.start, Duration(s)),
                         next |-> NextSegment(S, s)] : s \in LastOf(T)}
  BY DEF Resolve
<1>5. T # {} => LastOf(T) # {}
  <2> HIDE DEF T
  <2> QED
    BY <1>1, LastIs
<1>6. \A s \in T : s.start + ClampOffset(at - s.start, Duration(s)) = at
  <2> SUFFICES ASSUME NEW s \in T PROVE s.start + ClampOffset(at - s.start, Duration(s)) = at
    OBVIOUS
  <2>1. s.start \in Int /\ s.end \in Int /\ s.start <= at /\ at < s.end
    BY <1>2 DEF Timed
  <2>2. ClampOffset(at - s.start, Duration(s)) = at - s.start
    BY <2>1 DEF ClampOffset, Duration
  <2> QED
    BY <2>1, <2>2
<1> HIDE DEF T
<1>7. Resolve(S, at) # {} <=> LastOf(T) # {}
  BY <1>4
<1> QED
  BY <1>1, <1>2, <1>3, <1>4, <1>5, <1>6, <1>7
-----------------------------------------------------------------------------
(* What is played on *)

\* Between two segments no gap is left that playback stops at.
Linked(S, s, t) ==
    /\ s.start < t.start
    /\ \A u \in S : s.start <= u.start /\ u.start < t.start => NextSegment(S, u) # {}

OnFrom(S) == [s \in S |-> {t \in S : t = s \/ Linked(S, s, t)}]

\* The next segment is the first of those that start later.
LEMMA NextIs ==
    ASSUME NEW S, NEW n \in Nat, Timed(S, n), Apart(S), NEW s \in S
    PROVE  /\ NextSegment(S, s) \subseteq S
           /\ \A x, y \in NextSegment(S, s) : x = y
           /\ \A x \in NextSegment(S, s) : s.start < x.start /\ \A t \in S : s.start < t.start => x.start <= t.start
           /\ \A t \in S : s.start < t.start =>
                 \E x \in S : /\ s.end <= x.start /\ s.start < x.start
                              /\ \A u \in S : s.start < u.start => x.start <= u.start
                              /\ NextSegment(S, s) # {} <=> x.start <= s.end + Tolerance
<1> DEFINE T == {t \in S : Duration(t) > 0 /\ t.start > s.start}
<1>1. /\ T \in SUBSET S /\ Timed(T, n) /\ \A t \in T : s.start < t.start
      /\ \A t \in S : s.start < t.start => t \in T
  <2>1. \A t \in S : Duration(t) > 0 /\ (t.start > s.start <=> s.start < t.start)
    BY DEF Timed, Duration
  <2>2. T \in SUBSET S
    OBVIOUS
  <2> QED
    BY <2>1, <2>2, TimedPart
<1>2. NextSegment(S, s) = {x \in FirstOf(T) : x.start - s.end \in -Tolerance..Tolerance}
  BY DEF NextSegment
<1>3. CASE T = {}
  BY <1>1, <1>2, <1>3 DEF FirstOf
<1>4. CASE T # {}
  <2> HIDE DEF T
  <2>1. PICK f \in T : FirstOf(T) = {f} /\ \A t \in T : f.start <= t.start
    BY <1>1, <1>4, FirstIs
  <2>2. f \in S /\ s.start < f.start /\ s # f
    BY <1>1 DEF Timed
  <2>3. s.end <= f.start
    <3>1. s.end <= f.start \/ f.end <= s.start
      BY <2>2 DEF Apart
    <3>2. f.start < f.end /\ f.start \in Nat /\ f.end \in Nat /\ s.start \in Nat
      BY <2>2 DEF Timed
    <3> QED
      BY <2>2, <3>1, <3>2
  <2>4. f.start - s.end \in -Tolerance..Tolerance <=> f.start <= s.end + Tolerance
    <3>1. f.start \in Nat /\ s.end \in Nat
      BY <2>2 DEF Timed
    <3> QED
      BY <2>3, <3>1 DEF Tolerance
  <2>5. NextSegment(S, s) = IF f.start <= s.end + Tolerance THEN {f} ELSE {}
    BY <1>2, <2>1, <2>4
  <2>6. \A u \in S : s.start < u.start => f.start <= u.start
    BY <1>1, <2>1
  <2> QED
    BY <2>2, <2>3, <2>5, <2>6
<1> QED
  BY <1>3, <1>4

\* Playing on from a segment is playing it and going on from the next.
LEMMA OnFromNext ==
    ASSUME NEW S, NEW n \in Nat, Timed(S, n), Apart(S), NEW s \in S
    PROVE  OnFrom(S)[s] = {s} \cup UNION {OnFrom(S)[x] : x \in NextSegment(S, s)}
<1>1. \A u \in S : u.start \in Nat
  BY DEF Timed
<1>2. \A u, v \in S : u.start = v.start => u = v
  <2> SUFFICES ASSUME NEW u \in S, NEW v \in S, u.start = v.start, u # v PROVE FALSE
    OBVIOUS
  <2>1. u.end <= v.start \/ v.end <= u.start
    BY DEF Apart
  <2>2. u.start < u.end /\ v.start < v.end /\ u.start \in Nat /\ v.start \in Nat /\ u.end \in Nat /\ v.end \in Nat
    BY DEF Timed
  <2> QED
    BY <2>1, <2>2
<1>3. CASE NextSegment(S, s) = {}
  <2>1. \A t \in S : ~Linked(S, s, t)
    BY <1>1, <1>3 DEF Linked
  <2> QED
    BY <1>3, <2>1 DEF OnFrom
<1>4. CASE NextSegment(S, s) # {}
  <2>1. PICK x \in S : /\ NextSegment(S, s) = {x} /\ s.start < x.start
                       /\ \A t \in S : s.start < t.start => x.start <= t.start
    BY <1>4, NextIs
  <2>2. ASSUME NEW t \in S
        PROVE  Linked(S, s, t) <=> t = x \/ Linked(S, x, t)
    <3>1. CASE t = x
      <4>1. \A u \in S : s.start <= u.start /\ u.start < x.start => u = s
        BY <1>1, <1>2, <2>1
      <4> QED
        BY <1>4, <2>1, <3>1, <4>1 DEF Linked
    <3>2. CASE t # x
      <4>1. s.start < t.start <=> x.start < t.start \/ (t.start = x.start)
        BY <1>1, <2>1
      <4>2. t.start # x.start
        BY <1>2, <3>2
      <4>3. \A u \in S : s.start <= u.start <=> u = s \/ x.start <= u.start
        BY <1>1, <1>2, <2>1
      <4> QED
        BY <1>4, <2>1, <3>2, <4>1, <4>2, <4>3 DEF Linked
    <3> QED
      BY <3>1, <3>2
  <2>3. OnFrom(S)[s] = {s} \cup OnFrom(S)[x]
    BY <2>2 DEF OnFrom
  <2> QED
    BY <2>1, <2>3
<1> QED
  BY <1>3, <1>4

\* Following the next segments yields what is linked: the equation of Played
\* has one solution, because a segment at which two would differ could not be
\* the newest one.
LEMMA PlayedIs ==
    ASSUME NEW S, NEW n \in Nat, Timed(S, n), Apart(S)
    PROVE  Played(S) = OnFrom(S)
<1> DEFINE Solves(f) == f = [s \in S |-> {s} \cup UNION {f[x] : x \in NextSegment(S, s)}]
<1>1. Solves(OnFrom(S))
  <2>1. \A s \in S : OnFrom(S)[s] = {s} \cup UNION {OnFrom(S)[x] : x \in NextSegment(S, s)}
    BY OnFromNext
  <2>2. OnFrom(S) = [s \in S |-> OnFrom(S)[s]]
    BY DEF OnFrom
  <2> QED
    BY <2>1, <2>2
<1>2. Played(S) = CHOOSE f : Solves(f)
  BY DEF Played
<1>3. Solves(Played(S))
  <2>1. \E f : Solves(f)
    BY <1>1
  <2> HIDE DEF Solves
  <2> QED
    BY <1>2, <2>1
<1>4. /\ \A s \in S : Played(S)[s] = {s} \cup UNION {Played(S)[x] : x \in NextSegment(S, s)}
      /\ Played(S) = [s \in S |-> Played(S)[s]]
  <2> DEFINE g == Played(S)
  <2>1. g = [s \in S |-> {s} \cup UNION {g[x] : x \in NextSegment(S, s)}]
    BY <1>3
  <2> HIDE DEF g
  <2>2. \A s \in S : g[s] = {s} \cup UNION {g[x] : x \in NextSegment(S, s)}
    BY <2>1
  <2>3. g = [s \in S |-> g[s]]
    BY <2>1
  <2> QED
    BY <2>2, <2>3 DEF g
<1>5. \A s \in S : Played(S)[s] = OnFrom(S)[s]
  <2> DEFINE Differ == {s \in S : Played(S)[s] # OnFrom(S)[s]}
             Starts == {s.start : s \in Differ}
  <2> SUFFICES ASSUME Differ # {} PROVE FALSE
    OBVIOUS
  <2>1. Starts \in SUBSET Nat /\ Starts # {} /\ \A k \in Starts : k <= n
    BY DEF Timed
  <2>2. PICK m \in Starts : \A k \in Starts : k <= m
    <3> HIDE DEF Starts
    <3> QED
      BY <2>1, NewestIs
  <2>3. PICK s \in Differ : s.start = m
    BY <2>2
  <2>4. \A x \in NextSegment(S, s) : x \in S /\ s.start < x.start
    BY NextIs
  <2>5. \A x \in NextSegment(S, s) : Played(S)[x] = OnFrom(S)[x]
    <3> SUFFICES ASSUME NEW x \in NextSegment(S, s), x \in Differ PROVE FALSE
      BY <2>4
    <3>1. x.start \in Starts /\ s.start < x.start /\ s \in S /\ x \in S
      BY <2>4
    <3>2. x.start <= m /\ s.start = m
      BY <2>2, <2>3, <3>1
    <3>3. x.start \in Nat /\ s.start \in Nat
      BY <3>1 DEF Timed
    <3> QED
      BY <3>1, <3>2, <3>3
  <2>6. {Played(S)[x] : x \in NextSegment(S, s)} = {OnFrom(S)[x] : x \in NextSegment(S, s)}
    BY <2>5
  <2>7. s \in S /\ Played(S)[s] # OnFrom(S)[s]
    OBVIOUS
  <2>8. Played(S)[s] = {s} \cup UNION {Played(S)[x] : x \in NextSegment(S, s)}
    BY <1>4, <2>7
  <2>9. OnFrom(S)[s] = {s} \cup UNION {OnFrom(S)[x] : x \in NextSegment(S, s)}
    BY <2>7, OnFromNext
  <2> QED
    BY <2>6, <2>7, <2>8, <2>9
<1>6. OnFrom(S) = [s \in S |-> OnFrom(S)[s]]
  BY DEF OnFrom
<1>7. [s \in S |-> Played(S)[s]] = [s \in S |-> OnFrom(S)[s]]
  BY <1>5
<1> QED
  BY <1>4, <1>6, <1>7

\* What is linked to the segment of a covered time is what is continuous from
\* that time on.
LEMMA LinkedContinuous ==
    ASSUME NEW S, NEW n \in Nat, Timed(S, n), Apart(S), NEW at \in Int,
           NEW s \in S, s.start <= at, at < s.end, NEW t \in S, at < t.start
    PROVE  Linked(S, s, t) <=> Continuous(S, at, t)
<1>1. \A u \in S : u.start \in Nat /\ u.end \in Nat /\ u.start < u.end
  BY DEF Timed
<1>2. \A u, v \in S : u.start < v.start => u.end <= v.start
  <2> SUFFICES ASSUME NEW u \in S, NEW v \in S, u.start < v.start PROVE u.end <= v.start
    OBVIOUS
  <2>1. u # v /\ u.start \in Nat /\ v.start \in Nat /\ u.end \in Nat /\ v.end \in Nat /\ v.start < v.end
    BY <1>1
  <2>2. u.end <= v.start \/ v.end <= u.start
    BY <2>1 DEF Apart
  <2> QED
    BY <2>1, <2>2
<1>3. ASSUME Linked(S, s, t) PROVE Continuous(S, at, t)
  <2> SUFFICES ASSUME NEW x \in at..(t.start - Tolerance - 1)
               PROVE  \E y \in x..(x + Tolerance) : Covered(S, y)
    BY DEF Continuous
  <2>1. x \in Int /\ at <= x /\ x < t.start /\ s.start <= x
    BY <1>1 DEF Tolerance
  <2> DEFINE Starts == {u.start : u \in {v \in S : v.start <= x}}
  <2>2. PICK m \in Starts : \A k \in Starts : k <= m
    <3>1. Starts \in SUBSET Nat /\ Starts # {} /\ \A k \in Starts : k <= n
      BY <2>1 DEF Timed
    <3> HIDE DEF Starts
    <3> QED
      BY <3>1, NewestIs
  <2>3. PICK u \in S : u.start = m /\ u.start <= x /\ \A v \in S : v.start <= x => v.start <= u.start
    BY <2>2
  <2> HIDE DEF Starts
  <2>4. s.start <= u.start /\ u.start < t.start
    BY <1>1, <2>1, <2>3
  <2>5. CASE x < u.end
    <3>1. Covered(S, x) /\ x \in x..(x + Tolerance)
      BY <2>1, <2>3, <2>5 DEF Covered, Tolerance
    <3> QED
      BY <3>1
  <2>6. CASE u.end <= x
    <3>1. NextSegment(S, u) # {}
      BY <1>3, <2>4 DEF Linked
    <3>2. PICK w \in S : u.start < w.start /\ w.start <= u.end + Tolerance
      BY <2>4, <3>1, NextIs
    <3>3. x < w.start
      BY <1>1, <2>1, <2>3, <3>2
    <3>4. w.start \in x..(x + Tolerance)
      BY <1>1, <2>1, <2>6, <3>2, <3>3 DEF Tolerance
    <3>5. Covered(S, w.start)
      BY <1>1 DEF Covered
    <3> QED
      BY <3>4, <3>5
  <2> QED
    BY <1>1, <2>1, <2>5, <2>6
<1>4. ASSUME Continuous(S, at, t) PROVE Linked(S, s, t)
  <2>1. s.start < t.start
    BY <1>1
  <2> SUFFICES ASSUME NEW u \in S, s.start <= u.start, u.start < t.start, NextSegment(S, u) = {}
               PROVE  FALSE
    BY <2>1 DEF Linked
  <2>2. PICK w \in S : /\ u.end <= w.start /\ \A v \in S : u.start < v.start => w.start <= v.start
                       /\ ~(w.start <= u.end + Tolerance)
    BY NextIs
  <2>3. at < u.end
    <3>1. CASE u.start = s.start
      <4>1. u = s
        <5>1. u.end <= s.start \/ s.end <= u.start \/ u = s
          BY DEF Apart
        <5> QED
          BY <1>1, <3>1, <5>1
      <4> QED
        BY <4>1
    <3>2. CASE s.start < u.start
      <4>1. s.end <= u.start /\ u.start < u.end
        BY <1>1, <1>2, <3>2
      <4> QED
        BY <1>1, <4>1
    <3> QED
      BY <1>1, <3>1, <3>2
  <2>4. u.end \in at..(t.start - Tolerance - 1)
    <3>1. w.start <= t.start
      BY <2>2
    <3>2. u.end \in Nat /\ w.start \in Nat /\ t.start \in Nat
      BY <1>1
    <3> QED
      BY <2>2, <2>3, <3>1, <3>2 DEF Tolerance
  <2>5. PICK y \in u.end..(u.end + Tolerance) : Covered(S, y)
    BY <1>4, <2>4 DEF Continuous
  <2>6. PICK v \in S : v.start <= y /\ y < v.end
    BY <2>5 DEF Covered
  <2>7. y \in Int /\ u.end <= y /\ y < w.start
    BY <1>1, <2>2 DEF Tolerance
  <2>8. ~(u.start < v.start)
    BY <1>1, <2>2, <2>6, <2>7
  <2>9. CASE v.start < u.start
    <3>1. v.end <= u.start
      BY <1>2, <2>9
    <3> QED
      BY <1>1, <2>6, <2>7, <3>1
  <2>10. CASE v.start = u.start
    <3>1. u = v
      <4>1. u.end <= v.start \/ v.end <= u.start \/ u = v
        BY DEF Apart
      <4> QED
        BY <1>1, <2>10, <4>1
    <3> QED
      BY <1>1, <2>6, <2>7, <3>1
  <2> QED
    BY <1>1, <2>8, <2>9, <2>10
<1> QED
  BY <1>3, <1>4

\* Playback at a time, on any segments.
LEMMA Follows ==
    ASSUME NEW S, NEW n \in Nat, Timed(S, n), NEW at \in Int
    PROVE  /\ Covered(S, at) <=> Resolve(S, at) # {}
           /\ \A p \in Resolve(S, at) :
                 /\ p.segment.start + p.offset = at
                 /\ ListTimeline(S, at, at + 1) \ {p.segment} # {} => ~Apart(S)
           /\ Apart(S) => \A p \in Resolve(S, at), t \in S :
                 t.start > at => (t \in Played(S)[p.segment] <=> Continuous(S, at, t))
<1>1. /\ Covered(S, at) <=> Resolve(S, at) # {}
      /\ \A p \in Resolve(S, at) :
            /\ p.segment \in S /\ p.segment.start <= at /\ at < p.segment.end
            /\ p.segment.start + p.offset = at
  BY ResolvesCovered
<1>2. \A u \in S : u.start \in Nat /\ u.end \in Nat
  BY DEF Timed
<1>3. ASSUME Apart(S), NEW p \in Resolve(S, at)
      PROVE  ListTimeline(S, at, at + 1) \ {p.segment} = {}
  <2> SUFFICES ASSUME NEW t \in S, t.end > at, t.start < at + 1, t # p.segment PROVE FALSE
    BY DEF ListTimeline
  <2>1. t.end <= p.segment.start \/ p.segment.end <= t.start
    BY <1>1, <1>3 DEF Apart
  <2>2. /\ p.segment.start \in Nat /\ p.segment.end \in Nat /\ t.start \in Nat /\ t.end \in Nat
        /\ p.segment.start <= at /\ at < p.segment.end
    BY <1>1, <1>2
  <2> QED
    BY <2>1, <2>2
<1>4. ASSUME Apart(S), NEW p \in Resolve(S, at), NEW t \in S, t.start > at
      PROVE  t \in Played(S)[p.segment] <=> Continuous(S, at, t)
  <2>1. at < t.start /\ t # p.segment
    BY <1>1, <1>2, <1>4
  <2>2. t \in OnFrom(S)[p.segment] <=> Linked(S, p.segment, t)
    BY <1>1, <2>1 DEF OnFrom
  <2>3. Linked(S, p.segment, t) <=> Continuous(S, at, t)
    BY <1>1, <1>4, <2>1, LinkedContinuous
  <2> QED
    BY <1>4, <2>2, <2>3, PlayedIs
<1> QED
  BY <1>1, <1>3, <1>4

-----------------------------------------------------------------------------
(***************************************************************************)
(* Types, by what they are about: the files, the rows, the sessions, and   *)
(* what a pass and a run remember.                                         *)
(***************************************************************************)
DiskTypes ==
    /\ owner \in Seq(Sessions) /\ Len(owner) <= MaxSegments
    /\ bad \subseteq file /\ file \subseteq Made /\ late \subseteq Made

RowTypes ==
    /\ row \in [Segments -> {"none", "completed", "failed"}]
    /\ place \in [Segments -> 0..MaxSegments]
    /\ \A f, g \in Rows : f # g /\ owner[f] = owner[g] => place[f] # place[g]
    /\ total \in [Sessions -> SUBSET Segments]
    /\ \A f \in Segments \ Made : row[f] = "none"

SessionTypes ==
    /\ status \in [Sessions -> {"none", "recording", "completed", "failed", "deleted"}]
    /\ task \in [Sessions -> {"none", "runs", "ended"}] /\ orphans \subseteq Sessions
    /\ expired \in 0..MaxSegments /\ del \in 0..MaxSessions

RecordTypes ==
    /\ recon \in [stage : {"idle", "sessions", "files", "store"}, sessions : SUBSET Sessions,
                  session : 0..MaxSessions, live : BOOLEAN,
                  listing : SUBSET Segments, known : SUBSET Segments,
                  used : SUBSET (0..MaxSegments), todo : SUBSET Segments,
                  found : {"completed", "failed"}]
    /\ ret \in [stage : {"idle", "select", "remove", "row", "stat"}, phase : {"age", "pressure"},
                keep : 0..MaxSegments, todo : SUBSET Segments, failed : SUBSET Segments]
    /\ boot \in {"reconcile", "retention", "up"}
    /\ recon.todo \subseteq recon.listing /\ ret.keep \notin ret.todo

Types == DiskTypes /\ RowTypes /\ SessionTypes /\ RecordTypes

(***************************************************************************)
(* A session with a task is recording; one that is being deleted has none. *)
(* Reconciliation, of sessions that have begun, and retention take turns.  *)
(***************************************************************************)
Turns ==
    /\ \A s \in Sessions : task[s] # "none" => status[s] = "recording"
    /\ del # 0 => task[del] = "none" /\ status[del] \in {"recording", "completed", "failed"}
    /\ recon.stage # "idle" => boot = "reconcile"
    /\ \A s \in recon.sessions : status[s] # "none"
    /\ ret.stage # "idle" => boot # "reconcile"

(***************************************************************************)
(* The session that a pass is at: only an FFmpeg that outlived its server  *)
(* gives it new files, which are late; the rows there were and the files   *)
(* done have one unless the file is gone, and every sequence number given  *)
(* out is known, with one left for the next file.                          *)
(***************************************************************************)
AtSession == recon.stage \in {"files", "store"}
Treated   == recon.known \cup (recon.listing \ recon.todo)

PassInv ==
    AtSession =>
       /\ recon.session \in Sessions /\ task[recon.session] = "none"
       /\ status[recon.session] \in IF recon.live THEN {"recording", "deleted"}
                                    ELSE {"completed", "failed", "deleted"}
       /\ recon.todo \subseteq recon.listing /\ (recon.stage = "store" => recon.todo # {})
       /\ \A f \in recon.listing \cup recon.known : f \in Made /\ owner[f] = recon.session
       /\ FilesOf(recon.session) \ late \subseteq recon.listing
       /\ RowsOf(recon.session) \subseteq Treated
       /\ \A f \in FilesOf(recon.session) \cap Treated : row[f] # "none"
       /\ \A f \in RowsOf(recon.session) : place[f] \in recon.used
       /\ Cardinality(recon.used) <= Cardinality(Treated)

(***************************************************************************)
(* What is settled: the sums of an ended session, and that a session is    *)
(* recording only while it has a task.  A restart unsettles everything, a  *)
(* pass settles one session after the other.                               *)
(***************************************************************************)
Settled(s) ==
    /\ status[s] \in {"completed", "failed"} => total[s] = GoodOf(s)
    /\ status[s] = "recording" => task[s] # "none"

SettledInv ==
    \A s \in Sessions :
       \/ Settled(s)
       \/ boot = "reconcile" /\ recon.stage = "idle"
       \/ recon.stage # "idle" /\ s \in recon.sessions
       \/ AtSession /\ s = recon.session

(***************************************************************************)
(* The lists of a run: segments of sessions that have ended, or whose rows *)
(* have gone with their session.  A file is removed before its row.        *)
(***************************************************************************)
RunInv ==
    /\ ret.stage # "idle" =>
          \A f \in ret.todo \cup ({ret.keep} \ {0}) :
             /\ f \in Made /\ status[owner[f]] \in {"completed", "deleted"}
             /\ row[f] # "none" => f \in Candidates
    /\ ret.stage = "row" => ret.todo # {} /\ Least(ret.todo) \notin file

Inv == Types /\ Turns /\ PassInv /\ SettledInv /\ AllIndexed /\ RunInv

-----------------------------------------------------------------------------
(* Operators: positions in a listing, and sequence numbers. *)

\* Files have sequence numbers of their own when they are listed together.
LEMMA Positions ==
    ASSUME NEW listing \in SUBSET Segments
    PROVE  /\ \A f \in listing : Position(listing, f) \in 1..MaxSegments
           /\ \A f, g \in listing : f # g => Position(listing, f) # Position(listing, g)
<1>1. IsFiniteSet(Segments) /\ Cardinality(Segments) = MaxSegments
  BY RetentionBounds, FS_Interval DEF Segments
<1>2. IsFiniteSet(listing)
  BY <1>1, FS_Subset
<1> DEFINE Upto(f) == {g \in listing : g <= f}
<1>3. \A f \in listing : IsFiniteSet(Upto(f)) /\ Cardinality(Upto(f)) \in Nat /\ Upto(f) \in SUBSET Segments
  BY <1>2, FS_Subset, FS_CardinalityType
<1>4. ASSUME NEW f \in listing
      PROVE  Position(listing, f) \in 1..MaxSegments
  <2>1. Cardinality(Upto(f)) <= MaxSegments
    <3>1. Upto(f) \in SUBSET Segments
      BY <1>3
    <3> HIDE DEF Upto
    <3> QED
      BY <1>1, <3>1, FS_Subset
  <2>2. f \in Upto(f)
    BY DEF Segments
  <2>3. Cardinality(Upto(f)) # 0
    <3>1. IsFiniteSet(Upto(f)) /\ Upto(f) # {}
      BY <1>3, <2>2
    <3> HIDE DEF Upto
    <3> QED
      BY <3>1, FS_EmptySet
  <2>4. Position(listing, f) = Cardinality(Upto(f)) /\ Cardinality(Upto(f)) \in Nat
    BY <1>3 DEF Position
  <2> HIDE DEF Upto
  <2> QED
    BY <2>1, <2>3, <2>4, RetentionBounds
<1>5. ASSUME NEW f \in listing, NEW g \in listing, f < g
      PROVE  Position(listing, f) # Position(listing, g)
  <2>1. Upto(f) \subseteq Upto(g) /\ g \in Upto(g) /\ g \notin Upto(f)
    <3>1. listing \subseteq Int
      BY RetentionBounds DEF Segments
    <3>2. f \in Int /\ g \in Int
      BY <3>1
    <3>3. ASSUME NEW x \in listing, x <= f
          PROVE  x <= g
      BY <1>5, <3>1, <3>2, <3>3
    <3>4. g <= g /\ ~(g <= f)
      BY <1>5, <3>2
    <3> QED
      BY <3>3, <3>4
  <2>2. Cardinality(Upto(f)) # Cardinality(Upto(g))
    <3>1. IsFiniteSet(Upto(g))
      BY <1>3
    <3> HIDE DEF Upto
    <3> QED
      BY <2>1, <3>1, FS_Subset
  <2> QED
    BY <2>2 DEF Position
<1>6. \A f, g \in listing : f # g => f < g \/ g < f
  BY DEF Segments
<1> QED
  BY <1>4, <1>5, <1>6

\* A sequence number that nobody has is left as long as a file has none.
LEMMA PlaceLeft ==
    ASSUME NEW used \in SUBSET (0..MaxSegments), NEW S \in SUBSET Segments, NEW f \in Segments \ S,
           Cardinality(used) <= Cardinality(S)
    PROVE  Least(Segments \ used) \in Segments \ used
<1>1. /\ IsFiniteSet(Segments) /\ Cardinality(Segments) = MaxSegments /\ MaxSegments \in Nat
      /\ IsFiniteSet(0..MaxSegments)
  BY RetentionBounds, FS_Interval DEF Segments
<1>2. IsFiniteSet(S) /\ IsFiniteSet(used) /\ Cardinality(S) \in Nat /\ Cardinality(used) \in Nat
  BY <1>1, FS_Subset, FS_CardinalityType
<1>3. Cardinality(S) < MaxSegments
  <2>1. S # Segments
    OBVIOUS
  <2>2. Cardinality(S) <= MaxSegments /\ Cardinality(S) # MaxSegments
    BY <1>1, <2>1, FS_Subset
  <2> QED
    BY <1>1, <1>2, <2>2
<1>4. ~(Segments \subseteq used)
  <2>1. SUFFICES ASSUME Segments \subseteq used PROVE FALSE
    OBVIOUS
  <2>2. MaxSegments <= Cardinality(used)
    BY <1>1, <1>2, <2>1, FS_Subset
  <2> QED
    BY <1>1, <1>2, <1>3, <2>2
<1>5. Segments \ used \in SUBSET Nat /\ Segments \ used # {}
  BY <1>4 DEF Segments
<1> QED
  BY <1>5, LeastIn

-----------------------------------------------------------------------------
(* What changes the files and the rows *)

\* Sequences of the library: a file that FFmpeg begins is the next one.
LEMMA NextFile ==
    ASSUME Types, NEW s \in Sessions,
           owner' = Append(owner, s), Len(owner) < MaxSegments, row' = row
    PROVE  /\ Len(owner) + 1 \in Segments \ Made
           /\ owner' \in Seq(Sessions) /\ Len(owner') = Len(owner) + 1
           /\ Made' = Made \cup {Len(owner) + 1} /\ Made \subseteq Segments
           /\ owner'[Len(owner) + 1] = s /\ \A f \in Made : owner'[f] = owner[f]
           /\ Rows' = Rows
<1>1. owner' = Append(owner, s) /\ Len(owner) < MaxSegments /\ row' = row
  OBVIOUS
<1>2. Len(owner) \in Nat /\ owner \in Seq(Sessions) /\ MaxSegments \in Nat
  BY RetentionBounds DEF Types, DiskTypes, RowTypes, SessionTypes
<1>3. /\ owner' \in Seq(Sessions) /\ Len(owner') = Len(owner) + 1
      /\ owner'[Len(owner) + 1] = s /\ \A f \in 1..Len(owner) : owner'[f] = owner[f]
  BY <1>1, <1>2
<1>4. Len(owner) + 1 \in Segments \ Made /\ Made' = Made \cup {Len(owner) + 1} /\ Made \subseteq Segments
  BY <1>1, <1>2, <1>3 DEF Made, Segments
<1>5. row[Len(owner) + 1] = "none"
  BY <1>4 DEF Types, DiskTypes, RowTypes, SessionTypes
<1> QED
  BY <1>1, <1>3, <1>4, <1>5 DEF Rows, Made

\* The sets of a session depend on these variables only.
LEMMA SameSets ==
    ASSUME NEW s, UNCHANGED <<owner, row>>
    PROVE  Made' = Made /\ Rows' = Rows /\ RowsOf(s)' = RowsOf(s) /\ GoodOf(s)' = GoodOf(s)
BY DEF Made, Rows, RowsOf, GoodOf

LEMMA MadeTypes ==
    ASSUME Types
    PROVE  /\ Made \subseteq Segments /\ Segments \subseteq Nat /\ Rows \subseteq Made
           /\ \A f \in Made : owner[f] \in Sessions
           /\ \A s : FilesOf(s) \subseteq Made /\ RowsOf(s) \subseteq Rows /\ GoodOf(s) \subseteq RowsOf(s)
<1>1. Len(owner) \in Nat /\ owner \in [1..Len(owner) -> Sessions] /\ Len(owner) <= MaxSegments /\ MaxSegments \in Nat
  BY RetentionBounds DEF Types, DiskTypes, RowTypes, SessionTypes
<1>2. Made \subseteq Segments /\ Segments \subseteq Nat
  BY <1>1 DEF Made, Segments
<1> QED
  BY <1>1, <1>2 DEF Made, Rows, FilesOf, RowsOf, GoodOf, Types, DiskTypes, RowTypes, SessionTypes

\* An FFmpeg without a server touches the files only, and the file that it
\* begins is late.
LEMMA OrphanEffect ==
    ASSUME Types, OrphanStep
    PROVE  /\ UNCHANGED <<row, place, total, status, task, expired, del, recon, ret, boot>>
           /\ orphans' \subseteq Sessions
           /\ DiskTypes'
           /\ Made \subseteq Made' /\ \A f \in Made : owner'[f] = owner[f]
           /\ file' \ late' \subseteq file \ late /\ file' \cap Made \subseteq file
           /\ \A s : FilesOf(s)' \cap Made \subseteq FilesOf(s) /\ FilesOf(s)' \ late' \subseteq FilesOf(s) \ late
           /\ Rows' = Rows /\ \A s : RowsOf(s)' = RowsOf(s) /\ GoodOf(s)' = GoodOf(s)
<1>1. PICK s \in Sessions : OrphanWrites(s) \/ OrphanEnds(s)
  BY DEF OrphanStep
<1>2. /\ UNCHANGED <<row, place, total, status, task, expired, del, recon, ret, boot>>
      /\ orphans' \subseteq orphans
  BY <1>1 DEF OrphanWrites, OrphanEnds, table, ffmpeg, passes
<1>3. /\ orphans \subseteq Sessions /\ DiskTypes
      /\ Rows \subseteq Made /\ Made \subseteq Segments
  BY MadeTypes DEF Types, SessionTypes
<1>4. CASE OrphanWrites(s)
  <2>1. PICK f : f = Len(owner) + 1
    OBVIOUS
  <2>2. /\ owner' = Append(owner, s) /\ Len(owner) < MaxSegments
        /\ file' = file \cup {f} /\ late' = late \cup {f} /\ bad' \subseteq bad \cup {f}
    BY <1>4, <2>1 DEF OrphanWrites
  <2>3. /\ f \in Segments \ Made /\ owner' \in Seq(Sessions) /\ Len(owner') = Len(owner) + 1
        /\ Made' = Made \cup {f} /\ owner'[f] = s /\ \A g \in Made : owner'[g] = owner[g]
        /\ Rows' = Rows
    BY <1>2, <2>1, <2>2, NextFile
  <2>4. Len(owner') <= MaxSegments
    BY <2>2, <2>3, RetentionBounds DEF Types, DiskTypes
  <2>5. DiskTypes'
    BY <1>3, <2>2, <2>3, <2>4 DEF DiskTypes
  <2>0. file' \ late' \subseteq file \ late /\ file' \cap Made \subseteq file
    BY <1>3, <2>2, <2>3 DEF DiskTypes
  <2>6. \A r : FilesOf(r)' \cap Made \subseteq FilesOf(r) /\ FilesOf(r)' \ late' \subseteq FilesOf(r) \ late
    BY <1>3, <2>2, <2>3 DEF FilesOf, DiskTypes
  <2>7. \A r : RowsOf(r)' = RowsOf(r) /\ GoodOf(r)' = GoodOf(r)
    BY <1>2, <1>3, <2>3 DEF RowsOf, GoodOf
  <2> QED
    BY <1>2, <1>3, <2>0, <2>2, <2>3, <2>5, <2>6, <2>7
<1>5. CASE OrphanEnds(s)
  <2>1. UNCHANGED <<owner, file, late>> /\ bad' \subseteq bad \cup file
    BY <1>5 DEF OrphanEnds, Open
  <2>2. Made' = Made /\ Rows' = Rows /\ \A r : FilesOf(r)' = FilesOf(r) /\ RowsOf(r)' = RowsOf(r)
    BY <1>2, <2>1 DEF Made, Rows, FilesOf, RowsOf
  <2>3. DiskTypes' /\ \A r : GoodOf(r)' = GoodOf(r)
    BY <1>2, <1>3, <2>1, <2>2 DEF DiskTypes, GoodOf, RowsOf
  <2> QED
    BY <1>2, <1>3, <2>1, <2>2, <2>3
<1> QED
  BY <1>1, <1>4, <1>5

\* A scan gives the new files of a session rows with sequence numbers of
\* their own, and brings its sums up to date.
LEMMA IndexesRows ==
    ASSUME Types, NEW s \in Sessions, NEW listing \in SUBSET FilesOf(s),
           Indexes(listing, s), owner' = owner
    PROVE  /\ RowTypes'
           /\ Rows' = Rows \cup listing
           /\ \A f \in Segments : row'[f] = row[f] \/ (row[f] = "none" /\ f \in listing)
           /\ \A f \in Segments \ listing : place'[f] = place[f]
           /\ total'[s] = GoodOf(s)'
           /\ \A t \in Sessions \ {s} : total'[t] = total[t] /\ GoodOf(t)' = GoodOf(t)
<1> DEFINE new == listing \ RowsOf(s)
<1>1. /\ \A f \in new, g \in RowsOf(s) : place[g] # Position(listing, f)
      /\ row' = [f \in Segments |-> IF f \in new THEN RowFor(f) ELSE row[f]]
      /\ place' = [f \in Segments |-> IF f \in new THEN Position(listing, f) ELSE place[f]]
      /\ total' = [total EXCEPT ![s] = GoodOf(s) \cup (new \ bad)]
  BY DEF Indexes
<1>2. listing \subseteq Made /\ listing \subseteq Segments /\ Made' = Made
  BY MadeTypes DEF Made
<1>3. \A f \in new : row[f] = "none" /\ owner[f] = s
  BY <1>2 DEF RowsOf, Rows, FilesOf
<1>4. \A f \in Segments : RowFor(f) \in {"completed", "failed"} /\ (RowFor(f) = "completed" <=> f \notin bad)
  BY DEF RowFor
<1>5. row' \in [Segments -> {"none", "completed", "failed"}]
  BY <1>1, <1>4 DEF Types, DiskTypes, RowTypes, SessionTypes
<1>6. Rows' = Rows \cup listing
  <2>1. \A f \in Made : row'[f] # "none" <=> row[f] # "none" \/ f \in new
    BY <1>1, <1>2, <1>3, <1>4, MadeTypes
  <2>2. listing \subseteq Rows \cup new
    BY MadeTypes
  <2> QED
    BY <1>2, <2>1, <2>2 DEF Rows
<1>7. \A f, g \in Rows' : f # g /\ owner'[f] = owner'[g] => place'[f] # place'[g]
  <2>1. SUFFICES ASSUME NEW f \in Rows', NEW g \in Rows', f # g, owner[f] = owner[g]
                 PROVE  place'[f] # place'[g]
    OBVIOUS
  <2>2. f \in Segments /\ g \in Segments /\ f \in Rows \cup new /\ g \in Rows \cup new
    BY <1>2, <1>6, MadeTypes
  <2>3. CASE f \in new /\ g \in new
    BY <1>1, <1>2, <2>1, <2>2, <2>3, Positions
  <2>4. CASE f \notin new /\ g \notin new
    BY <1>1, <2>1, <2>2, <2>4 DEF Types, DiskTypes, RowTypes, SessionTypes
  <2>5. CASE f \in new /\ g \notin new
    <3>1. g \in RowsOf(s)
      BY <1>3, <2>1, <2>2, <2>5 DEF RowsOf
    <3> QED
      BY <1>1, <2>2, <2>5, <3>1
  <2>6. CASE f \notin new /\ g \in new
    <3>1. f \in RowsOf(s)
      BY <1>3, <2>1, <2>2, <2>6 DEF RowsOf
    <3> QED
      BY <1>1, <2>2, <2>6, <3>1
  <2> QED
    BY <2>3, <2>4, <2>5, <2>6
<1>8. place' \in [Segments -> 0..MaxSegments]
  <2>1. \A f \in listing : Position(listing, f) \in 0..MaxSegments
    BY <1>2, Positions, RetentionBounds
  <2> QED
    BY <1>1, <2>1 DEF Types, DiskTypes, RowTypes, SessionTypes
<1>9. total' \in [Sessions -> SUBSET Segments]
  <2>1. GoodOf(s) \cup (new \ bad) \in SUBSET Segments
    BY <1>2, MadeTypes
  <2> QED
    BY <1>1, <2>1 DEF Types, DiskTypes, RowTypes, SessionTypes
<1>10. \A f \in Segments \ Made' : row'[f] = "none"
  BY <1>1, <1>2 DEF Types, DiskTypes, RowTypes, SessionTypes
<1>11. \A f \in Segments : row'[f] = row[f] \/ (row[f] = "none" /\ f \in listing)
  BY <1>1, <1>3
<1>12. \A t \in Sessions \ {s} : total'[t] = total[t] /\ GoodOf(t)' = GoodOf(t)
  <2>1. SUFFICES ASSUME NEW t \in Sessions \ {s} PROVE total'[t] = total[t] /\ GoodOf(t)' = GoodOf(t)
    OBVIOUS
  <2>2. total'[t] = total[t]
    BY <1>1 DEF Types, DiskTypes, RowTypes, SessionTypes
  <2>3. \A f \in Made : owner[f] = t => row'[f] = row[f]
    BY <1>1, <1>3, MadeTypes
  <2> QED
    BY <1>2, <2>2, <2>3 DEF GoodOf, RowsOf, Rows
<1>13. total'[s] = GoodOf(s)'
  <2>1. total'[s] = GoodOf(s) \cup (new \ bad)
    BY <1>1 DEF Types, DiskTypes, RowTypes, SessionTypes
  <2>2. \A f \in Made : owner[f] = s => (row'[f] = "completed" <=> f \in GoodOf(s) \cup (new \ bad))
    BY <1>1, <1>3, <1>4, MadeTypes DEF GoodOf, RowsOf, Rows
  <2>3. GoodOf(s)' = {f \in Made : owner[f] = s /\ row'[f] = "completed"}
    BY <1>2 DEF GoodOf, RowsOf, Rows
  <2>4. GoodOf(s) \cup (new \ bad) \subseteq {f \in Made : owner[f] = s}
    BY <1>2, <1>3, MadeTypes DEF GoodOf, RowsOf
  <2> QED
    BY <2>1, <2>2, <2>3, <2>4
<1>14. \A f \in Segments \ listing : place'[f] = place[f]
  BY <1>1
<1> QED
  BY <1>5, <1>6, <1>7, <1>8, <1>9, <1>10, <1>11, <1>12, <1>13, <1>14 DEF RowTypes

\* What StoreFile does to the rows: a row that is there is kept, and a file
\* without one gets it, with a sequence number that is free.
LEMMA StoreEffect ==
    ASSUME Types, PassInv, StoreFile
    PROVE  LET f == Least(recon.todo)
               p == FreePlace(f)
           IN  /\ f \in recon.todo /\ f \in Made /\ owner[f] = recon.session
               /\ f \in recon.known => /\ place' = place
                                       /\ row' = [row EXCEPT ![f] = IF @ = "none" THEN @ ELSE recon.found]
               /\ f \notin recon.known => /\ p \in Segments \ recon.used
                                          /\ place' = [place EXCEPT ![f] = p]
                                          /\ row' = [row EXCEPT ![f] = recon.found]
<1> DEFINE f == Least(recon.todo)
           p == FreePlace(f)
<1>1. /\ AtSession /\ recon.todo # {} /\ recon.todo \subseteq recon.listing
      /\ \A g \in recon.listing : g \in Made /\ owner[g] = recon.session
      /\ \A g \in RowsOf(recon.session) : place[g] \in recon.used
      /\ Cardinality(recon.used) <= Cardinality(Treated)
  BY DEF StoreFile, PassInv, AtSession
<1>2. /\ recon.todo \in SUBSET Segments /\ recon.listing \in SUBSET Segments
      /\ recon.known \in SUBSET Segments /\ recon.used \in SUBSET (0..MaxSegments)
  BY DEF Types, RecordTypes
<1>3. f \in recon.todo
  <2>1. recon.todo \in SUBSET Nat
    BY <1>2, MadeTypes
  <2> QED
    BY <1>1, <2>1, LeastIn
<1>4. f \notin recon.known => p \in Segments \ recon.used
  <2> SUFFICES ASSUME f \notin recon.known PROVE p \in Segments \ recon.used
    OBVIOUS
  <2>1. f \in Segments \ Treated /\ Treated \in SUBSET Segments
    BY <1>2, <1>3 DEF Treated
  <2>2. Least(Segments \ recon.used) \in Segments \ recon.used
    BY <1>1, <1>2, <2>1, PlaceLeft
  <2>3. Position(recon.listing, f) \in Segments
    BY <1>1, <1>2, <1>3, Positions DEF Segments
  <2> HIDE DEF f
  <2> QED
    BY <2>2, <2>3 DEF FreePlace
<1>5. f \notin recon.known => ~\E g \in RowsOf(recon.session) : place[g] = p
  BY <1>1, <1>4
<1>6. IF f \in recon.known
      THEN /\ row' = [row EXCEPT ![f] = IF @ = "none" THEN @ ELSE recon.found]
           /\ place' = place
      ELSE IF \E g \in RowsOf(recon.session) : place[g] = p
      THEN row' = row /\ place' = place
      ELSE row' = [row EXCEPT ![f] = recon.found] /\ place' = [place EXCEPT ![f] = p]
  BY DEF StoreFile
<1> QED
  BY <1>1, <1>3, <1>4, <1>5, <1>6

\* The segment that is being removed is the least of the list.
LEMMA RemovedOne ==
    ASSUME Types, ret.todo # {}
    PROVE  Least(ret.todo) \in ret.todo /\ Least(ret.todo) \in Segments
<1>1. ret.todo \in SUBSET Segments /\ Segments \subseteq Nat
  BY MadeTypes DEF Types, RecordTypes
<1>2. ret.todo \in SUBSET Nat
  BY <1>1
<1> QED
  BY <1>1, <1>2, LeastIn

-----------------------------------------------------------------------------
(* Types *)

LEMMA TypesInit == Init => Types
<1> SUFFICES ASSUME Init PROVE Types
  OBVIOUS
<1> USE RetentionBounds
<1>1. Made = {} /\ DiskTypes
  BY DEF Init, DiskTypes, Made
<1>2. RowTypes
  BY <1>1 DEF Init, RowTypes, Rows
<1>3. SessionTypes
  BY DEF Init, SessionTypes
<1>4. RecordTypes
  BY DEF Init, RecordTypes, NoPass, NoRun
<1> QED
  BY <1>1, <1>2, <1>3, <1>4 DEF Types

LEMMA DiskStep == Types /\ [Next]_vars => DiskTypes'
<1> SUFFICES ASSUME Types, [Next]_vars PROVE DiskTypes'
  OBVIOUS
<1> USE DEF disk, table, ffmpeg, passes, bounds
<1>1. CASE \E s \in Sessions : WriteSegment(s)
  <2>1. PICK s \in Sessions : WriteSegment(s)
    BY <1>1
  <2>2. /\ file' = file \cup {Len(owner) + 1} /\ UNCHANGED <<bad, late, row>>
        /\ owner' = Append(owner, s) /\ Len(owner) < MaxSegments
    BY <2>1 DEF WriteSegment
  <2>3. Len(owner) \in Nat /\ MaxSegments \in Nat
    BY RetentionBounds DEF Types, DiskTypes
  <2> QED
    BY <2>1, <2>2, <2>3, NextFile DEF Types, DiskTypes
<1>2. CASE \E s \in Sessions : FFmpegEnds(s)
  <2>1. PICK s \in Sessions : FFmpegEnds(s)
    BY <1>2
  <2>2. FilesOf(s) \subseteq file
    BY DEF FilesOf
  <2> QED
    BY <2>1, <2>2 DEF FFmpegEnds, Types, DiskTypes, Made
<1>3. CASE RemoveFile \/ DeleteFile \/ \E f \in Segments : RemovedByOthers(f)
  BY <1>3 DEF RemoveFile, DeleteFile, RemovedByOthers, Types, DiskTypes, Made
<1>4. CASE Restart
  BY <1>4 DEF Restart, Open, Types, DiskTypes, Made
<1>6. CASE FinishSession
  <2>1. UNCHANGED <<owner, file, bad>> /\ late' \subseteq late
    BY <1>6 DEF FinishSession
  <2> QED
    BY <2>1 DEF Types, DiskTypes, Made
<1>7. CASE OrphanStep
  BY <1>7, OrphanEffect DEF DiskTypes
<1>5. CASE \/ \E s \in Sessions : StartSession(s) \/ Scan(s) \/ Finalize(s) \/ BeginDelete(s)
           \/ (ReconcileStep /\ ~FinishSession) \/ (RetentionStep /\ ~RemoveFile)
           \/ DeleteRows \/ DeleteFails \/ UNCHANGED vars
  <2>1. UNCHANGED <<owner, file, bad, late>>
    BY <1>5 DEF StartSession, Scan, Finalize, BeginDelete, ReconcileStep, BeginReconcile, LoadSession, PassSession,
       ProbeFile, StoreFile, EndReconcile, ReconcileFails, RetentionStep, BeginRetention, SelectExpired,
       RemoveRow, Stat, SelectPressed, StillLow, NothingLeft, DeleteRows, DeleteFails, vars
  <2> QED
    BY <2>1 DEF Types, DiskTypes, Made
<1> QED
  BY <1>1, <1>2, <1>3, <1>4, <1>5, <1>6, <1>7 DEF Next, SessionStep, ReconcileStep, RetentionStep

LEMMA RowStep == Types /\ PassInv /\ RunInv /\ [Next]_vars => RowTypes'
<1> SUFFICES ASSUME Types, PassInv, RunInv, [Next]_vars PROVE RowTypes'
  OBVIOUS
<1> USE DEF disk, table, ffmpeg, passes, bounds
<1>1. CASE \E s \in Sessions : WriteSegment(s)
  <2>1. PICK s \in Sessions : WriteSegment(s)
    BY <1>1
  <2>2. UNCHANGED <<row, place, total>> /\ owner' = Append(owner, s) /\ Len(owner) < MaxSegments
    BY <2>1 DEF WriteSegment
  <2> QED
    BY <2>1, <2>2, NextFile, MadeTypes DEF Types, RowTypes
<1>2. CASE \E s \in Sessions : Scan(s)
  <2>1. PICK s \in Sessions : Scan(s)
    BY <1>2
  <2>2. owner' = owner /\ Indexes(FilesOf(s) \ {Newest(FilesOf(s))}, s)
    BY <2>1 DEF Scan
  <2> QED
    BY <2>2, IndexesRows
<1>3. CASE \E s \in Sessions : Finalize(s)
  <2>1. PICK s \in Sessions : Finalize(s)
    BY <1>3
  <2>2. owner' = owner /\ Indexes(FilesOf(s), s)
    BY <2>1 DEF Finalize
  <2> QED
    BY <2>2, IndexesRows
<1>4. CASE LoadSession
  <2>1. row' = [f \in Segments |-> IF f \in RowsOf(Least(recon.sessions)) \ file THEN "failed" ELSE row[f]]
        /\ UNCHANGED <<owner, place, total>>
    BY <1>4 DEF LoadSession
  <2>2. Made' = Made /\ Made \subseteq Segments
    BY <2>1, MadeTypes DEF Made
  <2>3. \A f \in Segments : row'[f] = "none" <=> row[f] = "none"
    BY <2>1, MadeTypes DEF Rows, RowsOf
  <2>4. Rows' = Rows
    BY <2>2, <2>3 DEF Rows
  <2> QED
    BY <2>1, <2>2, <2>3, <2>4 DEF Types, RowTypes
<1>5. CASE StoreFile
  <2> DEFINE f == Least(recon.todo)
             p == FreePlace(f)
  <2>1. f \in Made /\ owner[f] = recon.session /\ f \in Segments
    BY <1>5, StoreEffect, MadeTypes
  <2>2. UNCHANGED <<owner, total>> /\ Made' = Made
    BY <1>5 DEF StoreFile, Made
  <2>3. recon.found \in {"completed", "failed"}
    BY DEF Types, RecordTypes
  <2>4. CASE f \in recon.known
    <3>1. place' = place /\ row' = [row EXCEPT ![f] = IF @ = "none" THEN @ ELSE recon.found]
      BY <1>5, <2>4, StoreEffect
    <3> HIDE DEF f
    <3>2. row' \in [Segments -> {"none", "completed", "failed"}]
          /\ \A g \in Segments : row'[g] = "none" <=> row[g] = "none"
      BY <2>1, <2>3, <3>1 DEF Types, RowTypes
    <3>3. Rows' = Rows
      BY <2>2, <3>2, MadeTypes DEF Rows
    <3> QED
      BY <2>2, <3>1, <3>2, <3>3 DEF Types, RowTypes
  <2>5. CASE f \notin recon.known
    <3>1. /\ p \in Segments \ recon.used /\ place' = [place EXCEPT ![f] = p]
          /\ row' = [row EXCEPT ![f] = recon.found]
      BY <1>5, <2>5, StoreEffect
    <3>2. \A g \in RowsOf(recon.session) : place[g] \in recon.used
      BY <1>5 DEF StoreFile, PassInv, AtSession
    <3>3. p \in 0..MaxSegments
      BY <3>1, RetentionBounds DEF Segments
    <3> HIDE DEF f, p
    <3>4. Rows' = Rows \cup {f}
      BY <2>1, <2>2, <2>3, <3>1, MadeTypes DEF Rows, Types, RowTypes
    <3>5. \A g \in Rows \ {f} : owner[g] = owner[f] => place[g] # p
      BY <2>1, <3>1, <3>2 DEF RowsOf
    <3>6. \A g, h \in Rows' : g # h /\ owner'[g] = owner'[h] => place'[g] # place'[h]
      BY <2>1, <2>2, <3>1, <3>4, <3>5, MadeTypes DEF Types, RowTypes
    <3>7. place' \in [Segments -> 0..MaxSegments] /\ row' \in [Segments -> {"none", "completed", "failed"}]
      BY <2>1, <2>3, <3>1, <3>3 DEF Types, RowTypes
    <3> QED
      BY <2>1, <2>2, <3>1, <3>6, <3>7 DEF Types, RowTypes
  <2> QED
    BY <2>4, <2>5
<1>6. CASE FinishSession
  <2>1. UNCHANGED <<owner, row, place>> /\ total' = [total EXCEPT ![recon.session] = GoodOf(recon.session)]
    BY <1>6 DEF FinishSession
  <2>2. GoodOf(recon.session) \in SUBSET Segments
    BY MadeTypes
  <2>3. total' \in [Sessions -> SUBSET Segments]
    BY <2>1, <2>2 DEF Types, RowTypes
  <2> QED
    BY <2>1, <2>3, SameSets DEF Types, RowTypes
<1>7. CASE RemoveRow
  <2> DEFINE f == Least(ret.todo)
  <2>1. f \in Segments
    BY <1>7, RemovedOne DEF RemoveRow, RunInv
  <2>2. \/ /\ row' = [row EXCEPT ![f] = "none"] /\ place' = [place EXCEPT ![f] = 0]
           /\ total' = [total EXCEPT ![owner[f]] = GoodOf(owner[f]) \ {f}]
        \/ UNCHANGED <<row, place, total>>
    BY <1>7 DEF RemoveRow
  <2>3. owner' = owner /\ Made' = Made
    BY <1>7 DEF RemoveRow, Made
  <2> HIDE DEF f
  <2>4. CASE UNCHANGED <<row, place, total>>
    BY <2>3, <2>4, SameSets DEF Types, RowTypes
  <2>5. CASE /\ row' = [row EXCEPT ![f] = "none"] /\ place' = [place EXCEPT ![f] = 0]
             /\ total' = [total EXCEPT ![owner[f]] = GoodOf(owner[f]) \ {f}]
    <3>1. GoodOf(owner[f]) \ {f} \in SUBSET Segments
      BY MadeTypes
    <3>2. total' \in [Sessions -> SUBSET Segments]
      BY <2>5, <3>1 DEF Types, RowTypes
    <3>3. Rows' = Rows \ {f}
      BY <2>1, <2>3, <2>5, MadeTypes DEF Rows, Types, RowTypes
    <3>4. place' \in [Segments -> 0..MaxSegments] /\ row' \in [Segments -> {"none", "completed", "failed"}]
      BY <2>1, <2>5, RetentionBounds DEF Types, RowTypes
    <3>5. \A g, h \in Rows' : g # h /\ owner'[g] = owner'[h] => place'[g] # place'[h]
      BY <2>3, <2>5, <3>3, MadeTypes DEF Types, RowTypes
    <3>6. \A g \in Segments \ Made' : row'[g] = "none"
      BY <2>3, <2>5 DEF Types, RowTypes
    <3> QED
      BY <3>2, <3>4, <3>5, <3>6 DEF RowTypes
  <2> QED
    BY <2>2, <2>4, <2>5
<1>8. CASE DeleteRows
  <2>1. /\ row' = [f \in Segments |-> IF f \in RowsOf(del) THEN "none" ELSE row[f]]
        /\ place' = [f \in Segments |-> IF f \in RowsOf(del) THEN 0 ELSE place[f]]
        /\ total' = [total EXCEPT ![del] = {}] /\ owner' = owner /\ Made' = Made
    BY <1>8 DEF DeleteRows, Made
  <2>2. Rows' = Rows \ RowsOf(del)
    BY <2>1, MadeTypes DEF Rows
  <2>3. \A g, h \in Rows' : g # h /\ owner'[g] = owner'[h] => place'[g] # place'[h]
    <3>1. \A g \in Rows' : g \in Rows /\ place'[g] = place[g]
      BY <2>1, <2>2, MadeTypes
    <3> QED
      BY <2>1, <3>1 DEF Types, RowTypes
  <2>4. /\ place' \in [Segments -> 0..MaxSegments] /\ row' \in [Segments -> {"none", "completed", "failed"}]
        /\ total' \in [Sessions -> SUBSET Segments]
    <3>1. 0 \in 0..MaxSegments /\ {} \in SUBSET Segments
      BY RetentionBounds
    <3>2. place' \in [Segments -> 0..MaxSegments]
      BY <2>1, <3>1 DEF Types, RowTypes
    <3>3. row' \in [Segments -> {"none", "completed", "failed"}]
      BY <2>1 DEF Types, RowTypes
    <3>4. total' \in [Sessions -> SUBSET Segments]
      BY <2>1, <3>1 DEF Types, RowTypes
    <3> QED
      BY <3>2, <3>3, <3>4
  <2>5. \A g \in Segments \ Made' : row'[g] = "none"
    BY <2>1 DEF Types, RowTypes
  <2> QED
    BY <2>3, <2>4, <2>5 DEF RowTypes
<1>9. CASE \/ \E s \in Sessions : StartSession(s) \/ FFmpegEnds(s) \/ BeginDelete(s)
           \/ BeginReconcile \/ PassSession \/ ProbeFile \/ EndReconcile \/ ReconcileFails
           \/ (RetentionStep /\ ~RemoveRow) \/ DeleteFile \/ DeleteFails \/ Restart
           \/ (\E f \in Segments : RemovedByOthers(f)) \/ UNCHANGED vars
  <2>1. UNCHANGED <<owner, row, place, total>>
    BY <1>9 DEF StartSession, FFmpegEnds, BeginDelete, BeginReconcile, PassSession, ProbeFile, EndReconcile,
       ReconcileFails, RetentionStep, BeginRetention, SelectExpired, RemoveFile, Stat, SelectPressed, StillLow,
       NothingLeft, DeleteFile, DeleteFails, Restart, RemovedByOthers, vars
  <2> QED
    BY <2>1, SameSets DEF Types, RowTypes
<1>10. CASE OrphanStep
  <2>1. UNCHANGED <<row, place, total>> /\ Rows' = Rows /\ Made \subseteq Made'
        /\ \A f \in Made : owner'[f] = owner[f]
    BY <1>10, OrphanEffect
  <2> QED
    BY <2>1, MadeTypes DEF Types, RowTypes
<1> QED
  BY <1>1, <1>2, <1>3, <1>4, <1>5, <1>6, <1>7, <1>8, <1>9, <1>10 DEF Next, SessionStep, ReconcileStep, RetentionStep

\* The segment kept is a candidate, as long as there is one.
LEMMA NewestCandidate ==
    ASSUME Types
    PROVE  /\ Candidates \subseteq Segments
           /\ Newest(Candidates) \in 0..MaxSegments
           /\ Newest(Candidates) # 0 => Newest(Candidates) \in Candidates
<1>1. Candidates \subseteq Segments
  BY MadeTypes DEF Candidates
<1>2. MaxSegments \in Nat
  BY RetentionBounds
<1>3. CASE Candidates = {}
  BY <1>1, <1>2, <1>3 DEF Newest
<1>4. CASE Candidates # {}
  <2>1. Candidates \in SUBSET Nat /\ \A f \in Candidates : f <= MaxSegments
    BY <1>1, <1>2 DEF Segments
  <2>2. Newest(Candidates) \in Candidates
    BY <1>2, <1>4, <2>1, NewestIn
  <2>3. Segments \subseteq 0..MaxSegments
    BY <1>2 DEF Segments
  <2> QED
    BY <1>1, <2>2, <2>3
<1> QED
  BY <1>3, <1>4

LEMMA SessionTypesStep == Types /\ [Next]_vars => SessionTypes'
<1> SUFFICES ASSUME Types, [Next]_vars PROVE SessionTypes'
  OBVIOUS
<1> USE DEF disk, table, ffmpeg, passes, bounds
<1>1. CASE \E s \in Sessions : StartSession(s) \/ FFmpegEnds(s) \/ Finalize(s)
  BY <1>1 DEF StartSession, FFmpegEnds, Finalize, Types, SessionTypes
<1>2. CASE \E s \in Sessions : BeginDelete(s)
  <2>1. Sessions \subseteq 0..MaxSessions
    BY RetentionBounds DEF Sessions
  <2>2. PICK s \in Sessions : del' = s /\ UNCHANGED <<status, task, orphans, expired>>
    BY <1>2 DEF BeginDelete
  <2> QED
    BY <2>1, <2>2 DEF Types, SessionTypes
<1>3. CASE FinishSession
  BY <1>3 DEF FinishSession, Types, SessionTypes
<1>4. CASE DeleteRows \/ DeleteFails \/ Restart
  <2>1. 0 \in 0..MaxSessions
    BY RetentionBounds
  <2>2. /\ status' = [status EXCEPT ![del] = "deleted"] \/ status' = status
        /\ task' = task \/ task' = [s \in Sessions |-> "none"]
        /\ orphans' \subseteq orphans \cup Sessions /\ expired' = expired /\ del' = 0
    BY <1>4 DEF DeleteRows, DeleteFails, Restart
  <2> QED
    BY <2>1, <2>2 DEF Types, SessionTypes
<1>5. CASE BeginRetention
  <2>1. expired' \in expired..Len(owner) /\ UNCHANGED <<status, task, orphans, del>>
    BY <1>5 DEF BeginRetention
  <2>2. Len(owner) \in Nat /\ Len(owner) <= MaxSegments /\ MaxSegments \in Nat
    BY RetentionBounds DEF Types, DiskTypes
  <2> QED
    BY <2>1, <2>2 DEF Types, SessionTypes
<1>7. CASE OrphanStep
  BY <1>7, OrphanEffect DEF Types, SessionTypes
<1>6. CASE \/ \E s \in Sessions : WriteSegment(s) \/ Scan(s)
           \/ (ReconcileStep /\ ~FinishSession) \/ (RetentionStep /\ ~BeginRetention) \/ DeleteFile
           \/ (\E f \in Segments : RemovedByOthers(f)) \/ UNCHANGED vars
  <2>1. UNCHANGED <<status, task, orphans, expired, del>>
    BY <1>6 DEF WriteSegment, Scan, ReconcileStep, BeginReconcile, LoadSession, PassSession, ProbeFile, StoreFile,
       EndReconcile, ReconcileFails, RetentionStep, SelectExpired, RemoveFile, RemoveRow, Stat,
       EndsRetention, SelectPressed, StillLow, NothingLeft, DeleteFile, RemovedByOthers, Mishap, vars
  <2> QED
    BY <2>1 DEF Types, SessionTypes
<1> QED
  BY <1>1, <1>2, <1>3, <1>4, <1>5, <1>6, <1>7 DEF Next, SessionStep, ReconcileStep

\* Steps of a pass give it a record of the right form.
LEMMA PassTypes ==
    ASSUME Types, PassInv, ReconcileStep
    PROVE  /\ recon' \in [stage : {"idle", "sessions", "files", "store"}, sessions : SUBSET Sessions,
                          session : 0..MaxSessions, live : BOOLEAN,
                          listing : SUBSET Segments, known : SUBSET Segments,
                          used : SUBSET (0..MaxSegments), todo : SUBSET Segments,
                          found : {"completed", "failed"}]
           /\ recon'.todo \subseteq recon'.listing
           /\ UNCHANGED ret /\ boot' \in {"reconcile", "retention", "up"}
<1> USE DEF passes
<1> DEFINE s == Least(recon.sessions)
<1>1. Sessions \subseteq 0..MaxSessions /\ 0 \in 0..MaxSessions
  BY RetentionBounds DEF Sessions
<1>2. CASE BeginReconcile \/ EndReconcile \/ ReconcileFails \/ FinishSession
  <2>1. /\ \E S \in SUBSET Sessions : \/ recon' = [NoPass EXCEPT !.stage = "sessions", !.sessions = S]
                                       \/ recon' = NoPass
        /\ ret' = ret /\ boot' \in {boot, "retention"}
    <3>1. CASE BeginReconcile
      <4>1. {r \in Sessions : status[r] \notin {"none", "deleted"}} \in SUBSET Sessions
        OBVIOUS
      <4> QED
        BY <3>1, <4>1 DEF BeginReconcile
    <3>2. CASE FinishSession
      <4>1. recon.sessions \in SUBSET Sessions
        BY DEF Types, RecordTypes
      <4> QED
        BY <3>2, <4>1 DEF FinishSession
    <3>3. CASE EndReconcile \/ ReconcileFails
      BY <3>3 DEF EndReconcile, ReconcileFails
    <3> QED
      BY <1>2, <3>1, <3>2, <3>3
  <2>2. boot \in {"reconcile", "retention", "up"}
    BY DEF Types, RecordTypes
  <2>3. PICK S \in SUBSET Sessions : \/ recon' = [NoPass EXCEPT !.stage = "sessions", !.sessions = S]
                                     \/ recon' = NoPass
    BY <2>1
  <2>4. \E stage \in {"idle", "sessions"}, R \in {S, {}} :
           recon' = [stage |-> stage, sessions |-> R, session |-> 0, live |-> FALSE,
                     listing |-> {}, known |-> {}, used |-> {}, todo |-> {}, found |-> "failed"]
    BY <2>3 DEF NoPass
  <2> HIDE DEF s
  <2> QED
    BY <1>1, <2>1, <2>2, <2>4
<1>3. CASE PassSession \/ ProbeFile
  <2>1. \E stage \in {"sessions", "store"}, R \in SUBSET Sessions, v \in {recon.found, "completed", "failed"} :
           recon' = [recon EXCEPT !.stage = stage, !.sessions = R, !.found = v]
    <3>1. CASE PassSession
      <4>1. /\ recon.stage = "sessions" /\ recon' = [recon EXCEPT !.sessions = @ \ {Least(recon.sessions)}]
            /\ recon.sessions \in SUBSET Sessions
        BY <3>1 DEF PassSession, Types, RecordTypes
      <4>2. recon' = [recon EXCEPT !.stage = "sessions", !.sessions = recon.sessions \ {Least(recon.sessions)},
                                   !.found = recon.found]
        BY <4>1 DEF Types, RecordTypes
      <4> QED
        BY <4>1, <4>2
    <3>2. CASE ProbeFile
      <4>1. /\ recon' = [recon EXCEPT !.stage = "store", !.found = RowFor(Least(recon.todo))]
            /\ recon.sessions \in SUBSET Sessions
        BY <3>2 DEF ProbeFile, Types, RecordTypes
      <4>2. recon' = [recon EXCEPT !.stage = "store", !.sessions = recon.sessions,
                                   !.found = RowFor(Least(recon.todo))]
        BY <4>1 DEF Types, RecordTypes
      <4>3. RowFor(Least(recon.todo)) \in {"completed", "failed"}
        BY DEF RowFor
      <4> QED
        BY <4>1, <4>2, <4>3
    <3> QED
      BY <1>3, <3>1, <3>2
  <2>2. UNCHANGED <<boot, ret>>
    BY <1>3 DEF PassSession, ProbeFile
  <2> QED
    BY <2>1, <2>2 DEF Types, RecordTypes
<1>4. CASE LoadSession
  <2>1. s \in Sessions
    <3>1. recon.sessions \in SUBSET Nat /\ recon.sessions # {} /\ recon.sessions \subseteq Sessions
      BY <1>4, RetentionBounds DEF LoadSession, Types, RecordTypes, Sessions
    <3> QED
      BY <3>1, LeastIn
  <2>2. FilesOf(s) \in SUBSET Segments /\ RowsOf(s) \in SUBSET Segments
    BY MadeTypes
  <2>3. {place[f] : f \in RowsOf(s)} \in SUBSET (0..MaxSegments)
    BY <2>2 DEF Types, RowTypes
  <2>4. (status[s] = "recording") \in BOOLEAN
    OBVIOUS
  <2>5. /\ recon' = [recon EXCEPT !.stage = "files", !.session = s, !.sessions = @ \ {s},
                                  !.live = status[s] = "recording",
                                  !.listing = FilesOf(s), !.todo = FilesOf(s),
                                  !.known = RowsOf(s), !.used = {place[f] : f \in RowsOf(s)}]
        /\ UNCHANGED <<boot, ret>>
    BY <1>4 DEF LoadSession
  <2>6. s \in 0..MaxSessions
    BY <1>1, <2>1
  <2> HIDE DEF s
  <2> QED
    BY <2>2, <2>3, <2>4, <2>5, <2>6 DEF Types, RecordTypes
<1>5. CASE StoreFile
  <2> DEFINE f == Least(recon.todo)
             p == FreePlace(f)
  <2>1. /\ recon' = [recon EXCEPT !.stage = "files", !.todo = @ \ {f}, !.found = "failed",
                                  !.used = IF f \in recon.known THEN @ ELSE @ \cup {p}]
        /\ UNCHANGED <<boot, ret>>
    BY <1>5 DEF StoreFile
  <2>2. f \notin recon.known => p \in 0..MaxSegments
    BY <1>5, StoreEffect, RetentionBounds DEF Segments
  <2> HIDE DEF f, p
  <2> QED
    BY <2>1, <2>2 DEF Types, RecordTypes
<1> QED
  BY <1>2, <1>3, <1>4, <1>5 DEF ReconcileStep

\* Steps of a run, too.
LEMMA RunTypes ==
    ASSUME Types, RunInv, RetentionStep
    PROVE  /\ ret' \in [stage : {"idle", "select", "remove", "row", "stat"}, phase : {"age", "pressure"},
                        keep : 0..MaxSegments, todo : SUBSET Segments, failed : SUBSET Segments]
           /\ ret'.keep \notin ret'.todo
           /\ UNCHANGED recon /\ boot' \in {"reconcile", "retention", "up"}
<1> USE DEF passes
<1>1. 0 \in 0..MaxSegments
  BY RetentionBounds
<1>2. CASE BeginRetention
  <2>1. ret' = [NoRun EXCEPT !.stage = "select", !.keep = Newest(Candidates)] /\ UNCHANGED <<boot, recon>>
    BY <1>2 DEF BeginRetention
  <2> QED
    BY <2>1, NewestCandidate DEF NoRun, Types, RecordTypes
<1>3. CASE SelectExpired
  <2>1. /\ ret' = [ret EXCEPT !.stage = "remove", !.todo = {f \in Candidates : f <= expired} \ {ret.keep}]
        /\ UNCHANGED <<boot, recon>>
    BY <1>3 DEF SelectExpired
  <2> QED
    BY <2>1, NewestCandidate DEF Types, RecordTypes
<1>4. CASE SelectPressed
  <2> DEFINE new == Candidates \ ({Newest(Candidates)} \cup ret.failed)
  <2>1. /\ ret' = [ret EXCEPT !.stage = "remove", !.phase = "pressure", !.keep = Newest(Candidates), !.todo = new]
        /\ UNCHANGED <<boot, recon>>
    BY <1>4 DEF SelectPressed
  <2>2. new \in SUBSET Segments /\ Newest(Candidates) \notin new
    BY NewestCandidate
  <2> HIDE DEF new
  <2> QED
    BY <2>1, <2>2, NewestCandidate DEF Types, RecordTypes
<1>5. CASE RemoveFile \/ RemoveRow
  <2> DEFINE f == Least(ret.todo)
  <2>1. f \in Segments
    BY <1>5, RemovedOne DEF RemoveFile, RemoveRow, RunInv
  <2>2. /\ \/ ret' = [ret EXCEPT !.stage = "row"]
           \/ ret' = [ret EXCEPT !.todo = @ \ {f}, !.failed = @ \cup {f}]
           \/ ret' = [ret EXCEPT !.todo = @ \ {f}, !.stage = IF ret.phase = "age" THEN "remove" ELSE "stat"]
           \/ ret' = [ret EXCEPT !.stage = "remove", !.todo = @ \ {f}, !.failed = @ \cup {f}]
        /\ UNCHANGED <<boot, recon>>
    BY <1>5 DEF RemoveFile, RemoveRow
  <2> HIDE DEF f
  <2>3. /\ ret \in [stage : {"idle", "select", "remove", "row", "stat"}, phase : {"age", "pressure"},
                    keep : 0..MaxSegments, todo : SUBSET Segments, failed : SUBSET Segments]
        /\ ret.keep \notin ret.todo /\ boot \in {"reconcile", "retention", "up"}
    BY DEF Types, RecordTypes
  <2>4. ret.todo \ {f} \in SUBSET Segments /\ ret.failed \cup {f} \in SUBSET Segments
    BY <2>1, <2>3
  <2> QED
    BY <2>2, <2>3, <2>4
<1>6. CASE StillLow \/ Stat \/ NothingLeft
  BY <1>1, <1>6 DEF StillLow, Stat, NothingLeft, EndsRetention, NoRun, Types, RecordTypes
<1> QED
  BY <1>2, <1>3, <1>4, <1>5, <1>6 DEF RetentionStep

LEMMA RecordTypesStep == Types /\ PassInv /\ RunInv /\ [Next]_vars => RecordTypes'
<1> SUFFICES ASSUME Types, PassInv, RunInv, [Next]_vars PROVE RecordTypes'
  OBVIOUS
<1> USE DEF passes
<1>1. CASE ReconcileStep
  BY <1>1, PassTypes DEF Types, RecordTypes
<1>2. CASE RetentionStep
  BY <1>2, RunTypes DEF Types, RecordTypes
<1>3. CASE Restart
  <2>1. recon' = NoPass /\ ret' = NoRun /\ boot' = "reconcile"
    BY <1>3 DEF Restart
  <2>2. 0 \in 0..MaxSessions /\ 0 \in 0..MaxSegments
    BY RetentionBounds
  <2> QED
    BY <2>1, <2>2 DEF NoPass, NoRun, RecordTypes
<1>4. CASE \/ SessionStep \/ (\E s \in Sessions : BeginDelete(s)) \/ DeleteFile \/ DeleteRows \/ DeleteFails
           \/ OrphanStep \/ (\E f \in Segments : RemovedByOthers(f)) \/ UNCHANGED vars
  <2>1. UNCHANGED passes
    BY <1>4 DEF SessionStep, StartSession, WriteSegment, Scan, FFmpegEnds, Finalize, BeginDelete, DeleteFile,
       DeleteRows, DeleteFails, OrphanStep, OrphanWrites, OrphanEnds, RemovedByOthers, vars
  <2> QED
    BY <2>1 DEF Types, RecordTypes
<1> QED
  BY <1>1, <1>2, <1>3, <1>4 DEF Next

LEMMA TypesStep == Types /\ PassInv /\ RunInv /\ [Next]_vars => Types'
BY DiskStep, RowStep, SessionTypesStep, RecordTypesStep DEF Types

\* What is called types here is more than the type invariant of the module.
LEMMA TypesEnough == Types => TypeOK
<1> SUFFICES ASSUME Types PROVE TypeOK
  OBVIOUS
<1>1. /\ recon.stage \in {"idle", "sessions", "files", "store"}
      /\ recon.sessions \subseteq Sessions /\ recon.todo \subseteq recon.listing
      /\ ret.stage \in {"idle", "select", "remove", "row", "stat"}
      /\ ret.todo \subseteq Segments /\ ret.keep \notin ret.todo
      /\ boot \in {"reconcile", "retention", "up"}
  BY DEF Types, RecordTypes
<1> QED
  BY <1>1 DEF Types, DiskTypes, RowTypes, SessionTypes, TypeOK
-----------------------------------------------------------------------------
(* Turns *)

LEMMA TurnsStep == Types /\ Turns /\ PassInv /\ [Next]_vars => Turns'
<1> SUFFICES ASSUME Types, Turns, PassInv, [Next]_vars PROVE Turns'
  OBVIOUS
<1> USE DEF disk, table, ffmpeg, passes, bounds
<1> DEFINE Tasks == \A s \in Sessions : task[s] # "none" => status[s] = "recording"
           Deletes == del # 0 => task[del] = "none" /\ status[del] \in {"recording", "completed", "failed"}
           Begun == \A s \in recon.sessions : status[s] # "none"
           Order == /\ recon.stage # "idle" => boot = "reconcile"
                    /\ ret.stage # "idle" => boot # "reconcile"
<1>1. /\ status \in [Sessions -> {"none", "recording", "completed", "failed", "deleted"}]
      /\ task \in [Sessions -> {"none", "runs", "ended"}]
      /\ del \in 0..MaxSessions /\ (del # 0 => del \in Sessions) /\ recon.sessions \in SUBSET Sessions
  BY RetentionBounds DEF Types, SessionTypes, RecordTypes, Sessions
<1>2. CASE SessionStep
  <2>1. PICK s \in Sessions : StartSession(s) \/ WriteSegment(s) \/ Scan(s) \/ FFmpegEnds(s) \/ Finalize(s)
    BY <1>2 DEF SessionStep
  <2>2. UNCHANGED <<recon, boot, ret, del>>
    BY <2>1 DEF StartSession, WriteSegment, Scan, FFmpegEnds, Finalize
  <2>3. CASE StartSession(s)
    <3>1. /\ status[s] = "none" /\ status' = [status EXCEPT ![s] = "recording"]
          /\ task' = [task EXCEPT ![s] = "runs"]
      BY <2>3 DEF StartSession
    <3> QED
      BY <1>1, <2>2, <3>1 DEF Turns
  <2>4. CASE WriteSegment(s) \/ Scan(s)
    <3>1. UNCHANGED <<status, task>>
      BY <2>4 DEF WriteSegment, Scan
    <3> QED
      BY <2>2, <3>1 DEF Turns
  <2>5. CASE FFmpegEnds(s)
    <3>1. task[s] = "runs" /\ task' = [task EXCEPT ![s] = "ended"] /\ status' = status
      BY <2>5 DEF FFmpegEnds
    <3> QED
      BY <1>1, <2>2, <3>1 DEF Turns
  <2>6. CASE Finalize(s)
    <3>1. /\ task[s] = "ended" /\ task' = [task EXCEPT ![s] = "none"]
          /\ \E v \in {"failed", "completed"} : status' = [status EXCEPT ![s] = v]
      BY <2>6 DEF Finalize
    <3> QED
      BY <1>1, <2>2, <3>1 DEF Turns
  <2> QED
    BY <2>1, <2>3, <2>4, <2>5, <2>6
<1>3. CASE BeginReconcile \/ EndReconcile \/ ReconcileFails
  <2>1. UNCHANGED <<status, task, del, ret>>
    BY <1>3 DEF BeginReconcile, EndReconcile, ReconcileFails
  <2>2. Tasks' /\ Deletes'
    BY <2>1 DEF Turns
  <2>3. Begun' /\ Order'
    <3>1. CASE BeginReconcile
      BY <2>1, <3>1 DEF BeginReconcile, NoPass, Turns
    <3>2. CASE EndReconcile \/ ReconcileFails
      BY <2>1, <3>2 DEF EndReconcile, ReconcileFails, NoPass, Turns
    <3> QED
      BY <1>3, <3>1, <3>2
  <2> QED
    BY <2>2, <2>3 DEF Turns
<1>4. CASE LoadSession \/ PassSession \/ ProbeFile \/ StoreFile
  <2>1. UNCHANGED <<status, task, del, ret, boot>> /\ recon.stage # "idle"
    BY <1>4 DEF LoadSession, PassSession, ProbeFile, StoreFile
  <2>2. recon'.sessions \subseteq recon.sessions
    <3>1. \/ recon'.sessions = recon.sessions
          \/ recon'.sessions = recon.sessions \ {Least(recon.sessions)}
      <4>1. recon \in [stage : {"idle", "sessions", "files", "store"}, sessions : SUBSET Sessions,
                       session : 0..MaxSessions, live : BOOLEAN,
                       listing : SUBSET Segments, known : SUBSET Segments,
                       used : SUBSET (0..MaxSegments), todo : SUBSET Segments,
                       found : {"completed", "failed"}]
        BY DEF Types, RecordTypes
      <4>2. CASE LoadSession
        BY <4>1, <4>2 DEF LoadSession
      <4>3. CASE PassSession
        BY <4>1, <4>3 DEF PassSession
      <4>4. CASE ProbeFile
        BY <4>1, <4>4 DEF ProbeFile
      <4>5. CASE StoreFile
        BY <4>1, <4>5 DEF StoreFile
      <4> QED
        BY <1>4, <4>2, <4>3, <4>4, <4>5
    <3> QED
      BY <3>1
  <2> QED
    BY <2>1, <2>2 DEF Turns
<1>5. CASE FinishSession
  <2>1. /\ UNCHANGED <<task, del, ret, boot>> /\ recon.stage = "files"
        /\ recon'.stage = "sessions" /\ recon'.sessions = recon.sessions
        /\ \E v \in {status[recon.session], "failed", "completed"} :
              status' = [status EXCEPT ![recon.session] = v]
    BY <1>5 DEF FinishSession, NoPass
  <2>2. recon.session \in Sessions /\ task[recon.session] = "none" /\ status[recon.session] # "none"
    BY <2>1 DEF PassInv, AtSession
  <2> QED
    BY <1>1, <2>1, <2>2 DEF Turns
<1>6. CASE RetentionStep
  <2>1. UNCHANGED <<status, task, del, recon>>
    BY <1>6 DEF RetentionStep, BeginRetention, SelectExpired, RemoveFile, RemoveRow, Stat, EndsRetention,
       SelectPressed, StillLow, NothingLeft
  <2>2. Tasks' /\ Deletes' /\ Begun'
    BY <2>1 DEF Turns
  <2>3. Order'
    <3>1. boot # "reconcile"
      BY <1>6 DEF RetentionStep, BeginRetention, SelectExpired, RemoveFile, RemoveRow, Stat, Looks, SelectPressed,
         StillLow, NothingLeft, Turns
    <3>2. boot' = boot \/ ret' = NoRun
      BY <1>6 DEF RetentionStep, BeginRetention, SelectExpired, RemoveFile, RemoveRow, Stat, EndsRetention,
         SelectPressed, StillLow, NothingLeft
    <3> QED
      BY <2>1, <3>1, <3>2 DEF NoRun, Turns
  <2> QED
    BY <2>2, <2>3 DEF Turns
<1>7. CASE \E s \in Sessions : BeginDelete(s)
  <2>1. PICK s \in Sessions : BeginDelete(s)
    BY <1>7
  <2>2. task[s] = "none" /\ status[s] \notin {"none", "deleted"} /\ del' = s /\ UNCHANGED <<status, task, recon, boot, ret>>
    BY <2>1 DEF BeginDelete
  <2> QED
    BY <1>1, <2>2 DEF Turns
<1>8. CASE DeleteRows
  <2>1. /\ del # 0 /\ del' = 0 /\ status' = [status EXCEPT ![del] = "deleted"]
        /\ UNCHANGED <<task, recon, boot, ret>>
    BY <1>8 DEF DeleteRows
  <2> QED
    BY <1>1, <2>1 DEF Turns
<1>9. CASE Restart
  <2>1. /\ task' = [s \in Sessions |-> "none"] /\ boot' = "reconcile" /\ recon' = NoPass /\ ret' = NoRun
        /\ del' = 0 /\ status' = status
    BY <1>9 DEF Restart
  <2> QED
    BY <2>1 DEF NoPass, NoRun, Turns
<1>10. CASE DeleteFile \/ DeleteFails \/ OrphanStep \/ (\E f \in Segments : RemovedByOthers(f)) \/ UNCHANGED vars
  <2>1. UNCHANGED <<status, task, recon, boot, ret>> /\ del' \in {del, 0}
    BY <1>10 DEF DeleteFile, DeleteFails, OrphanStep, OrphanWrites, OrphanEnds, RemovedByOthers, vars
  <2> QED
    BY <2>1 DEF Turns
<1> QED
  BY <1>2, <1>3, <1>4, <1>5, <1>6, <1>7, <1>8, <1>9, <1>10 DEF Next, ReconcileStep
-----------------------------------------------------------------------------
(* The session that a pass is at *)

\* What a step of somebody else may do to it.
LEMMA PassKept ==
    ASSUME Types, PassInv, AtSession' => AtSession /\ recon' = recon,
           NEW r, r = recon.session,
           AtSession =>
              /\ task'[r] = "none" /\ status'[r] \in {status[r], "deleted"}
              /\ Made \subseteq Made' /\ \A f \in Made : owner'[f] = owner[f]
              /\ FilesOf(r)' \cap Made \subseteq FilesOf(r) /\ FilesOf(r)' \ late' \subseteq FilesOf(r) \ late
              /\ RowsOf(r)' \subseteq RowsOf(r)
              /\ \A f \in FilesOf(r)' : row[f] # "none" => row'[f] # "none"
              /\ \A f \in RowsOf(r)' : place'[f] = place[f]
    PROVE  PassInv'
<1> SUFFICES ASSUME AtSession' PROVE PassInv'
  BY DEF PassInv
<1>1. recon' = recon /\ AtSession /\ recon'.session = r
  OBVIOUS
<1>2. Treated' = Treated /\ Treated \subseteq Made
  BY <1>1 DEF Treated, PassInv
<1>3. /\ r \in Sessions
      /\ status[r] \in IF recon.live THEN {"recording", "deleted"} ELSE {"completed", "failed", "deleted"}
      /\ recon.todo \subseteq recon.listing /\ (recon.stage = "store" => recon.todo # {})
      /\ \A f \in recon.listing \cup recon.known : f \in Made /\ owner[f] = r
      /\ FilesOf(r) \ late \subseteq recon.listing
      /\ RowsOf(r) \subseteq Treated
      /\ \A f \in FilesOf(r) \cap Treated : row[f] # "none"
      /\ \A f \in RowsOf(r) : place[f] \in recon.used
      /\ Cardinality(recon.used) <= Cardinality(Treated)
  BY <1>1 DEF PassInv
<1>4. status'[r] \in IF recon.live THEN {"recording", "deleted"} ELSE {"completed", "failed", "deleted"}
  BY <1>1, <1>3
<1>5. /\ \A f \in recon.listing \cup recon.known : f \in Made' /\ owner'[f] = r
      /\ FilesOf(r)' \ late' \subseteq recon.listing
      /\ RowsOf(r)' \subseteq Treated
      /\ \A f \in FilesOf(r)' \cap Treated : row'[f] # "none"
      /\ \A f \in RowsOf(r)' : place'[f] \in recon.used
  BY <1>1, <1>2, <1>3
<1>6. FilesOf(recon.session)' = FilesOf(r)' /\ RowsOf(recon.session)' = RowsOf(r)'
  BY <1>1 DEF FilesOf, RowsOf
<1> QED
  BY <1>1, <1>2, <1>3, <1>4, <1>5, <1>6 DEF PassInv

\* A step that leaves the files, or removes some, and leaves the rows.
LEMMA FewerFiles ==
    ASSUME Types, UNCHANGED <<owner, row, place, late>>, file' \subseteq file, NEW s
    PROVE  /\ Made \subseteq Made' /\ \A f \in Made : owner'[f] = owner[f]
           /\ FilesOf(s)' \cap Made \subseteq FilesOf(s) /\ FilesOf(s)' \ late' \subseteq FilesOf(s) \ late
           /\ RowsOf(s)' \subseteq RowsOf(s)
           /\ \A f \in FilesOf(s)' : row[f] # "none" => row'[f] # "none"
           /\ \A f \in RowsOf(s)' : place'[f] = place[f]
BY SameSets DEF FilesOf, Made

\* The steps of the sessions are of other sessions.
LEMMA PassSessions == Types /\ Turns /\ PassInv /\ SessionStep => PassInv'
<1> SUFFICES ASSUME Types, Turns, PassInv, SessionStep PROVE PassInv'
  OBVIOUS
<1> USE DEF disk, table, ffmpeg, passes, bounds
<1>0. PICK r : r = recon.session
  OBVIOUS
<1>1. PICK s \in Sessions : StartSession(s) \/ WriteSegment(s) \/ Scan(s) \/ FFmpegEnds(s) \/ Finalize(s)
  BY DEF SessionStep
<1>2. recon' = recon
  BY <1>1 DEF StartSession, WriteSegment, Scan, FFmpegEnds, Finalize
<1>3. SUFFICES ASSUME AtSession
               PROVE  /\ task'[r] = "none" /\ status'[r] \in {status[r], "deleted"}
                      /\ Made \subseteq Made' /\ \A f \in Made : owner'[f] = owner[f]
                      /\ FilesOf(r)' \cap Made \subseteq FilesOf(r) /\ FilesOf(r)' \ late' \subseteq FilesOf(r) \ late
                      /\ RowsOf(r)' \subseteq RowsOf(r)
                      /\ \A f \in FilesOf(r)' : row[f] # "none" => row'[f] # "none"
                      /\ \A f \in RowsOf(r)' : place'[f] = place[f]
  BY <1>0, <1>2, PassKept DEF AtSession
<1>4. r \in Sessions /\ task[r] = "none" /\ recon.stage # "idle"
  BY <1>0, <1>3 DEF PassInv, AtSession
<1>5. r # s /\ ~StartSession(s)
  BY <1>1, <1>4 DEF StartSession, WriteSegment, Scan, FFmpegEnds, Finalize
<1>6. /\ task \in [Sessions -> {"none", "runs", "ended"}]
      /\ status \in [Sessions -> {"none", "recording", "completed", "failed", "deleted"}]
  BY DEF Types, SessionTypes
<1>7. task'[r] = "none" /\ status'[r] = status[r]
  BY <1>1, <1>4, <1>5, <1>6 DEF WriteSegment, Scan, FFmpegEnds, Finalize
<1>8. CASE WriteSegment(s)
  <2>1. /\ UNCHANGED <<row, place>> /\ file' = file \cup {Len(owner) + 1}
        /\ owner' = Append(owner, s) /\ Len(owner) < MaxSegments
    BY <1>8 DEF WriteSegment
  <2>2. /\ Made' = Made \cup {Len(owner) + 1} /\ owner'[Len(owner) + 1] = s
        /\ \A f \in Made : owner'[f] = owner[f]
        /\ Rows' = Rows
    BY <2>1, NextFile
  <2>3. file \subseteq Made
    BY DEF Types, DiskTypes
  <2>4. FilesOf(r)' \subseteq FilesOf(r) /\ late' = late
    BY <1>5, <1>8, <2>1, <2>2, <2>3 DEF FilesOf, WriteSegment
  <2>5. RowsOf(r)' \subseteq RowsOf(r)
    BY <2>2, MadeTypes DEF RowsOf
  <2>6. FilesOf(r)' \subseteq Made
    BY <2>3, <2>4 DEF FilesOf
  <2> QED
    BY <1>7, <2>1, <2>2, <2>4, <2>5
<1>9. CASE Scan(s) \/ Finalize(s)
  <2>1. PICK listing \in SUBSET FilesOf(s) : Indexes(listing, s) /\ UNCHANGED <<owner, file, late>>
    BY <1>9 DEF Scan, Finalize
  <2>2. /\ Rows' = Rows \cup listing
        /\ \A f \in Segments : row'[f] = row[f] \/ (row[f] = "none" /\ f \in listing)
        /\ \A f \in Segments \ listing : place'[f] = place[f]
    BY <2>1, IndexesRows
  <2>3. Made' = Made /\ FilesOf(r)' = FilesOf(r)
    BY <2>1 DEF Made, FilesOf
  <2>4. \A f \in listing : owner[f] = s
    BY DEF FilesOf
  <2>5. RowsOf(r)' = RowsOf(r) /\ RowsOf(r) \cap listing = {}
    BY <1>5, <2>1, <2>2, <2>4 DEF RowsOf
  <2>6. \A f \in RowsOf(r)' : place'[f] = place[f]
    BY <2>2, <2>5, MadeTypes
  <2>7. \A f \in FilesOf(r)' : row[f] # "none" => row'[f] # "none"
    BY <2>2, <2>3, MadeTypes
  <2> QED
    BY <1>7, <2>1, <2>3, <2>5, <2>6, <2>7
<1>10. CASE FFmpegEnds(s)
  <2>1. UNCHANGED <<owner, row, place, file, late>>
    BY <1>10 DEF FFmpegEnds
  <2> QED
    BY <1>7, <2>1, FewerFiles
<1> QED
  BY <1>1, <1>5, <1>8, <1>9, <1>10

\* A pass comes to a session.
LEMMA PassLoads == Types /\ Turns /\ LoadSession => PassInv'
<1> SUFFICES ASSUME Types, Turns, LoadSession PROVE PassInv'
  OBVIOUS
<1> USE DEF table, disk, ffmpeg
<1>1. PICK s : s = Least(recon.sessions)
  OBVIOUS
<1>2. s \in recon.sessions /\ s \in Sessions
  <2>1. recon.sessions \in SUBSET Nat /\ recon.sessions # {} /\ recon.sessions \subseteq Sessions
    BY RetentionBounds DEF LoadSession, Types, RecordTypes, Sessions
  <2> QED
    BY <1>1, <2>1, LeastIn
<1>3. /\ task[s] = "none" /\ status[s] # "deleted"
      /\ row' = [f \in Segments |-> IF f \in RowsOf(s) \ file THEN "failed" ELSE row[f]]
      /\ UNCHANGED <<owner, file, late, status, task, place>>
  BY <1>1 DEF LoadSession
<1>4. /\ recon'.stage = "files" /\ recon'.session = s /\ recon'.live = (status[s] = "recording")
      /\ recon'.listing = FilesOf(s) /\ recon'.todo = FilesOf(s)
      /\ recon'.known = RowsOf(s) /\ recon'.used = {place[f] : f \in RowsOf(s)}
  BY <1>1 DEF LoadSession, Types, RecordTypes
<1>5. status[s] \in {"none", "recording", "completed", "failed", "deleted"} /\ status[s] # "none"
  BY <1>2 DEF Types, SessionTypes, Turns
<1>6. status'[s] \in IF recon'.live THEN {"recording", "deleted"} ELSE {"completed", "failed", "deleted"}
  BY <1>3, <1>4, <1>5
<1>7. Made' = Made /\ \A f \in Segments : row'[f] = "none" <=> row[f] = "none"
  BY <1>3, MadeTypes DEF Made, RowsOf, Rows
<1>8. Rows' = Rows
  BY <1>7, MadeTypes DEF Rows
<1>9. FilesOf(recon.session)' = FilesOf(s) /\ RowsOf(recon.session)' = RowsOf(s) /\ Treated' = RowsOf(s)
  BY <1>3, <1>4, <1>8 DEF FilesOf, RowsOf, Treated
<1>10. \A f \in FilesOf(s) \cup RowsOf(s) : f \in Made /\ owner[f] = s
  BY MadeTypes DEF FilesOf, RowsOf
<1>11. \A f \in RowsOf(s) : row'[f] # "none"
  BY <1>7, MadeTypes DEF RowsOf, Rows
<1>12. Cardinality({place[f] : f \in RowsOf(s)}) <= Cardinality(RowsOf(s))
  <2>1. IsFiniteSet(RowsOf(s))
    <3>1. IsFiniteSet(Segments)
      BY RetentionBounds, FS_Interval DEF Segments
    <3>2. RowsOf(s) \subseteq Segments
      BY MadeTypes
    <3> QED
      BY <3>1, <3>2, FS_Subset
  <2>2. [f \in RowsOf(s) |-> place[f]] \in Surjection(RowsOf(s), {place[f] : f \in RowsOf(s)})
    BY DEF Surjection
  <2> QED
    BY <2>1, <2>2, FS_Surjection
<1> QED
  BY <1>2, <1>3, <1>4, <1>6, <1>7, <1>9, <1>10, <1>11, <1>12 DEF PassInv

\* A file is done.
LEMMA PassStores == Types /\ PassInv /\ StoreFile => PassInv'
<1> SUFFICES ASSUME Types, PassInv, StoreFile PROVE PassInv'
  OBVIOUS
<1> USE DEF table, disk, ffmpeg
<1>1. PICK r, f, p : r = recon.session /\ f = Least(recon.todo) /\ p = FreePlace(f)
  OBVIOUS
<1>2. /\ f \in recon.todo /\ f \in Made /\ f \in Segments /\ owner[f] = r
      /\ f \in recon.known => /\ place' = place
                              /\ row' = [row EXCEPT ![f] = IF @ = "none" THEN @ ELSE recon.found]
      /\ f \notin recon.known => /\ p \in Segments \ recon.used
                                 /\ place' = [place EXCEPT ![f] = p]
                                 /\ row' = [row EXCEPT ![f] = recon.found]
  BY <1>1, StoreEffect, MadeTypes
<1>3. UNCHANGED <<owner, file, late, status, task>> /\ AtSession
  BY DEF StoreFile, AtSession
<1>4. /\ recon'.stage = "files" /\ recon'.session = r /\ recon'.live = recon.live
      /\ recon'.listing = recon.listing /\ recon'.known = recon.known /\ recon'.todo = recon.todo \ {f}
      /\ recon'.used = IF f \in recon.known THEN recon.used ELSE recon.used \cup {p}
  BY <1>1 DEF StoreFile, Types, RecordTypes
<1>5. /\ r \in Sessions /\ task[r] = "none"
      /\ status[r] \in IF recon.live THEN {"recording", "deleted"} ELSE {"completed", "failed", "deleted"}
      /\ recon.todo \subseteq recon.listing
      /\ \A g \in recon.listing \cup recon.known : g \in Made /\ owner[g] = r
      /\ FilesOf(r) \ late \subseteq recon.listing
      /\ RowsOf(r) \subseteq Treated
      /\ \A g \in FilesOf(r) \cap Treated : row[g] # "none"
      /\ \A g \in RowsOf(r) : place[g] \in recon.used
      /\ Cardinality(recon.used) <= Cardinality(Treated)
  BY <1>1, <1>3 DEF PassInv
<1>6. Treated' = Treated \cup {f} /\ (f \in Treated <=> f \in recon.known)
  BY <1>2, <1>4, <1>5 DEF Treated
<1>7. Made' = Made /\ FilesOf(recon.session)' = FilesOf(r) /\ RowsOf(recon.session)' = {g \in Rows' : owner[g] = r}
  BY <1>3, <1>4 DEF Made, FilesOf, RowsOf
<1>8. row \in [Segments -> {"none", "completed", "failed"}] /\ place \in [Segments -> 0..MaxSegments]
      /\ recon.found # "none" /\ Rows' = {g \in Made : row'[g] # "none"}
  BY <1>7 DEF Types, RowTypes, RecordTypes, Rows
<1>9. CASE f \in recon.known
  <2>1. \A g \in Segments : row'[g] = "none" <=> row[g] = "none"
    BY <1>2, <1>8, <1>9
  <2>2. Rows' = Rows /\ RowsOf(recon.session)' = RowsOf(r)
    BY <1>7, <1>8, <2>1, MadeTypes DEF Rows, RowsOf
  <2>3. Treated' = Treated /\ recon'.used = recon.used
    BY <1>4, <1>6, <1>9
  <2>4. \A g \in FilesOf(r) \cap Treated : row'[g] # "none"
    BY <1>5, <2>1, MadeTypes
  <2> QED
    BY <1>2, <1>3, <1>4, <1>5, <1>7, <1>9, <2>2, <2>3, <2>4 DEF PassInv
<1>10. CASE f \notin recon.known
  <2>1. /\ row'[f] # "none" /\ place'[f] = p
        /\ \A g \in Segments \ {f} : row'[g] = row[g] /\ place'[g] = place[g]
    BY <1>2, <1>8, <1>10
  <2>2. \A g \in RowsOf(recon.session)' : g = f \/ (g # f /\ g \in RowsOf(r) /\ g \in Segments)
    BY <1>7, <1>8, <2>1, MadeTypes DEF RowsOf, Rows
  <2>3. recon'.used = recon.used \cup {p}
    BY <1>4, <1>10
  <2>4. \A g \in RowsOf(recon.session)' : g \in Treated' /\ place'[g] \in recon'.used
    BY <1>5, <1>6, <2>1, <2>2, <2>3
  <2>5. \A g \in FilesOf(r) \cap Treated' : row'[g] # "none"
    BY <1>5, <1>6, <2>1, MadeTypes
  <2>6. Cardinality(recon'.used) <= Cardinality(Treated')
    <3>1. IsFiniteSet(recon.used) /\ IsFiniteSet(Treated)
      <4>1. recon.used \in SUBSET (0..MaxSegments) /\ Treated \in SUBSET Segments
        BY DEF Types, RecordTypes, Treated
      <4>2. IsFiniteSet(0..MaxSegments) /\ IsFiniteSet(Segments)
        BY RetentionBounds, FS_Interval DEF Segments
      <4> QED
        BY <4>1, <4>2, FS_Subset
    <3>2. Cardinality(recon.used \cup {p}) = Cardinality(recon.used) + 1
      BY <1>2, <1>10, <3>1, FS_AddElement
    <3>3. Cardinality(Treated \cup {f}) = Cardinality(Treated) + 1
      BY <1>6, <1>10, <3>1, FS_AddElement
    <3>4. Cardinality(recon.used) \in Nat /\ Cardinality(Treated) \in Nat
      BY <3>1, FS_CardinalityType
    <3> QED
      BY <1>5, <1>6, <2>3, <3>2, <3>3, <3>4
  <2> QED
    BY <1>2, <1>3, <1>4, <1>5, <1>7, <2>4, <2>5, <2>6 DEF PassInv
<1> QED
  BY <1>9, <1>10

LEMMA PassStep == Types /\ Turns /\ PassInv /\ [Next]_vars => PassInv'
<1> SUFFICES ASSUME Types, Turns, PassInv, [Next]_vars PROVE PassInv'
  OBVIOUS
<1> USE DEF disk, table, ffmpeg, passes, bounds
<1>1. CASE SessionStep
  BY <1>1, PassSessions
<1>2. CASE BeginReconcile \/ PassSession \/ FinishSession \/ EndReconcile \/ ReconcileFails \/ Restart
  <2>1. recon'.stage \in {"idle", "sessions"}
    <3>1. CASE PassSession
      BY <3>1 DEF PassSession, Types, RecordTypes
    <3>2. CASE EndReconcile \/ ReconcileFails \/ Restart
      BY <3>2 DEF EndReconcile, ReconcileFails, Restart, NoPass
    <3>3. CASE BeginReconcile
      BY <3>3 DEF BeginReconcile, NoPass
    <3>4. CASE FinishSession
      BY <3>4 DEF FinishSession, NoPass
    <3> QED
      BY <1>2, <3>1, <3>2, <3>3, <3>4
  <2> QED
    BY <2>1 DEF PassInv, AtSession
<1>3. CASE LoadSession
  BY <1>3, PassLoads
<1>4. CASE ProbeFile
  <2>1. /\ recon.stage = "files" /\ recon.todo # {}
        /\ recon' = [recon EXCEPT !.stage = "store", !.found = RowFor(Least(recon.todo))]
        /\ UNCHANGED <<owner, file, late, status, task, row, place>>
    BY <1>4 DEF ProbeFile
  <2>2. /\ recon'.stage = "store" /\ recon'.session = recon.session /\ recon'.live = recon.live
        /\ recon'.listing = recon.listing /\ recon'.known = recon.known /\ recon'.todo = recon.todo
        /\ recon'.used = recon.used
    BY <2>1 DEF Types, RecordTypes
  <2>3. /\ FilesOf(recon.session)' = FilesOf(recon.session) /\ RowsOf(recon.session)' = RowsOf(recon.session)
        /\ Treated' = Treated /\ Made' = Made
    BY <2>1, <2>2 DEF FilesOf, RowsOf, Rows, Made, Treated
  <2> QED
    BY <2>1, <2>2, <2>3 DEF PassInv, AtSession
<1>5. CASE StoreFile
  BY <1>5, PassStores
<1>6. CASE RetentionStep
  <2>1. recon' = recon /\ boot # "reconcile"
    BY <1>6 DEF RetentionStep, BeginRetention, SelectExpired, RemoveFile, RemoveRow, Stat, Looks, EndsRetention,
       SelectPressed, StillLow, NothingLeft, Turns
  <2> QED
    BY <2>1 DEF Turns, PassInv, AtSession
<1>7. CASE (\E s \in Sessions : BeginDelete(s)) \/ DeleteFile \/ DeleteFails
           \/ (\E f \in Segments : RemovedByOthers(f)) \/ UNCHANGED vars
  <2>1. UNCHANGED <<owner, row, place, status, task, recon, late>> /\ file' \subseteq file
    BY <1>7 DEF BeginDelete, DeleteFile, DeleteFails, RemovedByOthers, vars
  <2>2. PICK r : r = recon.session
    OBVIOUS
  <2>3. AtSession => task'[r] = "none" /\ status'[r] \in {status[r], "deleted"}
    BY <2>1, <2>2 DEF PassInv
  <2> QED
    BY <2>1, <2>2, <2>3, FewerFiles, PassKept DEF AtSession
<1>8. CASE DeleteRows
  <2>1. /\ row' = [f \in Segments |-> IF f \in RowsOf(del) THEN "none" ELSE row[f]]
        /\ place' = [f \in Segments |-> IF f \in RowsOf(del) THEN 0 ELSE place[f]]
        /\ status' = [status EXCEPT ![del] = "deleted"] /\ FilesOf(del) = {}
        /\ UNCHANGED <<owner, file, late, task, recon>> /\ Made' = Made
    BY <1>8 DEF DeleteRows, Made
  <2>2. PICK r : r = recon.session
    OBVIOUS
  <2>3. Rows' = Rows \ RowsOf(del)
    BY <2>1, MadeTypes DEF Rows
  <2>4. RowsOf(r)' = RowsOf(r) \ RowsOf(del) /\ FilesOf(r)' = FilesOf(r)
    BY <2>1, <2>3 DEF RowsOf, FilesOf
  <2>5. \A f \in FilesOf(r)' : row[f] # "none" => row'[f] # "none"
    <3>1. \A f \in FilesOf(r) : f \notin RowsOf(del) /\ f \in Segments
      <4>1. \A f \in FilesOf(r) : f \in file
        BY DEF FilesOf
      <4>2. \A f \in RowsOf(del) : f \notin file
        BY <2>1 DEF FilesOf, RowsOf
      <4> QED
        BY <4>1, <4>2, MadeTypes
    <3> QED
      BY <2>1, <2>4, <3>1
  <2>6. \A f \in RowsOf(r)' : place'[f] = place[f]
    BY <2>1, <2>4, MadeTypes
  <2>7. AtSession => task'[r] = "none" /\ status'[r] \in {status[r], "deleted"}
    BY <2>1, <2>2 DEF PassInv, Types, SessionTypes
  <2> QED
    BY <2>1, <2>2, <2>4, <2>5, <2>6, <2>7, PassKept DEF AtSession
<1>9. CASE OrphanStep
  <2>1. PICK r : r = recon.session
    OBVIOUS
  <2>2. /\ UNCHANGED <<row, place, status, task, recon>>
        /\ Made \subseteq Made' /\ \A f \in Made : owner'[f] = owner[f]
        /\ FilesOf(r)' \cap Made \subseteq FilesOf(r) /\ FilesOf(r)' \ late' \subseteq FilesOf(r) \ late
        /\ RowsOf(r)' = RowsOf(r)
    BY <1>9, OrphanEffect
  <2>3. AtSession => task'[r] = "none" /\ status'[r] \in {status[r], "deleted"}
    BY <2>1, <2>2 DEF PassInv
  <2> QED
    BY <2>1, <2>2, <2>3, PassKept DEF AtSession
<1> QED
  BY <1>1, <1>2, <1>3, <1>4, <1>5, <1>6, <1>7, <1>8, <1>9 DEF Next, ReconcileStep
-----------------------------------------------------------------------------
(* What is settled *)

LEMMA SettledKept ==
    ASSUME NEW t, Settled(t), GoodOf(t)' = GoodOf(t),
           total'[t] = total[t], status'[t] = status[t], task'[t] # "none" \/ task'[t] = task[t]
    PROVE  Settled(t)'
BY DEF Settled

\* The steps of the sessions.
LEMMA SettledSessions == Types /\ Turns /\ SettledInv /\ SessionStep => SettledInv'
<1> SUFFICES ASSUME Types, Turns, SettledInv, SessionStep, NEW t \in Sessions
             PROVE  \/ Settled(t)'
                    \/ boot' = "reconcile" /\ recon'.stage = "idle"
                    \/ recon'.stage # "idle" /\ t \in recon'.sessions
                    \/ AtSession' /\ t = recon'.session
  BY DEF SettledInv
<1> USE DEF disk, table, ffmpeg, passes, bounds
<1>0. /\ status \in [Sessions -> {"none", "recording", "completed", "failed", "deleted"}]
      /\ task \in [Sessions -> {"none", "runs", "ended"}] /\ total \in [Sessions -> SUBSET Segments]
  BY DEF Types, SessionTypes, RowTypes
<1>1. PICK s \in Sessions : StartSession(s) \/ WriteSegment(s) \/ Scan(s) \/ FFmpegEnds(s) \/ Finalize(s)
  BY DEF SessionStep
<1>2. SUFFICES ASSUME Settled(t) PROVE Settled(t)'
  <2>1. UNCHANGED <<boot, recon>>
    BY <1>1 DEF StartSession, WriteSegment, Scan, FFmpegEnds, Finalize
  <2>2. \/ Settled(t)
        \/ boot = "reconcile" /\ recon.stage = "idle"
        \/ recon.stage # "idle" /\ t \in recon.sessions
        \/ AtSession /\ t = recon.session
    BY DEF SettledInv
  <2> QED
    BY <2>1, <2>2 DEF AtSession
<1>3. CASE StartSession(s)
  <2>1. /\ status' = [status EXCEPT ![s] = "recording"] /\ task' = [task EXCEPT ![s] = "runs"]
        /\ UNCHANGED <<owner, row, total>>
    BY <1>3 DEF StartSession
  <2>2. t = s => Settled(t)'
    BY <1>0, <2>1 DEF Settled
  <2>3. t # s /\ Settled(t) => Settled(t)'
    BY <1>0, <2>1, SameSets, SettledKept
  <2> QED
    BY <1>2, <2>2, <2>3
<1>4. CASE WriteSegment(s)
  <2>1. /\ UNCHANGED <<row, total, status, task>>
        /\ owner' = Append(owner, s) /\ Len(owner) < MaxSegments
    BY <1>4 DEF WriteSegment
  <2>2. GoodOf(t)' = GoodOf(t)
    <3>1. Rows' = Rows /\ \A f \in Rows : owner'[f] = owner[f]
      BY <2>1, NextFile, MadeTypes
    <3> QED
      BY <2>1, <3>1 DEF GoodOf, RowsOf
  <2> QED
    BY <1>2, <2>1, <2>2, SettledKept
<1>5. CASE Scan(s) \/ Finalize(s)
  <2>1. PICK listing \in SUBSET FilesOf(s) : Indexes(listing, s) /\ owner' = owner
    BY <1>5 DEF Scan, Finalize
  <2>2. /\ total'[s] = GoodOf(s)'
        /\ \A u \in Sessions \ {s} : total'[u] = total[u] /\ GoodOf(u)' = GoodOf(u)
    BY <2>1, IndexesRows
  <2>3. t = s => Settled(t)'
    <3>1. CASE Scan(s)
      <4>1. task[s] = "runs" /\ UNCHANGED <<status, task>>
        BY <3>1 DEF Scan
      <4> QED
        BY <2>2, <4>1 DEF Settled
    <3>2. CASE Finalize(s)
      <4>1. status'[s] \in {"failed", "completed"}
        BY <1>0, <3>2 DEF Finalize
      <4> QED
        BY <2>2, <4>1 DEF Settled
    <3> QED
      BY <1>5, <3>1, <3>2
  <2>4. t # s => status'[t] = status[t] /\ task'[t] = task[t]
    BY <1>0, <1>5 DEF Scan, Finalize
  <2> QED
    BY <1>2, <2>2, <2>3, <2>4, SettledKept
<1>6. CASE FFmpegEnds(s)
  <2>1. task' = [task EXCEPT ![s] = "ended"] /\ UNCHANGED <<owner, row, total, status>>
    BY <1>6 DEF FFmpegEnds
  <2>2. task'[t] # "none" \/ task'[t] = task[t]
    BY <1>0, <2>1
  <2> QED
    BY <1>2, <2>1, <2>2, SameSets, SettledKept
<1> QED
  BY <1>1, <1>3, <1>4, <1>5, <1>6

\* The steps of a pass: each session is settled when the pass leaves it.
LEMMA SettledPass == Types /\ Turns /\ PassInv /\ SettledInv /\ ReconcileStep => SettledInv'
<1> SUFFICES ASSUME Types, Turns, PassInv, SettledInv, ReconcileStep, NEW t \in Sessions
             PROVE  \/ Settled(t)'
                    \/ boot' = "reconcile" /\ recon'.stage = "idle"
                    \/ recon'.stage # "idle" /\ t \in recon'.sessions
                    \/ AtSession' /\ t = recon'.session
  BY DEF SettledInv
<1> USE DEF disk, table, ffmpeg, passes, bounds
<1>0. /\ status \in [Sessions -> {"none", "recording", "completed", "failed", "deleted"}]
      /\ task \in [Sessions -> {"none", "runs", "ended"}] /\ total \in [Sessions -> SUBSET Segments]
  BY DEF Types, SessionTypes, RowTypes
<1>1. \/ Settled(t)
      \/ boot = "reconcile" /\ recon.stage = "idle"
      \/ recon.stage # "idle" /\ t \in recon.sessions
      \/ AtSession /\ t = recon.session
  BY DEF SettledInv
<1>2. CASE BeginReconcile
  <2>1. /\ recon'.stage = "sessions" /\ recon'.sessions = {s \in Sessions : status[s] \notin {"none", "deleted"}}
        /\ status' = status
    BY <1>2 DEF BeginReconcile, NoPass
  <2>2. status[t] \in {"none", "deleted"} => Settled(t)'
    BY <2>1 DEF Settled
  <2> QED
    BY <2>1, <2>2
<1>3. CASE LoadSession
  <2>1. PICK s : s = Least(recon.sessions)
    OBVIOUS
  <2>2. /\ recon.stage = "sessions"
        /\ row' = [f \in Segments |-> IF f \in RowsOf(s) \ file THEN "failed" ELSE row[f]]
        /\ UNCHANGED <<owner, total, status, task>>
    BY <1>3, <2>1 DEF LoadSession
  <2>3. recon'.stage = "files" /\ recon'.session = s /\ recon'.sessions = recon.sessions \ {s}
    BY <1>3, <2>1 DEF LoadSession, Types, RecordTypes
  <2>4. CASE t = s
    BY <2>3, <2>4 DEF AtSession
  <2>5. CASE t # s
    <3>1. \A f \in Made : owner[f] = t => row'[f] = row[f]
      BY <2>2, <2>5, MadeTypes DEF RowsOf
    <3>2. GoodOf(t)' = GoodOf(t)
      BY <2>2, <3>1 DEF GoodOf, RowsOf, Rows, Made
    <3> QED
      BY <1>1, <2>2, <2>3, <2>5, <3>2, SettledKept DEF AtSession
  <2> QED
    BY <2>4, <2>5
<1>4. CASE PassSession
  <2>1. PICK s : s = Least(recon.sessions)
    OBVIOUS
  <2>2. /\ recon.stage = "sessions" /\ UNCHANGED <<owner, row, total, status, task>>
        /\ task[s] # "none" \/ status[s] = "deleted"
    BY <1>4, <2>1 DEF PassSession
  <2>3. recon'.stage = "sessions" /\ recon'.sessions = recon.sessions \ {s}
    BY <2>2, <1>4, <2>1 DEF PassSession, Types, RecordTypes
  <2>4. CASE t = s
    BY <2>2, <2>4 DEF Settled, Turns
  <2>5. CASE t # s
    BY <1>1, <2>2, <2>3, <2>5, SameSets, SettledKept DEF AtSession
  <2> QED
    BY <2>4, <2>5
<1>5. CASE ProbeFile
  <2>1. UNCHANGED <<owner, row, total, status, task>> /\ recon.stage = "files" /\ recon'.stage = "store"
        /\ recon'.sessions = recon.sessions /\ recon'.session = recon.session
    BY <1>5 DEF ProbeFile, Types, RecordTypes
  <2> QED
    BY <1>1, <2>1, SameSets, SettledKept DEF AtSession
<1>6. CASE StoreFile
  <2>1. PICK f : f = Least(recon.todo)
    OBVIOUS
  <2>2. /\ owner[f] = recon.session
        /\ \A g \in Segments \ {f} : row'[g] = row[g]
    <3>1. /\ owner[f] = recon.session /\ f \in Segments
          /\ \/ row' = [row EXCEPT ![f] = IF @ = "none" THEN @ ELSE recon.found]
             \/ row' = [row EXCEPT ![f] = recon.found]
      BY <1>6, <2>1, StoreEffect, MadeTypes
    <3> QED
      BY <3>1 DEF Types, RowTypes
  <2>3. UNCHANGED <<owner, total, status, task>> /\ recon.stage = "store"
    BY <1>6 DEF StoreFile
  <2>4. recon'.stage = "files" /\ recon'.session = recon.session /\ recon'.sessions = recon.sessions
    BY <1>6 DEF StoreFile, Types, RecordTypes
  <2>5. CASE t = recon.session
    BY <2>4, <2>5 DEF AtSession
  <2>6. CASE t # recon.session
    <3>1. GoodOf(t)' = GoodOf(t)
      BY <2>2, <2>3, <2>6, MadeTypes DEF GoodOf, RowsOf, Rows, Made
    <3> QED
      BY <1>1, <2>3, <2>4, <2>6, <3>1, SettledKept DEF AtSession
  <2> QED
    BY <2>5, <2>6
<1>7. CASE FinishSession
  <2>1. PICK s : s = recon.session
    OBVIOUS
  <2>2. /\ total' = [total EXCEPT ![s] = GoodOf(s)]
        /\ status' = [status EXCEPT ![s] = IF ~recon.live \/ @ = "deleted" THEN @
                                           ELSE IF GoodOf(s) = {} THEN "failed" ELSE "completed"]
        /\ recon'.stage = "sessions" /\ recon'.sessions = recon.sessions
        /\ UNCHANGED <<owner, row, task>> /\ recon.stage = "files"
    BY <1>7, <2>1 DEF FinishSession, NoPass
  <2>3. /\ s \in Sessions
        /\ status[s] \in IF recon.live THEN {"recording", "deleted"} ELSE {"completed", "failed", "deleted"}
    BY <2>1, <2>2 DEF PassInv, AtSession
  <2>4. GoodOf(t)' = GoodOf(t)
    BY <2>2, SameSets
  <2>5. CASE t = s
    <3>1. total'[t] = GoodOf(t)' /\ status'[t] # "recording"
      BY <1>0, <2>2, <2>3, <2>4, <2>5
    <3> QED
      BY <3>1 DEF Settled
  <2>6. CASE t # s
    <3>1. total'[t] = total[t] /\ status'[t] = status[t]
      BY <1>0, <2>2, <2>6
    <3> QED
      BY <1>1, <2>1, <2>2, <2>4, <2>6, <3>1, SettledKept
  <2> QED
    BY <2>5, <2>6
<1>8. CASE EndReconcile
  <2>1. recon.stage = "sessions" /\ recon.sessions = {} /\ UNCHANGED <<owner, row, total, status, task>>
    BY <1>8 DEF EndReconcile
  <2> QED
    BY <1>1, <2>1, SameSets, SettledKept DEF AtSession
<1>9. CASE ReconcileFails
  BY <1>9 DEF ReconcileFails, NoPass, Turns
<1> QED
  BY <1>2, <1>3, <1>4, <1>5, <1>6, <1>7, <1>8, <1>9 DEF ReconcileStep

\* The steps of a run find every session settled and leave it so.
LEMMA SettledRun == Types /\ Turns /\ RunInv /\ SettledInv /\ RetentionStep => SettledInv'
<1> SUFFICES ASSUME Types, Turns, RunInv, SettledInv, RetentionStep, NEW t \in Sessions PROVE Settled(t)'
  BY DEF SettledInv
<1> USE DEF disk, table, ffmpeg, passes, bounds
<1>1. boot # "reconcile"
  BY DEF RetentionStep, BeginRetention, SelectExpired, RemoveFile, RemoveRow, Stat, Looks, SelectPressed,
     StillLow, NothingLeft, Turns
<1>2. Settled(t)
  BY <1>1 DEF Turns, SettledInv, AtSession
<1>3. CASE RemoveRow
  <2>1. PICK f : f = Least(ret.todo)
    OBVIOUS
  <2>2. f \in Made /\ f \in Segments
    BY <1>3, <2>1, RemovedOne DEF RemoveRow, RunInv
  <2>3. \/ /\ row' = [row EXCEPT ![f] = "none"]
           /\ total' = [total EXCEPT ![owner[f]] = GoodOf(owner[f]) \ {f}]
        \/ UNCHANGED <<row, total>>
    BY <1>3, <2>1 DEF RemoveRow
  <2>4. UNCHANGED <<owner, status, task>>
    BY <1>3 DEF RemoveRow
  <2>5. CASE UNCHANGED <<row, total>>
    BY <1>2, <2>4, <2>5, SameSets, SettledKept
  <2>6. CASE /\ row' = [row EXCEPT ![f] = "none"]
             /\ total' = [total EXCEPT ![owner[f]] = GoodOf(owner[f]) \ {f}]
    <3>1. row'[f] = "none" /\ \A g \in Segments \ {f} : row'[g] = row[g]
      BY <2>2, <2>6 DEF Types, RowTypes
    <3>2. GoodOf(t)' = GoodOf(t) \ {f}
      BY <2>4, <3>1, MadeTypes DEF GoodOf, RowsOf, Rows, Made
    <3>3. CASE t = owner[f]
      <4>1. total'[t] = GoodOf(t)'
        BY <2>6, <3>2, <3>3 DEF Types, RowTypes
      <4> QED
        BY <1>2, <2>4, <4>1 DEF Settled
    <3>4. CASE t # owner[f]
      <4>1. f \notin GoodOf(t) /\ total'[t] = total[t]
        BY <2>6, <3>4 DEF GoodOf, RowsOf, Types, RowTypes
      <4> QED
        BY <1>2, <2>4, <3>2, <4>1, SettledKept
    <3> QED
      BY <3>3, <3>4
  <2> QED
    BY <2>3, <2>5, <2>6
<1>4. CASE ~RemoveRow
  <2>1. UNCHANGED <<owner, row, total, status, task>>
    BY <1>4 DEF RetentionStep, BeginRetention, SelectExpired, RemoveFile, Stat, SelectPressed, StillLow, NothingLeft
  <2> QED
    BY <1>2, <2>1, SameSets, SettledKept
<1> QED
  BY <1>3, <1>4

LEMMA SettledStep == Types /\ Turns /\ PassInv /\ RunInv /\ SettledInv /\ [Next]_vars => SettledInv'
<1> SUFFICES ASSUME Types, Turns, PassInv, RunInv, SettledInv, [Next]_vars PROVE SettledInv'
  OBVIOUS
<1> USE DEF disk, table, ffmpeg, passes, bounds
<1>1. CASE SessionStep \/ ReconcileStep \/ RetentionStep
  BY <1>1, SettledSessions, SettledPass, SettledRun
<1>2. CASE (\E s \in Sessions : BeginDelete(s)) \/ DeleteFile \/ DeleteFails
           \/ (\E f \in Segments : RemovedByOthers(f)) \/ UNCHANGED vars
  <2>1. UNCHANGED <<owner, row, total, status, task, boot, recon>>
    BY <1>2 DEF BeginDelete, DeleteFile, DeleteFails, RemovedByOthers, vars
  <2> QED
    BY <2>1, SameSets, SettledKept DEF SettledInv, AtSession
<1>3. CASE DeleteRows
  <2>1. /\ row' = [f \in Segments |-> IF f \in RowsOf(del) THEN "none" ELSE row[f]]
        /\ total' = [total EXCEPT ![del] = {}] /\ status' = [status EXCEPT ![del] = "deleted"]
        /\ UNCHANGED <<owner, task, boot, recon>> /\ Made' = Made
    BY <1>3 DEF DeleteRows, Made
  <2>2. ASSUME NEW t \in Sessions, Settled(t) PROVE Settled(t)'
    <3>1. CASE t = del
      BY <2>1, <3>1 DEF Settled, Types, SessionTypes
    <3>2. CASE t # del
      <4>1. \A f \in Made : owner[f] = t => row'[f] = row[f]
        BY <2>1, <3>2, MadeTypes DEF RowsOf
      <4>2. GoodOf(t)' = GoodOf(t)
        BY <2>1, <4>1 DEF GoodOf, RowsOf, Rows
      <4>3. total'[t] = total[t] /\ status'[t] = status[t] /\ task'[t] = task[t]
        BY <2>1, <3>2 DEF Types, SessionTypes, RowTypes
      <4> QED
        BY <2>2, <4>2, <4>3, SettledKept
    <3> QED
      BY <3>1, <3>2
  <2> QED
    BY <2>1, <2>2 DEF SettledInv, AtSession
<1>4. CASE Restart
  BY <1>4 DEF Restart, NoPass, SettledInv
<1>5. CASE OrphanStep
  <2>1. /\ UNCHANGED <<total, status, task, boot, recon>>
        /\ \A t \in Sessions : GoodOf(t)' = GoodOf(t)
    BY <1>5, OrphanEffect
  <2> QED
    BY <2>1, SettledKept DEF SettledInv, AtSession
<1> QED
  BY <1>1, <1>2, <1>3, <1>4, <1>5 DEF Next
-----------------------------------------------------------------------------
(* Every file of a session that has ended has a row *)

\* A step that ends no session, leaves the files or removes some, and drops
\* no row of a file that is left.
LEMMA IndexedKept ==
    ASSUME AllIndexed, file' \ late' \subseteq file \ late,
           \A f \in file' \ late' :
              /\ owner'[f] = owner[f]
              /\ row[f] # "none" => row'[f] # "none"
              /\ status'[owner[f]] \in {"completed", "failed"} =>
                    status[owner[f]] \in {"completed", "failed"}
    PROVE  AllIndexed'
BY DEF AllIndexed

LEMMA IndexedStep == Types /\ Turns /\ PassInv /\ RunInv /\ AllIndexed /\ [Next]_vars => AllIndexed'
<1> SUFFICES ASSUME Types, Turns, PassInv, RunInv, AllIndexed, [Next]_vars PROVE AllIndexed'
  OBVIOUS
<1> USE DEF disk, table, ffmpeg, passes, bounds
<1>0. /\ status \in [Sessions -> {"none", "recording", "completed", "failed", "deleted"}]
      /\ row \in [Segments -> {"none", "completed", "failed"}]
      /\ file \subseteq Made /\ file \subseteq Segments
      /\ \A f \in file : owner[f] \in Sessions
  <2>1. file \subseteq Made
    BY DEF Types, DiskTypes
  <2> QED
    BY <2>1, MadeTypes DEF Types, SessionTypes, RowTypes
<1>1. CASE \E s \in Sessions : StartSession(s)
  <2>1. PICK s \in Sessions : status' = [status EXCEPT ![s] = "recording"] /\ UNCHANGED <<owner, file, late, row>>
    BY <1>1 DEF StartSession
  <2> QED
    BY <1>0, <2>1, IndexedKept
<1>2. CASE \E s \in Sessions : WriteSegment(s)
  <2>1. PICK s \in Sessions : WriteSegment(s)
    BY <1>2
  <2>2. /\ task[s] = "runs" /\ file' = file \cup {Len(owner) + 1} /\ UNCHANGED <<status, row, late>>
        /\ owner' = Append(owner, s) /\ Len(owner) < MaxSegments
    BY <2>1 DEF WriteSegment
  <2>3. owner'[Len(owner) + 1] = s /\ \A f \in Made : owner'[f] = owner[f]
    BY <2>2, NextFile
  <2>4. status[s] = "recording"
    BY <2>2 DEF Turns
  <2> QED
    BY <1>0, <2>2, <2>3, <2>4 DEF AllIndexed
<1>3. CASE \E s \in Sessions : Scan(s)
  <2>1. PICK s \in Sessions : Scan(s)
    BY <1>3
  <2>2. /\ Indexes(FilesOf(s) \ {Newest(FilesOf(s))}, s)
        /\ UNCHANGED <<owner, file, late, status>>
    BY <2>1 DEF Scan
  <2>3. \A f \in Segments : row'[f] = row[f] \/ row[f] = "none"
    BY <2>2, IndexesRows
  <2> QED
    BY <1>0, <2>2, <2>3, IndexedKept
<1>4. CASE \E s \in Sessions : Finalize(s)
  <2>1. PICK s \in Sessions : Finalize(s)
    BY <1>4
  <2>2. /\ Indexes(FilesOf(s), s) /\ UNCHANGED <<owner, file, late>>
        /\ \A r \in Sessions \ {s} : status'[r] = status[r]
    BY <1>0, <2>1 DEF Finalize
  <2>3. /\ Rows' = Rows \cup FilesOf(s)
        /\ \A f \in Segments : row'[f] = row[f] \/ row[f] = "none"
    BY <2>2, IndexesRows
  <2>4. \A f \in file : owner[f] = s => row'[f] # "none"
    BY <2>3 DEF FilesOf, Rows
  <2> QED
    BY <1>0, <2>2, <2>3, <2>4 DEF AllIndexed
<1>5. CASE LoadSession
  <2>1. /\ \A f \in Segments : row'[f] \in {row[f], "failed"}
        /\ UNCHANGED <<owner, file, late, status>>
    BY <1>5 DEF LoadSession
  <2> QED
    BY <1>0, <2>1, IndexedKept
<1>6. CASE StoreFile
  <2>1. PICK f : f = Least(recon.todo)
    OBVIOUS
  <2>2. \/ row' = [row EXCEPT ![f] = IF @ = "none" THEN @ ELSE recon.found]
        \/ row' = [row EXCEPT ![f] = recon.found]
    BY <1>6, <2>1, StoreEffect
  <2>3. recon.found # "none" /\ UNCHANGED <<owner, file, late, status>>
    BY <1>6 DEF StoreFile, Types, RecordTypes
  <2>4. \A g \in Segments : row[g] # "none" => row'[g] # "none"
    BY <1>0, <2>2, <2>3
  <2>5. file' = file /\ late' = late /\ \A g \in file : owner'[g] = owner[g] /\ status' = status
    BY <2>3
  <2>6. \A g \in file : row[g] # "none" => row'[g] # "none"
    BY <1>0, <2>4
  <2> HIDE <2>2, <2>4
  <2> QED
    BY <2>5, <2>6, IndexedKept
<1>7. CASE FinishSession
  <2>1. PICK s : s = recon.session
    OBVIOUS
  <2>2. /\ \A r \in Sessions \ {s} : status'[r] = status[r]
        /\ UNCHANGED <<owner, file, row>> /\ late' = late \ recon.listing /\ recon.stage = "files" /\ recon.todo = {}
    BY <1>0, <1>7, <2>1 DEF FinishSession
  <2>3. \A f \in file \ late' : owner[f] = s => row[f] # "none"
    <3>1. FilesOf(s) \ late \subseteq recon.listing /\ \A f \in FilesOf(s) \cap Treated : row[f] # "none"
      BY <2>1, <2>2 DEF PassInv, AtSession
    <3>2. FilesOf(s) \ late' \subseteq Treated
      BY <2>2, <3>1 DEF Treated
    <3> QED
      BY <3>1, <3>2 DEF FilesOf
  <2>4. \A f \in recon.listing : owner[f] = s
    BY <2>1, <2>2 DEF PassInv, AtSession
  <2> QED
    BY <1>0, <2>2, <2>3, <2>4 DEF AllIndexed
<1>8. CASE RemoveRow
  <2>1. PICK f : f = Least(ret.todo)
    OBVIOUS
  <2>2. f \notin file
    BY <1>8, <2>1 DEF RemoveRow, RunInv
  <2>3. /\ row' = [row EXCEPT ![f] = "none"] \/ row' = row
        /\ UNCHANGED <<owner, file, late, status>>
    BY <1>8, <2>1 DEF RemoveRow
  <2>4. \A g \in file : row'[g] = row[g]
    BY <1>0, <2>2, <2>3
  <2> QED
    BY <2>3, <2>4, IndexedKept
<1>9. CASE RemoveFile \/ DeleteFile \/ \E f \in Segments : RemovedByOthers(f)
  <2>1. file' \subseteq file /\ UNCHANGED <<owner, late, row, status>>
    BY <1>9 DEF RemoveFile, DeleteFile, RemovedByOthers
  <2> QED
    BY <2>1, IndexedKept
<1>10. CASE DeleteRows
  <2>1. /\ row' = [f \in Segments |-> IF f \in RowsOf(del) THEN "none" ELSE row[f]]
        /\ status' = [status EXCEPT ![del] = "deleted"] /\ FilesOf(del) = {}
        /\ UNCHANGED <<owner, file, late>>
    BY <1>10 DEF DeleteRows
  <2>2. \A f \in file : f \notin RowsOf(del) /\ owner[f] # del
    BY <2>1 DEF RowsOf, FilesOf
  <2>3. \A f \in file : row'[f] = row[f] /\ status'[owner[f]] = status[owner[f]]
    BY <1>0, <2>1, <2>2
  <2> QED
    BY <2>1, <2>3, IndexedKept
<1>11. CASE \/ \E s \in Sessions : FFmpegEnds(s) \/ BeginDelete(s)
            \/ BeginReconcile \/ PassSession \/ ProbeFile \/ EndReconcile \/ ReconcileFails
            \/ (RetentionStep /\ ~RemoveRow /\ ~RemoveFile) \/ DeleteFails \/ Restart \/ UNCHANGED vars
  <2>1. UNCHANGED <<owner, file, late, row, status>>
    BY <1>11 DEF FFmpegEnds, BeginDelete, BeginReconcile, PassSession, ProbeFile, EndReconcile, ReconcileFails,
       RetentionStep, BeginRetention, SelectExpired, Stat, SelectPressed, StillLow, NothingLeft, DeleteFails, Restart,
       vars
  <2> QED
    BY <2>1, IndexedKept
<1>12. CASE OrphanStep
  <2>1. /\ file' \ late' \subseteq file \ late /\ UNCHANGED <<row, status>>
        /\ \A f \in Made : owner'[f] = owner[f]
    BY <1>12, OrphanEffect
  <2> QED
    BY <1>0, <2>1, IndexedKept
<1> QED
  BY <1>1, <1>2, <1>3, <1>4, <1>5, <1>6, <1>7, <1>8, <1>9, <1>10, <1>11, <1>12
  DEF Next, SessionStep, ReconcileStep, RetentionStep

-----------------------------------------------------------------------------
(* What a run has listed *)

Listed == ret.todo \cup ({ret.keep} \ {0})

\* A run goes on with segments listed before, whose sessions stay ended or are
\* deleted, and whose rows stay or go.
LEMMA ListedKept ==
    ASSUME Types, RunInv, ret'.stage # "idle" => ret.stage # "idle",
           ret'.stage # "idle" => Listed' \subseteq Listed,
           \A f \in Listed \cap Listed' :
              f \in Made /\ status[owner[f]] \in {"completed", "deleted"} =>
                 /\ f \in Made' /\ owner'[f] = owner[f]
                 /\ \/ status'[owner[f]] = status[owner[f]] /\ row'[f] \in {row[f], "none"}
                    \/ status'[owner[f]] = "deleted" /\ row'[f] = "none",
           ret'.stage = "row" => ret'.todo # {} /\ Least(ret'.todo) \notin file'
    PROVE  RunInv'
<1> SUFFICES ASSUME ret'.stage # "idle", NEW f \in Listed'
             PROVE  /\ f \in Made' /\ status'[owner'[f]] \in {"completed", "deleted"}
                    /\ row'[f] # "none" => f \in Candidates'
  BY DEF RunInv, Listed
<1>1. f \in Made /\ status[owner[f]] \in {"completed", "deleted"} /\ (row[f] # "none" => f \in Candidates)
  BY DEF RunInv, Listed
<1>2. /\ f \in Made' /\ owner'[f] = owner[f]
      /\ \/ status'[owner[f]] = status[owner[f]] /\ row'[f] \in {row[f], "none"}
         \/ status'[owner[f]] = "deleted" /\ row'[f] = "none"
  BY <1>1
<1>3. row'[f] # "none" => row'[f] = row[f] /\ status'[owner'[f]] = status[owner[f]] /\ f \in Candidates
  BY <1>1, <1>2
<1> QED
  BY <1>1, <1>2, <1>3 DEF Candidates, Rows

\* The steps of others: what they write belongs to sessions that have not
\* ended, and what they delete has gone with its session.
LEMMA RunOthers ==
    ASSUME Types, Turns, RunInv, ret' = ret, ret.stage = "idle" \/ file' \cap Made \subseteq file,
           ret.stage # "idle" =>
              \A f \in Made : status[owner[f]] \in {"completed", "deleted"} =>
                 /\ f \in Made' /\ owner'[f] = owner[f]
                 /\ \/ status'[owner[f]] = status[owner[f]] /\ row'[f] \in {row[f], "none"}
                    \/ status'[owner[f]] = "deleted" /\ row'[f] = "none"
    PROVE  RunInv'
<1>1. CASE ret.stage = "idle"
  BY <1>1 DEF RunInv
<1>2. CASE ret.stage # "idle"
  <2>1. Listed' = Listed
    BY DEF Listed
  <2>2. ret.stage = "row" => ret.todo # {} /\ Least(ret.todo) \notin file'
    <3> SUFFICES ASSUME ret.stage = "row" PROVE ret.todo # {} /\ Least(ret.todo) \notin file'
      OBVIOUS
    <3>1. ret.todo # {} /\ Least(ret.todo) \notin file
      BY DEF RunInv
    <3>2. Least(ret.todo) \in ret.todo
      BY <3>1, RemovedOne
    <3>3. Least(ret.todo) \in Made
      BY <1>2, <3>2 DEF RunInv
    <3> QED
      BY <1>2, <3>1, <3>3
  <2> QED
    BY <1>2, <2>1, <2>2, ListedKept
<1> QED
  BY <1>1, <1>2

LEMMA RunSessions == Types /\ Turns /\ RunInv /\ SessionStep => RunInv'
<1> SUFFICES ASSUME Types, Turns, RunInv, SessionStep PROVE RunInv'
  OBVIOUS
<1> USE DEF disk, table, ffmpeg, passes, bounds
<1>0. /\ status \in [Sessions -> {"none", "recording", "completed", "failed", "deleted"}]
      /\ file \subseteq Made /\ Made \subseteq Segments /\ \A f \in Made : owner[f] \in Sessions
  BY MadeTypes DEF Types, SessionTypes, DiskTypes
<1>1. PICK s \in Sessions : StartSession(s) \/ WriteSegment(s) \/ Scan(s) \/ FFmpegEnds(s) \/ Finalize(s)
  BY DEF SessionStep
<1>2. status[s] \in {"none", "recording"}
  BY <1>1 DEF StartSession, WriteSegment, Scan, FFmpegEnds, Finalize, Turns
<1>3. ret' = ret
  BY <1>1 DEF StartSession, WriteSegment, Scan, FFmpegEnds, Finalize
<1>4. \A r \in Sessions \ {s} : status'[r] = status[r]
  BY <1>0, <1>1 DEF StartSession, WriteSegment, Scan, FFmpegEnds, Finalize
<1>5. /\ file' \cap Made \subseteq file /\ Made \subseteq Made' /\ \A f \in Made : owner'[f] = owner[f]
  <2>1. CASE WriteSegment(s)
    <3>1. /\ file' = file \cup {Len(owner) + 1} /\ row' = row
          /\ owner' = Append(owner, s) /\ Len(owner) < MaxSegments
      BY <2>1 DEF WriteSegment
    <3> QED
      BY <1>0, <3>1, NextFile
  <2>2. CASE ~WriteSegment(s)
    <3>1. UNCHANGED <<owner, file>>
      BY <1>1, <2>2 DEF StartSession, Scan, FFmpegEnds, Finalize
    <3> QED
      BY <3>1 DEF Made
  <2> QED
    BY <2>1, <2>2
<1>6. \A f \in Made : owner[f] # s => row'[f] = row[f]
  <2>1. CASE Scan(s) \/ Finalize(s)
    <3>1. PICK listing \in SUBSET FilesOf(s) : Indexes(listing, s) /\ owner' = owner
      BY <2>1 DEF Scan, Finalize
    <3>2. \A f \in Segments : row'[f] = row[f] \/ f \in listing
      BY <3>1, IndexesRows
    <3>3. \A f \in listing : owner[f] = s
      BY DEF FilesOf
    <3> QED
      BY <1>0, <3>2, <3>3
  <2>2. CASE ~(Scan(s) \/ Finalize(s))
    <3>1. row' = row
      BY <1>1, <2>2 DEF StartSession, WriteSegment, FFmpegEnds
    <3> QED
      BY <3>1
  <2> QED
    BY <2>1, <2>2
<1>7. \A f \in Made : status[owner[f]] \in {"completed", "deleted"} =>
         f \in Made' /\ owner'[f] = owner[f] /\ status'[owner[f]] = status[owner[f]] /\ row'[f] \in {row[f], "none"}
  BY <1>0, <1>2, <1>4, <1>5, <1>6
<1> QED
  BY <1>3, <1>5, <1>7, RunOthers

LEMMA RunSteps == Types /\ Turns /\ RunInv /\ RetentionStep => RunInv'
<1> SUFFICES ASSUME Types, Turns, RunInv, RetentionStep PROVE RunInv'
  OBVIOUS
<1> USE DEF disk, table, ffmpeg, passes, bounds
<1>0. /\ ret \in [stage : {"idle", "select", "remove", "row", "stat"}, phase : {"age", "pressure"},
                  keep : 0..MaxSegments, todo : SUBSET Segments, failed : SUBSET Segments]
      /\ owner' = owner /\ status' = status /\ Made' = Made /\ file' \subseteq file
  <2>1. owner' = owner /\ status' = status /\ file' \subseteq file
    BY DEF RetentionStep, BeginRetention, SelectExpired, RemoveFile, RemoveRow, Stat, SelectPressed,
       StillLow, NothingLeft
  <2> QED
    BY <2>1 DEF Types, RecordTypes, Made
<1>1. CASE Stat \/ NothingLeft
  <2>1. ret'.stage = "idle"
    BY <1>1 DEF Stat, NothingLeft, EndsRetention, NoRun
  <2> QED
    BY <2>1 DEF RunInv
<1>2. CASE BeginRetention \/ SelectExpired \/ SelectPressed
  <2>1. ret.stage # "idle" \/ BeginRetention
    BY <1>2 DEF SelectExpired, SelectPressed, Looks
  <2>2. ret'.stage # "row" /\ row' = row
    BY <1>0, <1>2 DEF BeginRetention, SelectExpired, SelectPressed, NoRun
  <2>3. Candidates' = Candidates
    BY <1>0, <2>2 DEF Candidates, Rows
  <2>4. \A f \in ret'.todo \cup ({ret'.keep} \ {0}) : f \in Candidates \/ (ret.stage # "idle" /\ f = ret.keep /\ f # 0)
    <3>1. CASE BeginRetention
      <4>1. ret'.todo = {} /\ ret'.keep = Newest(Candidates)
        BY <3>1 DEF BeginRetention, NoRun
      <4> QED
        BY <4>1, NewestCandidate
    <3>2. CASE SelectExpired
      <4>1. ret'.todo \subseteq Candidates /\ ret'.keep = ret.keep /\ ret.stage # "idle"
        BY <1>0, <3>2 DEF SelectExpired
      <4> QED
        BY <4>1
    <3>3. CASE SelectPressed
      <4>1. ret'.todo \subseteq Candidates /\ ret'.keep = Newest(Candidates)
        BY <1>0, <3>3 DEF SelectPressed
      <4> QED
        BY <4>1, NewestCandidate
    <3> QED
      BY <1>2, <3>1, <3>2, <3>3
  <2>5. \A f \in Candidates : f \in Made /\ status[owner[f]] \in {"completed", "deleted"}
    BY MadeTypes DEF Candidates
  <2>6. \A f \in ret'.todo \cup ({ret'.keep} \ {0}) :
           f \in Made /\ status[owner[f]] \in {"completed", "deleted"} /\ (row[f] # "none" => f \in Candidates)
    BY <2>4, <2>5 DEF RunInv
  <2> QED
    BY <1>0, <2>2, <2>3, <2>6 DEF RunInv
<1>3. CASE StillLow
  <2>1. ret' = [ret EXCEPT !.stage = "remove"] /\ ret.stage # "idle" /\ row' = row
    BY <1>3 DEF StillLow, Looks
  <2>2. ret'.stage = "remove" /\ Listed' = Listed
    BY <1>0, <2>1 DEF Listed
  <2> QED
    BY <1>0, <2>1, <2>2, ListedKept
<1>4. CASE RemoveFile
  <2>1. PICK f : f = Least(ret.todo)
    OBVIOUS
  <2>2. /\ ret.stage = "remove" /\ ret.todo # {} /\ row' = row
        /\ \/ file' = file \ {f} /\ ret' = [ret EXCEPT !.stage = "row"]
           \/ ret' = [ret EXCEPT !.todo = @ \ {f}, !.failed = @ \cup {f}]
    BY <1>4, <2>1 DEF RemoveFile
  <2>3. \/ ret'.stage = "row" /\ ret'.todo = ret.todo /\ ret'.keep = ret.keep /\ f \notin file'
        \/ ret'.stage = "remove" /\ ret'.todo \subseteq ret.todo /\ ret'.keep = ret.keep
    BY <1>0, <2>2
  <2>4. Listed' \subseteq Listed
    BY <2>3 DEF Listed
  <2> QED
    BY <1>0, <2>1, <2>2, <2>3, <2>4, ListedKept
<1>5. CASE RemoveRow
  <2>1. PICK f : f = Least(ret.todo)
    OBVIOUS
  <2>2. /\ ret.stage = "row"
        /\ row' = [row EXCEPT ![f] = "none"] \/ row' = row
        /\ \/ ret' = [ret EXCEPT !.todo = @ \ {f}, !.stage = IF ret.phase = "age" THEN "remove" ELSE "stat"]
           \/ ret' = [ret EXCEPT !.stage = "remove", !.todo = @ \ {f}, !.failed = @ \cup {f}]
    BY <1>5, <2>1 DEF RemoveRow
  <2>3. ret'.stage \in {"remove", "stat"} /\ ret'.todo \subseteq ret.todo /\ ret'.keep = ret.keep
    BY <1>0, <2>2
  <2>4. Listed' \subseteq Listed
    BY <2>3 DEF Listed
  <2>5. \A g \in Made : row'[g] \in {row[g], "none"}
    BY <2>2, MadeTypes DEF Types, RowTypes
  <2> QED
    BY <1>0, <2>2, <2>3, <2>4, <2>5, ListedKept
<1> QED
  BY <1>1, <1>2, <1>3, <1>4, <1>5 DEF RetentionStep

LEMMA RunStep == Types /\ Turns /\ RunInv /\ [Next]_vars => RunInv'
<1> SUFFICES ASSUME Types, Turns, RunInv, [Next]_vars PROVE RunInv'
  OBVIOUS
<1> USE DEF disk, table, ffmpeg, passes, bounds
<1>1. CASE SessionStep \/ RetentionStep
  BY <1>1, RunSessions, RunSteps
<1>2. CASE ReconcileStep
  <2>1. ret' = ret
    BY <1>2 DEF ReconcileStep, BeginReconcile, LoadSession, PassSession, ProbeFile, StoreFile, FinishSession,
       EndReconcile, ReconcileFails
  <2>2. boot = "reconcile"
    BY <1>2 DEF ReconcileStep, BeginReconcile, LoadSession, PassSession, ProbeFile, StoreFile, FinishSession,
       EndReconcile, ReconcileFails, Turns
  <2> QED
    BY <2>1, <2>2 DEF Turns, RunInv
<1>3. CASE DeleteRows
  <2>1. /\ row' = [f \in Segments |-> IF f \in RowsOf(del) THEN "none" ELSE row[f]]
        /\ status' = [status EXCEPT ![del] = "deleted"] /\ del # 0
        /\ UNCHANGED <<owner, file, ret>> /\ Made' = Made
    BY <1>3 DEF DeleteRows, Made
  <2>2. \A f \in Made : owner[f] = del => row'[f] = "none" /\ status'[owner[f]] = "deleted"
    BY <2>1, MadeTypes DEF RowsOf, Rows, Types, SessionTypes
  <2>3. \A f \in Made : owner[f] # del => row'[f] = row[f] /\ status'[owner[f]] = status[owner[f]]
    BY <2>1, MadeTypes DEF RowsOf, Types, SessionTypes
  <2> QED
    BY <2>1, <2>2, <2>3, RunOthers
<1>4. CASE Restart
  BY <1>4 DEF Restart, NoRun, RunInv
<1>5. CASE (\E s \in Sessions : BeginDelete(s)) \/ DeleteFile \/ DeleteFails
           \/ (\E f \in Segments : RemovedByOthers(f))
           \/ UNCHANGED vars
  <2>1. UNCHANGED <<owner, row, status, ret>> /\ file' \subseteq file
    BY <1>5 DEF BeginDelete, DeleteFile, DeleteFails, RemovedByOthers, vars
  <2>2. Made' = Made
    BY <2>1 DEF Made
  <2> QED
    BY <2>1, <2>2, RunOthers
<1>6. CASE OrphanStep
  <2>1. /\ UNCHANGED <<row, status, ret>> /\ file' \cap Made \subseteq file
        /\ Made \subseteq Made' /\ \A f \in Made : owner'[f] = owner[f]
    BY <1>6, OrphanEffect
  <2> QED
    BY <2>1, RunOthers
<1> QED
  BY <1>1, <1>2, <1>3, <1>4, <1>5, <1>6 DEF Next

-----------------------------------------------------------------------------
(* The invariant, and what follows from it *)

LEMMA InvInit == Init => Inv
<1> SUFFICES ASSUME Init PROVE Inv
  OBVIOUS
<1>1. Types
  BY TypesInit
<1>2. Turns
  BY DEF Init, Turns, NoPass, NoRun
<1>3. PassInv /\ SettledInv /\ AllIndexed /\ RunInv
  BY DEF Init, PassInv, AtSession, SettledInv, AllIndexed, RunInv, NoPass, NoRun
<1> QED
  BY <1>1, <1>2, <1>3 DEF Inv

THEOREM Invariance == Spec => []Inv
<1>1. Init => Inv
  BY InvInit
<1>2. Inv /\ [Next]_vars => Inv'
  BY TypesStep, TurnsStep, PassStep, SettledStep, IndexedStep, RunStep DEF Inv
<1> QED
  BY <1>1, <1>2, PTL DEF Spec

\* Reconciliation, scans, retention and deletions, in any order and with any
\* failures and restarts between them, leave no file of an ended session
\* without a row, but for what an FFmpeg that outlived its server has written
\* since a startup pass last listed its session: retention and playback know
\* of all the others.
THEOREM IndexKept == Spec => []IndexSound
<1>1. Inv => IndexSound
  BY TypesEnough DEF Inv, IndexSound
<1> QED
  BY <1>1, Invariance, PTL

\* Size and duration of an ended session are those of its completed rows
\* whenever startup is over, although a restart may come between the rows and
\* the sums and retention rewrites both while sessions go on.
THEOREM SumsFit == Spec => []AggregateFits
<1>1. Inv => AggregateFits
  <2> SUFFICES ASSUME Inv, boot = "up" PROVE \A s \in Sessions : Settled(s)
    BY DEF AggregateFits, Settled
  <2>1. recon.stage = "idle"
    BY DEF Inv, Turns
  <2> QED
    BY <2>1 DEF Inv, SettledInv, AtSession
<1> QED
  BY <1>1, Invariance, PTL

\* Retention removes files of ended sessions only, and another completed
\* segment stays listed unless the newest one's session has been deleted.
THEOREM NewestSpared == Spec => RetentionSpares
<1> DEFINE Step == RetentionStep =>
        \A f \in file \ file' :
            /\ task[owner[f]] = "none" /\ status[owner[f]] # "recording"
            /\ Candidates \ {f} # {} \/ ret.keep \notin Rows
<1>1. Inv => Step
  <2> SUFFICES ASSUME Inv, RetentionStep, NEW f \in file \ file'
               PROVE  /\ task[owner[f]] = "none" /\ status[owner[f]] # "recording"
                      /\ ret.keep \in Rows => Candidates \ {f} # {}
    OBVIOUS
  <2>1. Types /\ Turns /\ RunInv
    BY DEF Inv
  <2>2. RemoveFile
    BY DEF RetentionStep, BeginRetention, SelectExpired, RemoveRow, Stat, SelectPressed, StillLow, NothingLeft, disk
  <2>3. ret.todo # {} /\ ret.stage # "idle" /\ f = Least(ret.todo)
    BY <2>2 DEF RemoveFile
  <2>4. f \in ret.todo
    BY <2>1, <2>3, RemovedOne
  <2>5. f \in Made /\ status[owner[f]] \in {"completed", "deleted"}
    BY <2>1, <2>3, <2>4 DEF RunInv
  <2>6. task[owner[f]] = "none"
    BY <2>1, <2>5, MadeTypes DEF Turns
  <2>7. ret.keep \in Rows => ret.keep \in Candidates \ {f}
    <3> SUFFICES ASSUME ret.keep \in Rows PROVE ret.keep \in Candidates \ {f}
      OBVIOUS
    <3>1. ret.keep # 0
      BY <2>1, MadeTypes DEF Segments
    <3>2. row[ret.keep] # "none"
      BY DEF Rows
    <3>3. ret.keep \in Candidates
      BY <2>1, <2>3, <3>1, <3>2 DEF RunInv
    <3>4. ret.keep # f
      BY <2>1, <2>4 DEF Types, RecordTypes
    <3> QED
      BY <3>3, <3>4
  <2> QED
    BY <2>5, <2>6, <2>7
<1> QED
  BY <1>1, Invariance, PTL DEF RetentionSpares

\* The segments that playback has of the rows: each has some length, and a
\* file of a session ends with the next one.
LEMMA PlayableTimed == Types => Timed(Playable, 4 * MaxSegments + 3 * MaxSessions)
<1> SUFFICES ASSUME Types PROVE Timed(Playable, 4 * MaxSegments + 3 * MaxSessions)
  OBVIOUS
<1>1. MaxSegments \in Nat /\ MaxSessions \in Nat
  BY RetentionBounds
<1>2. ASSUME NEW f \in Made
      PROVE  /\ f \in 1..MaxSegments /\ owner[f] \in 1..MaxSessions
             /\ StartOf(f) \in 0..(4 * MaxSegments + 3 * MaxSessions)
  <2>1. f \in 1..MaxSegments /\ owner[f] \in 1..MaxSessions
    BY MadeTypes DEF Segments, Sessions
  <2> QED
    BY <1>1, <2>1 DEF StartOf
<1>3. ASSUME NEW f \in Made
      PROVE  EndOf(f) \in Nat /\ StartOf(f) < EndOf(f)
  <2> DEFINE later == {g \in Made : g > f /\ owner[g] = owner[f]}
  <2>1. CASE later = {}
    <3>1. EndOf(f) = StartOf(f) + LastLength(f) /\ LastLength(f) \in {4, 5}
      BY <2>1 DEF EndOf, LastLength
    <3> QED
      BY <1>1, <1>2, <3>1
  <2>2. CASE later # {}
    <3>1. Least(later) \in later
      <4>1. later \in SUBSET Nat
        BY MadeTypes
      <4> HIDE DEF later
      <4> QED
        BY <2>2, <4>1, LeastIn
    <3>2. EndOf(f) = StartOf(Least(later))
      BY <2>2 DEF EndOf
    <3>3. PICK g \in Made : g > f /\ owner[g] = owner[f] /\ EndOf(f) = StartOf(g)
      BY <3>1, <3>2
    <3>4. f \in Nat /\ g \in Nat /\ owner[f] \in Nat
      BY <1>1, <1>2, <3>3
    <3> QED
      BY <3>3, <3>4 DEF StartOf
  <2> QED
    BY <2>1, <2>2
<1>4. \A s \in Playable : \E f \in Made : s = [id |-> f, start |-> StartOf(f), end |-> EndOf(f)]
  BY DEF Playable, Rows
<1>5. \A f \in Made : f \in 0..(4 * MaxSegments + 3 * MaxSessions)
  BY <1>1, <1>2
<1>6. \A s \in Playable : /\ s.start \in 0..(4 * MaxSegments + 3 * MaxSessions)
                          /\ s.id \in 0..(4 * MaxSegments + 3 * MaxSessions)
                          /\ s.end \in Nat /\ s.start < s.end
  BY <1>2, <1>3, <1>4, <1>5
<1>7. \A s, t \in Playable : s.id = t.id => s = t
  BY <1>4
<1> QED
  BY <1>6, <1>7 DEF Timed

\* Whatever is left of the rows, playback finds every covered time in its
\* segment and plays on from there up to the first gap.
THEOREM PlaybackRight == Spec => []PlaybackFollows
<1>1. Inv => PlaybackFollows
  <2> SUFFICES ASSUME Inv PROVE PlaybackFollows
    OBVIOUS
  <2> DEFINE S == Playable
             n == 4 * MaxSegments + 3 * MaxSessions
  <2>1. Timed(S, n) /\ n \in Nat
    BY PlayableTimed, RetentionBounds DEF Inv
  <2>2. \A at \in UNION {{s.start, s.end - 1, s.end} : s \in S} : at \in Int
    BY <2>1 DEF Timed
  <2> HIDE DEF S, n
  <2>3. ASSUME NEW at \in UNION {{s.start, s.end - 1, s.end} : s \in S}
        PROVE  /\ Covered(S, at) <=> Resolve(S, at) # {}
               /\ \A p \in Resolve(S, at) :
                     /\ p.segment.start + p.offset = at
                     /\ ListTimeline(S, at, at + 1) \ {p.segment} # {} => ~Apart(S)
               /\ Apart(S) => \A p \in Resolve(S, at), t \in S :
                     t.start > at => (t \in Played(S)[p.segment] <=> Continuous(S, at, t))
    <3>1. at \in Int
      BY <2>2
    <3> QED
      BY <2>1, <3>1, Follows
  <2> QED
    BY <2>3 DEF PlaybackFollows, S
<1> QED
  BY <1>1, Invariance, PTL
=============================================================================
