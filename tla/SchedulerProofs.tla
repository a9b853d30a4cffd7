-------------------------- MODULE SchedulerProofs --------------------------
(***************************************************************************)
(* For any schedules, windows, days and weeks: the type invariant of       *)
(* Scheduler, that the loop and Stop share the sessions without losing or  *)
(* doubling one, that a session is not recorded outside its window, and    *)
(* that one failure keeps no session of a window inside the day going.     *)
(***************************************************************************)
EXTENDS Scheduler, FiniteSetTheorems, TLAPS

(***************************************************************************)
(* Who has a session: an entry of active belongs to the schedule of its    *)
(* session, and what the loop or Stop holds is in no entry.                *)
(***************************************************************************)
Entries ==
    \A s \in Schedules : active[s] # None => rec[active[s]] # "none" /\ owner[active[s]] = s

Hands ==
    /\ held["loop"] # None <=> loop \in {"register", "stop", "stopOverdue"}
    /\ held["main"] # None <=> closer = "stop"
    /\ \A a \in {"loop", "main"} : held[a] # None =>
          /\ rec[held[a]] # "none" /\ owner[held[a]] \in Schedules
          /\ \A s \in Schedules : active[s] # held[a]
    /\ loop = "register" => active[owner[held["loop"]]] = None

TrackInv == Entries /\ Hands /\ SessionTracked /\ OneSession

(***************************************************************************)
(* Until Stop begins, the clock enters at most one new minute in a check,  *)
(* so a check has read the clock in this minute or in the one before.      *)
(***************************************************************************)
Busy  == loop \notin {"idle", "end"}
Began == IF checked THEN now ELSE (now - 1) % Cycle

ClockInv == closer = "idle" => loop # "end" /\ (late <=> Busy /\ ~checked)

(***************************************************************************)
(* What the loop decides with: the row of a schedule nobody edited is the  *)
(* one its session was started with.  While a check visits the schedules,  *)
(* a session that is not due is still to be visited or is being stopped.   *)
(***************************************************************************)
Kept(r)  == Live(r) /\ r \notin lost \cup edited
Deciding == loop \in {"cleanup", "visit", "register", "stop"}

Unedited ==
    \A r \in Recs : Live(r) /\ r \notin edited =>
       owner[r] \in Schedules /\ sched[owner[r]] = [state |-> "on", w |-> win[r]]

DueInv ==
    closer = "idle" /\ Deciding =>
       \A s \in due : snap[s] # None => InWindow(snap[s], Began)

Inside(r) ==
    \/ InWindow(win[r], Began)
    \/ Deciding /\ owner[r] \notin due /\ InWindow(win[r], (Began - 1) % Cycle)

StillVisited(r) ==
    Deciding =>
       owner[r] \in due \/ snap[owner[r]] # None \/ (loop = "stop" /\ held["loop"] = r)

InsideInv == closer = "idle" => \A r \in Recs : Kept(r) => Inside(r) /\ StillVisited(r)

WindowInv == ClockInv /\ Unedited /\ DueInv /\ InsideInv

(***************************************************************************)
(* The length: what its timer and one failure leave going, the watchdog    *)
(* of the first check after its last minute collects and stops.            *)
(***************************************************************************)
Spent(r)   == age[r] - (IF late THEN 1 ELSE 0)
Escaped(r) == Live(r) /\ limit[r] > 0 /\ ~timer[r]

Fresh == \A r \in Recs : rec[r] = "none" => age[r] = 0

TimerInv ==
    /\ lost # {} => faults = 1
    /\ \A r \in Recs :
          /\ Live(r) => limit[r] = Duration(win[r])
          /\ Live(r) /\ timer[r] => age[r] <= limit[r]
          /\ Escaped(r) => faults = 1 /\ lost = {}

Unmoved ==
    \A r \in Recs : Live(r) /\ r \notin moved =>
       owner[r] \in Schedules /\ sched[owner[r]].w = win[r] /\ sched[owner[r]].state # "deleted"

Caught(r) ==
    /\ loop = "idle" => ~checked
    /\ loop \in {"overdue", "stopOverdue"} => owner[r] \in over \/ held["loop"] = r

CaughtInv ==
    closer = "idle" =>
       \A r \in Recs : Escaped(r) /\ r \notin moved =>
          Spent(r) <= limit[r] + 1 /\ (Spent(r) > limit[r] => Caught(r))

LimitInv == ClockInv /\ Fresh /\ TimerInv /\ Unmoved /\ CaughtInv
-----------------------------------------------------------------------------
(* Operators: the length of a window, and what a failed read counts. *)

LEMMA DurationType ==
    ASSUME NEW w \in Windows
    PROVE  Duration(w) \in 0..DayLength
BY Clock, WindowsOK DEF Duration

LEMMA UnreadCount ==
    ASSUME NEW S \in SUBSET Schedules
    PROVE  Cardinality(S) \in Nat /\ (Cardinality(S) = 0 <=> S = {})
BY Tables, FS_Subset, FS_CardinalityType, FS_EmptySet

LEMMA CycleType == Cycle \in Nat \ {0}
BY Clock DEF Cycle

-----------------------------------------------------------------------------
(* Types *)

LEMMA TypeInit == Init => TypeOK
<1> SUFFICES ASSUME Init PROVE TypeOK
  OBVIOUS
<1>1. NoWindow \in Windows
  BY WindowsOK DEF NoWindow
<1>2. now \in 0..(Cycle - 1)
  BY DEF Init
<1>3. 0 \in Ages /\ 0 \in 0..DayLength
  BY Clock DEF Ages
<1>4. sched \in [Schedules -> [state : {"none", "on", "off", "deleted"}, w : Windows]]
  BY DEF Init
<1>5. 0 \in 0..MaxFaults /\ 0 \in 0..MaxEdits
  BY Bounds
<1>6. /\ rec \in [Recs -> {"none", "live", "over"}] /\ owner \in [Recs -> Schedules \cup {None}]
      /\ win \in [Recs -> Windows] /\ age \in [Recs -> Ages] /\ timer \in [Recs -> BOOLEAN]
      /\ limit \in [Recs -> 0..DayLength]
  BY <1>1, <1>3 DEF Init
<1>7. /\ active \in [Schedules -> Recs \cup {None}] /\ snap \in [Schedules -> Windows \cup {None}]
      /\ held \in [{"loop", "main"} -> Recs \cup {None}]
  BY DEF Init
<1> QED
  BY <1>2, <1>4, <1>5, <1>6, <1>7 DEF Init, TypeOK

\* Every variable keeps its type in every step: what is stopped is a session.
LEMMA TypeStep == TypeOK /\ Hands /\ [Next]_vars => TypeOK'
<1> SUFFICES ASSUME TypeOK, Hands, [Next]_vars PROVE TypeOK'
  OBVIOUS
<1> USE DEF TypeOK
<1> USE DEF clock, sessions, check, main, table
<1>1. CASE Tick
  <2>1. (now + 1) % Cycle \in 0..(Cycle - 1)
    BY CycleType
  <2>2. age' \in [Recs -> Ages]
    BY <1>1, Clock DEF Tick, Ages
  <2> QED
    BY <1>1, <2>1, <2>2 DEF Tick
<1>2. CASE \E r \in Recs : SessionEnds(r)
  BY <1>2 DEF SessionEnds, End
<1>3. CASE \E r \in Recs : SessionExpires(r)
  <2>1. faults' \in 0..MaxFaults
    BY <1>3, Bounds DEF SessionExpires
  <2> QED
    BY <1>3, <2>1 DEF SessionExpires, End
<1>4. CASE \E r \in Recs : SessionForgotten(r)
  <2>1. NoWindow \in Windows /\ 0 \in Ages /\ 0 \in 0..DayLength
    BY WindowsOK, Clock DEF NoWindow, Ages
  <2> QED
    BY <1>4, <2>1 DEF SessionForgotten
<1>5. ASSUME NEW s \in Schedules, NEW row \in [state : {"none", "on", "off", "deleted"}, w : Windows],
             Write(s, row)
      PROVE  TypeOK'
  <2>1. edits' \in 0..MaxEdits
    BY <1>5, Bounds DEF Write
  <2>2. edited' \subseteq Recs /\ moved' \subseteq edited'
    BY <1>5 DEF Write
  <2> QED
    BY <1>5, <2>1, <2>2 DEF Write
<1>6. CASE \E s \in Schedules : Delete(s)
  BY <1>5, <1>6 DEF Delete
<1>7. CASE \E s \in Schedules, w \in Windows : Create(s, w)
  BY <1>5, <1>7 DEF Create
<1>8. CASE \E s \in Schedules, w \in Windows, enabled \in BOOLEAN : Update(s, enabled, w)
  BY <1>5, <1>8 DEF Update
<1>9. CASE CheckLoads
  BY <1>9 DEF CheckLoads
<1>10. CASE CheckCleansUp
  <2>1. PICK unread \in SUBSET {s \in Schedules : active[s] # None /\ Live(active[s])} :
           faults' = faults + Cardinality(unread) /\ faults' <= MaxFaults
    BY <1>10 DEF CheckCleansUp
  <2>2. faults' \in 0..MaxFaults
    BY <2>1, UnreadCount, Bounds
  <2>3. lost' \subseteq Recs /\ active' \in [Schedules -> Recs \cup {None}]
    BY <1>10 DEF CheckCleansUp
  <2> QED
    BY <1>10, <2>2, <2>3 DEF CheckCleansUp
<1>11. CASE CheckRegisters
  BY <1>11 DEF CheckRegisters
<1>12. ASSUME NEW s \in Schedules, NEW r \in Recs, CheckStarts(s, r)
       PROVE  TypeOK'
  <2>1. snap[s] \in Windows /\ Duration(snap[s]) \in 0..DayLength
    BY <1>12, DurationType DEF CheckStarts
  <2> QED
    BY <1>12, <2>1 DEF CheckStarts
<1>13. CASE \E s \in Schedules : CheckPasses(s)
  BY <1>13 DEF CheckPasses
<1>14. CASE \E s \in Schedules : CheckTakes(s)
  BY <1>14 DEF CheckTakes, TakesActive
<1>15. ASSUME NEW a \in {"loop", "main"}, held[a] # None, Stops(a)
       PROVE  /\ held' \in [{"loop", "main"} -> Recs \cup {None}]
              /\ rec' \in [Recs -> {"none", "live", "over"}]
              /\ faults' \in 0..MaxFaults
              /\ lost' \subseteq Recs
  BY <1>15, Bounds DEF Stops, End
<1>16. CASE CheckStops
  <2>1. held["loop"] # None /\ Stops("loop")
    BY <1>16 DEF CheckStops, Hands
  <2> QED
    BY <1>15, <1>16, <2>1 DEF CheckStops
<1>17. CASE CheckCollects
  BY <1>17 DEF CheckCollects
<1>18. CASE \E s \in Schedules : CheckStopsOverdue(s)
  BY <1>18 DEF CheckStopsOverdue, TakesActive
<1>19. CASE CheckEnds
  BY <1>19 DEF CheckEnds
<1>20. CASE LoopEnds
  BY <1>20 DEF LoopEnds
<1>21. CASE StopCollects
  BY <1>21 DEF StopCollects
<1>22. CASE \E s \in Schedules : StopTakes(s)
  BY <1>22 DEF StopTakes, TakesActive
<1>23. CASE StopStops
  <2>1. held["main"] # None /\ Stops("main")
    BY <1>23 DEF StopStops, Hands
  <2> QED
    BY <1>15, <1>23, <2>1 DEF StopStops
<1>24. CASE StopEnds
  BY <1>24 DEF StopEnds
<1>25. CASE UNCHANGED vars
  BY <1>25 DEF vars
<1> QED
  BY <1>1, <1>2, <1>3, <1>4, <1>6, <1>7, <1>8, <1>9, <1>10, <1>11, <1>12, <1>13, <1>14, <1>16,
     <1>17, <1>18, <1>19, <1>20, <1>21, <1>22, <1>23, <1>24, <1>25
     DEF Next, CheckStep, StopStep
-----------------------------------------------------------------------------
(* The loop and Stop share the sessions *)

LEMMA TrackInit == Init => TrackInv
BY DEF Init, TrackInv, Entries, Hands, SessionTracked, OneSession, Live

\* Steps that touch no session, entry or hand, and move the loop or Stop only
\* between places where they hold nothing.
LEMMA TrackQuiet ==
    ASSUME TypeOK, TrackInv, UNCHANGED <<rec, owner, active, held, lost>>,
           loop' = loop \/ {loop, loop'} \cap {"register", "stop", "stopOverdue"} = {},
           closer' = closer \/ "stop" \notin {closer, closer'}
    PROVE  TrackInv'
<1>1. Entries' /\ SessionTracked' /\ OneSession'
  BY DEF TrackInv, Entries, SessionTracked, OneSession, Live
<1>2. loop' = "register" => loop = "register"
  OBVIOUS
<1>3. loop' \in {"register", "stop", "stopOverdue"} <=> loop \in {"register", "stop", "stopOverdue"}
  OBVIOUS
<1>4. Hands'
  BY <1>2, <1>3 DEF TrackInv, Hands
<1> QED
  BY <1>1, <1>4 DEF TrackInv

\* A session that is over, or was dropped on a failure, needs no keeper.
LEMMA TrackEnds ==
    ASSUME TypeOK, TrackInv, NEW r \in Recs, rec[r] # "none", End(r),
           UNCHANGED <<owner, active, loop, closer, held, lost>>
    PROVE  TrackInv'
<1>1. \A q \in Recs : (Live(q))' => Live(q)
  BY DEF End, Live, TypeOK
<1>2. \A q \in Recs : rec[q] # "none" => rec'[q] # "none"
  BY DEF End, TypeOK
<1>3. Entries'
  BY <1>2 DEF TrackInv, Entries, TypeOK
<1>4. Hands'
  BY <1>2 DEF TrackInv, Hands, TypeOK
<1>5. SessionTracked' /\ OneSession'
  BY <1>1 DEF TrackInv, SessionTracked, OneSession, Live
<1> QED
  BY <1>3, <1>4, <1>5 DEF TrackInv

\* Taking an entry moves its session from active into one hand.
LEMMA TrackTakes ==
    ASSUME TypeOK, TrackInv, NEW a \in {"loop", "main"}, NEW s \in Schedules,
           active[s] # None, held[a] = None, TakesActive(a, s),
           UNCHANGED <<rec, owner, lost>>,
           \/ a = "loop" /\ loop' \in {"stop", "stopOverdue"} /\ UNCHANGED closer
           \/ a = "main" /\ closer' = "stop" /\ UNCHANGED loop
    PROVE  TrackInv'
<1> DEFINE r == active[s]
<1>1. r \in Recs /\ owner[r] = s /\ rec[r] # "none"
  BY DEF TrackInv, Entries, TypeOK
<1>2. /\ held' = [held EXCEPT ![a] = r]
      /\ active' = [active EXCEPT ![s] = None]
  BY DEF TakesActive
<1>3. \A t \in Schedules : active'[t] # r /\ (active'[t] # None => active'[t] = active[t])
  BY <1>1, <1>2, Tables DEF TrackInv, Entries, TypeOK
<1>4. Entries'
  BY <1>3 DEF TrackInv, Entries
<1>5. \A b \in {"loop", "main"} : held'[b] = IF b = a THEN r ELSE held[b]
  BY <1>2 DEF TypeOK
<1>6. \A b \in {"loop", "main"} : held[b] # r
  BY <1>1, Tables DEF TrackInv, Hands
<1>7. Hands'
  <2>1. \A b \in {"loop", "main"} : held'[b] # None =>
           /\ rec'[held'[b]] # "none" /\ owner'[held'[b]] \in Schedules
           /\ \A t \in Schedules : active'[t] # held'[b]
    BY <1>1, <1>3, <1>5 DEF TrackInv, Hands
  <2>2. r # None
    BY <1>1, Tables
  <2>3. CASE a = "loop"
    BY <1>1, <1>5, <2>1, <2>2, <2>3 DEF TrackInv, Hands
  <2>4. CASE a = "main"
    <3>1. held'["main"] # None <=> closer' = "stop"
      BY <1>5, <2>2, <2>4
    <3>2. held'["loop"] = held["loop"] /\ loop' = loop
      BY <1>5, <2>4
    <3>3. loop' = "register" => active'[owner'[held'["loop"]]] = None
      BY <1>2, <3>2 DEF TrackInv, Hands, TypeOK
    <3> QED
      BY <2>1, <3>1, <3>2, <3>3 DEF TrackInv, Hands
  <2> QED
    BY <2>3, <2>4
<1>8. SessionTracked'
  <2> SUFFICES ASSUME NEW q \in Recs, Live(q)
               PROVE  \/ \E t \in Schedules : active'[t] = q
                      \/ held'["loop"] = q \/ held'["main"] = q \/ q \in lost
    BY DEF SessionTracked, Live
  <2>1. CASE q = r
    BY <1>5, <2>1
  <2>2. CASE q # r
    <3>1. \/ \E t \in Schedules : active[t] = q
          \/ held["loop"] = q \/ held["main"] = q \/ q \in lost
      BY DEF TrackInv, SessionTracked
    <3>2. \A t \in Schedules : active[t] = q => active'[t] = q
      BY <1>2, <2>2 DEF TypeOK
    <3>3. \A b \in {"loop", "main"} : held[b] = q => held'[b] = q
      BY <1>5, Tables
    <3> QED
      BY <3>1, <3>2, <3>3
  <2> QED
    BY <2>1, <2>2
<1>9. OneSession'
  BY <1>1, <1>5, <1>6, Tables DEF TrackInv, OneSession, Live
<1> QED
  BY <1>4, <1>7, <1>8, <1>9 DEF TrackInv

\* A stopped session leaves the hand: it is over, or its stop failed.
LEMMA TrackStops ==
    ASSUME TypeOK, TrackInv, NEW a \in {"loop", "main"}, held[a] # None, Stops(a),
           UNCHANGED <<owner, active>>,
           \/ a = "loop" /\ loop' \in {"visit", "overdue"} /\ UNCHANGED closer
           \/ a = "main" /\ closer' = "next" /\ UNCHANGED loop
    PROVE  TrackInv'
<1> DEFINE r == held[a]
<1>1. r \in Recs /\ rec[r] # "none" /\ r # None
  BY Tables DEF TrackInv, Hands, TypeOK
<1>2. \A b \in {"loop", "main"} : held'[b] = IF b = a THEN None ELSE held[b]
  BY DEF Stops, TypeOK
<1>3. \/ rec' = [rec EXCEPT ![r] = "over"] /\ lost' = lost
      \/ rec' = rec /\ lost' = lost \cup {r}
  BY DEF Stops, End
<1>4. \A q \in Recs : (rec[q] # "none" => rec'[q] # "none") /\ ((Live(q))' => Live(q))
  BY <1>1, <1>3 DEF Live, TypeOK
<1>5. \A q \in Recs : q \in lost => q \in lost'
  BY <1>3
<1>6. Entries'
  BY <1>4 DEF TrackInv, Entries, TypeOK
<1>7. Hands'
  <2>1. \A b \in {"loop", "main"} : held'[b] # None =>
           /\ rec'[held'[b]] # "none" /\ owner'[held'[b]] \in Schedules
           /\ \A t \in Schedules : active'[t] # held'[b]
    BY <1>2, <1>4 DEF TrackInv, Hands, TypeOK
  <2> QED
    BY <1>2, <2>1 DEF TrackInv, Hands
<1>8. SessionTracked'
  <2> SUFFICES ASSUME NEW q \in Recs, (Live(q))'
               PROVE  \/ \E t \in Schedules : active[t] = q
                      \/ held'["loop"] = q \/ held'["main"] = q \/ q \in lost'
    BY DEF SessionTracked
  <2>1. CASE q = r
    BY <1>1, <1>3, <2>1 DEF Live, TypeOK
  <2>2. CASE q # r
    BY <1>2, <1>4, <1>5, <2>2 DEF TrackInv, SessionTracked
  <2> QED
    BY <2>1, <2>2
<1>9. OneSession'
  BY <1>2, <1>4, <1>5 DEF TrackInv, OneSession
<1> QED
  BY <1>6, <1>7, <1>8, <1>9 DEF TrackInv
\* CheckStarts hands the new session to the loop: Stop has not begun, so an
\* earlier session of the schedule would be in active.
LEMMA TrackStarts ==
    ASSUME TypeOK, TrackInv, NEW s \in Schedules, NEW r \in Recs, CheckStarts(s, r)
    PROVE  TrackInv'
<1> USE DEF TypeOK
<1>1. /\ rec[r] = "none" /\ rec' = [rec EXCEPT ![r] = "live"]
      /\ owner' = [owner EXCEPT ![r] = s]
      /\ held' = [held EXCEPT !["loop"] = r] /\ loop' = "register"
      /\ active[s] = None /\ loop = "visit" /\ closer = "idle"
      /\ UNCHANGED <<active, closer, lost>>
  BY DEF CheckStarts, main
<1>2. held["loop"] = None /\ held["main"] = None
  BY <1>1 DEF TrackInv, Hands
<1>3. r # None
  BY Tables
<1>4. Entries' /\ \A t \in Schedules : active[t] # r
  BY <1>1, <1>3 DEF TrackInv, Entries
<1>5. Hands'
  BY <1>1, <1>2, <1>3, <1>4 DEF TrackInv, Hands
<1>6. SessionTracked'
  BY <1>1, <1>2 DEF TrackInv, SessionTracked, Live
<1>7. OneSession'
  <2>1. \A q \in Recs \ lost : Live(q) => owner[q] # s
    BY <1>1, <1>2, Tables DEF TrackInv, SessionTracked, Entries
  <2> QED
    BY <1>1, <1>2, <1>3, <2>1 DEF TrackInv, OneSession, Live
<1> QED
  BY <1>4, <1>5, <1>6, <1>7 DEF TrackInv

LEMMA TrackRegisters == TypeOK /\ TrackInv /\ CheckRegisters => TrackInv'
<1> SUFFICES ASSUME TypeOK, TrackInv, CheckRegisters PROVE TrackInv'
  OBVIOUS
<1> USE DEF TypeOK
<1> DEFINE r == held["loop"]
<1>1. /\ r # None /\ active' = [active EXCEPT ![owner[r]] = r]
      /\ held' = [held EXCEPT !["loop"] = None] /\ loop = "register" /\ loop' = "visit"
      /\ UNCHANGED <<rec, owner, closer, lost>>
  BY DEF CheckRegisters, TrackInv, Hands, sessions, main
<1>2. /\ r \in Recs /\ rec[r] # "none" /\ owner[r] \in Schedules /\ active[owner[r]] = None
      /\ r # held["main"]
  BY <1>1 DEF TrackInv, Hands, OneSession
<1>3. Entries'
  BY <1>1, <1>2 DEF TrackInv, Entries
<1>4. Hands'
  <2>1. held'["main"] = held["main"] /\ held'["loop"] = None
    BY <1>1
  <2>2. held["main"] # None => \A t \in Schedules : active'[t] # held["main"]
    BY <1>1, <1>2 DEF TrackInv, Hands
  <2> QED
    BY <1>1, <2>1, <2>2 DEF TrackInv, Hands
<1>5. SessionTracked'
  BY <1>1, <1>2, Tables DEF TrackInv, SessionTracked, Live
<1>6. OneSession'
  BY <1>1 DEF TrackInv, OneSession, Live
<1> QED
  BY <1>3, <1>4, <1>5, <1>6 DEF TrackInv

LEMMA TrackCleansUp == TypeOK /\ TrackInv /\ CheckCleansUp => TrackInv'
<1> SUFFICES ASSUME TypeOK, TrackInv, CheckCleansUp PROVE TrackInv'
  OBVIOUS
<1> USE DEF TypeOK
<1>1. PICK unread \in SUBSET {s \in Schedules : active[s] # None /\ Live(active[s])} :
         /\ lost' = lost \cup {r \in Recs : \E s \in unread : active[s] = r}
         /\ active' = [s \in Schedules |-> IF Stale(s) \/ s \in unread THEN None ELSE active[s]]
  BY DEF CheckCleansUp
<1>2. /\ loop = "cleanup" /\ loop' = "visit"
      /\ UNCHANGED <<rec, owner, held, closer>>
  BY DEF CheckCleansUp, sessions, main
<1>3. \A s \in Schedules : active'[s] # None => active'[s] = active[s]
  BY <1>1
<1>4. Entries'
  BY <1>2, <1>3 DEF TrackInv, Entries
<1>5. Hands'
  BY <1>2, <1>3 DEF TrackInv, Hands
<1>6. SessionTracked'
  <2> SUFFICES ASSUME NEW q \in Recs, Live(q)
               PROVE  \/ \E s \in Schedules : active'[s] = q
                      \/ held["loop"] = q \/ held["main"] = q \/ q \in lost'
    BY <1>2 DEF SessionTracked, Live
  <2>1. CASE \E s \in Schedules : active[s] = q
    <3>1. PICK s \in Schedules : active[s] = q
      BY <2>1
    <3>2. CASE s \in unread
      BY <1>1, <3>1, <3>2
    <3>3. CASE s \notin unread
      BY <1>1, <3>1, <3>3 DEF Stale
    <3> QED
      BY <3>2, <3>3
  <2> QED
    BY <1>1, <2>1 DEF TrackInv, SessionTracked
<1>7. OneSession'
  BY <1>1, <1>2 DEF TrackInv, OneSession, Live
<1> QED
  BY <1>4, <1>5, <1>6, <1>7 DEF TrackInv

LEMMA TrackForgotten ==
    ASSUME TypeOK, TrackInv, NEW r \in Recs, SessionForgotten(r)
    PROVE  TrackInv'
<1> USE DEF TypeOK
<1>1. /\ rec' = [rec EXCEPT ![r] = "none"] /\ owner' = [owner EXCEPT ![r] = None]
      /\ lost' = lost \ {r} /\ rec[r] = "over"
      /\ \A s \in Schedules : active[s] # r
      /\ \A a \in {"loop", "main"} : held[a] # r
      /\ UNCHANGED <<active, held, loop, closer>>
  BY DEF SessionForgotten, main
<1>2. Entries'
  BY <1>1 DEF TrackInv, Entries
<1>3. Hands'
  BY <1>1 DEF TrackInv, Hands
<1>4. SessionTracked' /\ OneSession'
  BY <1>1 DEF TrackInv, SessionTracked, OneSession, Live
<1> QED
  BY <1>2, <1>3, <1>4 DEF TrackInv

LEMMA TrackStep == TypeOK /\ TrackInv /\ [Next]_vars => TrackInv'
<1> SUFFICES ASSUME TypeOK, TrackInv, [Next]_vars PROVE TrackInv'
  OBVIOUS
<1> USE DEF clock, sessions, check, main, table
<1>1. CASE Tick
  BY <1>1, TrackQuiet DEF Tick
<1>2. CASE \E r \in Recs : SessionEnds(r)
  BY <1>2, TrackEnds DEF SessionEnds, Live
<1>3. ASSUME NEW r \in Recs, SessionExpires(r)
      PROVE  TrackInv'
  <2>1. CASE End(r)
    BY <1>3, <2>1, TrackEnds DEF SessionExpires, Live
  <2>2. CASE UNCHANGED rec
    BY <1>3, <2>2, TrackQuiet DEF SessionExpires
  <2> QED
    BY <1>3, <2>1, <2>2 DEF SessionExpires
<1>4. CASE \E r \in Recs : SessionForgotten(r)
  BY <1>4, TrackForgotten
<1>5. ASSUME NEW s \in Schedules, NEW row, Write(s, row)
      PROVE  TrackInv'
  BY <1>5, TrackQuiet DEF Write
<1>6. CASE \E s \in Schedules : \/ Delete(s)
                                \/ \E w \in Windows : Create(s, w) \/ \E enabled \in BOOLEAN : Update(s, enabled, w)
  BY <1>5, <1>6 DEF Delete, Create, Update
<1>7. CASE CheckLoads
  BY <1>7, TrackQuiet DEF CheckLoads
<1>8. CASE CheckCleansUp
  BY <1>8, TrackCleansUp
<1>9. CASE CheckRegisters
  BY <1>9, TrackRegisters
<1>10. CASE \E s \in Schedules, r \in Recs : CheckStarts(s, r)
  BY <1>10, TrackStarts
<1>11. CASE \E s \in Schedules : CheckPasses(s)
  BY <1>11, TrackQuiet DEF CheckPasses
<1>12. CASE \E s \in Schedules : CheckTakes(s)
  <2>1. held["loop"] = None
    BY <1>12 DEF CheckTakes, TrackInv, Hands
  <2> QED
    BY <1>12, <2>1, TrackTakes DEF CheckTakes
<1>13. CASE CheckStops
  <2>1. held["loop"] # None
    BY <1>13 DEF CheckStops, TrackInv, Hands
  <2> QED
    BY <1>13, <2>1, TrackStops DEF CheckStops
<1>14. CASE CheckCollects
  BY <1>14, TrackQuiet DEF CheckCollects
<1>15. ASSUME NEW s \in Schedules, CheckStopsOverdue(s)
       PROVE  TrackInv'
  <2>1. held["loop"] = None
    BY <1>15 DEF CheckStopsOverdue, TrackInv, Hands
  <2>2. CASE active[s] = None
    BY <1>15, <2>2, TrackQuiet DEF CheckStopsOverdue
  <2>3. CASE active[s] # None
    BY <1>15, <2>1, <2>3, TrackTakes DEF CheckStopsOverdue
  <2> QED
    BY <2>2, <2>3
<1>16. CASE CheckEnds
  BY <1>16, TrackQuiet DEF CheckEnds
<1>17. CASE LoopEnds
  BY <1>17, TrackQuiet DEF LoopEnds
<1>18. CASE StopCollects
  BY <1>18, TrackQuiet DEF StopCollects
<1>19. ASSUME NEW s \in Schedules, StopTakes(s)
       PROVE  TrackInv'
  <2>1. held["main"] = None
    BY <1>19 DEF StopTakes, TrackInv, Hands
  <2>2. CASE active[s] = None
    BY <1>19, <2>2, TrackQuiet DEF StopTakes
  <2>3. CASE active[s] # None
    BY <1>19, <2>1, <2>3, TrackTakes DEF StopTakes
  <2> QED
    BY <2>2, <2>3
<1>20. CASE StopStops
  <2>1. held["main"] # None
    BY <1>20 DEF StopStops, TrackInv, Hands
  <2> QED
    BY <1>20, <2>1, TrackStops DEF StopStops
<1>21. CASE StopEnds
  BY <1>21, TrackQuiet DEF StopEnds
<1>22. CASE UNCHANGED vars
  BY <1>22, TrackQuiet DEF vars
<1> QED
  BY <1>1, <1>2, <1>3, <1>4, <1>6, <1>7, <1>8, <1>9, <1>10, <1>11, <1>12, <1>13, <1>14, <1>15,
     <1>16, <1>17, <1>18, <1>19, <1>20, <1>21, <1>22
     DEF Next, CheckStep, StopStep

\* Every variable keeps its type.
THEOREM Typing == Spec => []TypeOK
<1>1. Init => TypeOK /\ TrackInv
  BY TypeInit, TrackInit
<1>2. TypeOK /\ TrackInv /\ [Next]_vars => TypeOK' /\ TrackInv'
  BY TypeStep, TrackStep DEF TrackInv
<1> QED
  BY <1>1, <1>2, PTL DEF Spec

LEMMA Tracked == Spec => [](TypeOK /\ TrackInv)
<1>1. Init => TypeOK /\ TrackInv
  BY TypeInit, TrackInit
<1>2. TypeOK /\ TrackInv /\ [Next]_vars => TypeOK' /\ TrackInv'
  BY TypeStep, TrackStep DEF TrackInv
<1> QED
  BY <1>1, <1>2, PTL DEF Spec

\* The loop and Stop share the sessions without losing or doubling one
\* (cleanup, visit, stopSchedule, watchdogStop and Stop all work on active).
THEOREM Accounted == Spec => []SessionsAccounted
<1>1. TypeOK /\ TrackInv => SessionsAccounted
  BY DEF TrackInv, SessionsAccounted
<1> QED
  BY <1>1, Tracked, PTL
-----------------------------------------------------------------------------
(* A session is not recorded outside its window *)

LEMMA MinuteBefore ==
    ASSUME NEW t \in 0..(Cycle - 1)
    PROVE  /\ (t + 1) % Cycle \in 0..(Cycle - 1) /\ (t - 1) % Cycle \in 0..(Cycle - 1)
           /\ (((t + 1) % Cycle) - 1) % Cycle = t
           /\ (((t - 1) % Cycle) - 1) % Cycle = (t - 2) % Cycle
           /\ (t - 0) % Cycle = t
<1> DEFINE K == Cycle
<1>1. K \in Nat \ {0}
  BY CycleType
<1> HIDE DEF K
<1> SUFFICES ASSUME NEW u \in 0..(K - 1)
             PROVE  /\ (u + 1) % K \in 0..(K - 1) /\ (u - 1) % K \in 0..(K - 1)
                    /\ (((u + 1) % K) - 1) % K = u
                    /\ (((u - 1) % K) - 1) % K = (u - 2) % K
                    /\ (u - 0) % K = u
  BY DEF K
<1> QED
  BY <1>1

\* The minutes of a window are those inScheduleWindow finds inside it.
LEMMA InsideMinutes ==
    ASSUME NEW w \in Windows, NEW t \in 0..(Cycle - 1), InWindow(w, t)
    PROVE  t \in Minutes(w)
<1> DEFINE m == t % DayLength
           d == t \div DayLength
<1>1. t \in Nat /\ DayLength \in Nat \ {0}
  BY CycleType, Clock
<1>2. m \in 0..(DayLength - 1) /\ t = d * DayLength + m
  <2> SUFFICES ASSUME NEW D \in Nat \ {0}, NEW u \in Nat
               PROVE  u % D \in 0..(D - 1) /\ u = (u \div D) * D + (u % D)
    BY <1>1
  <2> QED
    OBVIOUS
<1>3. d \in w.days
  BY DEF InWindow
<1>4. w.from \in 0..(DayLength - 1) /\ w.to \in 0..(DayLength - 1)
  BY WindowsOK
<1> DEFINE M == IF w.from <= w.to THEN w.from..(w.to - 1)
                                  ELSE 0..(w.to - 1) \cup w.from..(DayLength - 1)
<1>5. m \in M
  <2>1. IF w.from <= w.to THEN m >= w.from /\ m < w.to ELSE m >= w.from \/ m < w.to
    BY DEF InWindow
  <2> HIDE DEF m
  <2> QED
    BY <1>1, <1>2, <1>4, <2>1
<1> HIDE DEF m, d, M
<1>6. d * DayLength + m \in {day * DayLength + n : day \in w.days, n \in M}
  BY <1>3, <1>5
<1> QED
  BY <1>2, <1>6 DEF Minutes, M

LEMMA ClockStep == TypeOK /\ ClockInv /\ [Next]_vars => ClockInv'
<1> SUFFICES ASSUME TypeOK, ClockInv, [Next]_vars PROVE ClockInv'
  OBVIOUS
<1> USE DEF ClockInv, Busy, TypeOK
<1> USE DEF clock, sessions, check, main, table
<1>1. CASE Tick
  BY <1>1 DEF Tick
<1>2. CASE \E r \in Recs : SessionEnds(r) \/ SessionExpires(r) \/ SessionForgotten(r)
  BY <1>2 DEF SessionEnds, SessionExpires, SessionForgotten
<1>3. CASE \E s \in Schedules : \/ Delete(s)
                                \/ \E w \in Windows : Create(s, w) \/ \E enabled \in BOOLEAN : Update(s, enabled, w)
  BY <1>3 DEF Delete, Create, Update, Write
<1>4. CASE CheckLoads \/ CheckCleansUp \/ CheckRegisters \/ CheckStops \/ CheckCollects \/ CheckEnds \/ LoopEnds
  BY <1>4 DEF CheckLoads, CheckCleansUp, CheckRegisters, CheckStops, CheckCollects, CheckEnds, LoopEnds
<1>5. CASE \E s \in Schedules : \/ CheckPasses(s) \/ CheckTakes(s) \/ CheckStopsOverdue(s)
                                \/ \E r \in Recs : CheckStarts(s, r)
  BY <1>5 DEF CheckPasses, CheckTakes, CheckStopsOverdue, CheckStarts
<1>6. CASE StopCollects \/ StopStep
  BY <1>6 DEF StopCollects, StopStep, StopStops, StopEnds, StopTakes
<1>7. CASE UNCHANGED vars
  BY <1>7 DEF vars
<1> QED
  BY <1>1, <1>2, <1>3, <1>4, <1>5, <1>6, <1>7 DEF Next, CheckStep
\* A session keeps its schedule, window and length for as long as it is
\* recorded, and what has become of it is remembered.
LEMMA SameSession ==
    ASSUME TypeOK, TrackInv, [Next]_vars, NEW r \in Recs, (Live(r))'
    PROVE  \/ /\ Live(r) /\ owner'[r] = owner[r] /\ win'[r] = win[r] /\ limit'[r] = limit[r]
              /\ (timer'[r] => timer[r])
              /\ (r \in lost => r \in lost') /\ (r \in edited => r \in edited')
              /\ (r \in moved => r \in moved')
           \/ \E s \in Schedules : CheckStarts(s, r)
<1> USE DEF TypeOK, Live
<1> USE DEF clock, sessions, check, main, table
<1>1. CASE Tick
  BY <1>1 DEF Tick
<1>2. CASE \E q \in Recs : SessionEnds(q) \/ SessionExpires(q)
  BY <1>2 DEF SessionEnds, SessionExpires, End
<1>3. CASE \E q \in Recs : SessionForgotten(q)
  BY <1>3 DEF SessionForgotten
<1>4. CASE \E s \in Schedules : \/ Delete(s)
                                \/ \E w \in Windows : Create(s, w) \/ \E enabled \in BOOLEAN : Update(s, enabled, w)
  BY <1>4 DEF Delete, Create, Update, Write
<1>5. CASE CheckLoads \/ CheckRegisters \/ CheckCollects \/ CheckEnds \/ LoopEnds
  BY <1>5 DEF CheckLoads, CheckRegisters, CheckCollects, CheckEnds, LoopEnds
<1>6. CASE CheckCleansUp
  BY <1>6 DEF CheckCleansUp
<1>7. CASE CheckStops
  BY <1>7 DEF CheckStops, Stops, End
<1>8. CASE \E s \in Schedules : CheckPasses(s) \/ CheckTakes(s) \/ CheckStopsOverdue(s)
  BY <1>8 DEF CheckPasses, CheckTakes, CheckStopsOverdue
<1>9. CASE \E s \in Schedules, q \in Recs : CheckStarts(s, q)
  <2>1. PICK s \in Schedules, q \in Recs : CheckStarts(s, q)
    BY <1>9
  <2>2. CASE q = r
    BY <2>1, <2>2
  <2>3. CASE q # r
    BY <2>1, <2>3 DEF CheckStarts
  <2> QED
    BY <2>2, <2>3
<1>10. CASE StopCollects \/ StopEnds \/ \E s \in Schedules : StopTakes(s)
  BY <1>10 DEF StopCollects, StopEnds, StopTakes
<1>11. CASE StopStops
  BY <1>11 DEF StopStops, Stops, End
<1>12. CASE UNCHANGED vars
  BY <1>12 DEF vars
<1> QED
  BY <1>1, <1>2, <1>3, <1>4, <1>5, <1>6, <1>7, <1>8, <1>9, <1>10, <1>11, <1>12
     DEF Next, CheckStep, StopStep

\* Only a request changes a schedule.
LEMMA SameRow ==
    ASSUME TypeOK, [Next]_vars
    PROVE  \/ UNCHANGED sched
           \/ \E s \in Schedules, row \in [state : {"on", "off", "deleted"}, w : Windows] : Write(s, row)
<1> USE DEF TypeOK
<1> USE DEF clock, sessions, check, main, table
<1>1. CASE Tick
  BY <1>1 DEF Tick
<1>2. CASE \E r \in Recs : SessionEnds(r) \/ SessionExpires(r) \/ SessionForgotten(r)
  BY <1>2 DEF SessionEnds, SessionExpires, SessionForgotten
<1>3. CASE \E s \in Schedules : Delete(s)
  BY <1>3 DEF Delete
<1>4. CASE \E s \in Schedules, w \in Windows : Create(s, w) \/ \E enabled \in BOOLEAN : Update(s, enabled, w)
  BY <1>4 DEF Create, Update
<1>5. CASE CheckLoads \/ CheckCleansUp \/ CheckRegisters \/ CheckStops \/ CheckCollects \/ CheckEnds \/ LoopEnds
  BY <1>5 DEF CheckLoads, CheckCleansUp, CheckRegisters, CheckStops, CheckCollects, CheckEnds, LoopEnds
<1>6. CASE \E s \in Schedules : \/ CheckPasses(s) \/ CheckTakes(s) \/ CheckStopsOverdue(s)
                                \/ \E r \in Recs : CheckStarts(s, r)
  BY <1>6 DEF CheckPasses, CheckTakes, CheckStopsOverdue, CheckStarts
<1>7. CASE StopCollects \/ StopStep
  BY <1>7 DEF StopCollects, StopStep, StopStops, StopEnds, StopTakes
<1>8. CASE UNCHANGED vars
  BY <1>8 DEF vars
<1> QED
  BY <1>1, <1>2, <1>3, <1>4, <1>5, <1>6, <1>7, <1>8 DEF Next, CheckStep

LEMMA UneditedStep == TypeOK /\ TrackInv /\ Unedited /\ [Next]_vars => Unedited'
<1> SUFFICES ASSUME TypeOK, TrackInv, Unedited, [Next]_vars,
                    NEW r \in Recs, (Live(r))', r \notin edited'
             PROVE  owner'[r] \in Schedules /\ sched'[owner'[r]] = [state |-> "on", w |-> win'[r]]
  BY DEF Unedited
<1>1. CASE \E s \in Schedules : CheckStarts(s, r)
  <2>1. PICK s \in Schedules : CheckStarts(s, r)
    BY <1>1
  <2>2. owner'[r] = s /\ win'[r] = snap[s] /\ sched' = sched
    BY <2>1 DEF CheckStarts, TypeOK
  <2>3. sched[s].w = snap[s] /\ sched[s].state = "on"
    BY <2>1 DEF CheckStarts
  <2>4. sched[s] \in [state : {"none", "on", "off", "deleted"}, w : Windows]
    BY DEF TypeOK
  <2> QED
    BY <2>2, <2>3, <2>4
<1>2. CASE ~\E s \in Schedules : CheckStarts(s, r)
  <2>1. /\ Live(r) /\ owner'[r] = owner[r] /\ win'[r] = win[r] /\ r \notin edited
    BY <1>2, SameSession
  <2>2. owner[r] \in Schedules /\ sched[owner[r]] = [state |-> "on", w |-> win[r]]
    BY <2>1 DEF Unedited
  <2>3. ASSUME NEW s \in Schedules, NEW row, Write(s, row)
        PROVE  sched'[owner[r]] = sched[owner[r]]
    <3>1. owner[r] # s
      BY <2>1, <2>3 DEF Write
    <3>2. sched' = [sched EXCEPT ![s] = row]
      BY <2>3 DEF Write
    <3> QED
      BY <2>2, <3>1, <3>2 DEF TypeOK
  <2>4. sched'[owner[r]] = sched[owner[r]]
    BY <2>3, SameRow
  <2> QED
    BY <2>1, <2>2, <2>4
<1> QED
  BY <1>1, <1>2

LEMMA UnmovedStep == TypeOK /\ TrackInv /\ Unmoved /\ [Next]_vars => Unmoved'
<1> SUFFICES ASSUME TypeOK, TrackInv, Unmoved, [Next]_vars,
                    NEW r \in Recs, (Live(r))', r \notin moved'
             PROVE  /\ owner'[r] \in Schedules /\ sched'[owner'[r]].w = win'[r]
                    /\ sched'[owner'[r]].state # "deleted"
  BY DEF Unmoved
<1>1. CASE \E s \in Schedules : CheckStarts(s, r)
  <2>1. PICK s \in Schedules : CheckStarts(s, r)
    BY <1>1
  <2>2. owner'[r] = s /\ win'[r] = snap[s] /\ sched' = sched
    BY <2>1 DEF CheckStarts, TypeOK
  <2>3. sched[s].w = snap[s] /\ sched[s].state # "deleted"
    BY <2>1 DEF CheckStarts
  <2> QED
    BY <2>2, <2>3
<1>2. CASE ~\E s \in Schedules : CheckStarts(s, r)
  <2>1. /\ Live(r) /\ owner'[r] = owner[r] /\ win'[r] = win[r] /\ r \notin moved
    BY <1>2, SameSession
  <2>2. owner[r] \in Schedules /\ sched[owner[r]].w = win[r] /\ sched[owner[r]].state # "deleted"
    BY <2>1 DEF Unmoved
  <2>3. ASSUME NEW s \in Schedules, NEW row, Write(s, row)
        PROVE  /\ sched'[owner[r]].w = sched[owner[r]].w
               /\ sched'[owner[r]].state = "deleted" => sched[owner[r]].state = "deleted"
    <3>1. sched' = [sched EXCEPT ![s] = row]
      BY <2>3 DEF Write
    <3>2. CASE owner[r] = s
      BY <2>1, <2>3, <3>1, <3>2 DEF Write, TypeOK
    <3>3. CASE owner[r] # s
      BY <2>2, <3>1, <3>3 DEF TypeOK
    <3> QED
      BY <3>2, <3>3
  <2> QED
    BY <2>1, <2>2, <2>3, SameRow
<1> QED
  BY <1>1, <1>2
\* Until Stop begins, a session nobody has in hand is the entry of its schedule.
LEMMA InActive ==
    ASSUME TypeOK, TrackInv, closer = "idle", NEW r \in Recs, Live(r), r \notin lost, held["loop"] # r
    PROVE  owner[r] \in Schedules /\ active[owner[r]] = r
<1>1. held["main"] # r
  BY Tables DEF TrackInv, Hands
<1>2. PICK s \in Schedules : active[s] = r
  BY <1>1 DEF TrackInv, SessionTracked
<1> QED
  BY <1>2, Tables DEF TrackInv, Entries

\* Only the beginning of a check moves Began: the minute in which it ends is
\* at most the next one.
LEMMA BeganStep ==
    ASSUME TypeOK, [Next]_vars, closer' = "idle", ~CheckLoads
    PROVE  closer = "idle" /\ Began' = Began
<1> USE DEF clock, sessions, check, main, table
<1>1. CASE Tick
  <2>1. closer = "idle" /\ checked /\ ~checked' /\ now' = (now + 1) % Cycle
    BY <1>1 DEF Tick
  <2>2. (now' - 1) % Cycle = now
    BY <2>1, MinuteBefore DEF TypeOK
  <2> QED
    BY <2>1, <2>2 DEF Began
<1> USE DEF Began
<1>2. CASE \E r \in Recs : SessionEnds(r) \/ SessionExpires(r) \/ SessionForgotten(r)
  BY <1>2 DEF SessionEnds, SessionExpires, SessionForgotten
<1>3. CASE \E s \in Schedules : \/ Delete(s)
                                \/ \E w \in Windows : Create(s, w) \/ \E enabled \in BOOLEAN : Update(s, enabled, w)
  BY <1>3 DEF Delete, Create, Update, Write
<1>4. CASE CheckCleansUp \/ CheckRegisters \/ CheckStops \/ CheckCollects \/ CheckEnds \/ LoopEnds
  BY <1>4 DEF CheckCleansUp, CheckRegisters, CheckStops, CheckCollects, CheckEnds, LoopEnds
<1>5. CASE \E s \in Schedules : \/ CheckPasses(s) \/ CheckTakes(s) \/ CheckStopsOverdue(s)
                                \/ \E r \in Recs : CheckStarts(s, r)
  BY <1>5 DEF CheckPasses, CheckTakes, CheckStopsOverdue, CheckStarts
<1>6. CASE StopCollects \/ StopStep
  BY <1>6 DEF StopCollects, StopStep, StopStops, StopEnds, StopTakes, TakesActive, TypeOK
<1>7. CASE UNCHANGED vars
  BY <1>7 DEF vars
<1> QED
  BY <1>1, <1>2, <1>3, <1>4, <1>5, <1>6, <1>7 DEF Next, CheckStep

\* Within a check, what was loaded is only visited, and nothing becomes due.
LEMMA CheckFrame ==
    ASSUME TypeOK, [Next]_vars, ~CheckLoads, Deciding'
    PROVE  /\ Deciding /\ due' = due
           /\ \A s \in Schedules : snap'[s] # None => snap'[s] = snap[s]
<1> USE DEF clock, sessions, check, main, table, Deciding
<1>1. CASE Tick
  BY <1>1 DEF Tick
<1>2. CASE \E r \in Recs : SessionEnds(r) \/ SessionExpires(r) \/ SessionForgotten(r)
  BY <1>2 DEF SessionEnds, SessionExpires, SessionForgotten
<1>3. CASE \E s \in Schedules : \/ Delete(s)
                                \/ \E w \in Windows : Create(s, w) \/ \E enabled \in BOOLEAN : Update(s, enabled, w)
  BY <1>3 DEF Delete, Create, Update, Write
<1>4. CASE CheckCleansUp \/ CheckRegisters \/ CheckStops \/ CheckCollects \/ CheckEnds \/ LoopEnds
  BY <1>4 DEF CheckCleansUp, CheckRegisters, CheckStops, CheckCollects, CheckEnds, LoopEnds
<1>5. CASE \E s \in Schedules : \/ CheckPasses(s) \/ CheckTakes(s) \/ CheckStopsOverdue(s)
                                \/ \E r \in Recs : CheckStarts(s, r)
  BY <1>5 DEF CheckPasses, CheckTakes, CheckStopsOverdue, CheckStarts, TypeOK
<1>6. CASE StopCollects \/ StopStep
  BY <1>6 DEF StopCollects, StopStep, StopStops, StopEnds, StopTakes
<1>7. CASE UNCHANGED vars
  BY <1>7 DEF vars
<1> QED
  BY <1>1, <1>2, <1>3, <1>4, <1>5, <1>6, <1>7 DEF Next, CheckStep

LEMMA DueStep == TypeOK /\ DueInv /\ [Next]_vars => DueInv'
<1> SUFFICES ASSUME TypeOK, DueInv, [Next]_vars, closer' = "idle", Deciding',
                    NEW s \in due', snap'[s] # None
             PROVE  (InWindow(snap[s], Began))'
  BY DEF DueInv
<1>1. CASE CheckLoads
  <2>1. s \in Schedules /\ snap'[s] = sched[s].w /\ InWindow(sched[s].w, now)
    BY <1>1 DEF CheckLoads
  <2>2. Began' = now
    BY <1>1 DEF CheckLoads, Began
  <2>3. InWindow(snap'[s], Began')
    BY <2>1, <2>2
  <2> QED
    BY <2>3 DEF InWindow
<1>2. CASE ~CheckLoads
  <2>1. closer = "idle" /\ Began' = Began
    BY <1>2, BeganStep
  <2>2. Deciding /\ s \in due /\ s \in Schedules /\ snap'[s] = snap[s]
    BY <1>2, CheckFrame DEF TypeOK
  <2>3. InWindow(snap[s], Began)
    BY <2>1, <2>2 DEF DueInv
  <2> QED
    BY <2>1, <2>2, <2>3 DEF InWindow
<1> QED
  BY <1>1, <1>2
\* A check that begins finds what was due in the minute of the check before.
LEMMA InsideLoads ==
    ASSUME TypeOK, WindowInv, CheckLoads, closer = "idle", NEW r \in Recs, Kept(r)
    PROVE  (Inside(r) /\ StillVisited(r))'
<1> DEFINE w == win[r]
<1>1. owner[r] \in Schedules /\ sched[owner[r]] = [state |-> "on", w |-> w] /\ w \in Windows
  BY DEF WindowInv, Unedited, Kept, TypeOK
<1>2. /\ loop = "idle" /\ loop' = "cleanup" /\ checked' /\ ~late
      /\ snap' = [s \in Schedules |-> IF sched[s].state = "on" THEN sched[s].w ELSE None]
      /\ due' = {s \in Schedules : sched[s].state = "on" /\ InWindow(sched[s].w, now)}
      /\ UNCHANGED <<owner, win, now>>
  BY DEF CheckLoads, WindowInv, ClockInv, Busy, sessions
<1>3. InWindow(w, Began)
  BY <1>2 DEF WindowInv, InsideInv, Inside, Deciding
<1>4. Began' = now
  BY <1>2 DEF Began
<1>5. StillVisited(r)'
  BY <1>1, <1>2, Tables DEF StillVisited
<1>6. InWindow(w, Began') \/ InWindow(w, (Began' - 1) % Cycle)
  BY <1>3, <1>4 DEF Began
<1>7. owner[r] \in due' => InWindow(w, Began')
  BY <1>1, <1>2, <1>4
<1>8. InWindow(win'[r], Began') \/ (owner'[r] \notin due' /\ InWindow(win'[r], (Began' - 1) % Cycle))
  BY <1>2, <1>6, <1>7
<1>9. Deciding'
  BY <1>2 DEF Deciding
<1>10. Inside(r)'
  BY <1>8, <1>9 DEF Inside, InWindow
<1> QED
  BY <1>5, <1>10

\* Each schedule a check has loaded is visited before the check goes on.
LEMMA VisitedStep ==
    ASSUME TypeOK, TrackInv, [Next]_vars, ~CheckLoads, closer = "idle", closer' = "idle",
           NEW r \in Recs, Kept(r), Kept(r)', StillVisited(r), Deciding',
           owner'[r] = owner[r]
    PROVE  \/ owner[r] \in due' \/ snap'[owner[r]] # None
           \/ loop' = "stop" /\ held'["loop"] = r
<1>1. Deciding /\ due' = due
  BY CheckFrame
<1> USE DEF TypeOK, Kept
<1> USE DEF clock, sessions, check, main, table
<1>2. owner[r] \in due \/ snap[owner[r]] # None \/ (loop = "stop" /\ held["loop"] = r)
  BY <1>1 DEF StillVisited
<1>3. CASE owner[r] \in due
  BY <1>1, <1>3
<1>4. CASE loop = "stop" /\ held["loop"] = r
  <2>1. ~CheckStops
    BY <1>4, Tables DEF CheckStops, Stops, End, Live
  <2>2. loop' = loop /\ held'["loop"] = held["loop"]
    <3>1. CASE Tick
      BY <3>1 DEF Tick
    <3>2. CASE \E q \in Recs : SessionEnds(q) \/ SessionExpires(q) \/ SessionForgotten(q)
      BY <3>2 DEF SessionEnds, SessionExpires, SessionForgotten
    <3>3. CASE \E s \in Schedules : \/ Delete(s)
                                    \/ \E w \in Windows : Create(s, w) \/ \E enabled \in BOOLEAN : Update(s, enabled, w)
      BY <3>3 DEF Delete, Create, Update, Write
    <3>4. CASE CheckStep
      BY <1>4, <2>1, <3>4 DEF CheckStep, CheckLoads, CheckCleansUp, CheckRegisters, CheckCollects,
            CheckEnds, LoopEnds, CheckPasses, CheckTakes, CheckStopsOverdue, CheckStarts
    <3>5. CASE StopCollects \/ StopStep
      BY <3>5 DEF StopCollects, StopStep, StopStops, StopEnds, StopTakes
    <3>6. CASE UNCHANGED vars
      BY <3>6 DEF vars
    <3> QED
      BY <3>1, <3>2, <3>3, <3>4, <3>5, <3>6 DEF Next
  <2> QED
    BY <1>4, <2>2
<1>5. CASE owner[r] \notin due /\ snap[owner[r]] # None /\ ~(loop = "stop" /\ held["loop"] = r)
  <2>1. CASE \E s \in Schedules : CheckPasses(s)
    <3>1. PICK s \in Schedules : CheckPasses(s)
      BY <2>1
    <3>2. loop = "visit" /\ (s \in due \/ active[s] = None) /\ snap' = [snap EXCEPT ![s] = None]
      BY <3>1 DEF CheckPasses
    <3>3. held["loop"] = None
      BY <3>2 DEF TrackInv, Hands
    <3>4. owner[r] \in Schedules /\ active[owner[r]] = r
      BY <3>3, InActive, Tables
    <3>5. owner[r] # s
      BY <1>5, <3>2, <3>4, Tables
    <3> QED
      BY <1>5, <3>2, <3>4, <3>5
  <2>2. CASE \E s \in Schedules : CheckTakes(s)
    <3>1. PICK s \in Schedules : CheckTakes(s)
      BY <2>2
    <3>2. /\ loop = "visit" /\ loop' = "stop" /\ snap' = [snap EXCEPT ![s] = None]
          /\ held' = [held EXCEPT !["loop"] = active[s]]
      BY <3>1 DEF CheckTakes, TakesActive
    <3>3. held["loop"] = None
      BY <3>2 DEF TrackInv, Hands
    <3>4. owner[r] \in Schedules /\ active[owner[r]] = r
      BY <3>3, InActive, Tables
    <3> QED
      BY <1>5, <3>2, <3>4
  <2>3. CASE \E s \in Schedules, q \in Recs : CheckStarts(s, q)
    BY <1>5, <2>3 DEF CheckStarts
  <2>4. CASE ~ \E s \in Schedules : \/ CheckPasses(s) \/ CheckTakes(s)
                                    \/ \E q \in Recs : CheckStarts(s, q)
    <3>1. snap' = snap
      <4>1. CASE Tick
        BY <4>1 DEF Tick
      <4>2. CASE \E q \in Recs : SessionEnds(q) \/ SessionExpires(q) \/ SessionForgotten(q)
        BY <4>2 DEF SessionEnds, SessionExpires, SessionForgotten
      <4>3. CASE \E s \in Schedules : \/ Delete(s)
                                      \/ \E w \in Windows : Create(s, w) \/ \E enabled \in BOOLEAN : Update(s, enabled, w)
        BY <4>3 DEF Delete, Create, Update, Write
      <4>4. CASE CheckStep
        BY <2>4, <4>4 DEF CheckStep, CheckLoads, CheckCleansUp, CheckRegisters, CheckCollects,
              CheckEnds, LoopEnds, CheckStops, CheckStopsOverdue
      <4>5. CASE StopCollects \/ StopStep
        BY <4>5 DEF StopCollects, StopStep, StopStops, StopEnds, StopTakes
      <4>6. CASE UNCHANGED vars
        BY <4>6 DEF vars
      <4> QED
        BY <4>1, <4>2, <4>3, <4>4, <4>5, <4>6 DEF Next
    <3> QED
      BY <1>5, <3>1
  <2> QED
    BY <2>1, <2>2, <2>3, <2>4
<1> QED
  BY <1>2, <1>3, <1>4, <1>5

\* The loop leaves the visits when all schedules are visited.
LEMMA VisitsEnd ==
    ASSUME TypeOK, [Next]_vars, Deciding, ~Deciding'
    PROVE  loop = "visit" /\ \A s \in Schedules : snap[s] = None
<1> USE DEF clock, sessions, check, main, table, Deciding
<1>1. CASE Tick
  BY <1>1 DEF Tick
<1>2. CASE \E r \in Recs : SessionEnds(r) \/ SessionExpires(r) \/ SessionForgotten(r)
  BY <1>2 DEF SessionEnds, SessionExpires, SessionForgotten
<1>3. CASE \E s \in Schedules : \/ Delete(s)
                                \/ \E w \in Windows : Create(s, w) \/ \E enabled \in BOOLEAN : Update(s, enabled, w)
  BY <1>3 DEF Delete, Create, Update, Write
<1>4. CASE CheckStep
  BY <1>4 DEF CheckStep, CheckLoads, CheckCleansUp, CheckRegisters, CheckStops, CheckCollects, CheckEnds,
        LoopEnds, CheckPasses, CheckTakes, CheckStopsOverdue, CheckStarts
<1>5. CASE StopCollects \/ StopStep
  BY <1>5 DEF StopCollects, StopStep, StopStops, StopEnds, StopTakes
<1>6. CASE UNCHANGED vars
  BY <1>6 DEF vars
<1> QED
  BY <1>1, <1>2, <1>3, <1>4, <1>5, <1>6 DEF Next
LEMMA InsideStep ==
    TypeOK /\ TrackInv /\ WindowInv /\ [Next]_vars => InsideInv'
<1> SUFFICES ASSUME TypeOK, TrackInv, WindowInv, [Next]_vars, closer' = "idle",
                    NEW r \in Recs, Kept(r)'
             PROVE  (Inside(r) /\ StillVisited(r))'
  BY DEF InsideInv
<1>1. CASE \E s \in Schedules : CheckStarts(s, r)
  <2>1. PICK s \in Schedules : CheckStarts(s, r)
    BY <1>1
  <2>2. /\ s \in due /\ snap[s] # None /\ due' = due /\ loop = "visit" /\ loop' = "register"
        /\ owner'[r] = s /\ win'[r] = snap[s] /\ Began' = Began /\ closer = "idle"
    BY <2>1 DEF CheckStarts, TypeOK, Began, clock
  <2>3. InWindow(win'[r], Began')
    BY <2>2 DEF WindowInv, DueInv, Deciding
  <2>4. Inside(r)'
    BY <2>3 DEF Inside, InWindow
  <2> QED
    BY <2>2, <2>4 DEF StillVisited
<1>2. CASE ~\E s \in Schedules : CheckStarts(s, r)
  <2>1. Kept(r) /\ owner'[r] = owner[r] /\ win'[r] = win[r]
    BY <1>2, SameSession DEF Kept, Live
  <2>2. CASE CheckLoads
    <3>1. closer = "idle"
      BY <2>2 DEF CheckLoads, main
    <3> QED
      BY <2>1, <2>2, <3>1, InsideLoads
  <2>3. CASE ~CheckLoads
    <3>1. closer = "idle" /\ Began' = Began
      BY <2>3, BeganStep
    <3>2. Inside(r) /\ StillVisited(r)
      BY <2>1, <3>1 DEF WindowInv, InsideInv
    <3>3. CASE Deciding'
      <4>1. Deciding /\ due' = due
        BY <2>3, <3>3, CheckFrame
      <4>2. InWindow(win[r], Began) \/ (owner[r] \notin due /\ InWindow(win[r], (Began - 1) % Cycle))
        BY <3>2 DEF Inside
      <4>3. InWindow(win'[r], Began') \/ (owner'[r] \notin due' /\ InWindow(win'[r], (Began' - 1) % Cycle))
        BY <2>1, <3>1, <4>1, <4>2
      <4>4. Inside(r)'
        BY <3>3, <4>3 DEF Inside, InWindow
      <4>5. StillVisited(r)'
        BY <2>1, <2>3, <3>1, <3>2, <3>3, VisitedStep DEF StillVisited
      <4> QED
        BY <4>4, <4>5
    <3>4. CASE ~Deciding'
      <4>1. InWindow(win[r], Began)
        <5>1. CASE ~Deciding
          BY <3>2, <5>1 DEF Inside
        <5>2. CASE Deciding
          <6>1. loop = "visit" /\ \A s \in Schedules : snap[s] = None
            BY <3>4, <5>2, VisitsEnd
          <6>2. owner[r] \in Schedules
            BY <2>1 DEF WindowInv, Unedited, Kept
          <6>3. owner[r] \in due
            BY <3>2, <5>2, <6>1, <6>2 DEF StillVisited
          <6> QED
            BY <3>2, <6>3 DEF Inside
        <5> QED
          BY <5>1, <5>2
      <4>2. InWindow(win'[r], Began')
        BY <2>1, <3>1, <4>1
      <4>3. Inside(r)'
        BY <4>2 DEF Inside, InWindow
      <4> QED
        BY <3>4, <4>3 DEF StillVisited
    <3> QED
      BY <3>3, <3>4
  <2> QED
    BY <2>2, <2>3
<1> QED
  BY <1>1, <1>2

\* A session of a schedule nobody edited is not recorded more than two
\* minutes outside its window (visit and stopSchedule).
THEOREM InsideWindow == Spec => []WithinWindow
<1>1. Init => WindowInv
  BY DEF Init, WindowInv, ClockInv, Busy, Unedited, DueInv, Deciding, InsideInv, Kept, Live
<1>2. TypeOK /\ TrackInv /\ WindowInv /\ [Next]_vars => WindowInv'
  BY ClockStep, UneditedStep, DueStep, InsideStep DEF WindowInv
<1>3. TypeOK /\ WindowInv => WithinWindow
  <2> SUFFICES ASSUME TypeOK, WindowInv, closer = "idle", NEW r \in Recs, Live(r), r \notin lost \cup edited
               PROVE  \E d \in 0..2 : (now - d) % Cycle \in Minutes(win[r])
    BY DEF WithinWindow
  <2>1. now \in 0..(Cycle - 1) /\ win[r] \in Windows
    BY DEF TypeOK
  <2> DEFINE Ago(d) == (now - d) % Cycle
  <2>2. /\ Ago(0) = now /\ Ago(1) \in 0..(Cycle - 1)
        /\ (Ago(1) - 1) % Cycle = Ago(2) /\ Ago(2) \in 0..(Cycle - 1)
    BY <2>1, MinuteBefore
  <2>3. Began = Ago(0) \/ Began = Ago(1)
    BY <2>2 DEF Began
  <2>4. InWindow(win[r], Began) \/ InWindow(win[r], (Began - 1) % Cycle)
    BY DEF WindowInv, InsideInv, Inside, Kept
  <2>5. \E d \in 0..2 : InWindow(win[r], Ago(d))
    <3>1. (Ago(0) - 1) % Cycle = Ago(1)
      BY <2>2
    <3> HIDE DEF Ago
    <3> QED
      BY <2>2, <2>3, <2>4, <3>1
  <2>6. \A d \in 0..2 : Ago(d) \in 0..(Cycle - 1)
    BY <2>1, <2>2
  <2> QED
    BY <2>1, <2>5, <2>6, InsideMinutes
<1> QED
  BY <1>1, <1>2, <1>3, Tracked, PTL DEF Spec
-----------------------------------------------------------------------------
(* One failure keeps no session of a window inside the day going *)

\* Of what a session is made, a step changes only this.
LEMMA SameAge ==
    ASSUME TypeOK, TrackInv, [Next]_vars, NEW r \in Recs, (Live(r))'
    PROVE  /\ ~Tick => age'[r] = age[r]
           /\ timer'[r] # timer[r] => \/ SessionExpires(r) \/ \E s \in Schedules : CheckStarts(s, r)
<1> USE DEF clock, sessions, check, main, table
<1>1. CASE Tick
  BY <1>1 DEF Tick
<1>2. CASE \E q \in Recs : SessionEnds(q)
  BY <1>2 DEF SessionEnds
<1>3. CASE \E q \in Recs : SessionExpires(q)
  <2>1. PICK q \in Recs : SessionExpires(q)
    BY <1>3
  <2>2. age' = age /\ timer' = [timer EXCEPT ![q] = FALSE]
    BY <2>1 DEF SessionExpires
  <2>3. q = r \/ timer'[r] = timer[r]
    BY <2>2 DEF TypeOK
  <2> QED
    BY <2>1, <2>2, <2>3
<1>4. CASE \E q \in Recs : SessionForgotten(q)
  <2>1. PICK q \in Recs : SessionForgotten(q)
    BY <1>4
  <2>2. rec' = [rec EXCEPT ![q] = "none"] /\ age' = [age EXCEPT ![q] = 0] /\ timer' = [timer EXCEPT ![q] = FALSE]
    BY <2>1 DEF SessionForgotten
  <2>3. q # r
    BY <2>2 DEF Live, TypeOK
  <2> QED
    BY <2>2, <2>3 DEF TypeOK
<1>5. CASE \E s \in Schedules : \/ Delete(s)
                                \/ \E w \in Windows : Create(s, w) \/ \E enabled \in BOOLEAN : Update(s, enabled, w)
  BY <1>5 DEF Delete, Create, Update, Write
<1>6. CASE CheckLoads \/ CheckCleansUp \/ CheckRegisters \/ CheckStops \/ CheckCollects \/ CheckEnds \/ LoopEnds
  BY <1>6 DEF CheckLoads, CheckCleansUp, CheckRegisters, CheckStops, CheckCollects, CheckEnds, LoopEnds
<1>7. CASE \E s \in Schedules : CheckPasses(s) \/ CheckTakes(s) \/ CheckStopsOverdue(s)
  BY <1>7 DEF CheckPasses, CheckTakes, CheckStopsOverdue
<1>8. CASE \E s \in Schedules, q \in Recs : CheckStarts(s, q)
  <2>1. PICK s \in Schedules, q \in Recs : CheckStarts(s, q)
    BY <1>8
  <2>2. age' = age /\ (q = r \/ timer'[r] = timer[r])
    BY <2>1 DEF CheckStarts, TypeOK
  <2> QED
    BY <2>1, <2>2
<1>9. CASE StopCollects \/ StopStep
  BY <1>9 DEF StopCollects, StopStep, StopStops, StopEnds, StopTakes
<1>10. CASE UNCHANGED vars
  BY <1>10 DEF vars
<1> QED
  BY <1>1, <1>2, <1>3, <1>4, <1>5, <1>6, <1>7, <1>8, <1>9, <1>10 DEF Next, CheckStep

\* The one failure happens once.
LEMMA OneFault ==
    ASSUME MaxFaults <= 1, TypeOK, [Next]_vars
    PROVE  \/ faults' = faults /\ lost' \subseteq lost
           \/ faults = 0 /\ faults' = 1
<1>0. faults \in Nat /\ MaxFaults \in Nat /\ faults <= MaxFaults
  BY Bounds DEF TypeOK
<1> USE DEF clock, sessions, check, main, table
<1>1. CASE Tick
  BY <1>1 DEF Tick
<1>2. CASE \E q \in Recs : SessionEnds(q) \/ SessionExpires(q) \/ SessionForgotten(q)
  <2>1. CASE \E q \in Recs : SessionEnds(q)
    BY <2>1 DEF SessionEnds
  <2>2. CASE \E q \in Recs : SessionExpires(q)
    <3>1. lost' = lost /\ (faults' = faults \/ (faults < MaxFaults /\ faults' = faults + 1))
      BY <2>2 DEF SessionExpires
    <3> QED
      BY <1>0, <3>1
  <2>3. CASE \E q \in Recs : SessionForgotten(q)
    BY <2>3 DEF SessionForgotten
  <2> QED
    BY <1>2, <2>1, <2>2, <2>3
<1>3. CASE \E s \in Schedules : \/ Delete(s)
                                \/ \E w \in Windows : Create(s, w) \/ \E enabled \in BOOLEAN : Update(s, enabled, w)
  BY <1>3 DEF Delete, Create, Update, Write
<1>4. CASE CheckLoads \/ CheckRegisters \/ CheckCollects \/ CheckEnds \/ LoopEnds
  BY <1>4 DEF CheckLoads, CheckRegisters, CheckCollects, CheckEnds, LoopEnds
<1>5. CASE CheckCleansUp
  <2>1. PICK unread \in SUBSET {s \in Schedules : active[s] # None /\ Live(active[s])} :
           /\ faults + Cardinality(unread) <= MaxFaults
           /\ faults' = faults + Cardinality(unread)
           /\ lost' = lost \cup {r \in Recs : \E s \in unread : active[s] = r}
    BY <1>5 DEF CheckCleansUp
  <2>2. Cardinality(unread) \in Nat /\ (Cardinality(unread) = 0 <=> unread = {})
    BY UnreadCount
  <2>3. CASE unread = {}
    BY <1>0, <2>1, <2>2, <2>3
  <2>4. CASE unread # {}
    <3>1. \A n \in Nat \ {0} : faults + n <= MaxFaults => faults = 0 /\ faults + n = 1
      BY <1>0
    <3> QED
      BY <1>0, <2>1, <2>2, <2>4, <3>1
  <2> QED
    BY <2>3, <2>4
<1>6. ASSUME NEW a \in {"loop", "main"}, Stops(a)
      PROVE  \/ faults' = faults /\ lost' = lost
             \/ faults = 0 /\ faults' = 1
  <2>1. \/ faults' = faults /\ lost' = lost
        \/ faults < MaxFaults /\ faults' = faults + 1
    BY <1>6 DEF Stops
  <2> QED
    BY <1>0, <2>1
<1>7. CASE \E s \in Schedules : \/ CheckPasses(s) \/ CheckTakes(s) \/ CheckStopsOverdue(s)
                                \/ \E r \in Recs : CheckStarts(s, r)
  BY <1>7 DEF CheckPasses, CheckTakes, CheckStopsOverdue, CheckStarts
<1>8. CASE StopCollects \/ StopEnds \/ \E s \in Schedules : StopTakes(s)
  BY <1>8 DEF StopCollects, StopEnds, StopTakes
<1>9. CASE CheckStops \/ StopStops
  BY <1>6, <1>9 DEF CheckStops, StopStops
<1>10. CASE UNCHANGED vars
  BY <1>10 DEF vars
<1> QED
  BY <1>1, <1>2, <1>3, <1>4, <1>5, <1>7, <1>8, <1>9, <1>10 DEF Next, CheckStep, StopStep

LEMMA FreshStep == TypeOK /\ Fresh /\ [Next]_vars => Fresh'
<1> SUFFICES ASSUME TypeOK, Fresh, [Next]_vars PROVE Fresh'
  OBVIOUS
<1> USE DEF TypeOK, Fresh
<1> USE DEF clock, sessions, check, main, table
<1>1. CASE Tick
  BY <1>1 DEF Tick, Live
<1>2. CASE \E q \in Recs : SessionEnds(q) \/ SessionExpires(q)
  BY <1>2 DEF SessionEnds, SessionExpires, End
<1>3. CASE \E q \in Recs : SessionForgotten(q)
  BY <1>3 DEF SessionForgotten
<1>4. CASE \E s \in Schedules : \/ Delete(s)
                                \/ \E w \in Windows : Create(s, w) \/ \E enabled \in BOOLEAN : Update(s, enabled, w)
  BY <1>4 DEF Delete, Create, Update, Write
<1>5. CASE CheckLoads \/ CheckCleansUp \/ CheckRegisters \/ CheckStops \/ CheckCollects \/ CheckEnds \/ LoopEnds
  BY <1>5 DEF CheckLoads, CheckCleansUp, CheckRegisters, CheckStops, CheckCollects, CheckEnds, LoopEnds, Stops, End
<1>6. CASE \E s \in Schedules : \/ CheckPasses(s) \/ CheckTakes(s) \/ CheckStopsOverdue(s)
                                \/ \E r \in Recs : CheckStarts(s, r)
  BY <1>6 DEF CheckPasses, CheckTakes, CheckStopsOverdue, CheckStarts
<1>7. CASE StopCollects \/ StopStep
  BY <1>7 DEF StopCollects, StopStep, StopStops, StopEnds, StopTakes, Stops, End
<1>8. CASE UNCHANGED vars
  BY <1>8 DEF vars
<1> QED
  BY <1>1, <1>2, <1>3, <1>4, <1>5, <1>6, <1>7, <1>8 DEF Next, CheckStep
LEMMA TimerStep ==
    MaxFaults <= 1 /\ TypeOK /\ TrackInv /\ Fresh /\ TimerInv /\ [Next]_vars => TimerInv'
<1> SUFFICES ASSUME MaxFaults <= 1, TypeOK, TrackInv, Fresh, TimerInv, [Next]_vars PROVE TimerInv'
  OBVIOUS
<1>1. \/ faults' = faults /\ lost' \subseteq lost
      \/ faults = 0 /\ faults' = 1
  BY OneFault
<1>2. lost' # {} => faults' = 1
  BY <1>1 DEF TimerInv
<1>3. ASSUME NEW r \in Recs, (Live(r))'
      PROVE  /\ limit'[r] = Duration(win'[r])
             /\ timer'[r] => age'[r] <= limit'[r]
             /\ Escaped(r)' => faults' = 1 /\ lost' = {}
  <2>1. CASE \E s \in Schedules : CheckStarts(s, r)
    <3>1. PICK s \in Schedules : CheckStarts(s, r)
      BY <2>1
    <3>2. /\ win'[r] = snap[s] /\ limit'[r] = Duration(snap[s]) /\ timer'[r] = (Duration(snap[s]) > 0)
          /\ age'[r] = age[r] /\ rec[r] = "none" /\ snap[s] \in Windows
      BY <3>1 DEF CheckStarts, TypeOK
    <3>3. age'[r] = 0 /\ Duration(snap[s]) \in 0..DayLength
      BY <3>2, DurationType DEF Fresh
    <3>4. ~Escaped(r)'
      BY <3>2 DEF Escaped
    <3>5. age'[r] <= limit'[r]
      BY <3>2, <3>3, Clock
    <3> QED
      BY <3>2, <3>4, <3>5
  <2>2. CASE ~\E s \in Schedules : CheckStarts(s, r)
    <3>1. Live(r) /\ win'[r] = win[r] /\ limit'[r] = limit[r] /\ (timer'[r] => timer[r])
      BY <1>3, <2>2, SameSession
    <3>2. limit'[r] = Duration(win'[r])
      BY <3>1 DEF TimerInv
    <3>3. timer'[r] => age'[r] <= limit'[r]
      <4>1. CASE Tick
        <5>1. timer[r] => age[r] < limit[r] /\ age'[r] \in Nat /\ age'[r] <= age[r] + 1
          BY <3>1, <4>1, Clock DEF Tick, TypeOK, Ages
        <5>2. age[r] \in Nat /\ limit[r] \in Nat
          BY Clock DEF TypeOK, Ages
        <5> QED
          BY <3>1, <5>1, <5>2
      <4>2. CASE ~Tick
        BY <1>3, <3>1, <4>2, SameAge DEF TimerInv
      <4> QED
        BY <4>1, <4>2
    <3>4. ASSUME Escaped(r)'
          PROVE  faults' = 1 /\ lost' = {}
      <4>1. CASE ~timer[r]
        <5>1. faults = 1 /\ lost = {}
          BY <3>1, <3>4, <4>1 DEF Escaped, TimerInv
        <5> QED
          BY <1>1, <5>1
      <4>2. CASE timer[r]
        <5>1. SessionExpires(r)
          BY <1>3, <2>2, <3>4, <4>2, SameAge DEF Escaped
        <5>2. faults' = faults + 1 /\ lost' = lost
          BY <1>3, <5>1 DEF SessionExpires, End, Live, TypeOK
        <5>3. faults = 0
          BY <1>1, <5>2, Bounds DEF TypeOK
        <5> QED
          BY <5>2, <5>3 DEF TimerInv
      <4> QED
        BY <4>1, <4>2 DEF TypeOK
    <3> QED
      BY <3>2, <3>3, <3>4
  <2> QED
    BY <2>1, <2>2
<1>4. \A r \in Recs : ~(Live(r))' => ~Escaped(r)'
  BY DEF Escaped
<1> QED
  BY <1>2, <1>3, <1>4 DEF TimerInv

\* A session that has escaped the timer, in one step until Stop begins.
LEMMA CaughtStays ==
    ASSUME MaxFaults <= 1, TypeOK, TrackInv, LimitInv, [Next]_vars, closer = "idle", closer' = "idle",
           NEW r \in Recs, Escaped(r), r \notin moved, (Live(r))',
           limit'[r] = limit[r]
    PROVE  Spent(r)' <= limit'[r] + 1 /\ (Spent(r)' > limit'[r] => Caught(r)')
<1>1. Spent(r) <= limit[r] + 1 /\ (Spent(r) > limit[r] => Caught(r))
  BY DEF LimitInv, CaughtInv
<1>2. /\ age[r] \in Nat /\ limit[r] \in Nat /\ Live(r)
      /\ loop # "end" /\ (late <=> Busy /\ ~checked) /\ late \in BOOLEAN /\ checked \in BOOLEAN
  BY Clock DEF LimitInv, ClockInv, TypeOK, Ages, Escaped
<1>3. faults = 1 /\ lost = {} /\ limit[r] = Duration(win[r]) /\ limit[r] > 0
  BY DEF LimitInv, TimerInv, Escaped
<1>4. CASE Tick
  <2>1. /\ checked /\ ~checked' /\ (age'[r] = age[r] + 1 \/ age'[r] = age[r])
        /\ UNCHANGED <<loop, over, held, owner>> /\ late' = (loop \notin {"idle", "end"})
    BY <1>2, <1>4 DEF Tick, check, TypeOK
  <2>2. CASE loop = "idle"
    <3>1. late = FALSE /\ late' = FALSE /\ Spent(r) = age[r]
      BY <1>2, <2>1, <2>2 DEF Busy, Spent
    <3>2. age[r] <= limit[r] /\ Spent(r)' = age'[r]
      BY <1>1, <1>2, <2>1, <2>2, <3>1 DEF Caught, Spent
    <3>3. Caught(r)'
      BY <2>1, <2>2 DEF Caught
    <3> QED
      BY <1>2, <2>1, <3>2, <3>3
  <2>3. CASE loop # "idle"
    <3>1. loop \notin {"idle", "end"}
      BY <1>2, <2>3
    <3>2. late'
      BY <2>1, <3>1, Zenon
    <3>3. Spent(r) = age[r]
      BY <1>2, <2>1 DEF Spent
    <3>4. Spent(r)' <= age[r]
      BY <1>2, <2>1, <3>2 DEF Spent
    <3>5. Caught(r) => Caught(r)'
      BY <2>1, <2>3 DEF Caught
    <3>6. Spent(r)' \in Int
      BY <1>2, <2>1, <3>2 DEF Spent
    <3> QED
      BY <1>1, <1>2, <3>3, <3>4, <3>5, <3>6
  <2> QED
    BY <2>2, <2>3
<1>5. ASSUME ~Tick
      PROVE  age'[r] = age[r]
  BY <1>5, SameAge
<1>6. ASSUME ~Tick, UNCHANGED late, loop' \in {"cleanup", "visit", "register", "stop"}
      PROVE  Spent(r)' <= limit'[r] + 1 /\ Caught(r)'
  BY <1>1, <1>5, <1>6 DEF Spent, Caught
<1>7. ASSUME ~Tick, UNCHANGED <<late, checked, loop, over>>, held'["loop"] = held["loop"],
             owner'[r] = owner[r]
      PROVE  Spent(r)' <= limit'[r] + 1 /\ (Spent(r)' > limit'[r] => Caught(r)')
  BY <1>1, <1>5, <1>7 DEF Spent, Caught
<1>8. CASE CheckLoads
  <2>1. ~Tick /\ late = FALSE /\ late' = FALSE /\ loop' = "cleanup"
    BY <1>2, <1>8 DEF CheckLoads, Tick, Busy
  <2> QED
    BY <1>6, <2>1 DEF TypeOK
<1>9. CASE CheckEnds
  <2>1. ~Tick /\ loop = "overdue" /\ over = {} /\ held["loop"] = None /\ ~late' /\ loop' = "idle" /\ checked' = checked
    BY <1>9 DEF CheckEnds, Tick, TrackInv, Hands
  <2>2. ~(Spent(r) > limit[r])
    BY <1>1, <2>1, Tables DEF Caught
  <2>3. age'[r] = age[r]
    BY <1>5, <2>1
  <2> QED
    BY <1>2, <2>1, <2>2, <2>3 DEF Spent, Caught
<1>10. CASE CheckCollects
  <2>1. /\ ~Tick /\ loop = "visit" /\ loop' = "overdue" /\ over' = {s \in Schedules : Overdue(s)}
        /\ UNCHANGED <<late, checked, held, owner>>
    BY <1>10 DEF CheckCollects, Tick, clock, sessions
  <2>2. held["loop"] # r
    BY <2>1, Tables DEF TrackInv, Hands
  <2>3. owner[r] \in Schedules /\ active[owner[r]] = r
    BY <1>2, <1>3, <2>2, InActive
  <2>4. sched[owner[r]].w = win[r] /\ sched[owner[r]].state # "deleted"
    BY <1>2 DEF LimitInv, Unmoved
  <2>5. Spent(r) > limit[r] => Overdue(owner[r])
    BY <1>3, <2>3, <2>4, Tables DEF Overdue, Spent
  <2>6. Spent(r)' = Spent(r)
    BY <1>5, <2>1 DEF Spent
  <2> QED
    BY <1>1, <2>1, <2>3, <2>5, <2>6 DEF Caught
<1>11. CASE \E s \in Schedules : CheckStopsOverdue(s)
  <2>1. PICK s \in Schedules : CheckStopsOverdue(s)
    BY <1>11
  <2>2. /\ ~Tick /\ loop = "overdue" /\ over' = over \ {s} /\ held["loop"] = None
        /\ UNCHANGED <<late, checked, owner>>
    BY <2>1 DEF CheckStopsOverdue, Tick, clock, sessions, TrackInv, Hands
  <2>3. Spent(r)' = Spent(r)
    BY <1>5, <2>2 DEF Spent
  <2>4. Spent(r) > limit[r] => owner[r] \in over
    BY <1>1, <2>2, Tables DEF Caught
  <2>5. owner[r] \in Schedules /\ active[owner[r]] = r
    BY <1>2, <1>3, <2>2, InActive, Tables
  <2>6. CASE owner[r] = s
    <3>1. held'["loop"] = r /\ loop' = "stopOverdue"
      BY <2>1, <2>5, <2>6, Tables DEF CheckStopsOverdue, TakesActive, TypeOK
    <3> QED
      BY <1>1, <2>3, <3>1 DEF Caught
  <2>7. CASE owner[r] # s
    <3>1. loop' \in {"overdue", "stopOverdue"}
      BY <2>1 DEF CheckStopsOverdue
    <3> QED
      BY <1>1, <2>2, <2>3, <2>4, <2>7, <3>1 DEF Caught
  <2> QED
    BY <2>6, <2>7
<1>12. CASE CheckStops
  <2>1. ~Tick /\ UNCHANGED <<late, checked, owner, over>>
    BY <1>12 DEF CheckStops, Tick, clock, check
  <2>2. CASE loop = "stop"
    BY <1>6, <1>12, <2>1, <2>2 DEF CheckStops
  <2>3. CASE loop = "stopOverdue"
    <3>1. held["loop"] # r
      <4>1. Stops("loop")
        BY <1>12 DEF CheckStops
      <4>2. CASE End(held["loop"])
        BY <1>2, <4>2 DEF End, Live, TypeOK
      <4>3. CASE ~End(held["loop"])
        BY <1>3, <4>1, <4>3, Bounds DEF Stops
      <4> QED
        BY <4>2, <4>3
    <3>2. Spent(r)' = Spent(r) /\ loop' = "overdue"
      BY <1>5, <1>12, <2>1, <2>3 DEF Spent, CheckStops
    <3> QED
      BY <1>1, <2>1, <2>3, <3>1, <3>2 DEF Caught
  <2> QED
    BY <1>12, <2>2, <2>3 DEF CheckStops
<1>13. CASE CheckCleansUp \/ CheckRegisters \/ \E s \in Schedules : \/ CheckPasses(s) \/ CheckTakes(s)
                                                                    \/ \E q \in Recs : CheckStarts(s, q)
  <2>1. ~Tick /\ UNCHANGED late /\ loop' \in {"cleanup", "visit", "register", "stop"}
    BY <1>13 DEF CheckCleansUp, CheckRegisters, CheckPasses, CheckTakes, CheckStarts, Tick, clock
  <2> QED
    BY <1>6, <2>1
<1>14. CASE \/ \E q \in Recs : SessionEnds(q) \/ SessionExpires(q) \/ SessionForgotten(q)
            \/ \E s \in Schedules : \/ Delete(s)
                                    \/ \E w \in Windows : Create(s, w) \/ \E enabled \in BOOLEAN : Update(s, enabled, w)
            \/ UNCHANGED vars
  <2>1. CASE ~Tick
    <3>1. UNCHANGED <<late, checked, loop, over>> /\ held'["loop"] = held["loop"]
      BY <1>14 DEF SessionEnds, SessionExpires, SessionForgotten, Delete, Create, Update, Write, vars, clock, check
    <3>2. owner'[r] = owner[r]
      BY <1>2, <1>14 DEF SessionEnds, SessionExpires, SessionForgotten, Delete, Create, Update, Write, vars,
         sessions, Live, TypeOK
    <3> QED
      BY <1>7, <2>1, <3>1, <3>2
  <2> QED
    BY <1>4, <2>1
<1>15. CASE LoopEnds \/ StopCollects \/ StopStep
  <2>1. FALSE
    BY <1>15 DEF LoopEnds, StopCollects, StopStep, StopStops, StopEnds, StopTakes
  <2> QED
    BY <2>1
<1> QED
  BY <1>4, <1>8, <1>9, <1>10, <1>11, <1>12, <1>13, <1>14, <1>15 DEF Next, CheckStep

LEMMA CaughtStep ==
    MaxFaults <= 1 /\ TypeOK /\ TrackInv /\ LimitInv /\ [Next]_vars => CaughtInv'
<1> SUFFICES ASSUME MaxFaults <= 1, TypeOK, TrackInv, LimitInv, [Next]_vars, closer' = "idle",
                    NEW r \in Recs, Escaped(r)', r \notin moved'
             PROVE  Spent(r)' <= limit'[r] + 1 /\ (Spent(r)' > limit'[r] => Caught(r)')
  BY DEF CaughtInv
<1>1. CASE \E s \in Schedules : CheckStarts(s, r)
  <2>1. PICK s \in Schedules : CheckStarts(s, r)
    BY <1>1
  <2>2. limit'[r] = Duration(snap[s]) /\ timer'[r] = (Duration(snap[s]) > 0)
    BY <2>1 DEF CheckStarts, TypeOK
  <2> QED
    BY <2>2 DEF Escaped
<1>2. CASE ~\E s \in Schedules : CheckStarts(s, r)
  <2>1. Live(r) /\ limit'[r] = limit[r] /\ r \notin moved /\ (Live(r))'
    BY <1>2, SameSession DEF Escaped
  <2>2. closer = "idle"
    BY BeganStep DEF CheckLoads, main
  <2>3. CASE ~timer[r]
    <3>1. Escaped(r)
      BY <2>1, <2>3 DEF Escaped
    <3> QED
      BY <2>1, <2>2, <3>1, CaughtStays
  <2>4. CASE timer[r]
    <3>1. SessionExpires(r)
      BY <1>2, <2>1, <2>4, SameAge DEF Escaped
    <3>2. age'[r] = age[r] /\ late' = late /\ age[r] <= limit[r] /\ age[r] \in Nat /\ limit[r] \in Nat
      BY <2>1, <2>4, <3>1, Clock DEF SessionExpires, clock, LimitInv, TimerInv, TypeOK, Ages
    <3>3. Spent(r)' <= limit'[r]
      BY <2>1, <3>2 DEF Spent
    <3> QED
      BY <2>1, <3>2, <3>3 DEF Spent
  <2> QED
    BY <2>3, <2>4 DEF TypeOK
<1> QED
  BY <1>1, <1>2

\* One failure does not keep a session with a window inside the day going for
\* more than two minutes beyond its length (maxDurationWatchdog, visit and
\* watchdogStop back each other up).
THEOREM LimitKept ==
    ASSUME MaxFaults <= 1
    PROVE  Spec => []LimitedSessionEnds
<1>1. Init => LimitInv
  BY DEF Init, LimitInv, ClockInv, Busy, Fresh, TimerInv, Escaped, Unmoved, CaughtInv, Live
<1>2. TypeOK /\ TrackInv /\ LimitInv /\ [Next]_vars => LimitInv'
  BY ClockStep, FreshStep, TimerStep, UnmovedStep, CaughtStep DEF LimitInv
<1>3. TypeOK /\ LimitInv => LimitedSessionEnds
  <2> SUFFICES ASSUME TypeOK, LimitInv, NEW r \in Recs,
                      Live(r), limit[r] > 0, r \notin moved, closer = "idle"
               PROVE  age[r] <= limit[r] + 2
    BY DEF LimitedSessionEnds
  <2>1. age[r] \in Nat /\ limit[r] \in Nat
    BY Clock DEF TypeOK, Ages
  <2>2. CASE timer[r]
    BY <2>1, <2>2 DEF LimitInv, TimerInv
  <2>3. CASE ~timer[r]
    <3>1. Spent(r) <= limit[r] + 1
      BY <2>3 DEF LimitInv, CaughtInv, Escaped
    <3> QED
      BY <2>1, <3>1 DEF Spent
  <2> QED
    BY <2>2, <2>3
<1> QED
  BY <1>1, <1>2, <1>3, Tracked, PTL DEF Spec
=============================================================================
