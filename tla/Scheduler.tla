----------------------------- MODULE Scheduler -----------------------------
(***************************************************************************)
(* internal/service/scheduler.go: the loop that starts and stops scheduled *)
(* sessions by the clock, its Stop at shutdown, the requests that edit     *)
(* schedules meanwhile, and of the recorder only what the loop sees of it: *)
(* StartRecording may be refused, StopRecording may fail, a session may    *)
(* end by itself or be stopped by its own maximum duration.                *)
(* Time is counted in minutes of a short day in a short week.              *)
(***************************************************************************)
EXTENDS Integers, FiniteSets

CONSTANTS
    Schedules,    \* ids of recording_schedules; never reused
    Recs,         \* sessions that can exist at the same time
    None,
    DayLength,    \* minutes of a day (1440 in the code)
    WeekLength,   \* days of a week (7 in the code)
    Windows,      \* the start, end and days a schedule may have
    MaxFaults,    \* bound on failed stops and failed reads of a session's row
    MaxEdits      \* bound on the edits of schedules

Cycle == DayLength * WeekLength

ASSUME Clock == DayLength \in Nat \ {0} /\ WeekLength \in Nat \ {0}
ASSUME WindowsOK ==
    /\ Windows # {}
    /\ Windows \subseteq [from : 0..(DayLength - 1), to : 0..(DayLength - 1), days : SUBSET (0..(WeekLength - 1))]
ASSUME Bounds == MaxFaults \in Nat /\ MaxEdits \in Nat
ASSUME Tables == IsFiniteSet(Schedules) /\ None \notin Recs \cup Schedules \cup Windows

VARIABLES
    sched,        \* rows of recording_schedules
    now, checked, \* the clock; a check has begun in this minute
    rec,          \* sessions: no such, being recorded, over
    owner, win,   \* the schedule of a session, its window when it started
    age,          \* minutes since it started
    timer,        \* its maximum-duration goroutine still sleeps, until limit
    limit,
    active,       \* ScheduleService.active
    loop,         \* the scheduler goroutine
    snap,         \* the enabled schedules a check has loaded
    due,          \* those of them inside their window
    late,         \* the minute ended since the check read the clock
    over,         \* ids watchdogStop has collected
    closer,       \* main: Stop, with the ids it has collected
    ids,
    held,         \* the session the loop, or main, is starting or stopping
    lost,         \* history: sessions dropped from active while recorded
    edited,       \* history: sessions whose schedule was edited
    moved,        \* history: those of them whose schedule got another window
                  \* or was deleted
    faults, edits

vars == <<sched, now, checked, rec, owner, win, age, timer, limit, active, loop, snap, due, late,
          over, closer, ids, held, lost, edited, moved, faults, edits>>
clock    == <<now, checked, late>>
sessions == <<rec, owner, win, age, timer, limit>>
check    == <<snap, due, over>>
main     == <<closer, ids>>
table    == <<sched, edited, moved, edits>>

Live(r)   == rec[r] = "live"
Ages      == 0..(DayLength + 2)
NoWindow  == CHOOSE w \in Windows : TRUE

TypeOK ==
    /\ sched \in [Schedules -> [state : {"none", "on", "off", "deleted"}, w : Windows]]
    /\ now \in 0..(Cycle - 1) /\ checked \in BOOLEAN /\ late \in BOOLEAN
    /\ rec \in [Recs -> {"none", "live", "over"}]
    /\ owner \in [Recs -> Schedules \cup {None}] /\ win \in [Recs -> Windows]
    /\ age \in [Recs -> Ages] /\ timer \in [Recs -> BOOLEAN] /\ limit \in [Recs -> 0..DayLength]
    /\ active \in [Schedules -> Recs \cup {None}]
    /\ loop \in {"idle", "cleanup", "visit", "register", "stop", "collect", "overdue",
                 "stopOverdue", "end"}
    /\ snap \in [Schedules -> Windows \cup {None}]
    /\ due \subseteq Schedules /\ over \subseteq Schedules /\ ids \subseteq Schedules
    /\ closer \in {"idle", "next", "stop", "closed"}
    /\ held \in [{"loop", "main"} -> Recs \cup {None}]
    /\ lost \subseteq Recs /\ edited \subseteq Recs /\ moved \subseteq edited
    /\ faults \in 0..MaxFaults /\ edits \in 0..MaxEdits

Init ==
    /\ sched \in [Schedules -> [state : {"none", "on"}, w : Windows]]
    /\ now \in 0..(Cycle - 1) /\ checked = FALSE /\ late = FALSE
    /\ rec = [r \in Recs |-> "none"]
    /\ owner = [r \in Recs |-> None] /\ win = [r \in Recs |-> NoWindow]
    /\ age = [r \in Recs |-> 0] /\ timer = [r \in Recs |-> FALSE]
    /\ limit = [r \in Recs |-> 0]
    /\ active = [s \in Schedules |-> None]
    /\ loop = "idle"
    /\ snap = [s \in Schedules |-> None] /\ due = {} /\ over = {}
    /\ closer = "idle" /\ ids = {}
    /\ held = [a \in {"loop", "main"} |-> None]
    /\ lost = {} /\ edited = {} /\ moved = {}
    /\ faults = 0 /\ edits = 0

-----------------------------------------------------------------------------
(* The algorithms of the file. *)

\* Mutant of InWindow: the end of the window is still inside it.
InWindowClosed(w, t) ==
    LET minute == t % DayLength
    IN  /\ (t \div DayLength) \in w.days
        /\ IF w.from <= w.to THEN minute >= w.from /\ minute <= w.to
                             ELSE minute >= w.from \/ minute <= w.to

\* inScheduleWindow: the day of the week is that of t itself, also after
\* midnight in a window that began the evening before.
InWindow(w, t) ==
    LET minute == t % DayLength
    IN  /\ (t \div DayLength) \in w.days
        /\ IF w.from <= w.to THEN minute >= w.from /\ minute < w.to
                             ELSE minute >= w.from \/ minute < w.to

\* scheduleDurationMin: 0 for a window over midnight.
Duration(w) == IF w.to <= w.from THEN 0 ELSE w.to - w.from

-----------------------------------------------------------------------------
(* Time.  Checks are 15 s apart, so one begins in every minute; it may     *)
(* take longer than the minute.                                            *)

Tick ==
    /\ checked \/ closer # "idle"
    /\ \A r \in Recs : Live(r) /\ timer[r] => age[r] < limit[r]
    /\ now' = (now + 1) % Cycle
    /\ checked' = FALSE
    /\ late' = (loop \notin {"idle", "end"})
    /\ age' = [r \in Recs |-> IF Live(r) /\ age[r] < DayLength + 2 THEN age[r] + 1 ELSE age[r]]
    /\ UNCHANGED <<table, rec, owner, win, timer, limit, active, loop, check, main, held, lost, faults>>

-----------------------------------------------------------------------------
(* The recorder, as the scheduler knows it. *)

End(r) == rec' = [rec EXCEPT ![r] = "over"]

\* FFmpeg dies, or somebody stops or deletes the session.
SessionEnds(r) ==
    /\ Live(r)
    /\ End(r)
    /\ UNCHANGED <<table, clock, owner, win, age, timer, limit, active, loop, check, main, held,
                  lost, faults>>

\* maxDurationWatchdog sleeps once; its stop may fail.
SessionExpires(r) ==
    /\ Live(r) /\ timer[r] /\ age[r] >= limit[r]
    /\ timer' = [timer EXCEPT ![r] = FALSE]
    /\ \/ End(r) /\ UNCHANGED faults
       \/ faults < MaxFaults /\ faults' = faults + 1 /\ UNCHANGED rec
    /\ UNCHANGED <<table, clock, owner, win, age, limit, active, loop, check, main, held, lost>>

\* An id nobody refers to any more stands for a new session.
SessionForgotten(r) ==
    /\ rec[r] = "over"
    /\ \A s \in Schedules : active[s] # r
    /\ held["loop"] # r /\ held["main"] # r
    /\ rec' = [rec EXCEPT ![r] = "none"]
    /\ owner' = [owner EXCEPT ![r] = None] /\ win' = [win EXCEPT ![r] = NoWindow]
    /\ age' = [age EXCEPT ![r] = 0] /\ limit' = [limit EXCEPT ![r] = 0]
    /\ timer' = [timer EXCEPT ![r] = FALSE]
    /\ lost' = lost \ {r} /\ edited' = edited \ {r} /\ moved' = moved \ {r}
    /\ UNCHANGED <<sched, edits, clock, active, loop, check, main, held, faults>>

-----------------------------------------------------------------------------
(* Schedule requests *)

Write(s, row) ==
    /\ edits < MaxEdits /\ edits' = edits + 1
    /\ sched' = [sched EXCEPT ![s] = row]
    /\ LET live == {r \in Recs : Live(r) /\ owner[r] = s}
       IN  /\ edited' = edited \cup live
           /\ moved' = IF row.w # sched[s].w \/ row.state = "deleted" THEN moved \cup live ELSE moved
    /\ UNCHANGED <<clock, sessions, active, loop, check, main, held, lost, faults>>

Create(s, w) == sched[s].state = "none" /\ Write(s, [state |-> "on", w |-> w])

Update(s, enabled, w) ==
    /\ sched[s].state \in {"on", "off"}
    /\ Write(s, [state |-> IF enabled THEN "on" ELSE "off", w |-> w])

Delete(s) ==
    /\ sched[s].state \in {"on", "off"}
    /\ Write(s, [sched[s] EXCEPT !.state = "deleted"])

-----------------------------------------------------------------------------
(* One check *)

\* The enabled schedules are loaded and the clock is read.  After Stop the
\* select may still choose the tick.
CheckLoads ==
    /\ loop = "idle"
    /\ snap' = [s \in Schedules |-> IF sched[s].state = "on" THEN sched[s].w ELSE None]
    /\ due' = {s \in Schedules : sched[s].state = "on" /\ InWindow(sched[s].w, now)}
    /\ checked' = TRUE /\ late' = FALSE
    /\ loop' = "cleanup"
    /\ UNCHANGED <<table, now, sessions, active, over, main, held, lost, faults>>

\* Mutant of Stale: sessions that are still recorded are dropped as well when
\* their schedule is no longer due.
StaleOrNotDue(s) == active[s] # None /\ (~Live(active[s]) \/ s \notin due)

Stale(s) == active[s] # None /\ ~Live(active[s])

\* Entries whose session is over are dropped; so is one whose row cannot be
\* read, whatever the reason.
CheckCleansUp ==
    /\ loop = "cleanup"
    /\ loop' = "visit"
    /\ \E unread \in SUBSET {s \in Schedules : active[s] # None /\ Live(active[s])} :
          /\ faults + Cardinality(unread) <= MaxFaults
          /\ faults' = faults + Cardinality(unread)
          /\ lost' = lost \cup {r \in Recs : \E s \in unread : active[s] = r}
          /\ active' = [s \in Schedules |->
                          IF Stale(s) \/ s \in unread THEN None ELSE active[s]]
    /\ UNCHANGED <<table, clock, sessions, check, main, held>>

\* In the window and not active: StartRecording succeeds.
CheckStarts(s, r) ==
    /\ loop = "visit" /\ snap[s] # None /\ s \in due /\ active[s] = None
    /\ snap' = [snap EXCEPT ![s] = None]
    /\ closer = "idle" /\ rec[r] = "none"
    /\ rec' = [rec EXCEPT ![r] = "live"]
    /\ owner' = [owner EXCEPT ![r] = s] /\ win' = [win EXCEPT ![r] = snap[s]]
    /\ limit' = [limit EXCEPT ![r] = Duration(snap[s])]
    /\ timer' = [timer EXCEPT ![r] = Duration(snap[s]) > 0]
    /\ edited' = IF sched[s].w # snap[s] \/ sched[s].state # "on" THEN edited \cup {r} ELSE edited
    /\ moved' = IF sched[s].w # snap[s] \/ sched[s].state = "deleted" THEN moved \cup {r} ELSE moved
    /\ held' = [held EXCEPT !["loop"] = r]
    /\ loop' = "register"
    /\ UNCHANGED <<sched, edits, clock, age, active, due, over, main, lost, faults>>

CheckRegisters ==
    LET r == held["loop"]
    IN  /\ loop = "register"
        /\ active' = [active EXCEPT ![owner[r]] = r]
        /\ held' = [held EXCEPT !["loop"] = None]
        /\ loop' = "visit"
        /\ UNCHANGED <<table, clock, sessions, check, main, lost, faults>>

\* Nothing to do for the schedule, or StartRecording is refused.
CheckPasses(s) ==
    /\ loop = "visit" /\ snap[s] # None
    /\ s \in due \/ active[s] = None
    /\ snap' = [snap EXCEPT ![s] = None]
    /\ UNCHANGED <<table, clock, sessions, active, loop, due, over, main, held, lost, faults>>

\* stopSchedule takes the entry out of the map before it stops the session.
TakesActive(a, s) ==
    /\ held' = [held EXCEPT ![a] = active[s]]
    /\ active' = [active EXCEPT ![s] = None]

CheckTakes(s) ==
    /\ loop = "visit" /\ snap[s] # None /\ s \notin due /\ active[s] # None
    /\ snap' = [snap EXCEPT ![s] = None]
    /\ TakesActive("loop", s)
    /\ loop' = "stop"
    /\ UNCHANGED <<table, clock, sessions, due, over, main, lost, faults>>

\* StopRecording ends the session, or fails and nobody asks again.
Stops(a) ==
    /\ held' = [held EXCEPT ![a] = None]
    /\ \/ End(held[a]) /\ UNCHANGED <<lost, faults>>
       \/ /\ Live(held[a]) /\ faults < MaxFaults /\ faults' = faults + 1
          /\ lost' = lost \cup {held[a]}
          /\ UNCHANGED rec

CheckStops ==
    /\ loop \in {"stop", "stopOverdue"}
    /\ Stops("loop")
    /\ loop' = IF loop = "stop" THEN "visit" ELSE "overdue"
    /\ UNCHANGED <<table, clock, owner, win, age, timer, limit, active, check, main>>

\* Mutant of Overdue: watchdogStop goes by the schedules the check loaded.
OverdueOfEnabled(s) ==
    /\ active[s] # None /\ sched[s].state = "on" /\ Duration(sched[s].w) > 0
    /\ age[active[s]] - (IF late THEN 1 ELSE 0) > Duration(sched[s].w)

\* watchdogStop reads the schedule again; a deleted one, and one over
\* midnight, is passed over.  The grace of 10 s makes it the next minute.
Overdue(s) ==
    /\ active[s] # None /\ sched[s].state # "deleted" /\ Duration(sched[s].w) > 0
    /\ age[active[s]] - (IF late THEN 1 ELSE 0) > Duration(sched[s].w)

CheckCollects ==
    /\ loop = "visit" /\ \A s \in Schedules : snap[s] = None
    /\ over' = {s \in Schedules : Overdue(s)}
    /\ loop' = "overdue"
    /\ UNCHANGED <<table, clock, sessions, active, snap, due, main, held, lost, faults>>

CheckStopsOverdue(s) ==
    /\ loop = "overdue" /\ s \in over
    /\ over' = over \ {s}
    /\ IF active[s] = None THEN UNCHANGED <<active, held, loop>>
                           ELSE TakesActive("loop", s) /\ loop' = "stopOverdue"
    /\ UNCHANGED <<table, clock, sessions, snap, due, main, lost, faults>>

CheckEnds ==
    /\ loop = "overdue" /\ over = {}
    /\ loop' = "idle" /\ due' = {} /\ late' = FALSE
    /\ UNCHANGED <<table, now, checked, sessions, active, snap, over, main, held, lost, faults>>

LoopEnds ==
    /\ loop = "idle" /\ closer # "idle"
    /\ loop' = "end"
    /\ UNCHANGED <<table, clock, sessions, active, check, main, held, lost, faults>>

-----------------------------------------------------------------------------
(* Stop, when main shuts down.  BeginShutdown came before, so no           *)
(* StartRecording call is under way and none succeeds from here on; the    *)
(* loop may still be anywhere in a check.                                  *)

StopCollects ==
    /\ closer = "idle"
    /\ ids' = {s \in Schedules : active[s] # None}
    /\ closer' = "next"
    /\ UNCHANGED <<table, clock, sessions, active, loop, check, held, lost, faults>>

StopTakes(s) ==
    /\ closer = "next" /\ s \in ids
    /\ ids' = ids \ {s}
    /\ IF active[s] = None THEN UNCHANGED <<active, held, closer>>
                           ELSE TakesActive("main", s) /\ closer' = "stop"
    /\ UNCHANGED <<table, clock, sessions, loop, check, lost, faults>>

StopStops ==
    /\ closer = "stop"
    /\ Stops("main")
    /\ closer' = "next"
    /\ UNCHANGED <<table, clock, owner, win, age, timer, limit, active, loop, check, ids>>

StopEnds ==
    /\ closer = "next" /\ ids = {}
    /\ closer' = "closed"
    /\ UNCHANGED <<table, clock, sessions, active, loop, check, ids, held, lost, faults>>

-----------------------------------------------------------------------------
CheckStep ==
    \/ CheckLoads \/ CheckCleansUp \/ CheckRegisters \/ CheckStops \/ CheckCollects
    \/ CheckEnds \/ LoopEnds
    \/ \E s \in Schedules :
          \/ CheckPasses(s) \/ CheckTakes(s) \/ CheckStopsOverdue(s)
          \/ \E r \in Recs : CheckStarts(s, r)

StopStep == StopStops \/ StopEnds \/ \E s \in Schedules : StopTakes(s)

Next ==
    \/ Tick
    \/ \E r \in Recs : SessionEnds(r) \/ SessionExpires(r) \/ SessionForgotten(r)
    \/ \E s \in Schedules :
          \/ Delete(s)
          \/ \E w \in Windows : Create(s, w) \/ \E enabled \in BOOLEAN : Update(s, enabled, w)
    \/ CheckStep
    \/ StopCollects \/ StopStep

Spec == Init /\ [][Next]_vars

\* Time passes, the loop runs, timers fire; nobody need edit a schedule.
Fairness ==
    /\ WF_vars(Tick) /\ WF_vars(CheckStep) /\ WF_vars(StopStep)
    /\ \A r \in Recs : WF_vars(SessionExpires(r))

FairSpec == Spec /\ Fairness

-----------------------------------------------------------------------------
(* Properties *)

\* A scheduled session that is being recorded is in active, or the loop or
\* Stop has it in hand, unless its stop failed or its row could not be read.
SessionTracked ==
    \A r \in Recs : Live(r) =>
       \/ \E s \in Schedules : active[s] = r
       \/ held["loop"] = r \/ held["main"] = r
       \/ r \in lost

\* A schedule records one session at a time, and only one of the loop and
\* Stop stops it, again unless an earlier one was lost.
OneSession ==
    /\ \A r, q \in Recs \ lost : Live(r) /\ Live(q) /\ owner[r] = owner[q] => r = q
    /\ held["loop"] # None => held["loop"] # held["main"]

\* The loop and Stop share the sessions without losing or doubling one.
SessionsAccounted == TypeOK /\ SessionTracked /\ OneSession

\* The minutes of the week a window stands for.
Minutes(w) ==
    {day * DayLength + m : day \in w.days,
                           m \in IF w.from <= w.to THEN w.from..(w.to - 1)
                                 ELSE 0..(w.to - 1) \cup w.from..(DayLength - 1)}

\* A session of a schedule nobody edited is not recorded outside the window:
\* at most two minutes beyond it, which a slow check may take.
WithinWindow ==
    \A r \in Recs : Live(r) /\ r \notin lost \cup edited /\ closer = "idle" =>
       \E d \in 0..2 : (now - d) % Cycle \in Minutes(win[r])

\* One failure does not keep a session with a window inside the day going
\* for more than two minutes beyond its length: what the loop misses its
\* maximum duration ends, and what that misses the watchdog, also when the
\* schedule is disabled; but not when it is deleted or moved.
LimitedSessionEnds ==
    \A r \in Recs :
       Live(r) /\ limit[r] > 0 /\ r \notin moved /\ closer = "idle" => age[r] <= limit[r] + 2

\* scheduler.go:171: sessions past their window are stopped, "so that none is
\* missed for any reason".
NoneMissed == \A r \in Recs : Live(r) ~> (~Live(r) \/ closer # "idle")
=============================================================================
