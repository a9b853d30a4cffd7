--------------------------- MODULE SegmentProofs ---------------------------
(***************************************************************************)
(* For any number of callers, segments, failures and restarts: the type    *)
(* invariant of SegmentSession, that a session is finalized by one         *)
(* goroutine, that the archive lists only finished and wanted segments,    *)
(* that a stop that reports success has ended the session, and that the    *)
(* status it ends with fits what is playable.                              *)
(***************************************************************************)
EXTENDS SegmentSession, TLAPS

(***************************************************************************)
(* Who works on the session.  The task leaves the map when its one         *)
(* finalizer is done, or with the server; only then do requests and        *)
(* startup work on its files and rows themselves.                          *)
(***************************************************************************)
OneFinalizer ==
    /\ pc[Watcher] \in {"watch", "end"} \cup Finishing /\ pc[Sweeper] \in {"idle"} \cup Finishing
    /\ \A a \in Finalizers : pc[a] \in Finishing => finalizing /\ mapped /\ waiter = "closed"
    /\ ~(pc[Watcher] \in Finishing /\ pc[Sweeper] \in Finishing)
    /\ mapped => closings = 0 /\ restarts = 0
    /\ closings > 0 => closings = 1 /\ restarts = 0

Processes ==
    /\ proc = "running" => mapped /\ waiter = "wait"
    /\ waiter \in {"scanWait", "closed"} => proc = "reaped"
    /\ waiter = "closed" => scanner = "ended"
    /\ restarts = 0 => proc # "orphan" /\ waiter # "none"

AfterTask ==
    /\ \A c \in Callers : pc[c] \in (Finishing \ {"close"}) \cup
                                    {"idle", "claim", "stopWait", "finalWait", "readRow", "delFiles", "delRows"}
    /\ pc[Booter] \in (Finishing \ {"close"}) \cup {"boot", "bootCheck", "booted"}
    /\ \A a \in Callers \cup {Booter} :
          pc[a] \in Finishing \cup {"readRow", "delFiles", "delRows"} => ~mapped

AloneInv == OneFinalizer /\ Processes /\ AfterTask

(***************************************************************************)
(* What a scan has found.  Files are numbered by FFmpeg, and the loop      *)
(* leaves out the last one while FFmpeg runs.                              *)
(***************************************************************************)
Found ==
    /\ index \subseteq 1..open
    /\ \A a \in Actors \cup {"scanLoop"} : seen[a] \subseteq 1..open
    /\ proc = "running" => open \notin index /\ open \notin seen["scanLoop"]

(***************************************************************************)
(* Until a restart, a finalization indexes every file, and after it there  *)
(* is nothing left to index.  A deletion takes the files and the directory *)
(* first, for good: nothing creates the directory again.                   *)
(***************************************************************************)
Finalization ==
    \A a \in Finalizers :
       /\ pc[a] = "store" => disk \subseteq index \cup seen[a]
       /\ pc[a] \in {"count", "write", "close"} => disk \subseteq index
       /\ pc[a] = "write" => verdict[a] = Verdict
       /\ pc[a] = "close" => row # "recording"

Finalized ==
    restarts = 0 =>
       /\ ~mapped => waiter = "closed" /\ row # "recording" /\ disk \subseteq index
       /\ seen[Booter] = {} /\ \A c \in Callers : pc[c] \notin Finishing
       /\ mapped => row # "none"
       /\ \A c \in Callers : pc[c] = "delRows" => disk = {}
       /\ row = "none" => disk = {} /\ index = {}

Removed == ~dir /\ disk = {}
Deleted ==
    /\ row = "none" \/ (\E c \in Callers : pc[c] = "delRows") => Removed
    /\ restarts # 0 => scanner = "ended"

ArchiveInv == Found /\ Finalization /\ Finalized /\ Deleted
-----------------------------------------------------------------------------
(* Types: of what is stored, of the task and its goroutines, of the actors. *)

StoreTypes ==
    /\ row \in {"none", "recording"} \cup Terminal
    /\ index \in SUBSET Segments /\ playable \in SUBSET index
    /\ dir \in BOOLEAN /\ disk \in SUBSET Segments /\ open \in 0..MaxFiles
    /\ disk \in SUBSET (1..open) /\ (~dir => disk = {})

TaskTypes ==
    /\ proc \in {"running", "exited", "reaped", "orphan"} /\ killed \in BOOLEAN
    /\ waiter \in {"wait", "scanWait", "closed", "none"}
    /\ scanner \in {"idle", "listed", "ended"}
    /\ stopper \in {"none", "request", "grace", "reap", "finished"}
    /\ stopErr \in BOOLEAN
    /\ mapped \in BOOLEAN /\ finalizing \in BOOLEAN /\ closings \in 0..2

ActorTypes ==
    /\ pc \in [Actors -> Labels]
    /\ seen \in [Actors \cup {"scanLoop"} -> SUBSET Segments]
    /\ verdict \in [Actors -> Terminal]
    /\ op \in [Callers -> {"none", "stop", "delete"}]
    /\ result \in [Callers -> {"none", "ok", "error"}]
    /\ rowSeen \in {"none", "recording"} \cup Terminal
    /\ faults \in 0..MaxFaults /\ restarts \in 0..MaxRestarts

\* While the last file is there it is the one a scan of a running session
\* leaves out.
LEMMA ListingFiles ==
    ASSUME TypeOK, NEW final \in BOOLEAN
    PROVE  /\ Listing(final) \in SUBSET disk
           /\ final => Listing(final) = disk
           /\ ~final => open \notin Listing(final)
<1>1. CASE final \/ disk = {}
  BY <1>1 DEF Listing
<1>2. CASE ~final /\ disk # {} /\ open \in disk
  <2>1. open \in Nat /\ \A f \in disk : f \in Nat /\ open >= f
    BY Bounds DEF TypeOK
  <2>2. Max(disk) \in disk /\ \A f \in disk : Max(disk) >= f
    BY <1>2, <2>1 DEF Max
  <2>3. Max(disk) = open
    <3>1. \A x, y \in Nat : x >= y /\ y >= x => x = y
      OBVIOUS
    <3>2. Max(disk) \in Nat /\ Max(disk) >= open /\ open >= Max(disk)
      BY <1>2, <2>1, <2>2
    <3> QED
      BY <2>1, <3>1, <3>2
  <2> QED
    BY <1>2, <2>3 DEF Listing
<1>3. CASE ~final /\ disk # {} /\ open \notin disk
  BY <1>3 DEF Listing
<1> QED
  BY <1>1, <1>2, <1>3

LEMMA GoTypes ==
    ASSUME TypeOK, NEW a \in Actors, NEW l \in Labels, Goto(a, l)
    PROVE  pc' \in [Actors -> Labels] /\ pc'[a] = l /\ \A b \in Actors \ {a} : pc'[b] = pc[b]
BY DEF TypeOK, Goto

\* An actor that gives up holds nothing; a caller is told.
LEMMA GivesUpTypes ==
    ASSUME TypeOK, NEW a \in Actors, GivesUp(a)
    PROVE  /\ pc' \in [Actors -> Labels] /\ pc'[a] = FailTo(a) /\ \A b \in Actors \ {a} : pc'[b] = pc[b]
           /\ FailTo(a) \in {"end", "boot", "idle"}
           /\ op' \in [Callers -> {"none", "stop", "delete"}]
           /\ result' \in [Callers -> {"none", "ok", "error"}]
           /\ a \in Callers => result'[a] = "error"
           /\ finalizing' \in BOOLEAN
<1>1. FailTo(a) \in {"end", "boot", "idle"}
  BY DEF FailTo
<1>2. FailTo(a) \in Labels
  BY <1>1 DEF Labels
<1>3. Goto(a, FailTo(a))
  BY DEF GivesUp
<1>4. finalizing' \in BOOLEAN
  BY DEF GivesUp
<1>5. /\ op' \in [Callers -> {"none", "stop", "delete"}]
      /\ result' \in [Callers -> {"none", "ok", "error"}]
      /\ a \in Callers => result'[a] = "error"
  BY DEF GivesUp, TypeOK
<1> QED
  BY <1>1, <1>2, <1>3, <1>4, <1>5, GoTypes

LEMMA StopReturnsTypes ==
    ASSUME TypeOK, NEW c \in Callers, NEW ok \in BOOLEAN, StopReturns(c, ok)
    PROVE  /\ pc' \in [Actors -> Labels] /\ \A b \in Actors \ {c} : pc'[b] = pc[b]
           /\ pc'[c] \in {"idle", "delFiles"} /\ (~ok => pc'[c] = "idle")
           /\ op' \in [Callers -> {"none", "stop", "delete"}]
           /\ result' \in [Callers -> {"none", "ok", "error"}]
           /\ result'[c] = IF ok THEN "ok" ELSE "error"
<1>1. c \in Actors
  BY DEF Actors
<1>2. (IF ok /\ op[c] = "delete" THEN "delFiles" ELSE "idle") \in Labels
  BY DEF Labels
<1> QED
  BY <1>1, <1>2, GoTypes DEF StopReturns, TypeOK

LEMMA TypeInit == Init => TypeOK
<1> SUFFICES ASSUME Init PROVE TypeOK
  OBVIOUS
<1>1. PICK b \in {"boot", "booted"} :
         pc = [a \in Actors |-> IF a = Watcher THEN "watch" ELSE IF a = Booter THEN b ELSE "idle"]
  BY DEF Init
<1>2. pc \in [Actors -> Labels]
  BY <1>1 DEF Labels
<1>3. 0 \in 0..MaxFiles /\ 0 \in 0..MaxFaults /\ 0 \in 0..MaxRestarts /\ 0 \in 0..2
  BY Bounds
<1> QED
  BY <1>2, <1>3 DEF Init, TypeOK, Terminal
\* A fault is counted within its bound.
LEMMA FaultTypes == TypeOK /\ Fault => faults' \in 0..MaxFaults
BY Bounds DEF TypeOK, Fault

\* What is stored is indexed, and playable only then.
LEMMA StoresTypes ==
    ASSUME TypeOK, NEW segments \in SUBSET Segments, Stores(segments)
    PROVE  index' \in SUBSET Segments /\ playable' \in SUBSET index' /\ index' = index \cup segments
BY DEF TypeOK, Stores

LEMMA TypeChild ==
    TypeOK /\ (ProcWrites \/ ProcExits \/ WaitStep \/ ScanList \/ ScanStore \/ ScannerEnds \/ StopProcessStep)
       => TypeOK'
<1> SUFFICES ASSUME TypeOK, ProcWrites \/ ProcExits \/ WaitStep \/ ScanList \/ ScanStore
                            \/ ScannerEnds \/ StopProcessStep
             PROVE  TypeOK'
  OBVIOUS
<1> USE DEF db, disks, child, super, task, work, budget
<1>1. CASE ProcWrites
  <2>1. open + 1 \in 1..MaxFiles /\ open' = open + 1 /\ disk' = disk \cup {open + 1} /\ dir
    BY <1>1, Bounds DEF ProcWrites, TypeOK
  <2>2. disk' \in SUBSET Segments /\ open' \in 0..MaxFiles /\ disk' \in SUBSET (1..open')
    BY <2>1, Bounds DEF TypeOK, Segments
  <2> QED
    BY <1>1, <2>1, <2>2 DEF ProcWrites, TypeOK
<1>2. CASE ProcExits
  BY <1>2 DEF ProcExits, TypeOK
<1>3. CASE WaitStep
  <2>1. proc' \in {"reaped", proc} /\ waiter' \in {"scanWait", "closed"}
    BY <1>3 DEF WaitStep, WaitReaps, WaitCloses
  <2>2. UNCHANGED <<row, index, playable, dir, disk, open, killed, scanner, stopper, stopErr, mapped, finalizing,
                    closings, pc, verdict, op, result, rowSeen, seen, faults, restarts>>
    BY <1>3 DEF WaitStep, WaitReaps, WaitCloses
  <2> QED
    BY <2>1, <2>2 DEF TypeOK
<1>4. CASE ScanList
  <2>1. Listing(FALSE) \in SUBSET disk
    BY ListingFiles
  <2>2. seen' \in [Actors \cup {"scanLoop"} -> SUBSET Segments]
    BY <1>4, <2>1 DEF ScanList, TypeOK
  <2>7. StoreTypes'
    BY <1>4, <2>2 DEF ScanList, TypeOK, StoreTypes
  <2>8. TaskTypes'
    BY <1>4, <2>2 DEF ScanList, TypeOK, TaskTypes
  <2>9. ActorTypes'
    BY <1>4, <2>2 DEF ScanList, TypeOK, ActorTypes
  <2> QED
    BY <2>7, <2>8, <2>9 DEF TypeOK, StoreTypes, TaskTypes, ActorTypes
<1>5. CASE ScanStore
  <2>1. seen["scanLoop"] \in SUBSET Segments
    BY DEF TypeOK
  <2>2. index' \in SUBSET Segments /\ playable' \in SUBSET index'
    BY <1>5, <2>1, StoresTypes DEF ScanStore, TypeOK
  <2>3. faults' \in 0..MaxFaults
    BY <1>5, FaultTypes DEF ScanStore, ScanFails, TypeOK
  <2>4. seen' \in [Actors \cup {"scanLoop"} -> SUBSET Segments]
    BY <1>5 DEF ScanStore, TypeOK
  <2> QED
    BY <1>5, <2>2, <2>3, <2>4 DEF ScanStore, TypeOK
<1>6. CASE ScannerEnds
  BY <1>6 DEF ScannerEnds, TypeOK
<1>7. CASE StopRequests \/ StopSeesDone
  <2>1. stopErr' \in BOOLEAN
    BY <1>7 DEF StopRequests, StopSeesDone, TypeOK
  <2>2. stopper' \in {"grace", "finished"}
    BY <1>7 DEF StopRequests, StopSeesDone
  <2>3. UNCHANGED <<row, index, playable, dir, disk, open, proc, killed, waiter, scanner, mapped, finalizing,
                    closings, pc, verdict, op, result, rowSeen, seen, faults, restarts>>
    BY <1>7 DEF StopRequests, StopSeesDone
  <2> QED
    BY <2>1, <2>2, <2>3 DEF TypeOK
<1>8. CASE StopKills
  <2>1. faults' \in 0..MaxFaults
    BY <1>8, FaultTypes DEF StopKills, TypeOK
  <2>2. killed' \in BOOLEAN /\ stopper' \in {"reap", "finished"} /\ stopErr' \in BOOLEAN
    BY <1>8 DEF StopKills, TypeOK
  <2> QED
    BY <1>8, <2>1, <2>2 DEF StopKills, TypeOK
<1> QED
  BY <1>1, <1>2, <1>3, <1>4, <1>5, <1>6, <1>7, <1>8 DEF StopProcessStep

LEMMA TypeFinal ==
    ASSUME TypeOK, OneFinalizer, NEW a \in Actors, FinalStep(a)
    PROVE  TypeOK'
<1> USE DEF db, disks, child, super, task, work, budget
<1>1. CASE FinalList(a)
  <2>1. CASE GivesUp(a) /\ UNCHANGED seen
    <3>1. faults' \in 0..MaxFaults
      BY <1>1, FaultTypes DEF FinalList, Goto, TypeOK
    <3> QED
      BY <1>1, <2>1, <3>1, GivesUpTypes DEF FinalList, TypeOK
  <2>2. CASE seen' = [seen EXCEPT ![a] = Listing(TRUE) \ index] /\ Goto(a, "store")
             /\ UNCHANGED <<op, result, finalizing, faults>>
    <3>1. Listing(TRUE) \in SUBSET disk
      BY ListingFiles
    <3>2. seen' \in [Actors \cup {"scanLoop"} -> SUBSET Segments]
      BY <2>2, <3>1 DEF TypeOK
    <3>3. pc' \in [Actors -> Labels]
      BY <2>2, GoTypes DEF Labels, Finishing
    <3>7. StoreTypes'
      BY <1>1, <2>2, <3>2, <3>3 DEF FinalList, TypeOK, StoreTypes
    <3>8. TaskTypes'
      BY <1>1, <2>2, <3>2, <3>3 DEF FinalList, TypeOK, TaskTypes
    <3>9. ActorTypes'
      BY <1>1, <2>2, <3>2, <3>3 DEF FinalList, TypeOK, ActorTypes
    <3> QED
      BY <3>7, <3>8, <3>9 DEF TypeOK, StoreTypes, TaskTypes, ActorTypes
  <2> QED
    BY <1>1, <2>1, <2>2 DEF FinalList
<1>2. CASE FinalStore(a)
  <2>1. seen' \in [Actors \cup {"scanLoop"} -> SUBSET Segments] /\ seen[a] \in SUBSET Segments
    BY <1>2 DEF FinalStore, TypeOK
  <2>2. CASE GivesUp(a) /\ ScanFails(seen[a]) /\ UNCHANGED <<index, playable>>
    <3>1. faults' \in 0..MaxFaults
      BY <2>2, FaultTypes DEF ScanFails, TypeOK
    <3> QED
      BY <1>2, <2>1, <2>2, <3>1, GivesUpTypes DEF FinalStore, TypeOK
  <2>3. CASE Stores(seen[a]) /\ Goto(a, "count") /\ UNCHANGED <<op, result, finalizing, faults>>
    <3>1. pc' \in [Actors -> Labels]
      BY <2>3, GoTypes DEF Labels, Finishing
    <3>2. index' \in SUBSET Segments /\ playable' \in SUBSET index'
      BY <2>1, <2>3, StoresTypes
    <3> QED
      BY <1>2, <2>1, <2>3, <3>1, <3>2 DEF FinalStore, TypeOK
  <2> QED
    BY <1>2, <2>2, <2>3 DEF FinalStore
<1>3. CASE FinalCount(a)
  <2>1. CASE GivesUp(a) /\ UNCHANGED verdict
    <3>1. faults' \in 0..MaxFaults
      BY <1>3, FaultTypes DEF FinalCount, Goto, TypeOK
    <3> QED
      BY <1>3, <2>1, <3>1, GivesUpTypes DEF FinalCount, TypeOK
  <2>2. CASE verdict' = [verdict EXCEPT ![a] = Verdict] /\ Goto(a, "write")
             /\ UNCHANGED <<op, result, finalizing, faults>>
    <3>1. pc' \in [Actors -> Labels]
      BY <2>2, GoTypes DEF Labels, Finishing
    <3>2. verdict' \in [Actors -> Terminal]
      BY <2>2 DEF Verdict, Terminal, TypeOK
    <3> QED
      BY <1>3, <2>2, <3>1, <3>2 DEF FinalCount, TypeOK
  <2> QED
    BY <1>3, <2>1, <2>2 DEF FinalCount
<1>4. CASE FinalWrite(a)
  <2>1. CASE GivesUp(a) /\ Fault /\ UNCHANGED row
    BY <1>4, <2>1, FaultTypes, GivesUpTypes DEF FinalWrite, TypeOK
  <2>2. CASE /\ row' = (IF row = "none" THEN row ELSE verdict[a]) /\ Goto(a, WrittenTo(a))
             /\ IF a \in Callers THEN Succeeds(a) /\ op' = [op EXCEPT ![a] = IF @ = "stop" THEN "none" ELSE @]
                                 ELSE UNCHANGED <<op, result>>
             /\ UNCHANGED <<finalizing, faults>>
    <3>1. WrittenTo(a) \in Labels
      BY DEF WrittenTo, Labels, Finishing
    <3>2. pc' \in [Actors -> Labels]
      BY <2>2, <3>1, GoTypes
    <3>3. row' \in {"none", "recording"} \cup Terminal
      BY <2>2 DEF TypeOK
    <3>4. op' \in [Callers -> {"none", "stop", "delete"}] /\ result' \in [Callers -> {"none", "ok", "error"}]
      BY <2>2 DEF Succeeds, TypeOK
    <3> QED
      BY <1>4, <2>2, <3>2, <3>3, <3>4 DEF FinalWrite, TypeOK
  <2> QED
    BY <1>4, <2>1, <2>2 DEF FinalWrite
<1>5. CASE FinalClose(a)
  <2>1. pc' \in [Actors -> Labels]
    BY <1>5, GoTypes DEF FinalClose, Labels
  <2>2. closings' \in 0..2
    BY <1>5 DEF FinalClose, OneFinalizer, TypeOK
  <2>7. StoreTypes'
    BY <1>5, <2>1, <2>2 DEF FinalClose, TypeOK, StoreTypes
  <2>8. TaskTypes'
    BY <1>5, <2>1, <2>2 DEF FinalClose, TypeOK, TaskTypes
  <2>9. ActorTypes'
    BY <1>5, <2>1, <2>2 DEF FinalClose, TypeOK, ActorTypes
  <2> QED
    BY <2>7, <2>8, <2>9 DEF TypeOK, StoreTypes, TaskTypes, ActorTypes
<1> QED
  BY <1>1, <1>2, <1>3, <1>4, <1>5 DEF FinalStep
LEMMA TypeCaller ==
    ASSUME TypeOK, NEW c \in Callers,
           \/ Stop(c) \/ Delete(c) \/ StopClaims(c) \/ StopWaits(c) \/ StopWaitsFinal(c)
           \/ StopReadsRow(c) \/ DeleteRemovesFiles(c) \/ DeleteRemovesRows(c)
    PROVE  TypeOK'
<1> USE DEF db, disks, child, super, task, work, budget
<1>1. c \in Actors
  BY DEF Actors
<1>2. {"idle", "claim", "stopWait", "finalWait", "readRow", "scan", "delFiles", "delRows"} \subseteq Labels
  BY DEF Labels, Finishing
<1>3. CASE Stop(c) \/ Delete(c)
  <2>1. pc' \in [Actors -> Labels]
    BY <1>1, <1>2, <1>3, GoTypes DEF Stop, Delete
  <2>2. op' \in [Callers -> {"none", "stop", "delete"}]
    BY <1>3 DEF Stop, Delete, TypeOK
  <2>7. StoreTypes'
    BY <1>3, <2>1, <2>2 DEF Stop, Delete, TypeOK, StoreTypes
  <2>8. TaskTypes'
    BY <1>3, <2>1, <2>2 DEF Stop, Delete, TypeOK, TaskTypes
  <2>9. ActorTypes'
    BY <1>3, <2>1, <2>2 DEF Stop, Delete, TypeOK, ActorTypes
  <2> QED
    BY <2>7, <2>8, <2>9 DEF TypeOK, StoreTypes, TaskTypes, ActorTypes
<1>4. CASE StopClaims(c)
  <2>1. pc' \in [Actors -> Labels]
    BY <1>1, <1>2, <1>4, GoTypes DEF StopClaims
  <2>2. stopper' \in {"none", "request", "grace", "reap", "finished"}
    BY <1>4 DEF StopClaims, TypeOK
  <2> QED
    BY <1>4, <2>1, <2>2 DEF StopClaims, TypeOK
<1>5. CASE StopWaits(c)
  <2>1. /\ pc' \in [Actors -> Labels] /\ op' \in [Callers -> {"none", "stop", "delete"}]
        /\ result' \in [Callers -> {"none", "ok", "error"}]
    BY <1>1, <1>2, <1>5, GoTypes, StopReturnsTypes DEF StopWaits, TypeOK
  <2> QED
    BY <1>5, <2>1 DEF StopWaits, TypeOK
<1>6. CASE StopWaitsFinal(c)
  <2>1. /\ pc' \in [Actors -> Labels] /\ op' \in [Callers -> {"none", "stop", "delete"}]
        /\ result' \in [Callers -> {"none", "ok", "error"}]
    BY <1>6, StopReturnsTypes DEF StopWaitsFinal
  <2> QED
    BY <1>6, <2>1 DEF StopWaitsFinal, TypeOK
<1>7. CASE StopReadsRow(c)
  <2>1. /\ pc' \in [Actors -> Labels] /\ op' \in [Callers -> {"none", "stop", "delete"}]
        /\ result' \in [Callers -> {"none", "ok", "error"}]
    BY <1>1, <1>2, <1>7, GoTypes, StopReturnsTypes DEF StopReadsRow, TypeOK
  <2> QED
    BY <1>7, <2>1 DEF StopReadsRow, TypeOK
<1>8. CASE DeleteRemovesFiles(c)
  <2>1. /\ pc' \in [Actors -> Labels] /\ op' \in [Callers -> {"none", "stop", "delete"}]
        /\ result' \in [Callers -> {"none", "ok", "error"}]
    BY <1>1, <1>2, <1>8, GoTypes, StopReturnsTypes DEF DeleteRemovesFiles, TypeOK
  <2>2. faults' \in 0..MaxFaults
    BY <1>8, FaultTypes DEF DeleteRemovesFiles, TypeOK
  <2>3. disk' \in SUBSET disk /\ dir' \in BOOLEAN /\ (~dir' => disk' = {})
    BY <1>8 DEF DeleteRemovesFiles, TypeOK
  <2> QED
    BY <1>8, <2>1, <2>2, <2>3 DEF DeleteRemovesFiles, TypeOK
<1>9. CASE DeleteRemovesRows(c)
  <2>1. pc' \in [Actors -> Labels]
    BY <1>1, <1>2, <1>9, GoTypes DEF DeleteRemovesRows
  <2>2. op' \in [Callers -> {"none", "stop", "delete"}]
    BY <1>9 DEF DeleteRemovesRows, TypeOK
  <2>3. faults' \in 0..MaxFaults
    BY <1>9, FaultTypes DEF DeleteRemovesRows, TypeOK
  <2>4. /\ row' \in {"none", "recording"} \cup Terminal
        /\ index' \in SUBSET Segments /\ playable' \in SUBSET index'
    BY <1>9 DEF DeleteRemovesRows, TypeOK
  <2> QED
    BY <1>9, <2>1, <2>2, <2>3, <2>4 DEF DeleteRemovesRows, TypeOK
<1> QED
  BY <1>3, <1>4, <1>5, <1>6, <1>7, <1>8, <1>9

LEMMA TypeBoot ==
    TypeOK /\ (BootLoads \/ BootChecks \/ BootStores \/ Restart) => TypeOK'
<1> SUFFICES ASSUME TypeOK, BootLoads \/ BootChecks \/ BootStores \/ Restart PROVE TypeOK'
  OBVIOUS
<1> USE DEF db, disks, child, super, task, work, budget
<1>1. Booter \in Actors
  BY DEF Actors
<1>2. {"idle", "end", "boot", "bootCheck", "booted", "scan", "count"} \subseteq Labels
  BY DEF Labels, Finishing
<1>3. CASE BootLoads \/ BootChecks
  <2>1. pc' \in [Actors -> Labels]
    BY <1>1, <1>2, <1>3, GoTypes DEF BootLoads, BootChecks
  <2>7. StoreTypes'
    BY <1>3, <2>1 DEF BootLoads, BootChecks, TypeOK, StoreTypes
  <2>8. TaskTypes'
    BY <1>3, <2>1 DEF BootLoads, BootChecks, TypeOK, TaskTypes
  <2>9. ActorTypes'
    BY <1>3, <2>1 DEF BootLoads, BootChecks, TypeOK, ActorTypes
  <2> QED
    BY <2>7, <2>8, <2>9 DEF TypeOK, StoreTypes, TaskTypes, ActorTypes
<1>4. CASE BootStores
  <2>1. pc' \in [Actors -> Labels]
    BY <1>1, <1>2, <1>4, GoTypes DEF BootStores
  <2>2. seen[Booter] \in SUBSET Segments /\ seen' \in [Actors \cup {"scanLoop"} -> SUBSET Segments]
    BY <1>1, <1>4 DEF BootStores, TypeOK
  <2>3. index' \in SUBSET Segments /\ playable' \in SUBSET index'
    BY <1>4, <2>2 DEF BootStores, TypeOK
  <2>4. faults' \in 0..MaxFaults
    BY <1>4, FaultTypes DEF BootStores, ScanFails, TypeOK
  <2>7. StoreTypes'
    BY <1>4, <2>3 DEF BootStores, TypeOK, StoreTypes
  <2>8. TaskTypes'
    BY <1>4 DEF BootStores, TypeOK, TaskTypes
  <2>9. ActorTypes'
    BY <1>4, <2>1, <2>2, <2>4 DEF BootStores, TypeOK, ActorTypes
  <2> QED
    BY <2>7, <2>8, <2>9 DEF TypeOK, StoreTypes, TaskTypes, ActorTypes
<1>5. CASE Restart
  <2>1. pc' \in [Actors -> Labels]
    BY <1>2, <1>5 DEF Restart
  <2>2. restarts' \in 0..MaxRestarts
    BY <1>5, Bounds DEF Restart, TypeOK
  <2>3. proc' \in {"reaped", "orphan"} /\ killed' \in BOOLEAN
    BY <1>5 DEF Restart, TypeOK
  <2>4. waiter' = "none" /\ scanner' = "ended" /\ stopper' = "none" /\ closings' \in 0..2
    BY <1>5 DEF Restart
  <2>5. stopErr' \in BOOLEAN /\ mapped' \in BOOLEAN /\ finalizing' \in BOOLEAN
    BY <1>5 DEF Restart
  <2>7. StoreTypes'
    BY <1>5 DEF Restart, TypeOK, StoreTypes
  <2>8. TaskTypes'
    BY <2>3, <2>4, <2>5 DEF TaskTypes
  <2>9. ActorTypes'
    BY <1>5, <2>1, <2>2 DEF Restart, TypeOK, ActorTypes, Terminal
  <2> QED
    BY <2>7, <2>8, <2>9 DEF TypeOK, StoreTypes, TaskTypes, ActorTypes
<1> QED
  BY <1>3, <1>4, <1>5

\* Every variable keeps its type in every step.
LEMMA TypeStep == TypeOK /\ OneFinalizer /\ [Next]_vars => TypeOK'
<1> SUFFICES ASSUME TypeOK, OneFinalizer, [Next]_vars PROVE TypeOK'
  OBVIOUS
<1> USE DEF db, disks, child, super, task, work, budget
<1>1. CASE ProcWrites \/ ProcExits \/ WaitStep \/ ScanList \/ ScanStore \/ ScannerEnds \/ StopProcessStep
  BY <1>1, TypeChild
<1>2. CASE WatcherYields \/ \E a \in Finalizers : FinalizeBegins(a)
  <2>1. pc' \in [Actors -> Labels]
    BY <1>2, GoTypes DEF WatcherYields, FinalizeBegins, Actors, Finalizers, Labels, Finishing
  <2>7. StoreTypes'
    BY <1>2, <2>1 DEF WatcherYields, FinalizeBegins, TypeOK, StoreTypes
  <2>8. TaskTypes'
    <3>1. UNCHANGED <<proc, killed, waiter, scanner, stopper, stopErr, mapped, closings>>
      BY <1>2 DEF WatcherYields, FinalizeBegins
    <3>2. finalizing' \in BOOLEAN
      BY <1>2 DEF WatcherYields, FinalizeBegins, TypeOK
    <3> QED
      BY <3>1, <3>2 DEF TypeOK, TaskTypes
  <2>9. ActorTypes'
    BY <1>2, <2>1 DEF WatcherYields, FinalizeBegins, TypeOK, ActorTypes
  <2> QED
    BY <2>7, <2>8, <2>9 DEF TypeOK, StoreTypes, TaskTypes, ActorTypes
<1>3. CASE \E a \in Actors : FinalStep(a)
  BY <1>3, TypeFinal
<1>4. CASE \E c \in Callers : \/ Stop(c) \/ Delete(c) \/ StopClaims(c) \/ StopWaits(c) \/ StopWaitsFinal(c)
                              \/ StopReadsRow(c) \/ DeleteRemovesFiles(c) \/ DeleteRemovesRows(c)
  BY <1>4, TypeCaller
<1>5. CASE BootLoads \/ BootChecks \/ BootStores \/ Restart
  BY <1>5, TypeBoot
<1>6. CASE UNCHANGED vars
  BY <1>6 DEF vars, TypeOK
<1> QED
  BY <1>1, <1>2, <1>3, <1>4, <1>5, <1>6 DEF Next, FinalizerStep, CallerStep, BootStep, Actors
-----------------------------------------------------------------------------
(* One finalizer *)

LEMMA FinalMoves ==
    ASSUME TypeOK, NEW a \in Actors, FinalStep(a)
    PROVE  /\ pc[a] \in Finishing /\ \A b \in Actors \ {a} : pc'[b] = pc[b]
           /\ UNCHANGED <<waiter, scanner, proc, restarts>>
           /\ \/ pc'[a] \in Finishing \ {"close"} /\ UNCHANGED <<finalizing, mapped, closings>>
              \/ pc'[a] = WrittenTo(a) /\ UNCHANGED <<finalizing, mapped, closings>>
              \/ /\ pc'[a] = FailTo(a) /\ finalizing' = (finalizing /\ a \notin Finalizers)
                 /\ UNCHANGED <<mapped, closings>>
              \/ FinalClose(a)
<1> USE DEF disks, child, super, task, budget
<1>1. {"scan", "store", "count", "write", "close"} \subseteq Labels /\ WrittenTo(a) \in Labels
  BY DEF Labels, Finishing, WrittenTo
<1>2. ASSUME GivesUp(a)
      PROVE  /\ pc'[a] = FailTo(a) /\ \A b \in Actors \ {a} : pc'[b] = pc[b]
             /\ finalizing' = (finalizing /\ a \notin Finalizers)
  BY <1>2, GivesUpTypes DEF GivesUp
<1>3. CASE FinalList(a)
  <2>1. \/ Goto(a, "store") /\ UNCHANGED <<finalizing, mapped, closings>>
        \/ GivesUp(a) /\ UNCHANGED <<mapped, closings>>
    BY <1>3 DEF FinalList
  <2>2. pc[a] \in Finishing /\ UNCHANGED <<waiter, scanner, proc, restarts>>
    BY <1>3 DEF FinalList, Finishing
  <2> QED
    BY <1>1, <1>2, <2>1, <2>2, GoTypes DEF Finishing
<1>4. CASE FinalStore(a)
  <2>1. \/ Goto(a, "count") /\ UNCHANGED <<finalizing, mapped, closings>>
        \/ GivesUp(a) /\ UNCHANGED <<mapped, closings>>
    BY <1>4 DEF FinalStore
  <2>2. pc[a] \in Finishing /\ UNCHANGED <<waiter, scanner, proc, restarts>>
    BY <1>4 DEF FinalStore, Finishing
  <2> QED
    BY <1>1, <1>2, <2>1, <2>2, GoTypes DEF Finishing
<1>5. CASE FinalCount(a)
  <2>1. \/ Goto(a, "write") /\ UNCHANGED <<finalizing, mapped, closings>>
        \/ GivesUp(a) /\ UNCHANGED <<mapped, closings>>
    BY <1>5 DEF FinalCount
  <2>2. pc[a] \in Finishing /\ UNCHANGED <<waiter, scanner, proc, restarts>>
    BY <1>5 DEF FinalCount, Finishing
  <2> QED
    BY <1>1, <1>2, <2>1, <2>2, GoTypes DEF Finishing
<1>6. CASE FinalWrite(a)
  <2>1. \/ Goto(a, WrittenTo(a)) /\ UNCHANGED <<finalizing, mapped, closings>>
        \/ GivesUp(a) /\ UNCHANGED <<mapped, closings>>
    BY <1>6 DEF FinalWrite
  <2>2. pc[a] \in Finishing /\ UNCHANGED <<waiter, scanner, proc, restarts>>
    BY <1>6 DEF FinalWrite, Finishing
  <2> QED
    BY <1>1, <1>2, <2>1, <2>2, GoTypes
<1>7. CASE FinalClose(a)
  <2>1. \A b \in Actors \ {a} : pc'[b] = pc[b]
    BY <1>7, GoTypes DEF FinalClose, Labels
  <2> QED
    BY <1>7, <2>1 DEF FinalClose, Finishing
<1> QED
  BY <1>3, <1>4, <1>5, <1>6, <1>7 DEF FinalStep

LEMMA AloneInit == Init => AloneInv
<1> SUFFICES ASSUME Init PROVE AloneInv
  OBVIOUS
<1>1. PICK b \in {"boot", "booted"} :
         pc = [a \in Actors |-> IF a = Watcher THEN "watch" ELSE IF a = Booter THEN b ELSE "idle"]
  BY DEF Init
<1>2. /\ pc[Watcher] = "watch" /\ pc[Sweeper] = "idle" /\ pc[Booter] = b
      /\ \A c \in Callers : pc[c] = "idle"
  BY <1>1, DistinctActors DEF Actors, Finalizers
<1> QED
  BY <1>2 DEF Init, AloneInv, OneFinalizer, Processes, AfterTask, Finalizers, Finishing

\* Steps of FFmpeg, of the supervisor's goroutines and of nobody.
LEMMA AloneChild ==
    TypeOK /\ AloneInv /\ (ProcWrites \/ ProcExits \/ WaitStep \/ ScanList \/ ScanStore
                           \/ ScannerEnds \/ StopProcessStep \/ UNCHANGED vars)
       => AloneInv'
<1> SUFFICES ASSUME TypeOK, AloneInv,
                    ProcWrites \/ ProcExits \/ WaitStep \/ ScanList \/ ScanStore
                    \/ ScannerEnds \/ StopProcessStep \/ UNCHANGED vars
             PROVE  AloneInv'
  OBVIOUS
<1> USE DEF db, disks, child, super, task, work, budget
<1>1. UNCHANGED <<pc, finalizing, mapped, closings, restarts>>
  BY DEF ProcWrites, ProcExits, WaitStep, WaitReaps, WaitCloses, ScanList, ScanStore, ScannerEnds,
     StopProcessStep, StopRequests, StopSeesDone, StopKills, vars
<1>2. waiter = "closed" => waiter' = "closed"
  BY DEF ProcWrites, ProcExits, WaitStep, WaitReaps, WaitCloses, ScanList, ScanStore, ScannerEnds,
     StopProcessStep, StopRequests, StopSeesDone, StopKills, vars
<1>3. OneFinalizer' /\ AfterTask'
  BY <1>1, <1>2 DEF AloneInv, OneFinalizer, AfterTask
<1>4. Processes'
  <2> USE DEF AloneInv, Processes
  <2>1. CASE ProcWrites \/ StopProcessStep \/ UNCHANGED vars
    BY <2>1 DEF ProcWrites, StopProcessStep, StopRequests, StopSeesDone, StopKills, vars
  <2>2. CASE ProcExits
    BY <2>2 DEF ProcExits
  <2>3. CASE WaitStep
    BY <2>3 DEF WaitStep, WaitReaps, WaitCloses
  <2>4. CASE ScanList \/ ScanStore \/ ScannerEnds
    BY <2>4 DEF ScanList, ScanStore, ScannerEnds
  <2> QED
    BY <2>1, <2>2, <2>3, <2>4
<1> QED
  BY <1>3, <1>4 DEF AloneInv

LEMMA AloneFinalizer ==
    ASSUME TypeOK, AloneInv, NEW a \in Finalizers,
           FinalizeBegins(a) \/ FinalStep(a) \/ WatcherYields
    PROVE  AloneInv'
<1> USE DEF db, disks, child, super, task, work, budget
<1>1. a \in Actors /\ Watcher \in Actors /\ Sweeper \in Actors /\ a \in {Watcher, Sweeper} /\ Watcher # Sweeper
  BY DistinctActors DEF Actors, Finalizers
<1>2. \A b \in Callers \cup {Booter} : b \in Actors /\ b \notin Finalizers
  BY DistinctActors DEF Actors, Finalizers
<1>3. CASE FinalizeBegins(a)
  <2>1. pc'[a] = "scan" /\ \A b \in Actors \ {a} : pc'[b] = pc[b]
    BY <1>1, <1>3, GoTypes DEF FinalizeBegins, Labels, Finishing
  <2>2. finalizing' /\ ~finalizing /\ mapped /\ waiter = "closed"
        /\ UNCHANGED <<mapped, waiter, closings, restarts, proc, scanner>>
    BY <1>3 DEF FinalizeBegins
  <2>3. OneFinalizer'
    BY <1>1, <2>1, <2>2 DEF AloneInv, OneFinalizer, Finalizers, Finishing
  <2> QED
    BY <1>2, <2>1, <2>2, <2>3 DEF AloneInv, Processes, AfterTask, Finalizers
<1>4. CASE WatcherYields
  <2>1. pc'[Watcher] = "end" /\ \A b \in Actors \ {Watcher} : pc'[b] = pc[b]
    BY <1>1, <1>4, GoTypes DEF WatcherYields, Labels
  <2>2. UNCHANGED <<finalizing, mapped, waiter, closings, restarts, proc, scanner>>
    BY <1>4 DEF WatcherYields
  <2>3. OneFinalizer'
    BY <1>1, <2>1, <2>2 DEF AloneInv, OneFinalizer, Finalizers, Finishing
  <2> QED
    BY <1>2, <2>1, <2>2, <2>3 DEF AloneInv, Processes, AfterTask, Finalizers
<1>5. CASE FinalStep(a)
  <2>1. /\ pc[a] \in Finishing /\ \A b \in Actors \ {a} : pc'[b] = pc[b]
        /\ UNCHANGED <<waiter, scanner, proc, restarts>>
    BY <1>1, <1>5, FinalMoves
  <2>2. \A b \in Finalizers \ {a} : pc[b] \notin Finishing /\ pc'[b] = pc[b]
    BY <1>1, <2>1 DEF AloneInv, OneFinalizer, Finalizers
  <2>3. finalizing /\ mapped /\ waiter = "closed"
    BY <2>1 DEF AloneInv, OneFinalizer
  <2>4. CASE FinalClose(a)
    <3>1. pc'[a] = (IF a = Watcher THEN "end" ELSE "idle")
      BY <1>1, <2>4, GoTypes DEF FinalClose, Labels
    <3>2. mapped' = FALSE /\ closings' = closings + 1
      BY <2>4 DEF FinalClose
    <3>3. closings' = 1 /\ restarts = 0
      BY <2>3, <3>2 DEF AloneInv, OneFinalizer
    <3>4. OneFinalizer'
      BY <1>1, <2>1, <2>2, <3>1, <3>2, <3>3 DEF AloneInv, OneFinalizer, Finalizers, Finishing
    <3>5. Processes'
      BY <2>1, <2>3, <3>2 DEF AloneInv, Processes
    <3> QED
      BY <1>2, <2>1, <3>2, <3>4, <3>5 DEF AloneInv, AfterTask, Finalizers
  <2>5. CASE ~FinalClose(a)
    <3>1. UNCHANGED <<mapped, closings>>
      BY <1>1, <1>5, <2>5, FinalMoves
    <3>2. \/ pc'[a] \in Finishing /\ finalizing' = finalizing
          \/ pc'[a] = IF a = Watcher THEN "end" ELSE "idle"
      BY <1>1, <1>2, <1>5, <2>5, FinalMoves, DistinctActors DEF WrittenTo, FailTo, Finishing, Finalizers
    <3>3. OneFinalizer'
      BY <1>1, <2>1, <2>2, <2>3, <3>1, <3>2 DEF AloneInv, OneFinalizer, Finalizers, Finishing
    <3>4. Processes'
      BY <2>1, <3>1 DEF AloneInv, Processes
    <3> QED
      BY <1>2, <2>1, <3>1, <3>3, <3>4 DEF AloneInv, AfterTask, Finalizers
  <2> QED
    BY <2>4, <2>5
<1> QED
  BY <1>3, <1>4, <1>5
\* Steps of a request or of startup touch neither the task nor its finalizer.
LEMMA AloneFrame ==
    ASSUME TypeOK, AloneInv, NEW a \in Callers \cup {Booter},
           UNCHANGED <<finalizing, mapped, closings, waiter, scanner, proc, restarts>>,
           \A b \in Actors \ {a} : pc'[b] = pc[b],
           a \in Callers => pc'[a] \in (Finishing \ {"close"}) \cup
                                       {"idle", "claim", "stopWait", "finalWait", "readRow", "delFiles", "delRows"},
           a = Booter => pc'[a] \in (Finishing \ {"close"}) \cup {"boot", "bootCheck", "booted"},
           pc'[a] \in Finishing \cup {"readRow", "delFiles", "delRows"} => ~mapped
    PROVE  AloneInv'
<1>1. Finalizers \subseteq Actors \ {a} /\ Watcher \in Finalizers /\ Sweeper \in Finalizers
  BY DistinctActors DEF Actors, Finalizers
<1>2. OneFinalizer'
  BY <1>1 DEF AloneInv, OneFinalizer
<1>3. Processes'
  BY DEF AloneInv, Processes
<1>4. AfterTask'
  <2>1. \A b \in (Callers \cup {Booter}) \ {a} : pc'[b] = pc[b]
    BY DEF Actors
  <2>2. Booter \notin Callers
    BY DistinctActors
  <2> QED
    BY <2>1, <2>2 DEF AloneInv, AfterTask
<1> QED
  BY <1>2, <1>3, <1>4 DEF AloneInv

LEMMA AloneCaller ==
    ASSUME TypeOK, AloneInv, NEW c \in Callers, Stop(c) \/ Delete(c) \/ CallerStep(c)
    PROVE  AloneInv'
<1> USE DEF db, disks, child, super, task, work, budget
<1>1. c \in Actors /\ c \notin Finalizers /\ c # Booter
  BY DistinctActors DEF Actors, Finalizers
<1>2. {"idle", "claim", "stopWait", "finalWait", "readRow", "scan", "delFiles", "delRows"} \subseteq Labels
  BY DEF Labels, Finishing
<1>3. CASE FinalStep(c)
  <2>1. pc[c] # "close"
    BY DEF AloneInv, AfterTask, Finishing
  <2>2. ~FinalClose(c)
    BY <2>1 DEF FinalClose
  <2>3. /\ pc[c] \in Finishing /\ \A b \in Actors \ {c} : pc'[b] = pc[b]
        /\ UNCHANGED <<waiter, scanner, proc, restarts, mapped, closings>>
        /\ \/ pc'[c] \in Finishing \ {"close"} /\ UNCHANGED finalizing
           \/ pc'[c] = WrittenTo(c) /\ UNCHANGED finalizing
           \/ pc'[c] = FailTo(c) /\ finalizing' = (finalizing /\ c \notin Finalizers)
    BY <1>1, <1>3, <2>2, FinalMoves
  <2>4. finalizing' = finalizing
    BY <1>1, <2>3 DEF TypeOK
  <2>5. WrittenTo(c) \in {"idle", "delFiles"} /\ FailTo(c) = "idle"
    BY <1>1, DistinctActors DEF WrittenTo, FailTo, Finalizers
  <2>6. ~mapped
    BY <2>3 DEF AloneInv, AfterTask
  <2> QED
    BY <1>1, <2>3, <2>4, <2>5, <2>6, AloneFrame
<1>4. CASE Stop(c) \/ Delete(c) \/ StopClaims(c) \/ DeleteRemovesFiles(c) \/ DeleteRemovesRows(c)
  <2>1. UNCHANGED <<finalizing, mapped, closings, waiter, scanner, proc, restarts>>
    BY <1>4 DEF Stop, Delete, StopClaims, DeleteRemovesFiles, DeleteRemovesRows
  <2>2. /\ \A b \in Actors \ {c} : pc'[b] = pc[b]
        /\ pc'[c] \in {"idle", "claim", "stopWait", "readRow", "delFiles", "delRows"}
        /\ pc'[c] \in {"readRow", "delFiles"} => ~mapped
        /\ pc'[c] = "delRows" => pc[c] = "delFiles"
    <3>1. CASE Stop(c) \/ Delete(c) \/ StopClaims(c)
      BY <1>1, <1>2, <3>1, GoTypes DEF Stop, Delete, StopClaims
    <3>2. CASE DeleteRemovesFiles(c)
      <4>1. pc[c] = "delFiles"
        BY <3>2 DEF DeleteRemovesFiles
      <4>2. CASE Goto(c, "delRows")
        BY <1>1, <1>2, <4>1, <4>2, GoTypes
      <4>3. CASE StopReturns(c, FALSE)
        BY <4>3, StopReturnsTypes
      <4> QED
        BY <3>2, <4>2, <4>3 DEF DeleteRemovesFiles
    <3>3. CASE DeleteRemovesRows(c)
      BY <1>1, <1>2, <3>3, GoTypes DEF DeleteRemovesRows
    <3> QED
      BY <1>4, <3>1, <3>2, <3>3
  <2>3. pc'[c] \in Finishing \cup {"readRow", "delFiles", "delRows"} => ~mapped
    BY <2>2 DEF AloneInv, AfterTask, Finishing
  <2> QED
    BY <1>1, <2>1, <2>2, <2>3, AloneFrame
<1>5. CASE StopWaits(c) \/ StopWaitsFinal(c) \/ StopReadsRow(c)
  <2>1. UNCHANGED <<finalizing, mapped, closings, waiter, scanner, proc, restarts>>
    BY <1>5 DEF StopWaits, StopWaitsFinal, StopReadsRow
  <2>2. ASSUME NEW ok \in BOOLEAN, StopReturns(c, ok)
        PROVE  /\ \A b \in Actors \ {c} : pc'[b] = pc[b]
               /\ pc'[c] \in {"idle", "delFiles"} /\ (~ok => pc'[c] = "idle")
    BY <2>2, StopReturnsTypes
  <2>3. /\ \A b \in Actors \ {c} : pc'[b] = pc[b]
        /\ pc'[c] \in {"idle", "finalWait", "scan", "delFiles"}
        /\ pc'[c] \in {"scan", "delFiles"} => ~mapped
    <3>1. CASE StopWaits(c)
      BY <1>1, <1>2, <2>2, <3>1, GoTypes DEF StopWaits
    <3>2. CASE StopWaitsFinal(c)
      <4>1. closings > 0 => ~mapped
        BY DEF AloneInv, OneFinalizer, TypeOK
      <4> QED
        BY <2>2, <3>2, <4>1 DEF StopWaitsFinal
    <3>3. CASE StopReadsRow(c)
      <4>1. ~mapped
        BY <3>3 DEF StopReadsRow, AloneInv, AfterTask
      <4> QED
        BY <1>1, <1>2, <2>2, <3>3, <4>1, GoTypes DEF StopReadsRow
    <3> QED
      BY <1>5, <3>1, <3>2, <3>3
  <2>4. pc'[c] \in Finishing \cup {"readRow", "delFiles", "delRows"} => ~mapped
    BY <2>3 DEF Finishing
  <2> QED
    BY <1>1, <2>1, <2>3, <2>4, AloneFrame DEF Finishing
<1> QED
  BY <1>3, <1>4, <1>5 DEF CallerStep

LEMMA AloneBoot ==
    TypeOK /\ AloneInv /\ (BootStep \/ Restart) => AloneInv'
<1> SUFFICES ASSUME TypeOK, AloneInv, BootStep \/ Restart PROVE AloneInv'
  OBVIOUS
<1> USE DEF db, disks, child, super, task, work, budget
<1>1. Booter \in Actors /\ Booter \notin Finalizers /\ Booter \notin Callers
  BY DistinctActors DEF Actors, Finalizers
<1>2. {"boot", "bootCheck", "booted", "scan", "count"} \subseteq Labels
  BY DEF Labels, Finishing
<1>3. CASE FinalStep(Booter)
  <2>1. pc[Booter] # "close"
    BY DEF AloneInv, AfterTask, Finishing
  <2>2. ~FinalClose(Booter)
    BY <2>1 DEF FinalClose
  <2>3. /\ pc[Booter] \in Finishing /\ \A b \in Actors \ {Booter} : pc'[b] = pc[b]
        /\ UNCHANGED <<waiter, scanner, proc, restarts, mapped, closings>>
        /\ \/ pc'[Booter] \in Finishing \ {"close"} /\ UNCHANGED finalizing
           \/ pc'[Booter] = WrittenTo(Booter) /\ UNCHANGED finalizing
           \/ pc'[Booter] = FailTo(Booter) /\ finalizing' = (finalizing /\ Booter \notin Finalizers)
    BY <1>1, <1>3, <2>2, FinalMoves
  <2>4. finalizing' = finalizing
    BY <1>1, <2>3 DEF TypeOK
  <2>5. WrittenTo(Booter) = "booted" /\ FailTo(Booter) = "boot"
    BY <1>1, DistinctActors DEF WrittenTo, FailTo, Finalizers
  <2>6. ~mapped
    BY <2>3 DEF AloneInv, AfterTask
  <2> QED
    BY <1>1, <2>3, <2>4, <2>5, <2>6, AloneFrame
<1>4. CASE BootLoads \/ BootChecks \/ BootStores
  <2>1. UNCHANGED <<finalizing, mapped, closings, waiter, scanner, proc, restarts>>
    BY <1>4 DEF BootLoads, BootChecks, BootStores
  <2>2. /\ \A b \in Actors \ {Booter} : pc'[b] = pc[b]
        /\ pc'[Booter] \in {"boot", "bootCheck", "booted", "scan", "count"}
        /\ pc'[Booter] = "scan" => ~mapped
        /\ pc'[Booter] = "count" => pc[Booter] = "store"
    BY <1>1, <1>2, <1>4, GoTypes DEF BootLoads, BootChecks, BootStores
  <2>3. pc'[Booter] \in Finishing \cup {"readRow", "delFiles", "delRows"} => ~mapped
    BY <2>2 DEF AloneInv, AfterTask, Finishing
  <2> QED
    BY <1>1, <2>1, <2>2, <2>3, AloneFrame DEF Finishing
<1>5. CASE Restart
  <2>1. /\ pc' = [a \in Actors |-> IF a = Watcher THEN "end" ELSE IF a = Booter THEN "boot" ELSE "idle"]
        /\ proc' = (CASE proc = "running" -> "orphan" [] proc = "exited" -> "reaped" [] OTHER -> proc)
        /\ waiter' = "none" /\ scanner' = "ended" /\ mapped' = FALSE /\ closings' = 0
        /\ restarts' = restarts + 1 /\ restarts \in Nat
    BY <1>5, Bounds DEF Restart, TypeOK
  <2>2. /\ pc'[Watcher] = "end" /\ pc'[Sweeper] = "idle" /\ pc'[Booter] = "boot"
        /\ \A c \in Callers : pc'[c] = "idle"
    BY <2>1, DistinctActors DEF Actors, Finalizers
  <2>3. proc' # "running" /\ restarts' # 0
    BY <2>1
  <2>4. OneFinalizer' /\ AfterTask'
    BY <2>1, <2>2, <2>3 DEF OneFinalizer, AfterTask, Finalizers, Finishing
  <2>5. Processes'
    BY <2>1, <2>3 DEF Processes
  <2> QED
    BY <2>4, <2>5 DEF AloneInv
<1> QED
  BY <1>3, <1>4, <1>5 DEF BootStep

LEMMA AloneStep == TypeOK /\ AloneInv /\ [Next]_vars => AloneInv'
<1> SUFFICES ASSUME TypeOK, AloneInv, [Next]_vars PROVE AloneInv'
  OBVIOUS
<1>1. CASE ProcWrites \/ ProcExits \/ WaitStep \/ ScanList \/ ScanStore \/ ScannerEnds
           \/ StopProcessStep \/ UNCHANGED vars
  BY <1>1, AloneChild
<1>2. CASE WatcherYields
  BY <1>2, AloneFinalizer DEF Finalizers
<1>3. CASE \E a \in Finalizers : FinalizerStep(a)
  BY <1>3, AloneFinalizer DEF FinalizerStep
<1>4. CASE \E c \in Callers : Stop(c) \/ Delete(c) \/ CallerStep(c)
  BY <1>4, AloneCaller
<1>5. CASE BootStep \/ Restart
  BY <1>5, AloneBoot
<1> QED
  BY <1>1, <1>2, <1>3, <1>4, <1>5 DEF Next

LEMMA Alone == Spec => [](TypeOK /\ AloneInv)
<1>1. Init => TypeOK /\ AloneInv
  BY TypeInit, AloneInit
<1>2. TypeOK /\ AloneInv /\ [Next]_vars => TypeOK' /\ AloneInv'
  BY TypeStep, AloneStep DEF AloneInv
<1> QED
  BY <1>1, <1>2, PTL DEF Spec

\* A session has one finalizer: task.finalized is closed at most once, and no
\* final scan overlaps one of the loop (finalizeSegmentTask, scanLoop).
THEOREM FinalizesAlone == Spec => []FinalizedAlone
<1>1. TypeOK /\ AloneInv => FinalizedAlone
  BY DEF AloneInv, OneFinalizer, Processes, FinalizedAlone, ClosedOnce, ScansApart, Finishing, TypeOK
<1> QED
  BY <1>1, Alone, PTL
-----------------------------------------------------------------------------
(* What the archive lists *)

\* Whoever finalizes, or works on the files after the task, does it when the
\* server's FFmpeg has ended.
LEMMA FinalNotRunning ==
    ASSUME AloneInv, NEW a \in Actors, pc[a] \in Finishing
    PROVE  proc # "running"
BY DEF AloneInv, OneFinalizer, Processes, AfterTask, Actors

LEMMA FoundStep == TypeOK /\ AloneInv /\ Found /\ [Next]_vars => Found'
<1> SUFFICES ASSUME TypeOK, AloneInv, Found, [Next]_vars PROVE Found'
  OBVIOUS
<1> USE DEF db, disks, child, super, task, work, budget
<1>1. CASE ProcWrites
  <2>1. open' = open + 1 /\ open \in Nat /\ UNCHANGED <<index, seen, proc>>
    BY <1>1, Bounds DEF ProcWrites, TypeOK
  <2>2. 1..open \subseteq 1..open' /\ open' \notin 1..open
    BY <2>1
  <2> QED
    BY <2>1, <2>2 DEF Found
<1>2. CASE ScanList
  <2>1. Listing(FALSE) \subseteq disk /\ open \notin Listing(FALSE) /\ disk \subseteq 1..open
    BY ListingFiles DEF TypeOK
  <2>2. /\ seen' = [seen EXCEPT !["scanLoop"] = Listing(FALSE) \ index]
        /\ UNCHANGED <<index, open, proc>>
    BY <1>2 DEF ScanList
  <2> QED
    BY <2>1, <2>2 DEF Found, TypeOK
<1>3. CASE ScanStore
  <2>1. /\ index' = index \cup seen["scanLoop"] \/ index' = index
        /\ seen' = [seen EXCEPT !["scanLoop"] = {}] /\ UNCHANGED <<open, proc>>
    BY <1>3 DEF ScanStore, Stores
  <2> QED
    BY <2>1 DEF Found, TypeOK
<1>4. ASSUME NEW a \in Actors, FinalStep(a)
      PROVE  Found'
  <2>1. proc # "running" /\ proc' = proc /\ open' = open
    <3>1. pc[a] \in Finishing /\ proc' = proc
      BY <1>4, FinalMoves
    <3>2. open' = open
      BY <1>4 DEF FinalStep, FinalList, FinalStore, FinalCount, FinalWrite, FinalClose
    <3> QED
      BY <3>1, <3>2, FinalNotRunning
  <2>2. a \in Actors \cup {"scanLoop"}
    OBVIOUS
  <2>3. index' \subseteq 1..open
    BY <1>4, <2>2 DEF Found, FinalStep, FinalList, FinalStore, FinalCount, FinalWrite, FinalClose, Stores
  <2>4. \A b \in Actors \cup {"scanLoop"} : seen'[b] \subseteq 1..open
    <3>1. CASE FinalList(a)
      <4>1. Listing(TRUE) \subseteq 1..open
        BY ListingFiles DEF TypeOK
      <4>2. seen' = seen \/ seen' = [seen EXCEPT ![a] = Listing(TRUE) \ index]
        BY <3>1 DEF FinalList
      <4>3. ASSUME NEW b \in Actors \cup {"scanLoop"}
            PROVE  seen'[b] = seen[b] \/ seen'[b] = Listing(TRUE) \ index
        BY <2>2, <4>2 DEF TypeOK
      <4> QED
        BY <4>1, <4>3 DEF Found
    <3>2. CASE FinalStore(a)
      BY <3>2 DEF FinalStore, Found, TypeOK
    <3>3. CASE FinalCount(a) \/ FinalWrite(a) \/ FinalClose(a)
      BY <3>3 DEF FinalCount, FinalWrite, FinalClose, Found
    <3> QED
      BY <1>4, <3>1, <3>2, <3>3 DEF FinalStep
  <2> QED
    BY <2>1, <2>3, <2>4 DEF Found
<1>5. CASE BootStores
  <2>1. Booter \in Actors /\ pc[Booter] = "store"
    BY <1>5 DEF BootStores, Actors
  <2>2. proc # "running"
    BY <2>1, FinalNotRunning DEF Finishing
  <2>3. /\ index' = index \cup seen[Booter] \/ \E some \in SUBSET seen[Booter] : index' = index \cup some
        /\ seen' = [seen EXCEPT ![Booter] = {}] /\ UNCHANGED <<open, proc>>
    BY <1>5 DEF BootStores
  <2> QED
    BY <2>1, <2>2, <2>3 DEF Found, TypeOK
<1>6. CASE Restart
  <2>1. /\ \A a \in Actors \cup {"scanLoop"} : seen'[a] = {}
        /\ proc' # "running" /\ UNCHANGED <<index, open>>
    BY <1>6 DEF Restart
  <2> QED
    BY <2>1 DEF Found
<1>7. CASE \E c \in Callers : DeleteRemovesRows(c)
  <2>1. (index' = {} \/ index' = index) /\ UNCHANGED <<open, seen, proc>>
    BY <1>7 DEF DeleteRemovesRows
  <2> QED
    BY <2>1 DEF Found
<1>8. CASE \/ ProcExits \/ WaitStep \/ ScannerEnds \/ StopProcessStep \/ WatcherYields \/ BootLoads \/ BootChecks
           \/ (\E a \in Finalizers : FinalizeBegins(a)) \/ UNCHANGED vars
           \/ \E c \in Callers : \/ Stop(c) \/ Delete(c) \/ StopClaims(c) \/ StopWaits(c) \/ StopWaitsFinal(c)
                                 \/ StopReadsRow(c) \/ DeleteRemovesFiles(c)
  <2>1. UNCHANGED <<index, open, seen>>
    BY <1>8 DEF ProcExits, WaitStep, WaitReaps, WaitCloses, ScannerEnds, StopProcessStep, StopRequests, StopSeesDone,
       StopKills, WatcherYields, BootLoads, BootChecks, FinalizeBegins, Stop, Delete, StopClaims, StopWaits,
       StopWaitsFinal, StopReadsRow, DeleteRemovesFiles, vars
  <2>2. proc' = "running" => proc = "running"
    BY <1>8 DEF ProcExits, WaitStep, WaitReaps, WaitCloses, ScannerEnds, StopProcessStep, StopRequests, StopSeesDone,
       StopKills, WatcherYields, BootLoads, BootChecks, FinalizeBegins, Stop, Delete, StopClaims, StopWaits,
       StopWaitsFinal, StopReadsRow, DeleteRemovesFiles, vars
  <2> QED
    BY <2>1, <2>2 DEF Found
<1> QED
  BY <1>1, <1>2, <1>3, <1>4, <1>5, <1>6, <1>7, <1>8 DEF Next, FinalizerStep, CallerStep, BootStep, Actors

\* While somebody finalizes, nobody else touches files, rows or his findings.
LEMMA FinalizerUndisturbed ==
    ASSUME TypeOK, AloneInv, [Next]_vars, NEW a \in Finalizers, pc[a] \in Finishing,
           ~FinalStep(a), ~Restart
    PROVE  UNCHANGED <<row, index, playable, disk>> /\ seen'[a] = seen[a] /\ verdict'[a] = verdict[a]
<1> USE DEF db, disks, child, super, task, work, budget
<1>1. finalizing /\ mapped /\ waiter = "closed" /\ proc = "reaped" /\ scanner = "ended"
  BY DEF AloneInv, OneFinalizer, Processes
<1>2. a \in Actors /\ a # "scanLoop"
  BY DistinctActors DEF Actors, Finalizers
<1>3. /\ \A b \in Actors \ {a} : pc[b] \notin Finishing
      /\ \A c \in Callers : pc[c] \notin {"delFiles", "delRows"}
  BY <1>1 DEF AloneInv, OneFinalizer, AfterTask, Actors, Finalizers
<1>4. \A b \in Actors : ~FinalStep(b)
  BY <1>3, FinalMoves
<1>5. CASE WaitStep \/ StopProcessStep \/ WatcherYields \/ BootLoads \/ BootChecks \/ UNCHANGED vars
  BY <1>5 DEF WaitStep, WaitReaps, WaitCloses, StopProcessStep, StopRequests, StopSeesDone, StopKills,
     WatcherYields, BootLoads, BootChecks, vars
<1>6. CASE \E b \in Finalizers : FinalizeBegins(b)
  BY <1>1, <1>6 DEF FinalizeBegins
<1>7. CASE \E c \in Callers : \/ Stop(c) \/ Delete(c) \/ StopClaims(c) \/ StopWaits(c) \/ StopWaitsFinal(c)
                              \/ StopReadsRow(c) \/ DeleteRemovesFiles(c) \/ DeleteRemovesRows(c)
  BY <1>3, <1>7 DEF Stop, Delete, StopClaims, StopWaits, StopWaitsFinal, StopReadsRow, DeleteRemovesFiles,
     DeleteRemovesRows
<1>8. CASE BootStores
  <2>1. Booter \in Actors \ {a}
    BY DistinctActors DEF Actors, Finalizers
  <2> QED
    BY <1>3, <1>8, <2>1 DEF BootStores, Finishing
<1>9. CASE ProcWrites \/ ProcExits \/ ScanList \/ ScanStore \/ ScannerEnds
  BY <1>1, <1>9 DEF ProcWrites, ProcExits, ScanList, ScanStore, ScannerEnds
<1> QED
  BY <1>4, <1>5, <1>6, <1>7, <1>8, <1>9 DEF Next, FinalizerStep, CallerStep, BootStep, Actors
\* What a request does on its own: it moves nobody else, works on the session
\* itself only after it found a row that still says recording, and removes the
\* rows after the files.
LEMMA CallerMoves ==
    ASSUME TypeOK, NEW c \in Callers, Stop(c) \/ Delete(c) \/ CallerStep(c), ~FinalStep(c)
    PROVE  /\ \A b \in Actors \ {c} : pc'[b] = pc[b]
           /\ pc'[c] \in Finishing => pc[c] = "readRow" /\ row = "recording"
           /\ pc'[c] = "delRows" => Removed'
           /\ disk' \subseteq disk /\ (dir' => dir)
           /\ UNCHANGED <<mapped, waiter, scanner, restarts, seen, verdict>>
           /\ \/ UNCHANGED <<row, index, playable>>
              \/ pc[c] = "delRows" /\ row' = "none" /\ index' = {}
<1> USE DEF db, disks, child, super, task, work, budget
<1>1. c \in Actors
  BY DEF Actors
<1>2. {"idle", "claim", "stopWait", "finalWait", "readRow", "scan", "delFiles", "delRows"} \subseteq Labels
  BY DEF Labels, Finishing
<1>3. ASSUME NEW ok \in BOOLEAN, StopReturns(c, ok)
      PROVE  /\ \A b \in Actors \ {c} : pc'[b] = pc[b]
             /\ pc'[c] \in {"idle", "delFiles"}
  BY <1>3, StopReturnsTypes
<1>4. CASE Stop(c) \/ Delete(c) \/ StopClaims(c)
  <2>1. /\ \A b \in Actors \ {c} : pc'[b] = pc[b]
        /\ pc'[c] \in {"claim", "stopWait", "readRow", "delFiles"}
    BY <1>1, <1>2, <1>4, GoTypes DEF Stop, Delete, StopClaims
  <2>2. UNCHANGED <<row, index, playable, disk, dir, mapped, waiter, scanner, restarts, seen, verdict>>
    BY <1>4 DEF Stop, Delete, StopClaims
  <2> QED
    BY <2>1, <2>2 DEF Finishing
<1>5. CASE StopWaits(c) \/ StopWaitsFinal(c)
  <2>1. /\ \A b \in Actors \ {c} : pc'[b] = pc[b]
        /\ pc'[c] \in {"idle", "delFiles", "finalWait"}
    BY <1>1, <1>2, <1>3, <1>5, GoTypes DEF StopWaits, StopWaitsFinal
  <2>2. UNCHANGED <<row, index, playable, disk, dir, mapped, waiter, scanner, restarts, seen, verdict>>
    BY <1>5 DEF StopWaits, StopWaitsFinal
  <2> QED
    BY <2>1, <2>2 DEF Finishing
<1>6. CASE StopReadsRow(c)
  <2>1. /\ \A b \in Actors \ {c} : pc'[b] = pc[b]
        /\ \/ pc'[c] \in {"idle", "delFiles"}
           \/ pc'[c] = "scan" /\ row = "recording"
    BY <1>1, <1>2, <1>3, <1>6, GoTypes DEF StopReadsRow
  <2>2. UNCHANGED <<row, index, playable, disk, dir, mapped, waiter, scanner, restarts, seen, verdict>> /\ pc[c] = "readRow"
    BY <1>6 DEF StopReadsRow
  <2> QED
    BY <2>1, <2>2 DEF Finishing
<1>7. CASE DeleteRemovesFiles(c)
  <2>1. /\ \A b \in Actors \ {c} : pc'[b] = pc[b]
        /\ \/ pc'[c] = "delRows" /\ disk' = {} /\ dir' = FALSE
           \/ pc'[c] \in {"idle", "delFiles"} /\ disk' \subseteq disk /\ dir' = dir
    BY <1>1, <1>2, <1>3, <1>7, GoTypes DEF DeleteRemovesFiles
  <2>2. UNCHANGED <<row, index, playable, mapped, waiter, scanner, restarts, seen, verdict>>
    BY <1>7 DEF DeleteRemovesFiles
  <2> QED
    BY <2>1, <2>2 DEF Finishing, Removed
<1>8. CASE DeleteRemovesRows(c)
  <2>1. (\A b \in Actors \ {c} : pc'[b] = pc[b]) /\ pc'[c] = "idle"
    BY <1>1, <1>2, <1>8, GoTypes DEF DeleteRemovesRows
  <2>2. /\ UNCHANGED <<disk, dir, mapped, waiter, scanner, restarts, seen, verdict>>
        /\ \/ UNCHANGED <<row, index, playable>>
           \/ pc[c] = "delRows" /\ row' = "none" /\ index' = {}
    BY <1>8 DEF DeleteRemovesRows
  <2> QED
    BY <2>1, <2>2 DEF Finishing
<1> QED
  BY <1>4, <1>5, <1>6, <1>7, <1>8 DEF CallerStep

\* What startup does on its own.
LEMMA BootMoves ==
    ASSUME TypeOK, BootLoads \/ BootChecks \/ BootStores
    PROVE  /\ \A b \in Actors \ {Booter} : pc'[b] = pc[b] /\ seen'[b] = seen[b]
           /\ seen'[Booter] = seen[Booter] \/ seen'[Booter] = {}
           /\ UNCHANGED <<row, disk, dir, mapped, waiter, scanner, restarts, verdict>>
           /\ \/ UNCHANGED <<index, playable>>
              \/ pc[Booter] = "store" /\ \E some \in SUBSET seen[Booter] : index' = index \cup some
<1> USE DEF db, disks, child, super, task, work, budget
<1>1. Booter \in Actors /\ {"boot", "bootCheck", "booted", "scan", "count"} \subseteq Labels
  BY DEF Actors, Labels, Finishing
<1>2. \A b \in Actors \ {Booter} : pc'[b] = pc[b]
  BY <1>1, GoTypes DEF BootLoads, BootChecks, BootStores
<1>3. CASE BootLoads \/ BootChecks
  BY <1>2, <1>3 DEF BootLoads, BootChecks
<1>4. CASE BootStores
  <2>1. seen' = [seen EXCEPT ![Booter] = {}]
    BY <1>4 DEF BootStores
  <2>2. seen'[Booter] = {} /\ \A b \in Actors \ {Booter} : seen'[b] = seen[b]
    BY <1>1, <2>1 DEF TypeOK
  <2>3. UNCHANGED <<row, disk, dir, mapped, waiter, scanner, restarts, verdict>> /\ pc[Booter] = "store"
    BY <1>4 DEF BootStores
  <2>4. \E some \in SUBSET seen[Booter] : index' = index \cup some
    BY <1>4 DEF BootStores
  <2> QED
    BY <1>2, <2>2, <2>3, <2>4
<1> QED
  BY <1>3, <1>4
\* A finalizer moves by its own steps, or when it takes the task or yields.
LEMMA FinalizerMoves ==
    ASSUME TypeOK, AloneInv, [Next]_vars, NEW a \in Finalizers, ~FinalStep(a), ~Restart
    PROVE  pc'[a] = pc[a] \/ (pc[a] \notin Finishing /\ pc'[a] \in {"scan", "end"})
<1> USE DEF db, disks, child, super, task, work, budget
<1>1. a \in Actors /\ Watcher \in Actors /\ a # Booter /\ \A c \in Callers : a # c
  BY DistinctActors DEF Actors, Finalizers
<1>2. CASE \E b \in Finalizers : FinalizeBegins(b)
  <2>1. PICK b \in Finalizers : FinalizeBegins(b)
    BY <1>2
  <2>2. pc'[b] = "scan" /\ (\A d \in Actors \ {b} : pc'[d] = pc[d]) /\ pc[b] \in {"watch", "idle"}
    BY <2>1, GoTypes DEF FinalizeBegins, Actors, Labels, Finishing
  <2> QED
    BY <1>1, <2>2 DEF Finishing
<1>3. CASE WatcherYields
  <2>1. pc'[Watcher] = "end" /\ (\A d \in Actors \ {Watcher} : pc'[d] = pc[d]) /\ pc[Watcher] = "watch"
    BY <1>1, <1>3, GoTypes DEF WatcherYields, Labels
  <2> QED
    BY <1>1, <2>1 DEF Finishing
<1>4. CASE \E b \in Actors : FinalStep(b)
  BY <1>1, <1>4, FinalMoves
<1>5. CASE \E c \in Callers : (Stop(c) \/ Delete(c) \/ CallerStep(c)) /\ ~FinalStep(c)
  BY <1>1, <1>5, CallerMoves
<1>6. CASE BootLoads \/ BootChecks \/ BootStores
  BY <1>1, <1>6, BootMoves
<1>7. CASE \/ ProcWrites \/ ProcExits \/ WaitStep \/ ScanList \/ ScanStore \/ ScannerEnds
           \/ StopProcessStep \/ UNCHANGED vars
  BY <1>7 DEF ProcWrites, ProcExits, WaitStep, WaitReaps, WaitCloses, ScanList, ScanStore, ScannerEnds,
     StopProcessStep, StopRequests, StopSeesDone, StopKills, vars
<1> QED
  BY <1>2, <1>3, <1>4, <1>5, <1>6, <1>7 DEF Next, FinalizerStep, BootStep, Actors

\* The steps of one finalization: what it finds it stores, what is stored it
\* counts, what it counted it writes.
LEMMA FinalizationOwn ==
    ASSUME TypeOK, AloneInv, Finalization, NEW a \in Finalizers, FinalStep(a)
    PROVE  /\ pc'[a] = "store" => disk' \subseteq index' \cup seen'[a]
           /\ pc'[a] \in {"count", "write", "close"} => disk' \subseteq index'
           /\ pc'[a] = "write" => verdict'[a] = Verdict'
           /\ pc'[a] = "close" => row' # "recording"
<1> USE DEF db, disks, child, super, task, work, budget
<1>1. a \in Actors /\ a \in Actors \cup {"scanLoop"} /\ a # Booter /\ a \notin Callers
  BY DistinctActors DEF Actors, Finalizers
<1>2. GivesUp(a) => pc'[a] \notin Finishing
  BY <1>1, GivesUpTypes DEF Finishing
<1>3. Finishing \subseteq Labels
  BY DEF Labels
<1>4. CASE FinalList(a)
  <2>1. CASE Goto(a, "store")
    <3>1. pc'[a] = "store"
      BY <1>1, <1>3, <2>1, GoTypes DEF Finishing
    <3>2. ~GivesUp(a)
      BY <1>2, <3>1 DEF Finishing
    <3>3. seen'[a] = Listing(TRUE) \ index
      BY <1>1, <1>4, <3>2 DEF FinalList, TypeOK
    <3>4. Listing(TRUE) = disk /\ UNCHANGED <<disk, index>>
      BY <1>4, ListingFiles DEF FinalList
    <3> QED
      BY <3>1, <3>3, <3>4
  <2>2. CASE GivesUp(a)
    BY <1>2, <2>2 DEF Finishing
  <2> QED
    BY <1>4, <2>1, <2>2 DEF FinalList
<1>5. CASE FinalStore(a)
  <2>1. CASE Goto(a, "count")
    <3>1. pc'[a] = "count"
      BY <1>1, <1>3, <2>1, GoTypes DEF Finishing
    <3>2. ~GivesUp(a)
      BY <1>2, <3>1 DEF Finishing
    <3>3. index' = index \cup seen[a] /\ disk' = disk /\ pc[a] = "store"
      BY <1>5, <3>2 DEF FinalStore, Stores
    <3> QED
      BY <3>1, <3>3 DEF Finalization
  <2>2. CASE GivesUp(a)
    BY <1>2, <2>2 DEF Finishing
  <2> QED
    BY <1>5, <2>1, <2>2 DEF FinalStore
<1>6. CASE FinalCount(a)
  <2>1. CASE Goto(a, "write")
    <3>1. pc'[a] = "write"
      BY <1>1, <1>3, <2>1, GoTypes DEF Finishing
    <3>2. ~GivesUp(a)
      BY <1>2, <3>1 DEF Finishing
    <3>3. UNCHANGED <<index, playable, disk>> /\ pc[a] = "count" /\ verdict' = [verdict EXCEPT ![a] = Verdict]
      BY <1>6, <3>2 DEF FinalCount
    <3>4. verdict'[a] = Verdict'
      BY <1>1, <3>3 DEF TypeOK, Verdict
    <3> QED
      BY <3>1, <3>3, <3>4 DEF Finalization
  <2>2. CASE GivesUp(a)
    BY <1>2, <2>2 DEF Finishing
  <2> QED
    BY <1>6, <2>1, <2>2 DEF FinalCount
<1>7. CASE FinalWrite(a)
  <2>1. CASE Goto(a, WrittenTo(a))
    <3>1. pc'[a] = "close"
      BY <1>1, <1>3, <2>1, GoTypes DEF WrittenTo, Finishing
    <3>2. ~GivesUp(a)
      BY <1>2, <3>1 DEF Finishing
    <3>3. UNCHANGED <<index, disk>> /\ pc[a] = "write" /\ row' = IF row = "none" THEN row ELSE verdict[a]
      BY <1>7, <3>2 DEF FinalWrite
    <3>4. verdict[a] \in Terminal
      BY <1>1 DEF TypeOK
    <3> QED
      BY <3>1, <3>3, <3>4 DEF Finalization, Terminal
  <2>2. CASE GivesUp(a)
    BY <1>2, <2>2 DEF Finishing
  <2> QED
    BY <1>7, <2>1, <2>2 DEF FinalWrite
<1>8. CASE FinalClose(a)
  <2>1. (IF a = Watcher THEN "end" ELSE "idle") \in Labels
    BY DEF Labels
  <2>2. pc'[a] \in {"end", "idle"}
    BY <1>1, <1>8, <2>1, GoTypes DEF FinalClose
  <2> QED
    BY <2>2
<1> QED
  BY <1>4, <1>5, <1>6, <1>7, <1>8 DEF FinalStep

LEMMA FinalizationStep == TypeOK /\ AloneInv /\ Finalization /\ [Next]_vars => Finalization'
<1> SUFFICES ASSUME TypeOK, AloneInv, Finalization, [Next]_vars, NEW a \in Finalizers
             PROVE  /\ pc'[a] = "store" => disk' \subseteq index' \cup seen'[a]
                    /\ pc'[a] \in {"count", "write", "close"} => disk' \subseteq index'
                    /\ pc'[a] = "write" => verdict'[a] = Verdict'
                    /\ pc'[a] = "close" => row' # "recording"
  BY DEF Finalization
<1>1. CASE Restart
  <2>1. pc'[a] \in {"end", "idle", "boot"}
    BY <1>1 DEF Restart, Actors
  <2> QED
    BY <2>1
<1>2. CASE FinalStep(a)
  BY <1>2, FinalizationOwn
<1>3. CASE ~FinalStep(a) /\ ~Restart /\ pc[a] \in Finishing
  <2>1. pc'[a] = pc[a]
    BY <1>3, FinalizerMoves
  <2>2. UNCHANGED <<row, index, playable, disk>> /\ seen'[a] = seen[a] /\ verdict'[a] = verdict[a]
    BY <1>3, FinalizerUndisturbed
  <2> QED
    BY <2>1, <2>2 DEF Finalization, Verdict
<1>4. CASE ~FinalStep(a) /\ ~Restart /\ pc[a] \notin Finishing
  <2>1. pc'[a] \notin {"store", "count", "write", "close"}
    BY <1>4, FinalizerMoves DEF Finishing
  <2> QED
    BY <2>1
<1> QED
  BY <1>1, <1>2, <1>3, <1>4
\* While the task is in the map, nobody but its finalizer and the scans change
\* what is stored, and the finalizer leaves it with a terminal row and every
\* file indexed.
LEMMA HeldStep ==
    ASSUME TypeOK, AloneInv, Finalization, Finalized, [Next]_vars, mapped, restarts = 0, ~Restart
    PROVE  Finalized'
<1> USE DEF db, disks, child, super, task, work, budget
<1>1. /\ \A c \in Callers : pc[c] \notin Finishing \cup {"readRow", "delFiles", "delRows"}
      /\ pc[Booter] \notin Finishing /\ seen[Booter] = {} /\ row # "none"
  BY DEF AloneInv, AfterTask, Finalized
<1>2. Booter \in Actors /\ Booter \notin Finalizers /\ Booter # "scanLoop" /\ Callers \subseteq Actors
      /\ Finalizers \subseteq Actors /\ \A a \in Finalizers : a \notin Callers
  BY DistinctActors DEF Actors, Finalizers
<1>3. ASSUME NEW a \in Actors, FinalStep(a)
      PROVE  a \in Finalizers
  BY <1>1, <1>3, FinalMoves DEF Actors
<1>4. \A c \in Callers : pc'[c] \notin Finishing /\ (pc'[c] = "delRows" => disk' = {})
  <2> SUFFICES ASSUME NEW c \in Callers
               PROVE  pc'[c] \notin Finishing /\ (pc'[c] = "delRows" => disk' = {})
    OBVIOUS
  <2>1. ~FinalStep(c)
    BY <1>2, <1>3
  <2>2. CASE Stop(c) \/ Delete(c) \/ CallerStep(c)
    BY <1>1, <2>1, <2>2, CallerMoves DEF Removed
  <2>3. CASE pc'[c] = pc[c]
    BY <1>1, <2>3 DEF Finishing
  <2>4. CASE \E d \in Callers : d # c /\ (Stop(d) \/ Delete(d) \/ CallerStep(d))
    <3>1. PICK d \in Callers : d # c /\ (Stop(d) \/ Delete(d) \/ CallerStep(d))
      BY <2>4
    <3>2. ~FinalStep(d)
      BY <1>2, <1>3, <3>1
    <3>3. pc'[c] = pc[c]
      BY <1>2, <3>1, <3>2, CallerMoves
    <3> QED
      BY <2>3, <3>3
  <2>5. CASE BootLoads \/ BootChecks \/ BootStores
    <3>1. pc'[c] = pc[c]
      BY <1>2, <2>5, BootMoves, DistinctActors
    <3> QED
      BY <2>3, <3>1
  <2>6. CASE \E a \in Actors : FinalStep(a)
    <3>1. pc'[c] = pc[c]
      BY <1>2, <1>3, <2>6, FinalMoves
    <3> QED
      BY <2>3, <3>1
  <2>7. CASE (\E a \in Finalizers : FinalizeBegins(a)) \/ WatcherYields
    <3>1. pc'[c] = pc[c]
      BY <1>2, <2>7, GoTypes DEF FinalizeBegins, WatcherYields, Labels, Finishing, Finalizers
    <3> QED
      BY <2>3, <3>1
  <2>8. CASE \/ ProcWrites \/ ProcExits \/ WaitStep \/ ScanList \/ ScanStore \/ ScannerEnds
             \/ StopProcessStep \/ UNCHANGED vars
    <3>1. pc'[c] = pc[c]
      BY <2>8 DEF ProcWrites, ProcExits, WaitStep, WaitReaps, WaitCloses, ScanList, ScanStore, ScannerEnds,
         StopProcessStep, StopRequests, StopSeesDone, StopKills, vars
    <3> QED
      BY <2>3, <3>1
  <2> QED
    BY <1>2, <2>2, <2>4, <2>5, <2>6, <2>7, <2>8 DEF Next, FinalizerStep, BootStep
<1>5. CASE \E a \in Actors : FinalStep(a)
  <2>1. PICK a \in Finalizers : FinalStep(a)
    BY <1>3, <1>5
  <2>2. pc[a] \in Finishing /\ waiter' = waiter
    BY <1>2, <2>1, FinalMoves
  <2>3. waiter' = "closed"
    BY <2>2 DEF AloneInv, OneFinalizer
  <2>4. seen'[Booter] = {}
    <3>1. seen' = [seen EXCEPT ![a] = Listing(TRUE) \ index] \/ seen' = [seen EXCEPT ![a] = {}] \/ seen' = seen
      BY <2>1 DEF FinalStep, FinalList, FinalStore, FinalCount, FinalWrite, FinalClose
    <3> QED
      BY <1>1, <1>2, <2>1, <3>1 DEF TypeOK
  <2>5. row' # "none"
    <3>1. row' = row \/ row' = verdict[a]
      BY <2>1 DEF FinalStep, FinalList, FinalStore, FinalCount, FinalWrite, FinalClose
    <3>2. verdict[a] \in Terminal
      BY <1>2, <2>1 DEF TypeOK
    <3> QED
      BY <1>1, <3>1, <3>2 DEF Terminal
  <2>6. ~mapped' => row' # "recording" /\ disk' \subseteq index'
    <3>1. CASE FinalClose(a)
      BY <3>1, <2>1 DEF FinalClose, Finalization
    <3>2. CASE ~FinalClose(a)
      BY <2>1, <3>2 DEF FinalStep, FinalList, FinalStore, FinalCount, FinalWrite
    <3> QED
      BY <3>1, <3>2
  <2> QED
    BY <1>4, <2>3, <2>4, <2>5, <2>6 DEF Finalized
<1>6. CASE ~\E a \in Actors : FinalStep(a)
  <2>1. mapped' = mapped /\ row' = row /\ seen'[Booter] = {}
    <3>1. CASE \E c \in Callers : Stop(c) \/ Delete(c) \/ CallerStep(c)
      BY <1>1, <1>2, <1>6, <3>1, CallerMoves
    <3>2. CASE BootLoads \/ BootChecks \/ BootStores
      BY <1>1, <3>2, BootMoves
    <3>3. CASE ScanList \/ ScanStore
      <4>1. UNCHANGED <<mapped, row>> /\ \E found : seen' = [seen EXCEPT !["scanLoop"] = found]
        BY <3>3 DEF ScanList, ScanStore
      <4> QED
        BY <1>1, <1>2, <4>1 DEF TypeOK
    <3>4. CASE \/ ProcWrites \/ ProcExits \/ WaitStep \/ ScannerEnds \/ WatcherYields
               \/ StopProcessStep \/ UNCHANGED vars \/ \E a \in Finalizers : FinalizeBegins(a)
      BY <1>1, <3>4 DEF ProcWrites, ProcExits, WaitStep, WaitReaps, WaitCloses, ScannerEnds,
         StopProcessStep, StopRequests, StopSeesDone, StopKills, WatcherYields, FinalizeBegins, vars
    <3> QED
      BY <1>2, <1>6, <3>1, <3>2, <3>3, <3>4 DEF Next, FinalizerStep, BootStep
  <2> QED
    BY <1>1, <1>4, <2>1 DEF Finalized
<1> QED
  BY <1>5, <1>6

\* After it nothing is left to do: nobody finds a file to store, and a delete
\* takes the files before the rows.
LEMMA GoneStep ==
    ASSUME TypeOK, AloneInv, Finalized, [Next]_vars, ~mapped, restarts = 0, ~Restart
    PROVE  Finalized'
<1> USE DEF db, disks, child, super, task, work, budget
<1>1. /\ waiter = "closed" /\ row # "recording" /\ disk \subseteq index
      /\ seen[Booter] = {} /\ (\A c \in Callers : pc[c] \notin Finishing)
      /\ (\A c \in Callers : pc[c] = "delRows" => disk = {})
      /\ row = "none" => disk = {} /\ index = {}
  BY DEF Finalized
<1>2. proc = "reaped" /\ scanner = "ended" /\ \A a \in Finalizers : pc[a] \notin Finishing
  BY <1>1 DEF AloneInv, OneFinalizer, Processes
<1>3. Booter \in Actors /\ Booter # "scanLoop" /\ Callers \subseteq Actors /\ Booter \notin Callers
      /\ Finalizers \subseteq Actors
  BY DistinctActors DEF Actors, Finalizers
<1>4. \A a \in Actors : FinalStep(a) => a = Booter
  BY <1>1, <1>2, FinalMoves DEF Actors
<1>5. ASSUME NEW c \in Callers, Stop(c) \/ Delete(c) \/ CallerStep(c)
      PROVE  Finalized'
  <2>1. ~FinalStep(c)
    BY <1>3, <1>4
  <2>2. /\ \A b \in Actors \ {c} : pc'[b] = pc[b]
        /\ pc'[c] \notin Finishing
        /\ pc'[c] = "delRows" => disk' = {}
        /\ disk' \subseteq disk
        /\ UNCHANGED <<mapped, waiter, seen>>
        /\ UNCHANGED <<row, index>> \/ (pc[c] = "delRows" /\ row' = "none" /\ index' = {})
    BY <1>1, <1>5, <2>1, CallerMoves DEF Removed
  <2>3. \A d \in Callers : pc'[d] \notin Finishing /\ (pc'[d] = "delRows" => disk' = {})
    BY <1>1, <1>3, <2>2
  <2>4. ~mapped' /\ waiter' = "closed" /\ row' # "recording" /\ disk' \subseteq index' /\ seen'[Booter] = {}
    BY <1>1, <2>2
  <2>5. row' = "none" => disk' = {} /\ index' = {}
    BY <1>1, <2>2
  <2> QED
    BY <2>3, <2>4, <2>5 DEF Finalized
<1>6. ASSUME UNCHANGED <<mapped, waiter, disk, index>>, row' = row \/ (row # "none" /\ row' \in Terminal),
             seen'[Booter] = {}, \A c \in Callers : pc'[c] = pc[c]
      PROVE  Finalized'
  <2>1. row' # "recording" /\ (row' = "none" => row = "none")
    BY <1>1, <1>6 DEF Terminal
  <2> QED
    BY <1>1, <1>6, <2>1 DEF Finalized
<1>7. CASE FinalStep(Booter)
  <2>1. pc[Booter] # "close"
    BY DEF AloneInv, AfterTask, Finishing
  <2>2. UNCHANGED <<mapped, waiter, disk, index>>
    BY <1>7, <2>1 DEF FinalStep, FinalList, FinalStore, FinalCount, FinalWrite, FinalClose
  <2>3. row' = row \/ (row # "none" /\ row' \in Terminal)
    <3>1. row' = row \/ (row # "none" /\ row' = verdict[Booter])
      BY <1>7, <2>1 DEF FinalStep, FinalList, FinalStore, FinalCount, FinalWrite, FinalClose
    <3>2. verdict[Booter] \in Terminal
      BY <1>3 DEF TypeOK
    <3> QED
      BY <3>1, <3>2
  <2>4. seen'[Booter] = {}
    <3>1. seen' = [seen EXCEPT ![Booter] = Listing(TRUE) \ index] \/ seen' = seen
      BY <1>7, <2>1 DEF FinalStep, FinalList, FinalStore, FinalCount, FinalWrite, FinalClose
    <3>2. Listing(TRUE) \ index = {}
      BY <1>1, ListingFiles
    <3> QED
      BY <1>1, <1>3, <3>1, <3>2 DEF TypeOK
  <2>5. \A c \in Callers : pc'[c] = pc[c]
    BY <1>3, <1>7, FinalMoves
  <2> QED
    BY <1>6, <2>2, <2>3, <2>4, <2>5
<1>8. CASE BootLoads \/ BootChecks \/ BootStores
  <2>1. index' = index
    BY <1>1, <1>8, BootMoves
  <2> QED
    BY <1>1, <1>3, <1>6, <1>8, <2>1, BootMoves
<1>9. CASE WatcherYields
  <2>1. \A c \in Callers : pc'[c] = pc[c]
    BY <1>9, GoTypes, DistinctActors DEF WatcherYields, Labels, Actors, Finalizers
  <2> QED
    BY <1>1, <1>6, <1>9, <2>1 DEF WatcherYields
<1>10. CASE StopProcessStep \/ UNCHANGED vars
  BY <1>1, <1>6, <1>10 DEF StopProcessStep, StopRequests, StopSeesDone, StopKills, vars
<1>11. ~(\E a \in Finalizers : FinalizeBegins(a))
  BY DEF FinalizeBegins
<1>12. ~(ProcWrites \/ ProcExits \/ WaitStep \/ ScanList \/ ScanStore \/ ScannerEnds)
  BY <1>1, <1>2 DEF ProcWrites, ProcExits, WaitStep, WaitReaps, WaitCloses, ScanList, ScanStore, ScannerEnds
<1> QED
  BY <1>3, <1>4, <1>5, <1>7, <1>8, <1>9, <1>10, <1>11, <1>12, DistinctActors
     DEF Next, FinalizerStep, BootStep, Finalizers
LEMMA FinalizedStep == TypeOK /\ AloneInv /\ Finalization /\ Finalized /\ [Next]_vars => Finalized'
<1> SUFFICES ASSUME TypeOK, AloneInv, Finalization, Finalized, [Next]_vars PROVE Finalized'
  OBVIOUS
<1>1. CASE Restart
  <2>1. restarts' # 0
    BY <1>1, Bounds DEF Restart, TypeOK
  <2> QED
    BY <2>1 DEF Finalized
<1>2. CASE restarts # 0 /\ ~Restart
  <2>1. restarts' = restarts
    <3>1. \A a \in Actors : FinalStep(a) => restarts' = restarts
      BY FinalMoves
    <3>2. \A c \in Callers : (Stop(c) \/ Delete(c) \/ CallerStep(c)) /\ ~FinalStep(c) => restarts' = restarts
      BY DEF CallerStep, Stop, Delete, StopClaims, StopWaits, StopWaitsFinal, StopReadsRow, DeleteRemovesFiles,
         DeleteRemovesRows, budget
    <3>3. CASE \/ ProcWrites \/ ProcExits \/ WaitStep \/ ScanList \/ ScanStore \/ ScannerEnds \/ StopProcessStep
               \/ WatcherYields \/ BootLoads \/ BootChecks \/ BootStores \/ UNCHANGED vars
               \/ \E a \in Finalizers : FinalizeBegins(a)
      BY <3>3 DEF ProcWrites, ProcExits, WaitStep, WaitReaps, WaitCloses, ScanList, ScanStore, ScannerEnds,
         StopProcessStep, StopRequests, StopSeesDone, StopKills, WatcherYields, BootLoads, BootChecks, BootStores,
         FinalizeBegins, budget, vars
    <3> QED
      BY <1>2, <3>1, <3>2, <3>3 DEF Next, FinalizerStep, BootStep, Actors
  <2> QED
    BY <1>2, <2>1 DEF Finalized
<1>3. CASE restarts = 0 /\ ~Restart
  BY <1>3, HeldStep, GoneStep DEF TypeOK
<1> QED
  BY <1>1, <1>2, <1>3

\* A deletion goes on, or is done: the directory stays away, and no scan loop
\* comes back after a restart.
LEMMA DeletedStep == TypeOK /\ AloneInv /\ Deleted /\ [Next]_vars => Deleted'
<1> SUFFICES ASSUME TypeOK, AloneInv, Deleted, [Next]_vars PROVE Deleted'
  OBVIOUS
<1> USE DEF db, disks, child, super, task, work, budget
<1>0. Callers \subseteq Actors /\ Booter \in Actors /\ Finalizers \subseteq Actors
  BY DEF Actors
<1>1. CASE Restart
  <2>1. scanner' = "ended" /\ row' = row /\ dir' = dir /\ disk' = disk
    BY <1>1 DEF Restart
  <2>2. \A c \in Callers : pc'[c] # "delRows"
    BY <1>0, <1>1 DEF Restart
  <2> QED
    BY <2>1, <2>2 DEF Deleted, Removed
<1>2. ASSUME UNCHANGED <<row, restarts>>, scanner' = scanner \/ scanner # "ended", UNCHANGED <<dir, disk>> \/ dir,
             \A c \in Callers : pc'[c] = "delRows" => pc[c] = "delRows"
      PROVE  Deleted'
  BY <1>2 DEF Deleted, Removed
<1>3. ASSUME NEW c \in Callers, Stop(c) \/ Delete(c) \/ CallerStep(c), ~FinalStep(c)
      PROVE  Deleted'
  <2>1. /\ \A b \in Callers \ {c} : pc'[b] = pc[b]
        /\ pc'[c] = "delRows" => Removed'
        /\ disk' \subseteq disk /\ (dir' => dir) /\ UNCHANGED <<scanner, restarts>>
        /\ row' = row \/ pc[c] = "delRows"
    BY <1>0, <1>3, CallerMoves
  <2>2. Removed => Removed'
    BY <2>1 DEF Removed
  <2> QED
    BY <2>1, <2>2 DEF Deleted
<1>4. ASSUME NEW a \in Actors, FinalStep(a)
      PROVE  Deleted'
  <2>1. pc'[a] # "delRows" /\ (\A b \in Actors \ {a} : pc'[b] = pc[b]) /\ UNCHANGED <<scanner, restarts>>
    <3>1. WrittenTo(a) # "delRows" /\ FailTo(a) # "delRows"
      BY DEF WrittenTo, FailTo
    <3>2. FinalClose(a) => pc'[a] # "delRows"
      BY <1>4, GoTypes DEF FinalClose, Labels
    <3> QED
      BY <1>4, <3>1, <3>2, FinalMoves DEF Finishing
  <2>2. UNCHANGED <<dir, disk>>
    BY <1>4 DEF FinalStep, FinalList, FinalStore, FinalCount, FinalWrite, FinalClose
  <2>3. row' = "none" => row = "none"
    <3>1. row' = row \/ row' = verdict[a]
      BY <1>4 DEF FinalStep, FinalList, FinalStore, FinalCount, FinalWrite, FinalClose
    <3>2. verdict[a] \in Terminal
      BY DEF TypeOK
    <3> QED
      BY <3>1, <3>2 DEF Terminal
  <2>4. \A c \in Callers : pc'[c] = "delRows" => pc[c] = "delRows"
    BY <1>0, <2>1
  <2> QED
    BY <2>1, <2>2, <2>3, <2>4 DEF Deleted, Removed
<1>5. CASE BootLoads \/ BootChecks \/ BootStores
  <2>1. \A c \in Callers : pc'[c] = pc[c]
    BY <1>0, <1>5, BootMoves, DistinctActors
  <2> QED
    BY <1>2, <1>5, <2>1, BootMoves
<1>6. CASE WatcherYields \/ \E a \in Finalizers : FinalizeBegins(a)
  <2>1. PICK a \in Finalizers, l \in {"scan", "end"} : Goto(a, l)
    BY <1>6 DEF WatcherYields, FinalizeBegins, Finalizers
  <2>2. \A c \in Callers : pc'[c] = pc[c]
    BY <1>0, <2>1, GoTypes, DistinctActors DEF Labels, Finishing, Finalizers
  <2>3. UNCHANGED <<row, restarts, scanner, dir, disk>>
    BY <1>6 DEF WatcherYields, FinalizeBegins
  <2> QED
    BY <1>2, <2>2, <2>3
<1>7. CASE \/ ProcWrites \/ ProcExits \/ WaitStep \/ ScanList \/ ScanStore \/ ScannerEnds \/ StopProcessStep
           \/ UNCHANGED vars
  <2>1. /\ UNCHANGED <<row, restarts, pc>> /\ (scanner' = scanner \/ scanner # "ended")
        /\ UNCHANGED <<dir, disk>> \/ dir
    BY <1>7 DEF ProcWrites, ProcExits, WaitStep, WaitReaps, WaitCloses, ScanList, ScanStore, ScannerEnds,
       StopProcessStep, StopRequests, StopSeesDone, StopKills, vars
  <2> QED
    BY <1>2, <2>1
<1> QED
  BY <1>1, <1>3, <1>4, <1>5, <1>6, <1>7 DEF Next, FinalizerStep, CallerStep, BootStep, Actors

LEMMA ArchiveInit == Init => ArchiveInv
<1> SUFFICES ASSUME Init PROVE ArchiveInv
  OBVIOUS
<1>1. \A a \in Actors : pc[a] \in {"watch", "idle", "boot", "booted"}
  <2>1. PICK b \in {"boot", "booted"} :
           pc = [a \in Actors |-> IF a = Watcher THEN "watch" ELSE IF a = Booter THEN b ELSE "idle"]
    BY DEF Init
  <2> QED
    BY <2>1
<1>2. Finalizers \subseteq Actors /\ Callers \subseteq Actors /\ Booter \in Actors
  BY DEF Actors
<1>3. Found
  BY DEF Init, Found
<1>4. Finalization
  BY <1>1, <1>2 DEF Finalization
<1>5. Finalized
  BY <1>1, <1>2 DEF Init, Finalized, Finishing
<1>6. Deleted
  BY <1>1, <1>2 DEF Init, Deleted
<1> QED
  BY <1>3, <1>4, <1>5, <1>6 DEF ArchiveInv

LEMMA Archived == Spec => [](TypeOK /\ AloneInv /\ ArchiveInv)
<1>1. Init => TypeOK /\ AloneInv /\ ArchiveInv
  BY TypeInit, AloneInit, ArchiveInit
<1>2. TypeOK /\ AloneInv /\ ArchiveInv /\ [Next]_vars => TypeOK' /\ AloneInv' /\ ArchiveInv'
  BY TypeStep, AloneStep, FoundStep, FinalizationStep, FinalizedStep, DeletedStep
     DEF AloneInv, ArchiveInv
<1> QED
  BY <1>1, <1>2, PTL DEF Spec

\* The segment FFmpeg has open is not listed (scanCompleted leaves the last
\* file out); files of a deleted session never come back, for DeleteRecording
\* leaves no directory to write to; its rows do not until the server restarts.
THEOREM ArchiveKept == Spec => []ArchiveSound
<1>1. TypeOK /\ AloneInv /\ ArchiveInv => ArchiveSound
  <2> SUFFICES ASSUME TypeOK, ArchiveInv PROVE ArchiveSound
    OBVIOUS
  <2>1. OpenSegmentUnindexed
    BY DEF ArchiveInv, Found, OpenSegmentUnindexed
  <2>2. DeletedStaysDeleted
    BY DEF ArchiveInv, Finalized, Deleted, Removed, DeletedStaysDeleted
  <2> QED
    BY <2>1, <2>2 DEF ArchiveSound
<1> QED
  BY <1>1, Archived, PTL

\* A step that ends a stop with success is a wait for finalized that was
\* closed, a row found terminal, or a recovery that wrote one.
LEMMA StopEnds ==
    ASSUME TypeOK, AloneInv, [Next]_vars, NEW c \in Callers,
           pc[c] \in {"stopWait", "finalWait", "readRow", "write"},
           pc'[c] \in {"idle", "delFiles"}, result'[c] = "ok"
    PROVE  /\ disk' = disk
           /\ \/ pc[c] = "finalWait" /\ closings > 0 /\ row' = row
              \/ pc[c] = "readRow" /\ row # "recording" /\ row' = row
              \/ pc[c] = "write" /\ row' # "recording"
<1> USE DEF db, disks, child, super, task, work, budget
<1>1. c \in Actors /\ c \notin Finalizers /\ c # Booter
  BY DistinctActors DEF Actors, Finalizers
<1>2. pc'[c] # pc[c]
  OBVIOUS
<1>3. ~Restart
  BY DEF Restart
<1>4. ASSUME StopReturns(c, FALSE)
      PROVE  FALSE
  BY <1>4, StopReturnsTypes
<1>5. CASE FinalStep(c)
  <2>1. ~GivesUp(c)
    BY GivesUpTypes, <1>1
  <2>2. pc[c] = "write"
    BY <1>5, FinalMoves, <1>1 DEF Finishing
  <2>3. FinalWrite(c)
    BY <1>5, <2>2 DEF FinalStep, FinalList, FinalStore, FinalCount, FinalClose
  <2>4. disk' = disk /\ (row' = IF row = "none" THEN row ELSE verdict[c])
    BY <2>1, <2>3 DEF FinalWrite
  <2>5. verdict[c] \in Terminal
    BY <1>1 DEF TypeOK
  <2> QED
    BY <2>2, <2>4, <2>5 DEF Terminal
<1>6. CASE (Stop(c) \/ Delete(c) \/ CallerStep(c)) /\ ~FinalStep(c)
  <2>1. StopWaits(c) \/ StopWaitsFinal(c) \/ StopReadsRow(c)
    BY <1>6 DEF CallerStep, Stop, Delete, StopClaims, DeleteRemovesFiles, DeleteRemovesRows
  <2>2. ~StopWaits(c)
    <3>1. ~Goto(c, "finalWait")
      BY <1>1, GoTypes DEF Labels
    <3> QED
      BY <1>4, <3>1 DEF StopWaits
  <2>3. CASE StopWaitsFinal(c)
    BY <1>4, <2>3 DEF StopWaitsFinal
  <2>4. CASE StopReadsRow(c)
    <3>1. ~Goto(c, "scan")
      BY <1>1, GoTypes DEF Labels, Finishing
    <3> QED
      BY <2>4, <3>1 DEF StopReadsRow
  <2> QED
    BY <2>1, <2>2, <2>3, <2>4
<1>7. CASE ~(Stop(c) \/ Delete(c) \/ CallerStep(c))
  <2>1. ~(\E d \in Callers : (Stop(d) \/ Delete(d) \/ CallerStep(d)) /\ ~FinalStep(d))
    BY <1>1, <1>2, <1>7, CallerMoves
  <2>2. ~(\E a \in Actors : FinalStep(a))
    BY <1>1, <1>2, <1>7, FinalMoves DEF CallerStep
  <2>3. ~(BootLoads \/ BootChecks \/ BootStores)
    BY <1>1, <1>2, BootMoves
  <2>4. ~(\E a \in Finalizers : FinalizeBegins(a)) /\ ~WatcherYields
    <3>1. ASSUME NEW a \in Finalizers, FinalizeBegins(a) \/ WatcherYields
          PROVE  pc'[c] = pc[c]
      BY <1>1, <3>1, GoTypes DEF FinalizeBegins, WatcherYields, Labels, Finishing, Finalizers, Actors
    <3> QED
      BY <1>2, <3>1 DEF Finalizers
  <2>5. ~(\/ ProcWrites \/ ProcExits \/ WaitStep \/ ScanList \/ ScanStore \/ ScannerEnds
          \/ StopProcessStep \/ UNCHANGED vars)
    BY <1>2 DEF ProcWrites, ProcExits, WaitStep, WaitReaps, WaitCloses, ScanList, ScanStore, ScannerEnds,
       StopProcessStep, StopRequests, StopSeesDone, StopKills, vars
  <2> QED
    BY <1>3, <2>1, <2>2, <2>3, <2>4, <2>5 DEF Next, FinalizerStep, BootStep, Actors
<1> QED
  BY <1>5, <1>6, <1>7

\* A stop that reports success has left a terminal row; until a restart FFmpeg
\* is dead and every file has a row (stopRecording, finalizeSegmentTask,
\* recoverSegmentedRecording).
THEOREM StopFinal == Spec => StopMeansFinal
<1> DEFINE Ended ==
      \A c \in Callers :
          /\ pc[c] \in {"stopWait", "finalWait", "readRow", "write"}
          /\ pc'[c] \in {"idle", "delFiles"} /\ result'[c] = "ok"
          => /\ row' # "recording"
             /\ restarts = 0 => proc # "running" /\ disk \subseteq index
<1>1. TypeOK /\ AloneInv /\ ArchiveInv /\ [Next]_vars => Ended
  <2> SUFFICES ASSUME TypeOK, AloneInv, ArchiveInv, [Next]_vars, NEW c \in Callers,
                      pc[c] \in {"stopWait", "finalWait", "readRow", "write"},
                      pc'[c] \in {"idle", "delFiles"}, result'[c] = "ok"
               PROVE  /\ row' # "recording"
                      /\ restarts = 0 => proc # "running" /\ disk \subseteq index
    OBVIOUS
  <2>1. CASE pc[c] = "write" /\ row' # "recording"
    <3>1. restarts # 0
      BY <2>1 DEF ArchiveInv, Finalized, Finishing
    <3> QED
      BY <2>1, <3>1
  <2>2. CASE pc[c] = "readRow" /\ row # "recording" /\ row' = row
    <3>1. ~mapped
      BY <2>2 DEF AloneInv, AfterTask
    <3> QED
      BY <2>2, <3>1 DEF AloneInv, Processes, ArchiveInv, Finalized
  <2>3. CASE pc[c] = "finalWait" /\ closings > 0 /\ row' = row
    <3>1. ~mapped /\ restarts = 0
      BY <2>3 DEF AloneInv, OneFinalizer, TypeOK
    <3> QED
      BY <2>3, <3>1 DEF AloneInv, Processes, ArchiveInv, Finalized
  <2> QED
    BY <2>1, <2>2, <2>3, StopEnds
<1> QED
  BY <1>1, Archived, PTL DEF Spec, StopMeansFinal

\* Until a restart, only the finalizer ends a session that is recording, with
\* the status that fits its playable segments (finalizeSegmentedRecording).
\* Restart or not, what rows a deleted session gets back are of files that
\* startup or a recovering stop had listed before it was deleted
\* (reconcileSegmentDirectory, recoverSegmentedRecording).
THEOREM RowsRight == Spec => RowsFit
<1> DEFINE Fits == row = "recording" /\ row' \in Terminal /\ restarts = 0 =>
                       (row' = "completed" <=> playable # {})
           Late == row = "none" =>
                       /\ row' = "none"
                       /\ index' \subseteq index \cup UNION {seen[a] : a \in Callers \cup {Booter}}
                       /\ \A a \in DOMAIN seen : seen'[a] \subseteq seen[a]
<1>1. TypeOK /\ AloneInv /\ ArchiveInv /\ [Next]_vars => Fits
  <2> SUFFICES ASSUME TypeOK, AloneInv, ArchiveInv, [Next]_vars,
                      row = "recording", row' \in Terminal, restarts = 0
               PROVE  row' = "completed" <=> playable # {}
    OBVIOUS
  <2> USE DEF db, disks, child, super, task, work, budget
  <2>1. row' # row /\ row' # "none"
    BY DEF Terminal
  <2>2. mapped
    BY DEF ArchiveInv, Finalized
  <2>3. pc[Booter] \notin Finishing /\ \A c \in Callers : pc[c] \notin Finishing
    BY <2>2 DEF AloneInv, AfterTask
  <2>4. \E a \in Actors : FinalWrite(a)
    <3>1. ~(\E c \in Callers : (Stop(c) \/ Delete(c) \/ CallerStep(c)) /\ ~FinalStep(c))
      BY <2>1, CallerMoves
    <3>2. ~(BootLoads \/ BootChecks \/ BootStores)
      BY <2>1, BootMoves
    <3>3. ~(\E a \in Actors : FinalList(a) \/ FinalStore(a) \/ FinalCount(a) \/ FinalClose(a))
      BY <2>1 DEF FinalList, FinalStore, FinalCount, FinalClose
    <3>4. ~(\/ ProcWrites \/ ProcExits \/ WaitStep \/ ScanList \/ ScanStore \/ ScannerEnds \/ StopProcessStep
            \/ WatcherYields \/ Restart \/ UNCHANGED vars \/ \E a \in Finalizers : FinalizeBegins(a))
      BY <2>1 DEF ProcWrites, ProcExits, WaitStep, WaitReaps, WaitCloses, ScanList, ScanStore, ScannerEnds,
         StopProcessStep, StopRequests, StopSeesDone, StopKills, WatcherYields, Restart, FinalizeBegins, vars
    <3> QED
      BY <3>1, <3>2, <3>3, <3>4 DEF Next, FinalizerStep, BootStep, FinalStep, Actors
  <2>5. PICK a \in Actors : FinalWrite(a)
    BY <2>4
  <2>6. pc[a] = "write" /\ row' = verdict[a]
    BY <2>1, <2>5 DEF FinalWrite
  <2>7. a \in Finalizers
    BY <2>3, <2>6 DEF Actors, Finishing
  <2>8. verdict[a] = Verdict
    BY <2>6, <2>7 DEF ArchiveInv, Finalization
  <2> QED
    BY <2>6, <2>8 DEF Verdict
<1>2. TypeOK /\ AloneInv /\ ArchiveInv /\ [Next]_vars => Late
  <2> SUFFICES ASSUME TypeOK, AloneInv, ArchiveInv, [Next]_vars, row = "none"
               PROVE  /\ row' = "none"
                      /\ index' \subseteq index \cup UNION {seen[a] : a \in Callers \cup {Booter}}
                      /\ \A a \in DOMAIN seen : seen'[a] \subseteq seen[a]
    OBVIOUS
  <2> USE DEF db, disks, child, super, task, work, budget
  <2>0. DOMAIN seen = Actors \cup {"scanLoop"}
    BY DEF TypeOK
  <2>1. disk = {} /\ scanner = "ended" /\ ~mapped
    <3>1. CASE restarts = 0
      <4>1. ~mapped /\ waiter = "closed"
        BY <3>1 DEF ArchiveInv, Finalized
      <4> QED
        BY <4>1 DEF ArchiveInv, Deleted, Removed, AloneInv, Processes
    <3>2. CASE restarts # 0
      BY <3>2 DEF ArchiveInv, Deleted, Removed, AloneInv, OneFinalizer
    <3> QED
      BY <3>1, <3>2
  <2>2. Listing(TRUE) = {}
    BY <2>1, ListingFiles
  <2>3. \A a \in Finalizers : pc[a] \notin Finishing
    BY <2>1 DEF AloneInv, OneFinalizer
  <2>4. ASSUME NEW a \in Actors, FinalStep(a)
        PROVE  /\ row' = "none"
               /\ index' = index \/ (a \in Callers \cup {Booter} /\ index' = index \cup seen[a])
               /\ \A b \in Actors \cup {"scanLoop"} : seen'[b] \subseteq seen[b]
    <3>1. a \in Callers \cup {Booter}
      BY <2>3, <2>4, FinalMoves DEF Actors
    <3>2. row' = "none"
      BY <2>4 DEF FinalStep, FinalList, FinalStore, FinalCount, FinalWrite, FinalClose
    <3>3. index' = index \/ index' = index \cup seen[a]
      BY <2>4 DEF FinalStep, FinalList, FinalStore, FinalCount, FinalWrite, FinalClose, Stores
    <3>4. seen' = seen \/ seen' = [seen EXCEPT ![a] = {}]
      BY <2>2, <2>4 DEF FinalStep, FinalList, FinalStore, FinalCount, FinalWrite, FinalClose
    <3> QED
      BY <3>1, <3>2, <3>3, <3>4 DEF TypeOK
  <2>5. ASSUME NEW c \in Callers, Stop(c) \/ Delete(c) \/ CallerStep(c), ~FinalStep(c)
        PROVE  row' = "none" /\ index' \subseteq index /\ seen' = seen
    BY <2>5, CallerMoves
  <2>6. CASE BootLoads \/ BootChecks \/ BootStores
    <3>1. /\ \A b \in Actors \ {Booter} : pc'[b] = pc[b]
          /\ UNCHANGED row /\ index' \subseteq index \cup seen[Booter]
      BY <2>6, BootMoves
    <3>2. seen' = seen \/ seen' = [seen EXCEPT ![Booter] = {}]
      BY <2>6 DEF BootLoads, BootChecks, BootStores
    <3> QED
      BY <2>0, <3>1, <3>2 DEF TypeOK
  <2>7. CASE Restart
    BY <2>0, <2>7 DEF Restart
  <2>8. CASE \/ ProcWrites \/ ProcExits \/ WaitStep \/ ScanList \/ ScanStore \/ ScannerEnds \/ StopProcessStep
             \/ WatcherYields \/ UNCHANGED vars \/ \E a \in Finalizers : FinalizeBegins(a)
    <3>1. UNCHANGED <<row, index, seen>>
      BY <2>1, <2>8 DEF ProcWrites, ProcExits, WaitStep, WaitReaps, WaitCloses, ScanList, ScanStore, ScannerEnds,
         StopProcessStep, StopRequests, StopSeesDone, StopKills, WatcherYields, FinalizeBegins, vars
    <3> QED
      BY <3>1
  <2>9. ASSUME NEW a \in Callers \cup {Booter}
        PROVE  seen[a] \subseteq UNION {seen[b] : b \in Callers \cup {Booter}}
    OBVIOUS
  <2> QED
    BY <2>0, <2>4, <2>5, <2>6, <2>7, <2>8, <2>9 DEF Next, FinalizerStep, CallerStep, BootStep, Actors
<1> QED
  BY <1>1, <1>2, Archived, PTL DEF Spec, RowsFit
=============================================================================
