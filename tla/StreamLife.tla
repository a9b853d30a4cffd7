----------------------------- MODULE StreamLife ------------------------------
(***************************************************************************)
(* What StreamService promises of a camera's stream instances, without     *)
(* requests, goroutines or contexts: one instance at a time is the live    *)
(* one, an instance that is dropped never comes back, and everything that  *)
(* works for a dropped instance ends.  Module Stream implements this.      *)
(***************************************************************************)

CONSTANT Instances

VARIABLE life      \* of every instance, the ones to come included

Init == life = [i \in Instances |-> "new"]

\* StartStream, where no stream is live.
Start(i) ==
    /\ life[i] = "new" /\ \A j \in Instances : life[j] # "live"
    /\ life' = [life EXCEPT ![i] = "live"]

\* StopStream or Shutdown.
Drop(i) ==
    /\ life[i] = "live"
    /\ life' = [life EXCEPT ![i] = "dropped"]

\* The last goroutine of a dropped instance returns.
End(i) ==
    /\ life[i] = "dropped"
    /\ life' = [life EXCEPT ![i] = "ended"]

Next == \E i \in Instances : Start(i) \/ Drop(i) \/ End(i)

Spec == Init /\ [][Next]_life

FairSpec == Spec /\ \A i \in Instances : WF_life(End(i))
=============================================================================
