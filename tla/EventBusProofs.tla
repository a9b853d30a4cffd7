--------------------------- MODULE EventBusProofs ---------------------------
(***************************************************************************)
(* For any number of clients and any buffers: the type invariant of        *)
(* EventBus, that a Send channel is closed at most once and never while    *)
(* its client is registered, that a registered client which missed an      *)
(* event is being removed, and that events arrive in order.                *)
(***************************************************************************)
EXTENDS EventBus, SequenceTheorems, TLAPS

\* Appending to a channel and receiving from it, in the terms of TypeOK.
LEMMA ChannelSend ==
    ASSUME NEW S, NEW s \in Seq(S), NEW e \in S
    PROVE  Append(s, e) \in Seq(S) /\ Len(Append(s, e)) = Len(s) + 1
BY AppendProperties

\* The oldest element and the rest of a channel that is not empty.
LEMMA ChannelReceive ==
    ASSUME NEW S, NEW s \in Seq(S), s # <<>>
    PROVE  Head(s) \in S /\ Tail(s) \in Seq(S) /\ Len(Tail(s)) = Len(s) - 1
BY HeadTailProperties

\* Every variable keeps its type in every step.
LEMMA TypeStep == TypeOK /\ [Next]_vars => TypeOK'
<1> SUFFICES ASSUME TypeOK, [Next]_vars PROVE TypeOK'
  OBVIOUS
<1> USE Buffers, Bound DEF TypeOK
<1> USE DEF run, chans, sock, counts
<1>1. CASE Publish
  <2>1. published + 1 \in 1..MaxEvents
    BY <1>1 DEF Publish
  <2>2. Append(bus, published + 1) \in Seq(1..MaxEvents) /\ Len(Append(bus, published + 1)) = Len(bus) + 1
    BY <2>1, ChannelSend
  <2>3. Len(bus) \in Nat
    BY LenProperties
  <2>4. published' \in 0..MaxEvents /\ bus' \in Seq(1..MaxEvents) /\ Len(bus') <= BusBuffer
    <3>1. CASE Len(bus) < BusBuffer
      <4>1. bus' = Append(bus, published + 1) /\ published' = published + 1
        BY <1>1, <3>1 DEF Publish
      <4> QED
        BY <2>1, <2>2, <2>3, <3>1, <4>1
    <3>2. CASE ~(Len(bus) < BusBuffer)
      <4>1. bus' = bus /\ published' = published + 1
        BY <1>1, <3>2 DEF Publish
      <4> QED
        BY <2>1, <4>1
    <3> QED
      BY <3>1, <3>2
  <2> QED
    BY <1>1, <2>4 DEF Publish
<1>2. CASE Take
  <2>1. Head(bus) \in 1..MaxEvents /\ Tail(bus) \in Seq(1..MaxEvents) /\ Len(Tail(bus)) = Len(bus) - 1
    BY <1>2, ChannelReceive DEF Take
  <2>2. Len(bus) \in Nat
    BY LenProperties
  <2>3. bus' \in Seq(1..MaxEvents) /\ Len(bus') <= BusBuffer
    BY <1>2, <2>1, <2>2 DEF Take
  <2>4. event' \in 0..MaxEvents /\ todo' \subseteq clients' /\ (event' = 0 <=> todo' = {})
    BY <1>2, <2>1 DEF Take
  <2> QED
    BY <1>2, <2>3, <2>4 DEF Take
<1>3. ASSUME NEW c \in Clients, Deliver(c) PROVE TypeOK'
  <2>1. event \in 1..MaxEvents
    BY <1>3 DEF Deliver, Offered
  <2>2. Append(send[c], event) \in Seq(1..MaxEvents) /\ Len(Append(send[c], event)) = Len(send[c]) + 1
    BY <2>1, ChannelSend
  <2>3. due' \in [Clients -> Nat]
    <3>1. due[c] + 1 \in Nat
      OBVIOUS
    <3>2. due' = [due EXCEPT ![c] = due[c] + 1]
      BY <1>3 DEF Deliver, Offered
    <3> QED
      BY <3>1, <3>2
  <2>6. todo' \subseteq clients /\ event' \in 0..MaxEvents
    BY <1>3 DEF Deliver, Offered
  <2>7. event' = 0 <=> todo' = {}
    <3>1. todo' = todo \ {c} /\ c \in todo /\ event' = IF todo = {c} THEN 0 ELSE event
      BY <1>3 DEF Deliver, Offered
    <3>2. CASE todo = {c}
      BY <3>1, <3>2
    <3>3. CASE todo # {c}
      BY <2>1, <3>1, <3>3
    <3> QED
      BY <3>2, <3>3
  <2>8. Len(send[c]) \in Nat
    BY LenProperties
  <2>4. send' \in [Clients -> Seq(1..MaxEvents)]
    BY <1>3, <2>2 DEF Deliver
  <2>5. asking' \in [Clients -> Nat]
    <3>1. asking[c] + 1 \in Nat
      OBVIOUS
    <3>2. asking' = asking \/ asking' = [asking EXCEPT ![c] = asking[c] + 1]
      BY <1>3 DEF Deliver
    <3> QED
      BY <3>1, <3>2
  <2>9. ASSUME NEW d \in Clients PROVE Len(send'[d]) <= SendBuffer
    <3>1. CASE send' = send
      BY <3>1
    <3>2. CASE send' = [send EXCEPT ![c] = Append(@, event)] /\ Len(send[c]) < SendBuffer
      <4>1. CASE d = c
        BY <2>2, <2>8, <3>2, <4>1
      <4>2. CASE d # c
        BY <3>2, <4>2
      <4> QED
        BY <4>1, <4>2
    <3> QED
      BY <1>3, <3>1, <3>2 DEF Deliver
  <2> QED
    BY <1>3, <2>3, <2>4, <2>5, <2>6, <2>7, <2>9 DEF Deliver, Offered
<1>4. ASSUME NEW c \in Clients, WriterSends(c) PROVE TypeOK'
  <2>1. Head(send[c]) \in 1..MaxEvents /\ Tail(send[c]) \in Seq(1..MaxEvents) /\ Len(Tail(send[c])) = Len(send[c]) - 1
    BY <1>4, ChannelReceive DEF WriterSends
  <2>4. Len(send[c]) \in Nat
    BY LenProperties
  <2>2. send' \in [Clients -> Seq(1..MaxEvents)] /\ (\A d \in Clients : Len(send'[d]) <= SendBuffer)
    BY <1>4, <2>1, <2>4 DEF WriterSends
  <2>3. last' \in [Clients -> 0..MaxEvents] /\ took' \in [Clients -> Nat]
    BY <1>4, <2>1 DEF WriterSends
  <2> QED
    BY <1>4, <2>2, <2>3 DEF WriterSends
<1>5. ASSUME NEW c \in Clients, Register(c) PROVE TypeOK'
  BY <1>5 DEF Register, InSelect
<1>6. ASSUME NEW c \in Clients, UnregisterSlow(c) PROVE TypeOK'
  BY <1>6 DEF UnregisterSlow, Unregister, InSelect
<1>7. ASSUME NEW c \in Clients, UnregisterLeaving(c) PROVE TypeOK'
  BY <1>7 DEF UnregisterLeaving, Unregister, InSelect
<1>8. ASSUME NEW c \in Clients, Connect(c) PROVE TypeOK'
  BY <1>8 DEF Connect
<1>9. ASSUME NEW c \in Clients, Serve(c) PROVE TypeOK'
  BY <1>9 DEF Serve
<1>10. ASSUME NEW c \in Clients, PeerLeaves(c) PROVE TypeOK'
  BY <1>10 DEF PeerLeaves
<1>11. ASSUME NEW c \in Clients, ReaderEnds(c) PROVE TypeOK'
  BY <1>11 DEF ReaderEnds
<1>12. ASSUME NEW c \in Clients, WriterLeaves(c) PROVE TypeOK'
  BY <1>12 DEF WriterLeaves
<1>13. ASSUME NEW c \in Clients, WriterSeesClosed(c) PROVE TypeOK'
  BY <1>13 DEF WriterSeesClosed
<1>14. CASE UNCHANGED vars
  BY <1>14 DEF vars
<1> QED
  BY <1>1, <1>2, <1>3, <1>4, <1>5, <1>6, <1>7, <1>8, <1>9, <1>10, <1>11, <1>12, <1>13, <1>14 DEF Next, RunStep

\* The variables keep their types (the program's channels, sets and counters).
THEOREM Typing == Spec => []TypeOK
<1>1. Init => TypeOK
  BY Buffers, Bound DEF Init, TypeOK
<1> QED
  BY <1>1, TypeStep, PTL DEF Spec

-----------------------------------------------------------------------------
(* Closing and registration *)

\* Before run received it, a client is not registered, its Send is open and
\* nothing was offered to it.
Fresh ==
    \A c \in Clients : handler[c] \in {"none", "registering"} =>
       c \notin clients /\ closings[c] = 0 /\ due[c] = 0

Inv == Fresh /\ SendNeverReopened /\ GapMeansRemoval

\* The three facts hold together: a registration relies on Fresh, a removal
\* on the Send of a registered client being open, and a missed event on the
\* goroutine that asks for the removal of the client.
LEMMA InvStep == TypeOK /\ Inv /\ [Next]_vars => Inv'
<1> SUFFICES ASSUME TypeOK, Inv, [Next]_vars PROVE Inv'
  OBVIOUS
<1> USE Buffers, Bound DEF TypeOK, Inv, Fresh, SendNeverReopened, GapMeansRemoval
<1> USE DEF run, chans, sock, counts
<1>1. CASE Publish
  BY <1>1 DEF Publish
<1>2. CASE Take
  BY <1>2 DEF Take
<1>3. ASSUME NEW c \in Clients, Deliver(c) PROVE Inv'
  <2>1. c \in clients /\ event \in 1..MaxEvents
    BY <1>3 DEF Deliver, Offered
  <2>2. Len(Append(send[c], event)) = Len(send[c]) + 1
    BY <2>1, ChannelSend
  <2>3. Fresh' /\ SendNeverReopened'
    BY <1>3, <2>1 DEF Deliver, Offered
  <2>4. ASSUME NEW d \in clients' PROVE (took[d] + Len(send[d]) < due[d] => asking[d] > 0)'
    <3>1. CASE d # c
      BY <1>3, <2>4, <3>1 DEF Deliver, Offered
    <3>2. CASE d = c /\ Len(send[c]) < SendBuffer
      <4>1. took'[c] = took[c] /\ due'[c] = due[c] + 1 /\ asking'[c] = asking[c]
        BY <1>3, <3>2 DEF Deliver, Offered
      <4>2. Len(send'[c]) = Len(send[c]) + 1
        BY <1>3, <2>2, <3>2 DEF Deliver
      <4>3. Len(send[c]) \in Nat
        OBVIOUS
      <4> QED
        BY <2>1, <3>2, <4>1, <4>2, <4>3
    <3>3. CASE d = c /\ ~(Len(send[c]) < SendBuffer)
      BY <1>3, <3>3 DEF Deliver
    <3> QED
      BY <3>1, <3>2, <3>3
  <2> QED
    BY <2>3, <2>4
<1>4. ASSUME NEW c \in Clients, WriterSends(c) PROVE Inv'
  <2>1. Len(Tail(send[c])) = Len(send[c]) - 1 /\ Len(send[c]) \in Nat
    BY <1>4, ChannelReceive DEF WriterSends
  <2>2. ASSUME NEW d \in Clients PROVE took'[d] + Len(send'[d]) = took[d] + Len(send[d])
    BY <1>4, <2>1 DEF WriterSends
  <2> QED
    BY <1>4, <2>2 DEF WriterSends
<1>5. ASSUME NEW c \in Clients, Register(c) PROVE Inv'
  BY <1>5 DEF Register, InSelect
<1>6. ASSUME NEW c \in Clients, UnregisterSlow(c) PROVE Inv'
  BY <1>6 DEF UnregisterSlow, Unregister, InSelect
<1>7. ASSUME NEW c \in Clients, UnregisterLeaving(c) PROVE Inv'
  BY <1>7 DEF UnregisterLeaving, Unregister, InSelect
<1>8. ASSUME NEW c \in Clients, Connect(c) PROVE Inv'
  BY <1>8 DEF Connect
<1>9. ASSUME NEW c \in Clients, Serve(c) PROVE Inv'
  BY <1>9 DEF Serve
<1>10. ASSUME NEW c \in Clients, PeerLeaves(c) PROVE Inv'
  BY <1>10 DEF PeerLeaves
<1>11. ASSUME NEW c \in Clients, ReaderEnds(c) PROVE Inv'
  BY <1>11 DEF ReaderEnds
<1>12. ASSUME NEW c \in Clients, WriterLeaves(c) PROVE Inv'
  BY <1>12 DEF WriterLeaves
<1>13. ASSUME NEW c \in Clients, WriterSeesClosed(c) PROVE Inv'
  BY <1>13 DEF WriterSeesClosed
<1>14. CASE UNCHANGED vars
  BY <1>14 DEF vars
<1> QED
  BY <1>1, <1>2, <1>3, <1>4, <1>5, <1>6, <1>7, <1>8, <1>9, <1>10, <1>11, <1>12, <1>13, <1>14 DEF Next, RunStep

\* The strengthened invariant holds from the start.
LEMMA Invariance == Spec => []Inv
<1>1. Init => Inv
  BY DEF Init, Inv, Fresh, SendNeverReopened, GapMeansRemoval
<1> QED
  BY <1>1, Typing, InvStep, PTL DEF Spec

\* run never sends on a closed channel and never closes one twice, whoever
\* asks for a client's removal and however often.
THEOREM SendClosedOnce == Spec => []SendNeverReopened
<1>1. Inv => SendNeverReopened
  BY DEF Inv
<1> QED
  BY <1>1, Invariance, PTL

\* A registered client that missed an event is about to be removed.
THEOREM GapRemoved == Spec => []GapMeansRemoval
<1>1. Inv => GapMeansRemoval
  BY DEF Inv
<1> QED
  BY <1>1, Invariance, PTL

-----------------------------------------------------------------------------
(***************************************************************************)
(* Order.  The newest event a writer took, those in Send, the one run is   *)
(* delivering and those on broadcast lie one before the other: every event *)
(* moves from a later place to the end of an earlier one, or is dropped.   *)
(***************************************************************************)
Inc(s) == \A i, j \in 1..Len(s) : i < j => s[i] < s[j]
Before(s, t) == \A i \in 1..Len(s), j \in 1..Len(t) : s[i] < t[j]

\* Event e comes after all of s, or before all of it.
Above(s, e) == \A i \in 1..Len(s) : s[i] < e
Below(e, s) == \A i \in 1..Len(s) : e < s[i]

LEMMA IncConcat ==
    ASSUME NEW s \in Seq(Nat), NEW t \in Seq(Nat), Inc(s), Inc(t), Before(s, t)
    PROVE  Inc(s \o t)
<1>1. /\ Len(s) \in Nat /\ Len(t) \in Nat
      /\ Len(s \o t) = Len(s) + Len(t)
      /\ \A i \in 1..(Len(s) + Len(t)) : (s \o t)[i] = IF i <= Len(s) THEN s[i] ELSE t[i - Len(s)]
  BY ConcatProperties, LenProperties
<1> SUFFICES ASSUME NEW i \in 1..Len(s \o t), NEW j \in 1..Len(s \o t), i < j
             PROVE  (s \o t)[i] < (s \o t)[j]
  BY DEF Inc
<1>2. CASE j <= Len(s)
  BY <1>1, <1>2 DEF Inc
<1>3. CASE i <= Len(s) /\ ~(j <= Len(s))
  <2>1. j - Len(s) \in 1..Len(t)
    BY <1>1, <1>3
  <2> QED
    BY <1>1, <1>3, <2>1 DEF Before
<1>4. CASE ~(i <= Len(s))
  <2>1. i - Len(s) \in 1..Len(t) /\ j - Len(s) \in 1..Len(t) /\ i - Len(s) < j - Len(s)
    BY <1>1, <1>4
  <2>2. t[i - Len(s)] < t[j - Len(s)]
    BY <2>1 DEF Inc
  <2>3. (s \o t)[i] = t[i - Len(s)] /\ (s \o t)[j] = t[j - Len(s)]
    BY <1>1, <1>4
  <2> QED
    BY <2>2, <2>3
<1> QED
  BY <1>1, <1>2, <1>3, <1>4

LEMMA BeforeConcat ==
    ASSUME NEW s \in Seq(Nat), NEW t \in Seq(Nat), NEW u \in Seq(Nat), Before(s, u), Before(t, u)
    PROVE  Before(s \o t, u)
<1>1. /\ Len(s) \in Nat /\ Len(t) \in Nat
      /\ Len(s \o t) = Len(s) + Len(t)
      /\ \A i \in 1..(Len(s) + Len(t)) : (s \o t)[i] = IF i <= Len(s) THEN s[i] ELSE t[i - Len(s)]
  BY ConcatProperties, LenProperties
<1> SUFFICES ASSUME NEW i \in 1..Len(s \o t), NEW j \in 1..Len(u) PROVE (s \o t)[i] < u[j]
  BY DEF Before
<1>2. CASE i <= Len(s)
  BY <1>1, <1>2 DEF Before
<1>3. CASE ~(i <= Len(s))
  <2>1. i - Len(s) \in 1..Len(t)
    BY <1>1, <1>3
  <2>2. t[i - Len(s)] < u[j]
    BY <2>1 DEF Before
  <2> QED
    BY <1>1, <1>3, <2>2
<1> QED
  BY <1>2, <1>3

\* An event sent on a channel: the order of the channel and its neighbours.
LEMMA IncSend ==
    ASSUME NEW s \in Seq(Nat), NEW e \in Nat, Inc(s), Above(s, e)
    PROVE  /\ Inc(Append(s, e))
           /\ \A x \in Nat : Above(s, x) /\ e < x => Above(Append(s, e), x)
           /\ \A x \in Nat : Below(x, s) /\ x < e => Below(x, Append(s, e))
<1>1. /\ Len(s) \in Nat /\ Len(Append(s, e)) = Len(s) + 1
      /\ \A i \in 1..Len(s) : Append(s, e)[i] = s[i]
      /\ Append(s, e)[Len(s) + 1] = e
  BY AppendProperties, LenProperties
<1>2. \A i \in 1..Len(s) : s[i] \in Nat
  BY ElementOfSeq
<1> QED
  BY <1>1, <1>2 DEF Inc, Above, Below

\* The oldest event received from a channel.
LEMMA IncReceive ==
    ASSUME NEW s \in Seq(Nat), s # <<>>, Inc(s)
    PROVE  /\ Inc(Tail(s)) /\ Below(Head(s), Tail(s)) /\ Head(s) \in Nat
           /\ \A x \in Nat : Above(s, x) => Above(Tail(s), x) /\ Head(s) < x
           /\ \A x \in Nat : Below(x, s) => Below(x, Tail(s)) /\ x < Head(s)
<1>1. /\ Len(s) \in Nat /\ Len(s) > 0 /\ Len(Tail(s)) = Len(s) - 1
      /\ \A i \in 1..Len(Tail(s)) : Tail(s)[i] = s[i + 1]
      /\ Head(s) \in Nat
  BY HeadTailProperties, LenProperties, EmptySeq
<1>2. Head(s) = s[1]
  OBVIOUS
<1> QED
  BY <1>1, <1>2 DEF Inc, Above, Below

\* The same for two channels, the events of the one before those of the other.
LEMMA BeforeSend ==
    ASSUME NEW s \in Seq(Nat), NEW t \in Seq(Nat), NEW e \in Nat, Before(s, t)
    PROVE  /\ Below(e, t) => Before(Append(s, e), t)
           /\ Above(s, e) => Before(s, Append(t, e))
<1>1. /\ Len(s) \in Nat /\ Len(Append(s, e)) = Len(s) + 1
      /\ \A i \in 1..Len(s) : Append(s, e)[i] = s[i]
      /\ Append(s, e)[Len(s) + 1] = e
  BY AppendProperties, LenProperties
<1>2. /\ Len(t) \in Nat /\ Len(Append(t, e)) = Len(t) + 1
      /\ \A i \in 1..Len(t) : Append(t, e)[i] = t[i]
      /\ Append(t, e)[Len(t) + 1] = e
  BY AppendProperties, LenProperties
<1>3. Below(e, t) => Before(Append(s, e), t)
  BY <1>1 DEF Before, Below
<1>4. Above(s, e) => Before(s, Append(t, e))
  BY <1>2 DEF Before, Above
<1> QED
  BY <1>3, <1>4

LEMMA BeforeReceive ==
    ASSUME NEW s \in Seq(Nat), NEW t \in Seq(Nat), Before(s, t)
    PROVE  /\ s # <<>> => Before(Tail(s), t) /\ Below(Head(s), t)
           /\ t # <<>> => Before(s, Tail(t)) /\ Above(s, Head(t))
<1>1. ASSUME s # <<>> PROVE Before(Tail(s), t) /\ Below(Head(s), t)
  <2>1. /\ Len(s) \in Nat /\ Len(s) > 0 /\ Len(Tail(s)) = Len(s) - 1
        /\ \A i \in 1..Len(Tail(s)) : Tail(s)[i] = s[i + 1]
    BY <1>1, HeadTailProperties, LenProperties, EmptySeq
  <2> QED
    BY <2>1 DEF Before, Below
<1>2. ASSUME t # <<>> PROVE Before(s, Tail(t)) /\ Above(s, Head(t))
  <2>1. /\ Len(t) \in Nat /\ Len(t) > 0 /\ Len(Tail(t)) = Len(t) - 1
        /\ \A i \in 1..Len(Tail(t)) : Tail(t)[i] = t[i + 1]
    BY <1>2, HeadTailProperties, LenProperties, EmptySeq
  <2> QED
    BY <2>1 DEF Before, Above
<1> QED
  BY <1>1, <1>2

LEMMA AboveLater ==
    ASSUME NEW s \in Seq(Nat), NEW e \in Nat, NEW x \in Nat, e <= x, Above(s, e)
    PROVE  Above(s, x)
<1>1. \A i \in 1..Len(s) : s[i] \in Nat
  BY ElementOfSeq
<1> QED
  BY <1>1 DEF Above

OrderInv ==
    /\ Inc(bus) /\ Below(event, bus) /\ event <= published
    /\ Above(bus, published + 1)
    /\ \A c \in Clients :
          /\ Inc(send[c]) /\ Below(last[c], send[c]) /\ last[c] <= published
          /\ Above(send[c], published + 1) /\ Below(last[c], bus)
          /\ Before(send[c], bus)
          /\ c \in todo => last[c] < event /\ Above(send[c], event)

\* What the order is about.
Places == <<published, bus, event, todo, send, last>>

LEMMA OrderStep == TypeOK /\ OrderInv /\ [Next]_vars => OrderInv'
<1> SUFFICES ASSUME TypeOK, OrderInv, [Next]_vars PROVE OrderInv'
  OBVIOUS
<1>0. /\ published \in Nat /\ event \in Nat /\ bus \in Seq(Nat)
      /\ \A c \in Clients : send[c] \in Seq(Nat) /\ last[c] \in Nat
  <2>1. 1..MaxEvents \subseteq Nat
    BY Bound
  <2>2. bus \in Seq(Nat) /\ \A c \in Clients : send[c] \in Seq(Nat)
    BY <2>1, SeqMonotonic DEF TypeOK
  <2> QED
    BY <2>2, Bound DEF TypeOK
<1>1. CASE Publish
  <2>1. published + 1 \in Nat /\ published + 2 \in Nat
    BY <1>0
  <2>2. /\ published' = published + 1 /\ event' = event /\ todo' = todo
        /\ send' = send /\ last' = last
        /\ bus' = bus \/ bus' = Append(bus, published + 1)
    BY <1>1 DEF Publish, chans, counts
  <2>3. Inc(bus') /\ Below(event, bus') /\ Above(bus', published + 2)
    <3>1. event < published + 1 /\ published + 1 < published + 2
      BY <1>0 DEF OrderInv
    <3>2. Inc(bus) /\ Below(event, bus) /\ Above(bus, published + 1) /\ Above(bus, published + 2)
      BY <1>0, <2>1, AboveLater DEF OrderInv
    <3> QED
      BY <1>0, <2>1, <2>2, <3>1, <3>2, IncSend
  <2>4. ASSUME NEW c \in Clients
        PROVE Below(last[c], bus') /\ Before(send[c], bus') /\ Above(send[c], published + 2)
    <3>1. /\ last[c] < published + 1 /\ Above(send[c], published + 1)
          /\ Below(last[c], bus) /\ Before(send[c], bus)
          /\ Inc(bus) /\ Above(bus, published + 1)
      BY <1>0 DEF OrderInv
    <3>2. Above(send[c], published + 2)
      BY <1>0, <2>1, <3>1, AboveLater
    <3>3. Before(send[c], Append(bus, published + 1)) /\ Below(last[c], Append(bus, published + 1))
      BY <1>0, <2>1, <3>1, BeforeSend, IncSend
    <3> QED
      BY <2>2, <3>1, <3>2, <3>3
  <2>5. published' + 1 = published + 2 /\ event <= published'
    BY <1>0, <2>2 DEF OrderInv
  <2>6. \A c \in Clients : last[c] <= published'
    BY <1>0, <2>2 DEF OrderInv
  <2> QED
    BY <2>2, <2>3, <2>4, <2>5, <2>6 DEF OrderInv
<1>2. CASE Take
  <2>1. /\ bus # <<>> /\ bus' = Tail(bus) /\ event' \in {0, Head(bus)}
        /\ (clients # {} => event' = Head(bus)) /\ todo' = clients /\ clients \subseteq Clients
        /\ published' = published /\ send' = send /\ last' = last
    BY <1>2 DEF Take, chans, counts, TypeOK
  <2>2. /\ Inc(bus') /\ Below(Head(bus), bus') /\ Head(bus) \in Nat /\ Head(bus) < published + 1
        /\ Above(bus', published + 1)
    BY <1>0, <2>1, IncReceive DEF OrderInv
  <2>3. Below(event', bus') /\ event' <= published
    <3>1. Below(0, bus')
      BY <1>0, <2>1, <2>2, HeadTailProperties, ElementOfSeq DEF Below
    <3> QED
      BY <1>0, <2>1, <2>2, <3>1
  <2>4. ASSUME NEW c \in Clients
        PROVE /\ Below(last[c], bus') /\ last[c] < Head(bus)
              /\ Before(send[c], bus') /\ Above(send[c], Head(bus))
    <3>1. Inc(bus) /\ Below(last[c], bus) /\ Before(send[c], bus)
      BY DEF OrderInv
    <3> QED
      BY <1>0, <2>1, <3>1, IncReceive, BeforeReceive
  <2> QED
    BY <2>1, <2>2, <2>3, <2>4 DEF OrderInv
<1>3. ASSUME NEW c \in Clients, Deliver(c) PROVE OrderInv'
  <2>1. /\ event # 0 /\ c \in todo /\ todo' = todo \ {c}
        /\ event' \in {0, event} /\ (todo' # {} => event' = event)
        /\ send' = send \/ send' = [send EXCEPT ![c] = Append(@, event)]
        /\ published' = published /\ bus' = bus /\ last' = last
    BY <1>3 DEF Deliver, Offered, sock
  <2>2. Below(event', bus) /\ event' <= published
    <3>1. Below(0, bus)
      BY <1>0, ElementOfSeq DEF OrderInv, Below
    <3> QED
      BY <1>0, <2>1, <3>1 DEF OrderInv
  <2>3. /\ Inc(send[c]) /\ Above(send[c], event) /\ Below(last[c], send[c]) /\ last[c] < event
        /\ event < published + 1 /\ Above(send[c], published + 1)
        /\ Before(send[c], bus) /\ Below(event, bus)
    BY <1>0, <2>1 DEF OrderInv
  <2>4. LET s == Append(send[c], event)
        IN Inc(s) /\ Below(last[c], s) /\ Above(s, published + 1) /\ Before(s, bus)
    <3>1. published + 1 \in Nat
      BY <1>0
    <3> QED
      BY <1>0, <2>3, <3>1, IncSend, BeforeSend
  <2>5. ASSUME NEW d \in Clients
        PROVE /\ Inc(send'[d]) /\ Below(last[d], send'[d]) /\ Above(send'[d], published + 1)
              /\ Before(send'[d], bus) /\ (d # c => send'[d] = send[d])
    BY <2>1, <2>4 DEF OrderInv, TypeOK
  <2>6. ASSUME NEW d \in Clients, d \in todo' PROVE last[d] < event' /\ Above(send'[d], event')
    BY <2>1, <2>5, <2>6 DEF OrderInv
  <2> QED
    BY <2>1, <2>2, <2>5, <2>6 DEF OrderInv
<1>4. ASSUME NEW c \in Clients, WriterSends(c) PROVE OrderInv'
  <2>1. /\ send[c] # <<>> /\ send' = [send EXCEPT ![c] = Tail(@)]
        /\ last' = [last EXCEPT ![c] = Head(send[c])]
        /\ published' = published /\ bus' = bus /\ event' = event /\ todo' = todo
    BY <1>4 DEF WriterSends, run
  <2>2. /\ Inc(send[c]) /\ Above(send[c], published + 1) /\ Before(send[c], bus)
        /\ c \in todo => Above(send[c], event)
    BY DEF OrderInv
  <2>3. LET s == Tail(send[c])
            h == Head(send[c])
        IN /\ Inc(s) /\ Below(h, s) /\ h <= published /\ Above(s, published + 1)
           /\ Below(h, bus) /\ Before(s, bus)
           /\ c \in todo => h < event /\ Above(s, event)
    <3>1. published + 1 \in Nat
      BY <1>0
    <3>2. /\ Inc(Tail(send[c])) /\ Below(Head(send[c]), Tail(send[c])) /\ Head(send[c]) \in Nat
          /\ Head(send[c]) < published + 1 /\ Above(Tail(send[c]), published + 1)
          /\ c \in todo => Head(send[c]) < event /\ Above(Tail(send[c]), event)
      BY <1>0, <2>1, <2>2, <3>1, IncReceive
    <3>3. Below(Head(send[c]), bus) /\ Before(Tail(send[c]), bus)
      BY <1>0, <2>1, <2>2, BeforeReceive
    <3>4. Head(send[c]) <= published
      BY <1>0, <3>2
    <3> QED
      BY <3>2, <3>3, <3>4
  <2>4. ASSUME NEW d \in Clients
        PROVE /\ Inc(send'[d]) /\ Below(last'[d], send'[d]) /\ last'[d] <= published
              /\ Above(send'[d], published + 1) /\ Below(last'[d], bus) /\ Before(send'[d], bus)
              /\ d \in todo => last'[d] < event /\ Above(send'[d], event)
    BY <2>1, <2>3 DEF OrderInv, TypeOK
  <2> QED
    BY <2>1, <2>4 DEF OrderInv
<1>5. ASSUME UNCHANGED Places PROVE OrderInv'
  BY <1>5 DEF Places, OrderInv
<1>6. ASSUME NEW c \in Clients,
             Register(c) \/ UnregisterSlow(c) \/ UnregisterLeaving(c)
      PROVE UNCHANGED Places
  BY <1>6 DEF Register, UnregisterSlow, UnregisterLeaving, Places, run, chans, sock, counts
<1>7. ASSUME NEW c \in Clients,
             \/ Connect(c) \/ Serve(c) \/ PeerLeaves(c) \/ ReaderEnds(c)
             \/ WriterLeaves(c) \/ WriterSeesClosed(c)
      PROVE UNCHANGED Places
  BY <1>7 DEF Connect, Serve, PeerLeaves, ReaderEnds, WriterLeaves, WriterSeesClosed, Places,
              run, chans, counts
<1>8. ASSUME UNCHANGED vars PROVE UNCHANGED Places
  BY <1>8 DEF vars, Places
<1> QED
  BY <1>1, <1>2, <1>3, <1>4, <1>5, <1>6, <1>7, <1>8 DEF Next, RunStep

\* Events reach a client in the order they were published, without repeats,
\* wherever they are on their way.
THEOREM OrderPreserved == Spec => []OrderKept
<1>1. Init => OrderInv
  BY EmptySeq DEF Init, OrderInv, Inc, Before, Above, Below
<1>2. TypeOK /\ OrderInv => OrderKept
  <2> SUFFICES ASSUME TypeOK, OrderInv, NEW c \in Clients
               PROVE  Inc((IF last[c] = 0 THEN <<>> ELSE <<last[c]>>) \o send[c]
                          \o (IF c \in todo THEN (IF event = 0 THEN <<>> ELSE <<event>>) ELSE <<>>)
                          \o bus)
    BY DEF OrderKept, Inc
  <2> DEFINE l == IF last[c] = 0 THEN <<>> ELSE <<last[c]>>
             h == IF c \in todo THEN (IF event = 0 THEN <<>> ELSE <<event>>) ELSE <<>>
  <2>1. 1..MaxEvents \subseteq Nat /\ send[c] \in Seq(1..MaxEvents) /\ bus \in Seq(1..MaxEvents)
        /\ last[c] \in Nat /\ event \in Nat
    BY Bound DEF TypeOK
  <2>2. l \in Seq(Nat) /\ send[c] \in Seq(Nat) /\ h \in Seq(Nat) /\ bus \in Seq(Nat)
    <3>1. send[c] \in Seq(Nat) /\ bus \in Seq(Nat)
      BY <2>1, SeqMonotonic
    <3>2. <<>> \in Seq(Nat) /\ <<last[c]>> \in Seq(Nat) /\ <<event>> \in Seq(Nat)
      BY <2>1
    <3> QED
      BY <3>1, <3>2
  <2>3. Inc(l) /\ Inc(h) /\ Before(l, send[c]) /\ Before(l, h) /\ Before(l, bus)
        /\ Before(send[c], h) /\ Before(h, bus) /\ Before(send[c], bus)
        /\ Inc(send[c]) /\ Inc(bus)
    BY <2>1 DEF OrderInv, Inc, Before, Above, Below
  <2>4. l \o send[c] \in Seq(Nat) /\ (l \o send[c]) \o h \in Seq(Nat)
    BY <2>2, ConcatProperties
  <2>5. Inc(l \o send[c]) /\ Before(l \o send[c], h) /\ Before(l \o send[c], bus)
    BY <2>2, <2>3, IncConcat, BeforeConcat
  <2>6. Inc((l \o send[c]) \o h) /\ Before((l \o send[c]) \o h, bus)
    BY <2>2, <2>3, <2>4, <2>5, IncConcat, BeforeConcat
  <2>7. Inc(((l \o send[c]) \o h) \o bus)
    BY <2>2, <2>3, <2>4, <2>6, IncConcat
  <2> QED
    BY <2>7
<1> QED
  BY <1>1, <1>2, OrderStep, Typing, PTL DEF Spec
=============================================================================
