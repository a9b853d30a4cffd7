------------------------------ MODULE EventBus ------------------------------
(***************************************************************************)
(* internal/service/eventbus.go and the connection goroutines that         *)
(* internal/api/websocket.go starts for each client.  One goroutine, run,  *)
(* owns the set of registered clients: it receives from register, unreg    *)
(* and broadcast in one select.  register and unreg have no buffer, so a   *)
(* sender waits until run is back in its select; broadcast and every Send  *)
(* channel have one.  Events are numbered in the order of Publish.         *)
(***************************************************************************)
EXTENDS Naturals, Sequences

CONSTANTS
    Clients,      \* WebSocket connections; one is never reused
    BusBuffer,    \* capacity of broadcast (64 in the code)
    SendBuffer,   \* capacity of a client's Send channel (32 in the code)
    MaxEvents     \* bound on the events published

ASSUME Buffers == BusBuffer \in Nat \ {0} /\ SendBuffer \in Nat \ {0}
ASSUME Bound   == MaxEvents \in Nat

VARIABLES
    published,    \* number of the last event given to Publish
    bus,          \* the broadcast channel
    clients,      \* EventBus.clients
    event, todo,  \* the event run is delivering (0: it is in its select), the
                  \* clients its range loop has still to visit
    send,         \* the Send channels
    closings,     \* how often each Send was closed; the second one panics
    asking,       \* goroutines sending a slow client on unreg
    handler,      \* progress of WebSocketSystem
    conn,         \* the connection: up, lost by the peer, closed here
    reader, writer,
    last,         \* the newest event each writer took from Send
    due, took     \* history: events offered to a client, and taken by its writer

vars == <<published, bus, clients, event, todo, send, closings, asking, handler, conn, reader,
          writer, last, due, took>>
run    == <<bus, event, todo>>
chans  == <<send, closings>>
sock   == <<handler, conn, reader, writer>>
counts == <<last, due, took>>

TypeOK ==
    /\ published \in 0..MaxEvents
    /\ bus \in Seq(1..MaxEvents) /\ Len(bus) <= BusBuffer
    /\ clients \in SUBSET Clients
    /\ event \in 0..MaxEvents /\ todo \in SUBSET clients
    /\ event = 0 <=> todo = {}
    /\ send \in [Clients -> Seq(1..MaxEvents)]
    /\ \A c \in Clients : Len(send[c]) <= SendBuffer
    /\ closings \in [Clients -> Nat] /\ asking \in [Clients -> Nat]
    /\ handler \in [Clients -> {"none", "registering", "welcoming", "served"}]
    /\ conn \in [Clients -> {"up", "lost", "closed"}]
    /\ reader \in [Clients -> {"none", "reading", "ended"}]
    /\ writer \in [Clients -> {"none", "select", "removing", "ended"}]
    /\ last \in [Clients -> 0..MaxEvents]
    /\ due \in [Clients -> Nat] /\ took \in [Clients -> Nat]

Init ==
    /\ published = 0 /\ bus = <<>>
    /\ clients = {} /\ event = 0 /\ todo = {}
    /\ send = [c \in Clients |-> <<>>]
    /\ closings = [c \in Clients |-> 0] /\ asking = [c \in Clients |-> 0]
    /\ handler = [c \in Clients |-> "none"] /\ conn = [c \in Clients |-> "up"]
    /\ reader = [c \in Clients |-> "none"] /\ writer = [c \in Clients |-> "none"]
    /\ last = [c \in Clients |-> 0]
    /\ due = [c \in Clients |-> 0] /\ took = [c \in Clients |-> 0]

\* Mutant of InSelect: registrations are handled while an event is delivered.
InSelectAnyTime == TRUE

\* run handles one message at a time: it is back in its select only when the
\* event it took has been offered to every client.
InSelect == event = 0

-----------------------------------------------------------------------------
\* Publish never waits: a full channel drops the new event.
Publish ==
    /\ published < MaxEvents
    /\ published' = published + 1
    /\ bus' = IF Len(bus) < BusBuffer THEN Append(bus, published + 1) ELSE bus
    /\ UNCHANGED <<clients, event, todo, chans, asking, sock, counts>>

-----------------------------------------------------------------------------
(* run *)

\* NewClient's send on register is received.
Register(c) ==
    /\ InSelect /\ handler[c] = "registering"
    /\ clients' = clients \cup {c}
    /\ handler' = [handler EXCEPT ![c] = "welcoming"]
    /\ UNCHANGED <<published, run, chans, asking, conn, reader, writer, counts>>

\* Mutant of Unregister: Send is closed whether or not the client was there.
UnregisterAlways(c) ==
    /\ clients' = clients \ {c}
    /\ closings' = [closings EXCEPT ![c] = @ + 1]

Unregister(c) ==
    /\ clients' = clients \ {c}
    /\ closings' = IF c \in clients THEN [closings EXCEPT ![c] = @ + 1] ELSE closings

\* From a goroutine started for a slow client.
UnregisterSlow(c) ==
    /\ InSelect /\ asking[c] > 0
    /\ asking' = [asking EXCEPT ![c] = @ - 1]
    /\ Unregister(c)
    /\ UNCHANGED <<published, run, send, sock, counts>>

\* From the writer, which then returns and closes the connection.
UnregisterLeaving(c) ==
    /\ InSelect /\ writer[c] = "removing"
    /\ writer' = [writer EXCEPT ![c] = "ended"]
    /\ conn' = [conn EXCEPT ![c] = "closed"]
    /\ Unregister(c)
    /\ UNCHANGED <<published, run, send, asking, handler, reader, counts>>

\* Mutant of Take: the event stays on the channel while it is delivered.
TakeLeaves ==
    /\ InSelect /\ bus # <<>>
    /\ event' = IF clients = {} THEN 0 ELSE Head(bus)
    /\ todo' = clients
    /\ UNCHANGED <<published, bus, clients, chans, asking, sock, counts>>

\* The oldest event on the channel; the range loop visits the map in any order.
Take ==
    /\ InSelect /\ bus # <<>>
    /\ bus' = Tail(bus)
    /\ event' = IF clients = {} THEN 0 ELSE Head(bus)
    /\ todo' = clients
    /\ UNCHANGED <<published, clients, chans, asking, sock, counts>>

Offered(c) ==
    /\ event # 0 /\ c \in todo
    /\ todo' = todo \ {c}
    /\ due' = [due EXCEPT ![c] = @ + 1]
    /\ UNCHANGED <<published, bus, clients, closings, sock, last, took>>

\* Mutant of Deliver: a full client misses the event, and that is all.
DeliverSkips(c) ==
    /\ Offered(c)
    /\ event' = IF todo = {c} THEN 0 ELSE event
    /\ send' = IF Len(send[c]) < SendBuffer THEN [send EXCEPT ![c] = Append(@, event)] ELSE send
    /\ UNCHANGED asking

\* Mutant of Deliver: run itself sends on unreg, and waits for itself.
DeliverAsksItself(c) ==
    /\ Offered(c)
    /\ IF Len(send[c]) < SendBuffer
         THEN /\ send' = [send EXCEPT ![c] = Append(@, event)]
              /\ event' = IF todo = {c} THEN 0 ELSE event
              /\ UNCHANGED asking
         ELSE /\ asking' = [asking EXCEPT ![c] = @ + 1]
              /\ UNCHANGED <<send, event>>

\* One turn of the range loop; a full client is unregistered by a goroutine
\* of its own.
Deliver(c) ==
    /\ Offered(c)
    /\ event' = IF todo = {c} THEN 0 ELSE event
    /\ IF Len(send[c]) < SendBuffer
         THEN send' = [send EXCEPT ![c] = Append(@, event)] /\ UNCHANGED asking
         ELSE asking' = [asking EXCEPT ![c] = @ + 1] /\ UNCHANGED send

-----------------------------------------------------------------------------
(* A connection *)

Connect(c) ==
    /\ handler[c] = "none"
    /\ handler' = [handler EXCEPT ![c] = "registering"]
    /\ UNCHANGED <<published, run, clients, chans, asking, conn, reader, writer, counts>>

\* After the welcome message the goroutines start.
Serve(c) ==
    /\ handler[c] = "welcoming"
    /\ handler' = [handler EXCEPT ![c] = "served"]
    /\ reader' = [reader EXCEPT ![c] = "reading"]
    /\ writer' = [writer EXCEPT ![c] = "select"]
    /\ UNCHANGED <<published, run, clients, chans, asking, conn, counts>>

PeerLeaves(c) ==
    /\ handler[c] # "none" /\ conn[c] = "up"
    /\ conn' = [conn EXCEPT ![c] = "lost"]
    /\ UNCHANGED <<published, run, clients, chans, asking, handler, reader, writer, counts>>

\* A read fails: the peer left, or was silent for 60 s, or the writer closed
\* the connection.  done is closed, then the connection.
ReaderEnds(c) ==
    /\ reader[c] = "reading"
    /\ reader' = [reader EXCEPT ![c] = "ended"]
    /\ conn' = [conn EXCEPT ![c] = "closed"]
    /\ UNCHANGED <<published, run, clients, chans, asking, handler, writer, counts>>

\* A message is taken from Send and written; the write may fail.
WriterSends(c) ==
    /\ writer[c] = "select" /\ send[c] # <<>>
    /\ send' = [send EXCEPT ![c] = Tail(@)]
    /\ last' = [last EXCEPT ![c] = Head(send[c])]
    /\ took' = [took EXCEPT ![c] = @ + 1]
    /\ writer' = [writer EXCEPT ![c] = "removing"] \/ (conn[c] # "closed" /\ UNCHANGED writer)
    /\ UNCHANGED <<published, run, clients, closings, asking, handler, conn, reader, due>>

\* A ping fails, or the reader is done.
WriterLeaves(c) ==
    /\ writer[c] = "select"
    /\ writer' = [writer EXCEPT ![c] = "removing"]
    /\ UNCHANGED <<published, run, clients, chans, asking, handler, conn, reader, counts>>

\* Send is closed and empty: nothing to remove.
WriterSeesClosed(c) ==
    /\ writer[c] = "select" /\ send[c] = <<>> /\ closings[c] > 0
    /\ writer' = [writer EXCEPT ![c] = "ended"]
    /\ conn' = [conn EXCEPT ![c] = "closed"]
    /\ UNCHANGED <<published, run, clients, chans, asking, handler, reader, counts>>

-----------------------------------------------------------------------------
RunStep(c) == Register(c) \/ UnregisterSlow(c) \/ UnregisterLeaving(c) \/ Deliver(c)

Next ==
    \/ Publish \/ Take
    \/ \E c \in Clients :
          \/ RunStep(c)
          \/ Connect(c) \/ Serve(c) \/ PeerLeaves(c) \/ ReaderEnds(c)
          \/ WriterSends(c) \/ WriterLeaves(c) \/ WriterSeesClosed(c)

Spec == Init /\ [][Next]_vars

WriterStep(c) == Serve(c) \/ WriterSends(c) \/ WriterSeesClosed(c)

(***************************************************************************)
(* run always returns to its select, which chooses at random among the     *)
(* channels that are ready and so does not pass one over for ever (strong  *)
(* fairness).  A read fails once the connection is lost (the 60 s          *)
(* deadline) or closed.  Nobody need connect, leave or publish.            *)
(***************************************************************************)
Fairness ==
    /\ WF_vars(Take \/ \E c \in Clients : Deliver(c))
    /\ \A c \in Clients :
          /\ SF_vars(Register(c)) /\ SF_vars(UnregisterSlow(c)) /\ SF_vars(UnregisterLeaving(c))
          /\ WF_vars(WriterStep(c))
          /\ WF_vars(conn[c] # "up" /\ ReaderEnds(c))
          /\ SF_vars(reader[c] = "ended" /\ WriterLeaves(c))

FairSpec == Spec /\ Fairness

-----------------------------------------------------------------------------
(* Properties *)

\* Send is closed exactly once, and never while its client is registered,
\* however many goroutines ask for its removal: run neither sends on a closed
\* channel nor closes one twice.
SendNeverReopened ==
    \A c \in Clients : closings[c] <= 1 /\ (c \in clients => closings[c] = 0)

\* Events reach a client in the order they were published, without repeats:
\* what it has, what waits in Send, what run holds and what waits on broadcast.
OrderKept ==
    LET Increasing(s) == \A i, j \in 1..Len(s) : i < j => s[i] < s[j]
        held == IF event = 0 THEN <<>> ELSE <<event>>
    IN  \A c \in Clients :
           Increasing((IF last[c] = 0 THEN <<>> ELSE <<last[c]>>) \o send[c]
                      \o (IF c \in todo THEN held ELSE <<>>) \o bus)

\* A registered client that missed an event is about to be removed: while it
\* stays it has, or will be sent, everything run delivered since it came.
GapMeansRemoval ==
    \A c \in clients : took[c] + Len(send[c]) < due[c] => asking[c] > 0

\* A client that cannot keep up is disconnected.
SlowClientClosed == \A c \in Clients : asking[c] > 0 ~> (c \notin clients /\ asking[c] = 0)

\* When the peer leaves, the client leaves the bus and both goroutines end.
LeaverRemoved ==
    \A c \in Clients :
       (conn[c] = "lost" /\ handler[c] = "served")
          ~> (c \notin clients /\ reader[c] = "ended" /\ writer[c] = "ended")

\* Whoever has to go is gone in the end: run is never held up by a client,
\* and asks for a removal only from a goroutine of its own.
RemovalCompletes == SlowClientClosed /\ LeaverRemoved
=============================================================================
