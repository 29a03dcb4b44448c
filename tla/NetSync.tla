------------------------------- MODULE NetSync -------------------------------
(***************************************************************************)
(* A cluster of MinVR processes: one VRNetServer, its VRNetClients, and in *)
(* each of them the main loop of VRMain that calls the server or client at *)
(* its two synchronization points.  TCP connections are FIFO channels of   *)
(* whole messages, as sendall and receiveall make them of a byte stream;   *)
(* VRNetServer handles its clients one by one, in the order of acceptance. *)
(***************************************************************************)
EXTENDS DataQueueOps, TimedList

CONSTANTS
    Server, Clients,    \* the processes; NumClients is the number of clients
    Times,              \* the clocks' values, which may differ between nodes
    Inputs,             \* the device events that may occur, "quit" aside
    MaxFrames,          \* bound: somebody quits in this frame at the latest
    LocalShutdown       \* the application may also call shutdown() on one node

ASSUME NetSyncAssumption ==
    /\ IsFiniteSet(Clients) /\ Clients # {} /\ Server \notin Clients
    /\ Times \subseteq Int /\ MaxFrames \in Nat \ {0}
    /\ "quit" \notin Inputs /\ "FrameStart" \notin Inputs
    /\ LocalShutdown \in BOOLEAN

Nodes == Clients \cup {Server}

VARIABLES
    pc,         \* what each node does next
    frame,      \* VRMain::_frame
    shutdown,   \* VRMain::_shutdown
    queue,      \* the event queue of the frame
    backlog,    \* connections the server has not accepted yet, in order
    sockets,    \* VRNetServer::_clientSocketFDs
    turn,       \* the server's position in its loops over sockets
    up, down,   \* messages from, and to, each client that are under way
    gave, got   \* history: events collected, and to be processed, this frame

netVars   == <<up, down>>
startVars == <<backlog, sockets>>
mainVars  == <<frame, shutdown>>
vars == <<pc, mainVars, queue, startVars, turn, netVars, gave, got>>

numClients == Cardinality(Clients)

ClientPoints == {"connect", "collect", "sendEvents", "awaitEvents", "dispatch",
                 "render", "sendRequest", "awaitNow", "display", "close",
                 "closed", "exited"}
ServerPoints == {"listen", "accept", "collect", "gatherEvents", "sendEvents",
                 "dispatch", "render", "gatherRequests", "sendNow", "display",
                 "close", "closed"}

Message(type, data) == [type |-> type, data |-> data]

Init ==
    /\ pc = [n \in Nodes |-> IF n = Server THEN "listen" ELSE "connect"]
    /\ frame = [n \in Nodes |-> 0]
    /\ shutdown = [n \in Nodes |-> FALSE]
    /\ queue = [n \in Nodes |-> EmptyQueue]
    /\ backlog = <<>> /\ sockets = <<>>
    /\ turn = 1
    /\ up = [c \in Clients |-> <<>>] /\ down = [c \in Clients |-> <<>>]
    /\ gave = [n \in Nodes |-> <<>>] /\ got = [n \in Nodes |-> <<>>]

Arrived(channel, type) == channel # <<>> /\ Head(channel).type = type

At(n, point)   == pc[n] = point
Goto(n, point) == pc' = [pc EXCEPT ![n] = point]

\* Where the two synchronization points take a node.  (Faulty: a client passes by
\* the first one and processes its own events only.)
NoSyncPoint1(n) == IF n = Server THEN "gatherEvents" ELSE "dispatch"
SyncPoint1(n)   == IF n = Server THEN "gatherEvents" ELSE "sendEvents"
SyncPoint2(n)   == IF n = Server THEN "gatherRequests" ELSE "sendRequest"

\* The server's queue after the events of one more client.  (Faulty: they replace
\* what it has.)
LastOnly(q, new) == new
Gathered(q, new) == AddQueue(q, new)

\* A client goes on with the server's list in place of its own queue.  (Faulty:
\* in addition to it, and only with its first event.)
KeepOwn(q, data)  == AddQueue(q, FromSerialized(<<data[1]>>))
Received(q, data) == FromSerialized(data)

\* The server's loops end after the last socket.  (Faulty: one too early.)
LastButOne == turn >= Len(sockets) - 1
LastTurn   == turn = Len(sockets)

-----------------------------------------------------------------------------
(* Connecting.                                                             *)

\* The constructor of VRNetServer opens the port: a client that tries earlier
\* is refused and tries again.
Listen ==
    /\ At(Server, "listen")
    /\ Goto(Server, "accept")
    /\ UNCHANGED <<mainVars, queue, startVars, turn, netVars, gave, got>>

\* A connection is established before it is accepted: the client goes on.
Connect(c) ==
    /\ At(c, "connect") /\ ~At(Server, "listen")
    /\ backlog' = Append(backlog, c)
    /\ Goto(c, "collect")
    /\ UNCHANGED <<mainVars, queue, sockets, turn, netVars, gave, got>>

Accept ==
    /\ At(Server, "accept") /\ backlog # <<>>
    /\ sockets' = Append(sockets, Head(backlog))
    /\ backlog' = Tail(backlog)
    /\ pc' = [pc EXCEPT ![Server] = IF Len(sockets') = numClients THEN "collect" ELSE @]
    /\ UNCHANGED <<mainVars, queue, turn, netVars, gave, got>>

-----------------------------------------------------------------------------
(* The main loop, on every node.                                           *)

Event(n, kind) == [id |-> <<n, kind>>, form |-> "raw"]
IsQuit(item) == item.id[2] = "quit"

\* FrameStart, and what the input devices have: nothing, or an event.
Collect(n) ==
    /\ At(n, "collect")
    /\ \E start \in Times, kind \in Inputs \cup {"nothing", "quit"}, stamp \in Times :
          LET started == Push(EmptyQueue, start, Event(n, "FrameStart")) IN
          /\ n = Server /\ frame[n] = MaxFrames - 1 => kind = "quit"
          /\ kind = "nothing" => stamp = start
          /\ \E q \in {IF kind = "nothing" THEN started
                                           ELSE Push(started, stamp, Event(n, kind))} :
                /\ queue' = [queue EXCEPT ![n] = q]
                /\ gave' = [gave EXCEPT ![n] = Serialize(q)]
    /\ Goto(n, SyncPoint1(n))
    /\ UNCHANGED <<mainVars, startVars, turn, netVars, got>>

QuitSeen(n) == \E k \in DOMAIN queue[n] : IsQuit(queue[n][k])

\* Handlers see each event and the queue is popped empty; the application
\* calls shutdown() when it sees the one that means quit.
Dispatch(n) ==
    /\ At(n, "dispatch")
    /\ shutdown' = [shutdown EXCEPT ![n] = @ \/ QuitSeen(n)]
    /\ queue' = [queue EXCEPT ![n] = EmptyQueue]
    /\ Goto(n, "render")
    /\ UNCHANGED <<frame, startVars, turn, netVars, gave, got>>

\* Model update, render and waitForRenderToComplete of the display graphs.
Render(n) ==
    /\ At(n, "render")
    /\ \E quit \in {FALSE, LocalShutdown} :
          shutdown' = [shutdown EXCEPT ![n] = @ \/ quit]
    /\ Goto(n, SyncPoint2(n))
    /\ UNCHANGED <<frame, queue, startVars, turn, netVars, gave, got>>

\* displayFinishedRendering swaps the buffers; mainloop() returns !_shutdown.
Display(n) ==
    /\ At(n, "display")
    /\ frame' = [frame EXCEPT ![n] = @ + 1]
    /\ Goto(n, IF shutdown[n] THEN "close" ELSE "collect")
    /\ gave' = [gave EXCEPT ![n] = <<>>] /\ got' = [got EXCEPT ![n] = <<>>]
    /\ UNCHANGED <<shutdown, queue, startVars, turn, netVars>>

\* ~VRMain deletes _net, which closes the sockets.
Close(n) ==
    /\ At(n, "close")
    /\ Goto(n, "closed")
    /\ UNCHANGED <<mainVars, queue, startVars, turn, netVars, gave, got>>

-----------------------------------------------------------------------------
(* VRNetClient.                                                            *)

ClientSends(c) ==
    /\ \/ At(c, "sendEvents") /\ Goto(c, "awaitEvents")
          /\ up' = [up EXCEPT ![c] = Append(@, Message("EVENTS", Serialize(queue[c])))]
       \/ At(c, "sendRequest") /\ Goto(c, "awaitNow")
          /\ up' = [up EXCEPT ![c] = Append(@, Message("REQUEST", <<>>))]
    /\ UNCHANGED <<mainVars, queue, startVars, turn, down, gave, got>>

\* What a waiting client accepts.  Another byte would be reported and skipped;
\* the invariant ExpectedOnly says that there never is another one.
ClientExpects(c) ==
    CASE At(c, "awaitEvents") -> "EVENTS" [] At(c, "awaitNow") -> "NOW" [] OTHER -> "-"

ClientReceives(c) ==
    /\ Arrived(down[c], ClientExpects(c))
    /\ down' = [down EXCEPT ![c] = Tail(@)]
    /\ \/ /\ At(c, "awaitEvents")
          /\ \E q \in {Received(queue[c], Head(down[c]).data)} :
                /\ queue' = [queue EXCEPT ![c] = q]
                /\ got' = [got EXCEPT ![c] = InOrder(q)]
          /\ Goto(c, "dispatch")
       \/ /\ At(c, "awaitNow")
          /\ Goto(c, "display")
          /\ UNCHANGED <<queue, got>>
    /\ UNCHANGED <<mainVars, startVars, turn, up, gave>>

-----------------------------------------------------------------------------
(* VRNetServer: two loops over the sockets at each synchronization point.  *)

\* (Faulty: the second loop does not start at the first socket.)
KeepsTurn(point) ==
    turn' = turn + 1 /\ IF LastTurn THEN Goto(Server, point) ELSE UNCHANGED pc

NextTurn(point) ==
    IF LastTurn THEN turn' = 1 /\ Goto(Server, point)
                ELSE turn' = turn + 1 /\ UNCHANGED pc

ServerExpects ==
    CASE At(Server, "gatherEvents")   -> "EVENTS"
      [] At(Server, "gatherRequests") -> "REQUEST"
      [] OTHER -> "-"

ServerReceives ==
    /\ ServerExpects # "-"
    /\ LET c == sockets[turn] IN
          /\ Arrived(up[c], ServerExpects)
          /\ up' = [up EXCEPT ![c] = Tail(@)]
          /\ \/ /\ At(Server, "gatherEvents")
                /\ \E new \in {FromSerialized(Head(up[c]).data)} :
                      queue' = [queue EXCEPT ![Server] = Gathered(@, new)]
                /\ NextTurn("sendEvents")
             \/ /\ At(Server, "gatherRequests")
                /\ NextTurn("sendNow")
                /\ UNCHANGED queue
    /\ UNCHANGED <<mainVars, startVars, down, gave, got>>

ServerSends ==
    /\ \/ /\ At(Server, "sendEvents")
          /\ down' = [down EXCEPT ![sockets[turn]] =
                Append(@, Message("EVENTS", Serialize(queue[Server])))]
          /\ NextTurn("dispatch")
          /\ got' = [got EXCEPT ![Server] = InOrder(queue[Server])]
       \/ /\ At(Server, "sendNow")
          /\ down' = [down EXCEPT ![sockets[turn]] = Append(@, Message("NOW", <<>>))]
          /\ NextTurn("display")
          /\ UNCHANGED got
    /\ UNCHANGED <<mainVars, queue, startVars, up, gave>>

-----------------------------------------------------------------------------
(* Waiting for a peer that has gone.                                       *)

Gone(n) == pc[n] \in {"closed", "exited"}

WaitsForGone(n) ==
    IF n = Server
    THEN ServerExpects # "-" /\ up[sockets[turn]] = <<>> /\ Gone(sockets[turn])
    ELSE ClientExpects(n) # "-" /\ down[n] = <<>> /\ Gone(Server)

\* recv returns 0, and receiveall tries again ...
ReceiveNothing(n) ==
    /\ WaitsForGone(n)
    /\ UNCHANGED vars

\* ... or -1 if the connection was reset, as when the server has closed it with
\* the client's message unread or before it came.
ConnectionReset(c) ==
    /\ WaitsForGone(c)
    /\ Goto(c, "exited")
    /\ UNCHANGED <<mainVars, queue, startVars, turn, netVars, gave, got>>

\* Every process has ended.
Over ==
    /\ \A n \in Nodes : Gone(n)
    /\ UNCHANGED vars

MainStep(n) == Collect(n) \/ Dispatch(n) \/ Render(n) \/ Display(n) \/ Close(n)
ServerStep == Listen \/ Accept \/ ServerReceives \/ ServerSends
ClientStep(c) == Connect(c) \/ ClientSends(c) \/ ClientReceives(c)

Next ==
    \/ \E n \in Nodes : MainStep(n) \/ ReceiveNothing(n)
    \/ ServerStep
    \/ \E c \in Clients : ClientStep(c) \/ ConnectionReset(c)
    \/ Over

SafetySpec == Init /\ [][Next]_vars

\* Every process runs, and TCP delivers what was sent.  Whether a reset reaches a
\* client that has been told of the end of the stream is left open.
Spec ==
    /\ SafetySpec
    /\ WF_vars(ServerStep \/ MainStep(Server))
    /\ \A c \in Clients : WF_vars(ClientStep(c) \/ MainStep(c))

-----------------------------------------------------------------------------
Kinds == Inputs \cup {"FrameStart", "quit"}
Items == [id : Nodes \X Kinds, form : {"raw", "text"}]

TypeOK ==
    /\ \A n \in Nodes : pc[n] \in IF n = Server THEN ServerPoints ELSE ClientPoints
    /\ frame \in [Nodes -> 0..MaxFrames]
    /\ shutdown \in [Nodes -> BOOLEAN]
    /\ \A n \in Nodes :
          /\ DOMAIN queue[n] \subseteq Times \X (0..(2 * numClients + 1))
          /\ \A k \in DOMAIN queue[n] : queue[n][k] \in Items
    /\ \A c \in Clients : Cardinality({i \in DOMAIN backlog : backlog[i] = c})
                        + Cardinality({i \in DOMAIN sockets : sockets[i] = c})
                        = IF At(c, "connect") THEN 0 ELSE 1
    /\ turn \in 1..numClients

\* Synchronization point 1: nodes that process the events of the same frame
\* process the same events in the same order, up to the rounding of numbers in
\* an event that went over the network.
SameEvents ==
    \A m, n \in Nodes :
        frame[m] = frame[n] /\ got[m] # <<>> /\ got[n] # <<>>
            => TextOf(got[m]) = TextOf(got[n])

\* A node processes in time order exactly the events that the nodes, itself
\* included, have collected in this frame: none is lost, repeated or overtaken
\* by a later one of the same node.
EventsMerged ==
    \A n \in Nodes : got[n] # <<>> =>
        /\ InTimeOrder(got[n])
        /\ \A m \in Nodes : frame[m] = frame[n] => From(TextOf(got[n]), m) = gave[m]

Rendered(n, f) ==
    \/ frame[n] > f
    \/ frame[n] = f /\ pc[n] \in {"sendRequest", "awaitNow", "gatherRequests",
                                  "sendNow", "display"}

\* Synchronization point 2: a node about to display its frame knows that every
\* node has finished rendering that frame.
SwapTogether ==
    \A m, n \in Nodes : At(m, "display") => Rendered(n, frame[m])

\* Nobody ever reads a message other than the one it waits for, and no message
\* is left over for the next synchronization point.
ExpectedOnly ==
    \A c \in Clients :
        /\ Len(up[c]) <= 1 /\ Len(down[c]) <= 1
        /\ ClientExpects(c) # "-" /\ down[c] # <<>> => Head(down[c]).type = ClientExpects(c)
        /\ ServerExpects # "-" /\ sockets[turn] = c /\ up[c] # <<>>
              => Head(up[c]).type = ServerExpects

\* As long as shutdown() is called only in answer to an event, all nodes leave
\* the main loop in the same frame and none is left waiting for the others.
AllStop ==
    <>[](/\ \A n \in Nodes : At(n, "closed")
         /\ \A m, n \in Nodes : frame[m] = frame[n])

\* The abstract lock step, whose phases are ranges of the program points.
PhaseOf(n) ==
    CASE pc[n] \in {"listen", "accept", "connect", "collect", "close"} -> "start"
      [] pc[n] \in {"closed", "exited"} -> "stopped"
      [] OTHER -> IF got[n] = <<>> THEN "given"
                  ELSE IF Rendered(n, frame[n]) THEN "rendered" ELSE "working"
Lockstep == INSTANCE FrameLockstep WITH
    phase <- [n \in Nodes |-> PhaseOf(n)],
    got   <- [n \in Nodes |-> TextOf(got[n])]
ImplementsLockstep == Lockstep!Spec

\* receiveall is to return -1 on failure, and its callers then end the process:
\* a server whose client has gone does not wait for it for ever.
LossNoticed == WaitsForGone(Server) ~> ~WaitsForGone(Server)
=============================================================================
