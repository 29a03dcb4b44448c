---------------------------- MODULE NetSyncProofs ----------------------------
(***************************************************************************)
(* Proofs about NetSync, for any number of clients, any clocks, any events *)
(* and any number of frames.  The definitions make up an invariant that is *)
(* inductive; the lemmas show that each action keeps it.                   *)
(***************************************************************************)
EXTENDS NetSync, DataQueueProofs

USE NetSyncAssumption

-----------------------------------------------------------------------------
(* Types.                                                                  *)

Texts(N)    == [time : Times, item : [id : N \X Kinds, form : {"text"}]]
Entries     == [time : Times, item : Items]
EventLists  == Seq(Entries)

\* The queues of all nodes are queues without gaps; a node has at most two events of
\* its own.
QueuesInv ==
    \A n \in Nodes :
        /\ IsQueue(queue[n], Items) /\ Contiguous(queue[n])
        /\ DOMAIN queue[n] \subseteq Times \X (0..(2 * numClients + 1))

TypeInv ==
    /\ \A n \in Nodes : pc[n] \in IF n = Server THEN ServerPoints ELSE ClientPoints
    /\ DOMAIN pc = Nodes /\ DOMAIN queue = Nodes
    /\ DOMAIN up = Clients /\ DOMAIN down = Clients
    /\ frame \in [Nodes -> Nat]
    /\ shutdown \in [Nodes -> BOOLEAN]
    /\ gave \in [Nodes -> Seq(Texts(Nodes))]
    /\ got \in [Nodes -> EventLists]

-----------------------------------------------------------------------------
(* The server's loops.                                                     *)

Loops == {"gatherEvents", "sendEvents", "gatherRequests", "sendNow"}

\* Every client that has connected has one socket or waits for one, and the server has
\* a socket for each client when it leaves its constructor.
SocketsInv ==
    /\ backlog \in Seq(Clients) /\ sockets \in Seq(Clients)
    /\ \A i, j \in DOMAIN backlog : backlog[i] = backlog[j] => i = j
    /\ \A i, j \in DOMAIN sockets : sockets[i] = sockets[j] => i = j
    /\ \A i \in DOMAIN backlog, j \in DOMAIN sockets : backlog[i] # sockets[j]
    /\ \A c \in Clients : ~At(c, "connect") <=>
          (\E i \in DOMAIN backlog : backlog[i] = c) \/ (\E i \in DOMAIN sockets : sockets[i] = c)
    /\ pc[Server] \notin {"listen", "accept"} =>
          /\ Len(sockets) = numClients
          /\ \A c \in Clients : \E i \in DOMAIN sockets : sockets[i] = c
    /\ turn \in 1..numClients
    /\ pc[Server] \notin Loops => turn = 1

\* The clients whose turn has come and gone in the server's present loop.
Handled == {sockets[i] : i \in 1..(turn - 1)}

\* How far the server is, in its present frame, in what it exchanges with a client.
Stage(c) ==
    CASE At(Server, "gatherEvents")   -> IF c \in Handled THEN "heard" ELSE "begun"
      [] At(Server, "sendEvents")     -> IF c \in Handled THEN "told" ELSE "heard"
      [] At(Server, "dispatch")       -> "told"
      [] At(Server, "render")         -> "told"
      [] At(Server, "gatherRequests") -> IF c \in Handled THEN "asked" ELSE "told"
      [] At(Server, "sendNow")        -> IF c \in Handled THEN "released" ELSE "asked"
      [] At(Server, "display")        -> "released"
      [] OTHER                        -> "begun"

Quiet(c)      == up[c] = <<>> /\ down[c] = <<>>
Says(c, m)    == up[c] = <<m>> /\ down[c] = <<>>
IsTold(c, m)  == up[c] = <<>> /\ down[c] = <<m>>

\* Where a client may be, and what is under way, until the server has its events ...
Begins(c) ==
    \/ pc[c] \in {"connect", "collect", "sendEvents", "close", "closed"} /\ Quiet(c)
    \/ At(c, "awaitEvents") /\ Says(c, Message("EVENTS", gave[c]))
    \/ At(c, "exited") /\ At(Server, "closed") /\ Says(c, Message("EVENTS", gave[c]))

\* ... until the server has its request ...
Works(c) ==
    \/ At(c, "awaitEvents") /\ IsTold(c, Message("EVENTS", TextOf(got[Server])))
    \/ pc[c] \in {"dispatch", "render", "sendRequest"} /\ Quiet(c)
    \/ At(c, "awaitNow") /\ Says(c, Message("REQUEST", <<>>))

\* ... and until it displays its frame.
Ends(c) ==
    \/ At(c, "awaitNow") /\ IsTold(c, Message("NOW", <<>>))
    \/ At(c, "display") /\ Quiet(c)

\* A client is in the server's frame, but it is free to end that frame, and to begin
\* the next, as soon as it is released.
Handshake(c) ==
    /\ Stage(c) = "begun" => \/ frame[c] = frame[Server] /\ Begins(c)
                             \/ frame[c] + 1 = frame[Server] /\ Ends(c)
    /\ Stage(c) = "heard" => frame[c] = frame[Server] /\ At(c, "awaitEvents") /\ Quiet(c)
    /\ Stage(c) = "told"  => frame[c] = frame[Server] /\ Works(c)
    /\ Stage(c) = "asked" => frame[c] = frame[Server] /\ At(c, "awaitNow") /\ Quiet(c)
    /\ Stage(c) = "released" => \/ frame[c] = frame[Server] /\ Ends(c)
                                \/ frame[c] = frame[Server] + 1 /\ Begins(c)

HandshakeInv == \A c \in Clients : Handshake(c)

-----------------------------------------------------------------------------
(* The events.                                                             *)

BeforeGiving == {"listen", "accept", "connect", "collect", "close", "closed"}
Processing == {"dispatch", "render", "gatherRequests", "sendRequest", "sendNow",
               "awaitNow", "display"}

\* What a node has given: one or two events, in time order, all its own.
IsGiven(n, list) ==
    list \in Seq(Texts({n})) /\ Len(list) \in 1..2 /\ InTimeOrder(list)

GaveInv ==
    \A n \in Nodes : IF pc[n] \in BeforeGiving THEN gave[n] = <<>> ELSE IsGiven(n, gave[n])

\* The nodes whose events are in the server's queue, and the list there.
Merged == IF At(Server, "gatherEvents") THEN Handled \cup {Server} ELSE Nodes
ServersList == TextOf(InOrder(queue[Server]))

MergedInv ==
    pc[Server] \in {"gatherEvents", "sendEvents", "dispatch"} =>
        /\ \A m \in Nodes : From(ServersList, m) = IF m \in Merged THEN gave[m] ELSE <<>>
        /\ Cardinality(DOMAIN queue[Server]) <=
              IF At(Server, "gatherEvents") THEN 2 * turn ELSE 2 * numClients + 2

\* A client sends what is in its queue.
OwnInv == \A c \in Clients : At(c, "sendEvents") => Serialize(queue[c]) = gave[c]

\* Who has a list to process.
GotInv ==
    /\ \A n \in Nodes : (got[n] # <<>>) <=>
          \/ pc[n] \in Processing
          \/ n = Server /\ At(n, "sendEvents") /\ turn > 1
    /\ pc[Server] \in {"sendEvents", "dispatch"} /\ got[Server] # <<>> =>
          got[Server] = InOrder(queue[Server])
    /\ Len(got[Server]) <= 2 * numClients + 2

-----------------------------------------------------------------------------
(* The last frame.                                                         *)

LastFrameInv ==
    /\ frame[Server] <= MaxFrames
    /\ pc[Server] \notin {"close", "closed"} => frame[Server] < MaxFrames
    /\ frame[Server] = MaxFrames - 1 =>
          /\ pc[Server] \in {"gatherEvents", "sendEvents", "dispatch"} =>
                \E i \in 1..Len(gave[Server]) : IsQuit(gave[Server][i].item)
          /\ pc[Server] \in {"render", "gatherRequests", "sendNow", "display"} => shutdown[Server]

ControlInv == TypeInv /\ SocketsInv /\ HandshakeInv
EventsInv  == QueuesInv /\ GaveInv /\ MergedInv /\ OwnInv /\ GotInv /\ SameEvents /\ EventsMerged
IInv == ControlInv /\ EventsInv /\ LastFrameInv


-----------------------------------------------------------------------------
(* Lists of events.                                                        *)

\* The nodes are finitely many, and there is a client.
LEMMA ClientCount ==
    /\ IsFiniteSet(Clients) /\ numClients \in Nat \ {0}
    /\ \A c \in Clients : c # Server
  <1>1. numClients \in Nat /\ (numClients = 0 <=> Clients = {})
    BY FS_CardinalityType, FS_EmptySet DEF numClients
  <1> QED
    BY <1>1

\* Entries have integer times, and texts are events.
LEMMA TextTypes ==
    ASSUME NEW N \in SUBSET Nodes
    PROVE  /\ Timed(Texts(N)) /\ Timed(Entries)
           /\ Texts(N) \subseteq Texts(Nodes)
           /\ Texts(Nodes) \subseteq Entries
           /\ Entries \subseteq EntriesOf(Items)
           /\ Seq(Texts(N)) \subseteq Seq(Texts(Nodes))
           /\ Seq(Texts(Nodes)) \subseteq EventLists
           /\ EventLists \subseteq Seq(EntriesOf(Items))
  <1>1. /\ Timed(Texts(N)) /\ Timed(Entries)
        /\ Texts(N) \subseteq Texts(Nodes)
        /\ Texts(Nodes) \subseteq Entries
        /\ Entries \subseteq EntriesOf(Items)
    BY DEF Timed, Texts, Items, Entries, EntriesOf
  <1>2. \A S, T : S \subseteq T => Seq(S) \subseteq Seq(T)
    BY SeqMonotonic
  <1> QED
    BY <1>1, <1>2 DEF EventLists

\* As text an event is of the same node and kind, and the text of text is that text.
LEMMA TextOfItem ==
    /\ \A item \in Items : AsText(item) \in Items
    /\ \A item \in Items : /\ AsText(item) \in [id : Nodes \X Kinds, form : {"text"}]
                           /\ AsText(item).id = item.id
                           /\ item.form = "text" => AsText(item) = item
  BY DEF Items, AsText

\* The text of a list of events is a list of texts, event by event.
LEMMA TextOfEvents ==
    ASSUME NEW list \in EventLists
    PROVE  /\ TextOf(list) \in Seq(Texts(Nodes))
           /\ Len(TextOf(list)) = Len(list) /\ Len(list) \in Nat
           /\ \A i \in 1..Len(list) : TextOf(list)[i] = Entry(list[i].time, AsText(list[i].item))
           /\ InTimeOrder(list) => InTimeOrder(TextOf(list))
  <1>1. list \in Seq(EntriesOf(Items))
    BY TextTypes
  <1>2. /\ TextOf(list) \in Seq(EntriesOf(Items))
        /\ Len(TextOf(list)) = Len(list)
        /\ \A i \in 1..Len(list) : TextOf(list)[i] = Entry(list[i].time, AsText(list[i].item))
        /\ InTimeOrder(list) => InTimeOrder(TextOf(list))
    BY <1>1, TextOfItem, TextOfType
  <1> DEFINE text == TextOf(list)
  <1>3. Len(list) \in Nat /\ \A i \in 1..Len(list) : list[i] \in Entries
    BY DEF EventLists
  <1>4. \A i \in 1..Len(list) : text[i] \in Texts(Nodes)
    <2>1. \A e \in Entries : Entry(e.time, AsText(e.item)) \in Texts(Nodes)
      BY TextOfItem DEF Entries, Entry, Texts
    <2> QED
      BY <1>2, <1>3, <2>1
  <1>5. text \in Seq(EntriesOf(Items)) /\ Len(text) = Len(list)
    BY <1>2
  <1> HIDE DEF text
  <1>6. text \in [1..Len(list) -> Texts(Nodes)]
    BY <1>3, <1>4, <1>5, LenProperties
  <1>7. text \in Seq(Texts(Nodes))
    BY <1>3, <1>6, FunctionIsSeq
  <1> QED
    BY <1>2, <1>3, <1>7 DEF text

\* Nothing changes in a list of texts.
LEMMA TextOfTexts ==
    ASSUME NEW list \in Seq(Texts(Nodes))
    PROVE  TextOf(list) = list
  <1>1. list \in EventLists
    BY TextTypes
  <1>2. /\ TextOf(list) \in Seq(Texts(Nodes))
        /\ Len(TextOf(list)) = Len(list) /\ Len(list) \in Nat
        /\ \A i \in 1..Len(list) : TextOf(list)[i] = Entry(list[i].time, AsText(list[i].item))
    BY <1>1, TextOfEvents
  <1> DEFINE n == Len(list)
             text == TextOf(list)
  <1>3. \A i \in 1..n : list[i] \in Texts(Nodes)
    OBVIOUS
  <1>4. \A i \in 1..n : Entry(list[i].time, AsText(list[i].item)) = list[i]
    <2> SUFFICES ASSUME NEW i \in 1..n
                 PROVE  Entry(list[i].time, AsText(list[i].item)) = list[i]
      OBVIOUS
    <2>1. list[i] \in [time : Times, item : [id : Nodes \X Kinds, form : {"text"}]]
      BY <1>3 DEF Texts
    <2>2. list[i].item \in Items /\ list[i].item.form = "text"
      BY <2>1 DEF Items
    <2>3. AsText(list[i].item) = list[i].item
      BY <2>2, TextOfItem
    <2> QED
      BY <2>1, <2>3 DEF Entry
  <1>5. list \in [1..n -> Texts(Nodes)] /\ n \in Nat
    BY LenProperties
  <1>6. \A i \in 1..n : text[i] = list[i]
    BY <1>2, <1>4
  <1>7. text = list
    <2>1. text \in Seq(Texts(Nodes)) /\ Len(text) = n
      BY <1>2
    <2> HIDE DEF text, n
    <2> QED
      BY <1>5, <1>6, <2>1, SameSeq
  <1> QED
    BY <1>7

\* What a queue of events shows.
LEMMA QueueShows ==
    ASSUME NEW q, IsQueue(q, Items), NEW M, DOMAIN q \subseteq Times \X M
    PROVE  /\ InOrder(q) \in EventLists
           /\ InTimeOrder(InOrder(q))
           /\ Len(InOrder(q)) = Cardinality(DOMAIN q) /\ Cardinality(DOMAIN q) \in Nat
           /\ TextOf(InOrder(q)) \in Seq(Texts(Nodes))
           /\ InTimeOrder(TextOf(InOrder(q)))
           /\ Len(TextOf(InOrder(q))) = Cardinality(DOMAIN q)
  <1> DEFINE list == InOrder(q)
             n == Len(list)
  <1>1. /\ list \in Seq(EntriesOf(Items))
        /\ n = Cardinality(DOMAIN q)
        /\ Cardinality(DOMAIN q) \in Nat
        /\ InTimeOrder(list)
        /\ \A i \in 1..n : \E k \in DOMAIN q : list[i] = Entry(k[1], q[k])
    BY InOrderType
  <1>2. \A k \in DOMAIN q : Entry(k[1], q[k]) \in Entries
    BY DEF IsQueue, Entry, Entries
  <1>3. \A i \in 1..n : list[i] \in Entries
    BY <1>1, <1>2
  <1> HIDE DEF list
  <1>4. list \in [1..n -> Entries] /\ n \in Nat
    BY <1>1, <1>3, LenProperties
  <1>5. list \in EventLists
    BY <1>4, FunctionIsSeq DEF EventLists
  <1> QED
    BY <1>1, <1>5, TextOfEvents DEF list

-----------------------------------------------------------------------------
(* The server's loops.                                                     *)

\* In a loop it is some client's turn, and that client has not had it yet.
LEMMA TurnOf ==
    ASSUME TypeInv, SocketsInv, pc[Server] \in Loops
    PROVE  /\ sockets[turn] \in Clients /\ sockets[turn] \notin Handled
           /\ turn \in 1..Len(sockets) /\ Len(sockets) = numClients
           /\ LastTurn => \A c \in Clients : c = sockets[turn] \/ c \in Handled
           /\ turn = 1 => Handled = {}
  <1>1. /\ sockets \in Seq(Clients) /\ Len(sockets) = numClients /\ turn \in 1..numClients
        /\ \A i, j \in DOMAIN sockets : sockets[i] = sockets[j] => i = j
        /\ \A c \in Clients : \E i \in DOMAIN sockets : sockets[i] = c
    BY DEF SocketsInv, Loops
  <1>2. numClients \in Nat \ {0} /\ DOMAIN sockets = 1..numClients
    BY <1>1, ClientCount
  <1> QED
    BY <1>1, <1>2 DEF Handled, LastTurn

\* The server's points in a frame, in their order, with the stage of a client before
\* and after its turn.
LEMMA Stages ==
    ASSUME NEW c
    PROVE  /\ pc[Server] = "gatherEvents" => Stage(c) = IF c \in Handled THEN "heard" ELSE "begun"
           /\ pc[Server] = "sendEvents" => Stage(c) = IF c \in Handled THEN "told" ELSE "heard"
           /\ pc[Server] = "gatherRequests" => Stage(c) = IF c \in Handled THEN "asked" ELSE "told"
           /\ pc[Server] = "sendNow" => Stage(c) = IF c \in Handled THEN "released" ELSE "asked"
           /\ pc[Server] \in {"dispatch", "render"} => Stage(c) = "told"
           /\ pc[Server] = "display" => Stage(c) = "released"
           /\ pc[Server] \notin Loops \cup {"dispatch", "render", "display"} => Stage(c) = "begun"
           /\ pc'[Server] = "gatherEvents" => Stage(c)' = IF c \in Handled' THEN "heard" ELSE "begun"
           /\ pc'[Server] = "sendEvents" => Stage(c)' = IF c \in Handled' THEN "told" ELSE "heard"
           /\ pc'[Server] = "gatherRequests" => Stage(c)' = IF c \in Handled' THEN "asked" ELSE "told"
           /\ pc'[Server] = "sendNow" => Stage(c)' = IF c \in Handled' THEN "released" ELSE "asked"
           /\ pc'[Server] \in {"dispatch", "render"} => Stage(c)' = "told"
           /\ pc'[Server] = "display" => Stage(c)' = "released"
           /\ pc'[Server] \notin Loops \cup {"dispatch", "render", "display"} => Stage(c)' = "begun"
  BY DEF Stage, At, Loops

\* Which stage follows a client's turn in a loop, and where the server goes then.
After == [gatherEvents   |-> [stage |-> "heard",    point |-> "sendEvents"],
          sendEvents     |-> [stage |-> "told",     point |-> "dispatch"],
          gatherRequests |-> [stage |-> "asked",    point |-> "sendNow"],
          sendNow        |-> [stage |-> "released", point |-> "display"]]

\* A turn moves one client on to the next stage and no other, and keeps the sockets.
LEMMA TurnTaken ==
    ASSUME TypeInv, SocketsInv, pc[Server] \in Loops, NextTurn(After[pc[Server]].point),
           UNCHANGED startVars
    PROVE  /\ \A c \in Clients : Stage(c)' = IF c = sockets[turn] THEN After[pc[Server]].stage
                                            ELSE Stage(c)
           /\ \A c \in Clients : pc'[c] = pc[c]
           /\ SocketsInv'
           /\ pc'[Server] = IF LastTurn THEN After[pc[Server]].point ELSE pc[Server]
           /\ turn' = IF LastTurn THEN 1 ELSE turn + 1
           /\ DOMAIN pc' = Nodes
           /\ Handled' = IF LastTurn THEN {} ELSE Handled \cup {sockets[turn]}
  <1>1. /\ sockets[turn] \in Clients /\ sockets[turn] \notin Handled
        /\ turn \in 1..Len(sockets) /\ Len(sockets) = numClients
        /\ LastTurn => \A c \in Clients : c = sockets[turn] \/ c \in Handled
    BY TurnOf
  <1>2. /\ numClients \in Nat \ {0} /\ \A c \in Clients : c # Server
        /\ DOMAIN pc = Nodes /\ Server \in Nodes /\ Clients \subseteq Nodes
    BY ClientCount DEF TypeInv, Nodes
  <1>3. /\ \A c \in Clients : pc'[c] = pc[c]
        /\ pc'[Server] = IF LastTurn THEN After[pc[Server]].point ELSE pc[Server]
        /\ turn' = IF LastTurn THEN 1 ELSE turn + 1
        /\ DOMAIN pc' = Nodes
        /\ sockets' = sockets /\ backlog' = backlog
    BY <1>2 DEF NextTurn, Goto, startVars
  <1>4. Handled' = IF LastTurn THEN {} ELSE Handled \cup {sockets[turn]}
    BY <1>1, <1>2, <1>3 DEF Handled, LastTurn
  <1>5. turn' \in 1..numClients
    BY <1>1, <1>2, <1>3 DEF LastTurn
  <1>6. SocketsInv'
    <2>1. pc'[Server] \notin {"listen", "accept"} /\ (LastTurn \/ pc'[Server] \in Loops)
      BY <1>3 DEF After, Loops
    <2> QED
      BY <1>1, <1>2, <1>3, <1>5, <2>1 DEF SocketsInv, At, Loops
  <1>7. CASE At(Server, "gatherEvents")
    <2>1. pc'[Server] = IF LastTurn THEN "sendEvents" ELSE "gatherEvents"
      BY <1>3, <1>7 DEF At, After
    <2> QED
      BY <1>1, <1>3, <1>4, <1>6, <1>7, <2>1, Stages DEF At, After
  <1>8. CASE At(Server, "sendEvents")
    <2>1. pc'[Server] = IF LastTurn THEN "dispatch" ELSE "sendEvents"
      BY <1>3, <1>8 DEF At, After
    <2> QED
      BY <1>1, <1>3, <1>4, <1>6, <1>8, <2>1, Stages DEF At, After
  <1>9. CASE At(Server, "gatherRequests")
    <2>1. pc'[Server] = IF LastTurn THEN "sendNow" ELSE "gatherRequests"
      BY <1>3, <1>9 DEF At, After
    <2> QED
      BY <1>1, <1>3, <1>4, <1>6, <1>9, <2>1, Stages DEF At, After
  <1>10. CASE At(Server, "sendNow")
    <2>1. pc'[Server] = IF LastTurn THEN "display" ELSE "sendNow"
      BY <1>3, <1>10 DEF At, After
    <2> QED
      BY <1>1, <1>3, <1>4, <1>6, <1>10, <2>1, Stages DEF At, After
  <1> QED
    BY <1>7, <1>8, <1>9, <1>10 DEF Loops, At

-----------------------------------------------------------------------------
(* Control: where everybody is, and what is under way.                     *)

\* Nothing changes for a client that the step does not concern.
LEMMA KeepHandshake ==
    ASSUME NEW c \in Clients, Handshake(c), Stage(c)' = Stage(c),
           pc'[c] = pc[c], frame'[c] = frame[c], frame'[Server] = frame[Server],
           up'[c] = up[c], down'[c] = down[c], gave'[c] = gave[c],
           got'[Server] = got[Server] \/ pc[c] # "awaitEvents",
           At(Server, "closed") => At(Server, "closed")'
    PROVE  Handshake(c)'
  BY DEF Handshake, Begins, Works, Ends, Quiet, Says, IsTold, At

\* Nor for any client, as to the stage, when the server stays where it is.
LEMMA KeepStage ==
    ASSUME pc'[Server] = pc[Server], turn' = turn, sockets' = sockets
    PROVE  Handled' = Handled /\ \A c : Stage(c)' = Stage(c)
  <1>1. Handled' = Handled
    BY DEF Handled
  <1> QED
    BY <1>1 DEF Stage, At

\* Where Goto leads.
LEMMA PointReached ==
    ASSUME TypeInv, NEW n \in Nodes, NEW point, Goto(n, point)
    PROVE  DOMAIN pc' = Nodes /\ pc'[n] = point /\ \A m \in Nodes \ {n} : pc'[m] = pc[m]
  BY DEF TypeInv, Goto

\* The server opens its port: nobody has connected.
LEMMA ListenControl ==
    ASSUME ControlInv, Listen PROVE ControlInv'
  <1> USE DEF ControlInv, Listen, mainVars, startVars, netVars
  <1>1. /\ DOMAIN pc' = Nodes /\ pc'[Server] = "accept" /\ \A m \in Clients : pc'[m] = pc[m]
        /\ Server \in Nodes
    BY PointReached, ClientCount DEF Nodes
  <1>2. TypeInv'
    BY <1>1 DEF TypeInv, ServerPoints, ClientPoints, Nodes
  <1>3. SocketsInv'
    BY <1>1 DEF SocketsInv, Loops, At
  <1>4. \A c \in Clients : Stage(c)' = Stage(c)
    BY <1>1, Stages DEF At, Loops
  <1>5. HandshakeInv'
    BY <1>1, <1>4, KeepHandshake DEF HandshakeInv, At
  <1> QED
    BY <1>2, <1>3, <1>5

\* A client waits to be accepted, and begins its first frame.
LEMMA ConnectControl ==
    ASSUME ControlInv, NEW c \in Clients, Connect(c) PROVE ControlInv'
  <1> USE DEF ControlInv, Connect, mainVars, netVars
  <1>1. /\ DOMAIN pc' = Nodes /\ pc'[c] = "collect" /\ \A m \in Nodes \ {c} : pc'[m] = pc[m]
        /\ c \in Nodes /\ c # Server /\ Server \in Nodes
    BY PointReached, ClientCount DEF Nodes
  <1>2. TypeInv'
    BY <1>1 DEF TypeInv, ServerPoints, ClientPoints, Nodes
  <1>3. SocketsInv'
    <2>1. /\ backlog' \in Seq(Clients) /\ Len(backlog') = Len(backlog) + 1
          /\ Len(backlog) \in Nat /\ Len(backlog') \in Nat
          /\ DOMAIN backlog = 1..Len(backlog) /\ DOMAIN backlog' = 1..Len(backlog')
          /\ backlog'[Len(backlog) + 1] = c
          /\ \A i \in 1..Len(backlog) : backlog'[i] = backlog[i]
      BY AppendProperties DEF SocketsInv
    <2>2. /\ \A i \in DOMAIN backlog : backlog[i] # c
          /\ \A i \in DOMAIN sockets : sockets[i] # c
      BY DEF SocketsInv, At
    <2>3. \A i \in DOMAIN backlog' :
             i = Len(backlog) + 1 \/ (i \in DOMAIN backlog /\ backlog'[i] = backlog[i])
      BY <2>1
    <2>4. pc[Server] \notin {"listen", "accept"} => FALSE
      BY <2>2 DEF SocketsInv
    <2>5. /\ \A i, j \in DOMAIN backlog' : backlog'[i] = backlog'[j] => i = j
          /\ \A i \in DOMAIN backlog', j \in DOMAIN sockets : backlog'[i] # sockets[j]
      BY <2>1, <2>2, <2>3 DEF SocketsInv
    <2>6. \A d \in Clients : (\E i \in DOMAIN backlog' : backlog'[i] = d) <=>
             d = c \/ (\E i \in DOMAIN backlog : backlog[i] = d)
      BY <2>1, <2>3
    <2>7. \A d \in Clients : ~At(d, "connect")' <=> d = c \/ ~At(d, "connect")
      BY <1>1 DEF At, Nodes
    <2> QED
      BY <1>1, <2>1, <2>4, <2>5, <2>6, <2>7 DEF SocketsInv, Loops
  <1>4. \A d \in Clients : Stage(d)' = Stage(d)
    BY <1>1, KeepStage
  <1>5. \A d \in Clients \ {c} : Handshake(d)'
    BY <1>1, <1>4, KeepHandshake DEF HandshakeInv, At, Nodes
  <1>6. Handshake(c)'
    BY <1>1, <1>4 DEF HandshakeInv, Handshake, Begins, Works, Ends, Quiet, Says, IsTold, At
  <1> QED
    BY <1>2, <1>3, <1>5, <1>6 DEF HandshakeInv

\* The server has all its clients when it has as many sockets.
LEMMA AcceptControl ==
    ASSUME ControlInv, Accept PROVE ControlInv'
  <1> USE DEF ControlInv, Accept, mainVars, netVars
  <1> DEFINE c == Head(backlog)
  <1>1. /\ c \in Clients /\ backlog[1] = c /\ Len(backlog) \in Nat \ {0}
        /\ DOMAIN backlog = 1..Len(backlog)
        /\ backlog' \in Seq(Clients) /\ Len(backlog') = Len(backlog) - 1
        /\ DOMAIN backlog' = 1..Len(backlog')
        /\ \A i \in 1..Len(backlog') : backlog'[i] = backlog[i + 1]
    BY DEF SocketsInv
  <1>2. /\ sockets' \in Seq(Clients) /\ Len(sockets') = Len(sockets) + 1
        /\ Len(sockets) \in Nat /\ Len(sockets') \in Nat
        /\ DOMAIN sockets = 1..Len(sockets) /\ DOMAIN sockets' = 1..Len(sockets')
        /\ sockets'[Len(sockets) + 1] = c
        /\ \A i \in 1..Len(sockets) : sockets'[i] = sockets[i]
    BY <1>1, AppendProperties DEF SocketsInv
  <1>3. /\ DOMAIN pc' = Nodes /\ \A d \in Clients : pc'[d] = pc[d]
        /\ pc'[Server] = IF Len(sockets') = numClients THEN "collect" ELSE "accept"
        /\ pc[Server] = "accept" /\ Server \in Nodes
    BY ClientCount DEF TypeInv, Nodes, At
  <1>4. TypeInv'
    BY <1>3 DEF TypeInv, ServerPoints, ClientPoints, Nodes
  <1>5. \A d \in Clients : Stage(d)' = Stage(d)
    BY <1>3, Stages DEF Loops
  <1>6. HandshakeInv'
    BY <1>3, <1>5, KeepHandshake DEF HandshakeInv, At, Nodes
  <1>7. \A i \in DOMAIN sockets' : i = Len(sockets) + 1 \/ (i \in DOMAIN sockets /\ sockets'[i] = sockets[i])
    BY <1>2
  <1>8. /\ \A i \in DOMAIN sockets : sockets[i] # c
        /\ \A i \in DOMAIN backlog' : backlog'[i] # c
    <2>1. \A i \in DOMAIN backlog' : i + 1 \in DOMAIN backlog /\ backlog'[i] = backlog[i + 1] /\ i + 1 # 1
      BY <1>1
    <2>2. 1 \in DOMAIN backlog /\ backlog[1] = c
      BY <1>1
    <2>3. \A i \in DOMAIN backlog : backlog[i] = backlog[1] => i = 1
      BY <2>2 DEF SocketsInv
    <2>4. \A i \in DOMAIN sockets : sockets[i] # backlog[1]
      BY <2>2 DEF SocketsInv
    <2> QED
      BY <2>1, <2>2, <2>3, <2>4
  <1>9. /\ \A i, j \in DOMAIN sockets' : sockets'[i] = sockets'[j] => i = j
        /\ \A i \in DOMAIN backlog', j \in DOMAIN sockets' : backlog'[i] # sockets'[j]
    <2>1. \A i \in DOMAIN backlog' : i + 1 \in DOMAIN backlog /\ backlog'[i] = backlog[i + 1]
      BY <1>1
    <2> QED
      BY <1>2, <1>7, <1>8, <2>1 DEF SocketsInv
  <1>10. \A i, j \in DOMAIN backlog' : backlog'[i] = backlog'[j] => i = j
    <2> SUFFICES ASSUME NEW i \in DOMAIN backlog', NEW j \in DOMAIN backlog',
                        backlog'[i] = backlog'[j]
                 PROVE  i = j
      OBVIOUS
    <2>1. i + 1 \in DOMAIN backlog /\ j + 1 \in DOMAIN backlog /\ backlog[i + 1] = backlog[j + 1]
          /\ i \in Nat /\ j \in Nat
      BY <1>1
    <2>2. i + 1 = j + 1
      BY <2>1 DEF SocketsInv
    <2> QED
      BY <2>1, <2>2
  <1>11. \A d \in Clients :
            (\E i \in DOMAIN backlog' : backlog'[i] = d) \/ (\E i \in DOMAIN sockets' : sockets'[i] = d)
            <=> (\E i \in DOMAIN backlog : backlog[i] = d) \/ (\E i \in DOMAIN sockets : sockets[i] = d)
    <2> TAKE d \in Clients
    <2>1. \A i \in DOMAIN backlog' : i + 1 \in DOMAIN backlog /\ backlog'[i] = backlog[i + 1]
      BY <1>1
    <2>2. \A i \in DOMAIN backlog : i = 1 \/ (i - 1 \in DOMAIN backlog' /\ backlog'[i - 1] = backlog[i])
      BY <1>1
    <2>3. Len(sockets) + 1 \in DOMAIN sockets' /\ \A i \in DOMAIN sockets : i \in DOMAIN sockets'
      BY <1>2
    <2>4. 1 \in DOMAIN backlog
      BY <1>1
    <2>5. (\E i \in DOMAIN backlog : backlog[i] = d) <=> d = c \/ (\E i \in DOMAIN backlog' : backlog'[i] = d)
      <3>1. backlog[1] = c
        BY <1>1
      <3>2. ASSUME NEW i \in DOMAIN backlog, backlog[i] = d
            PROVE  d = c \/ \E j \in DOMAIN backlog' : backlog'[j] = d
        BY <2>2, <3>1, <3>2
      <3>3. ASSUME NEW j \in DOMAIN backlog', backlog'[j] = d
            PROVE  \E i \in DOMAIN backlog : backlog[i] = d
        BY <2>1, <3>3
      <3> QED
        BY <2>4, <3>1, <3>2, <3>3
    <2>6. (\E i \in DOMAIN sockets' : sockets'[i] = d) <=> d = c \/ (\E i \in DOMAIN sockets : sockets[i] = d)
      BY <1>2, <1>7, <2>3
    <2> QED
      BY <2>5, <2>6
  <1>12. Len(sockets') = numClients => \A d \in Clients : \E i \in DOMAIN sockets' : sockets'[i] = d
    <2> SUFFICES ASSUME Len(sockets') = numClients
                 PROVE  \A d \in Clients : \E i \in DOMAIN sockets' : sockets'[i] = d
      OBVIOUS
    <2> DEFINE n == Len(sockets')
               R == {sockets'[i] : i \in 1..n}
               f == [i \in 1..n |-> sockets'[i]]
    <2>1. f \in Bijection(1..n, R)
      <3>1. f \in [1..n -> R] /\ \A r \in R : \E i \in 1..n : f[i] = r
        OBVIOUS
      <3>2. \A i, j \in 1..n : f[i] = f[j] => i = j
        BY <1>2, <1>9
      <3> HIDE DEF f, R, n
      <3> QED
        BY <3>1, <3>2 DEF Bijection, Injection, Surjection, IsInjective
    <2>2. IsFiniteSet(1..n) /\ Cardinality(1..n) = n
      BY <1>2, UpTo
    <2>3. IsFiniteSet(R) /\ Cardinality(R) = n
      <3> HIDE DEF R, f, n
      <3> QED
        BY <2>1, <2>2, FS_Bijection DEF ExistsBijection
    <2>4. R \subseteq Clients
      BY <1>2
    <2>5. R = Clients
      <3> HIDE DEF R
      <3> QED
        BY <2>3, <2>4, ClientCount, FS_Subset DEF numClients
    <2> QED
      BY <1>2, <2>5
  <1>13. SocketsInv'
    <2>1. \A d \in Clients : ~At(d, "connect")' <=>
             (\E i \in DOMAIN backlog' : backlog'[i] = d) \/ (\E i \in DOMAIN sockets' : sockets'[i] = d)
      BY <1>3, <1>11 DEF SocketsInv, At
    <2>2. turn' \in 1..numClients /\ turn' = 1
      BY <1>3 DEF SocketsInv, Loops
    <2> HIDE DEF c
    <2> QED
      BY <1>1, <1>2, <1>3, <1>9, <1>10, <1>12, <2>1, <2>2 DEF SocketsInv, Loops
  <1> QED
    BY <1>4, <1>6, <1>13

\* A queue of at most two events that all are of node n is what n may have collected.
Own(q, n) ==
    /\ IsQueue(q, Items) /\ Contiguous(q)
    /\ DOMAIN q \subseteq Times \X (0..1)
    /\ Cardinality(DOMAIN q) \in 1..2
    /\ \A k \in DOMAIN q : q[k].id[1] = n

\* The fields of an entry.
LEMMA EntryFields == \A time, item : Entry(time, item).time = time /\ Entry(time, item).item = item
  BY DEF Entry

\* What it gives, then, is in time order and all its own.
LEMMA OwnIsGiven ==
    ASSUME NEW n \in Nodes, NEW q, Own(q, n)
    PROVE  /\ IsGiven(n, Serialize(q)) /\ Serialize(q) \in Seq(Texts(Nodes))
           /\ (\E k \in DOMAIN q : IsQuit(q[k])) =>
                 \E i \in 1..Len(Serialize(q)) : IsQuit(Serialize(q)[i].item)
           /\ DOMAIN q \subseteq Times \X (0..(2 * numClients + 1))
  <1> DEFINE list == InOrder(q)
             text == TextOf(list)
  <1>1. /\ IsQueue(q, Items) /\ DOMAIN q \subseteq Times \X (0..1)
        /\ Cardinality(DOMAIN q) \in 1..2
        /\ \A k \in DOMAIN q : q[k].id[1] = n
    BY DEF Own
  <1>2. /\ list \in EventLists
        /\ Len(list) = Cardinality(DOMAIN q)
        /\ text \in Seq(Texts(Nodes))
        /\ InTimeOrder(text)
        /\ Len(text) = Cardinality(DOMAIN q)
    BY <1>1, QueueShows
  <1>3. /\ \A i \in 1..Len(list) : \E k \in DOMAIN q : list[i] = Entry(k[1], q[k])
        /\ \A k \in DOMAIN q : \E i \in 1..Len(list) : list[i] = Entry(k[1], q[k])
    BY <1>1, InOrderType
  <1>4. \A i \in 1..Len(list) : text[i] = Entry(list[i].time, AsText(list[i].item))
    BY <1>2, TextOfEvents
  <1> HIDE DEF list, text
  <1>5. \A i \in 1..Len(list) : list[i] \in Entries /\ text[i] \in Texts(Nodes)
    <2>1. Len(text) = Len(list)
      BY <1>2
    <2> QED
      BY <1>2, <2>1 DEF EventLists
  <1>6. \A i \in 1..Len(list) : list[i].item \in Items
    BY <1>5 DEF Entries
  <1>7. \A i \in 1..Len(list) : list[i].item.id[1] = n /\ text[i].item.id = list[i].item.id
    <2> TAKE i \in 1..Len(list)
    <2>1. PICK k \in DOMAIN q : list[i].item = q[k]
      BY <1>3, EntryFields
    <2>2. text[i].item = AsText(list[i].item)
      BY <1>4, EntryFields
    <2>3. list[i].item \in Items
      BY <1>6
    <2> QED
      BY <1>1, <2>1, <2>2, <2>3, TextOfItem
  <1>8. \A i \in 1..Len(list) : text[i] \in Texts({n})
    <2>1. \A e \in Texts(Nodes) : e.item.id[1] = n => e \in Texts({n})
      BY DEF Texts
    <2> QED
      BY <1>5, <1>7, <2>1
  <1>9. Len(text) \in 1..2 /\ Len(text) = Len(list)
    BY <1>1, <1>2
  <1>10. text \in Seq(Texts({n}))
    <2>1. text \in [1..Len(text) -> Texts({n})] /\ Len(text) \in Nat
      BY <1>2, <1>8, <1>9, LenProperties
    <2> QED
      BY <2>1, FunctionIsSeq
  <1>11. (\E k \in DOMAIN q : IsQuit(q[k])) => \E i \in 1..Len(text) : IsQuit(text[i].item)
    <2> SUFFICES ASSUME NEW k \in DOMAIN q, IsQuit(q[k])
                 PROVE  \E i \in 1..Len(text) : IsQuit(text[i].item)
      OBVIOUS
    <2>1. PICK i \in 1..Len(list) : list[i].item = q[k]
      BY <1>3, EntryFields
    <2>2. text[i].item.id = q[k].id
      BY <1>7, <2>1
    <2> QED
      BY <1>9, <2>2 DEF IsQuit
  <1>12. 0..1 \subseteq 0..(2 * numClients + 1)
    BY ClientCount
  <1> QED
    BY <1>1, <1>2, <1>9, <1>10, <1>11, <1>12 DEF IsGiven, Serialize, list, text

\* FrameStart, and perhaps another event.
LEMMA Collected ==
    ASSUME NEW n \in Nodes, NEW start \in Times, NEW stamp \in Times, NEW kind \in Inputs \cup {"quit"}
    PROVE  LET started == Push(EmptyQueue, start, Event(n, "FrameStart"))
               both    == Push(started, stamp, Event(n, kind))
           IN  /\ Own(started, n) /\ Own(both, n)
               /\ kind = "quit" => \E k \in DOMAIN both : IsQuit(both[k])
  <1> DEFINE first   == Event(n, "FrameStart")
             second  == Event(n, kind)
             started == Push(EmptyQueue, start, first)
             both    == Push(started, stamp, second)
  <1>1. first \in Items /\ second \in Items /\ first.id[1] = n /\ second.id[1] = n
        /\ (kind = "quit" => IsQuit(second)) /\ start \in Int /\ stamp \in Int
    BY DEF Items, Event, Kinds, IsQuit
  <1> HIDE DEF first, second
  <1>2. IsQueue(EmptyQueue, Items) /\ Contiguous(EmptyQueue) /\ DOMAIN EmptyQueue = {}
        /\ Cardinality(DOMAIN EmptyQueue) = 0
    BY EmptyQueueInOrder, FS_EmptySet DEF EmptyQueue
  <1>3. /\ IsQueue(started, Items)
        /\ DOMAIN started = DOMAIN EmptyQueue \cup {FreeStamp(EmptyQueue, start)}
        /\ Cardinality(DOMAIN started) = Cardinality(DOMAIN EmptyQueue) + 1
        /\ Contiguous(EmptyQueue) => Contiguous(started)
    BY <1>1, <1>2, PushQueue
  <1>4. PICK d \in 0..Cardinality(DOMAIN EmptyQueue) : FreeStamp(EmptyQueue, start) = <<start, d>>
    BY <1>1, <1>2, FreeStampExists
  <1>5. /\ Contiguous(started) /\ DOMAIN started = {<<start, 0>>} /\ Cardinality(DOMAIN started) = 1
        /\ started[<<start, 0>>] = first
    BY <1>2, <1>3, <1>4 DEF Push
  <1>6. Own(started, n)
    <2>1. n = first.id[1] /\ \A k \in DOMAIN started : started[k] = first
      BY <1>1, <1>5
    <2>2. DOMAIN started \subseteq Times \X (0..1)
      BY <1>5
    <2>3. IsQueue(started, Items) /\ Contiguous(started) /\ Cardinality(DOMAIN started) \in 1..2
      BY <1>3, <1>5
    <2> HIDE DEF started
    <2> QED
      BY <2>1, <2>2, <2>3 DEF Own
  <1> HIDE DEF started
  <1>7. /\ IsQueue(both, Items)
        /\ DOMAIN both = DOMAIN started \cup {FreeStamp(started, stamp)}
        /\ Cardinality(DOMAIN both) = Cardinality(DOMAIN started) + 1
        /\ Contiguous(started) => Contiguous(both)
    BY <1>1, <1>3, PushQueue
  <1>8. PICK e \in 0..Cardinality(DOMAIN started) : FreeStamp(started, stamp) = <<stamp, e>>
    BY <1>1, <1>3, FreeStampExists
  <1>9. /\ DOMAIN both = {<<start, 0>>, <<stamp, e>>} /\ e \in 0..1
        /\ both[<<stamp, e>>] = second
        /\ \A k \in DOMAIN both : both[k] \in {first, second}
    BY <1>5, <1>7, <1>8 DEF Push
  <1>10. Cardinality(DOMAIN both) = 2 /\ Contiguous(both)
    BY <1>5, <1>7
  <1>11. Own(both, n)
    BY <1>1, <1>7, <1>9, <1>10 DEF Own
  <1> QED
    BY <1>1, <1>6, <1>9, <1>11 DEF started, first, second

\* What a collection leaves in the queue, and in the history.
LEMMA CollectEffect ==
    ASSUME NEW n \in Nodes, Collect(n)
    PROVE  \E q : /\ Own(q, n)
                  /\ queue' = [queue EXCEPT ![n] = q]
                  /\ gave' = [gave EXCEPT ![n] = Serialize(q)]
                  /\ n = Server /\ frame[n] = MaxFrames - 1 => \E k \in DOMAIN q : IsQuit(q[k])
  <1>1. PICK start \in Times, kind \in Inputs \cup {"nothing", "quit"}, stamp \in Times :
          LET started == Push(EmptyQueue, start, Event(n, "FrameStart")) IN
          /\ n = Server /\ frame[n] = MaxFrames - 1 => kind = "quit"
          /\ kind = "nothing" => stamp = start
          /\ \E q \in {IF kind = "nothing" THEN started
                                           ELSE Push(started, stamp, Event(n, kind))} :
                /\ queue' = [queue EXCEPT ![n] = q]
                /\ gave' = [gave EXCEPT ![n] = Serialize(q)]
    BY DEF Collect
  <1> DEFINE started == Push(EmptyQueue, start, Event(n, "FrameStart"))
             both    == Push(started, stamp, Event(n, kind))
  <1>2. kind \in Inputs \cup {"quit"} => Own(started, n) /\ Own(both, n)
             /\ (kind = "quit" => \E k \in DOMAIN both : IsQuit(both[k]))
    BY Collected
  <1>3. Own(started, n)
    BY Collected
  <1>4. n = Server /\ frame[n] = MaxFrames - 1 => kind = "quit"
    BY <1>1
  <1>5. PICK q \in {IF kind = "nothing" THEN started ELSE both} :
                /\ queue' = [queue EXCEPT ![n] = q]
                /\ gave' = [gave EXCEPT ![n] = Serialize(q)]
    BY <1>1
  <1> HIDE DEF started, both
  <1>6. CASE kind = "nothing"
    BY <1>3, <1>4, <1>5, <1>6
  <1>7. CASE kind # "nothing"
    BY <1>2, <1>4, <1>5, <1>7
  <1> QED
    BY <1>6, <1>7

\* A node has given its events, and will send them or wait for the others'.
LEMMA CollectControl ==
    ASSUME ControlInv, NEW n \in Nodes, Collect(n) PROVE ControlInv'
  <1> USE DEF ControlInv, mainVars, startVars, netVars
  <1>1. PICK q : Own(q, n) /\ gave' = [gave EXCEPT ![n] = Serialize(q)]
                 /\ queue' = [queue EXCEPT ![n] = q]
    BY CollectEffect
  <1>2. /\ At(n, "collect") /\ Goto(n, SyncPoint1(n))
        /\ UNCHANGED <<mainVars, startVars, turn, netVars, got>>
    BY DEF Collect
  <1>3. /\ DOMAIN pc' = Nodes /\ pc'[n] = SyncPoint1(n) /\ \A m \in Nodes \ {n} : pc'[m] = pc[m]
        /\ Server \in Nodes /\ Clients \subseteq Nodes
    BY <1>2, PointReached DEF Nodes
  <1>4. gave' \in [Nodes -> Seq(Texts(Nodes))]
    BY <1>1, OwnIsGiven DEF TypeInv
  <1>5. TypeInv'
    BY <1>1, <1>2, <1>3, <1>4 DEF TypeInv, ServerPoints, ClientPoints, Nodes, SyncPoint1
  <1>6. SocketsInv'
    <2>1. \A d \in Clients : pc'[d] = "connect" <=> pc[d] = "connect"
      BY <1>2, <1>3 DEF At, SyncPoint1
    <2>2. /\ pc'[Server] \notin {"listen", "accept"} => pc[Server] \notin {"listen", "accept"}
          /\ turn = 1 \/ pc[Server] = pc'[Server]
      BY <1>2, <1>3 DEF SocketsInv, Loops, At, SyncPoint1
    <2>3. UNCHANGED <<backlog, sockets, turn>>
      BY <1>2
    <2> QED
      BY <2>1, <2>2, <2>3 DEF SocketsInv, Loops, At
  <1>7. \A d \in Clients : Stage(d)' = Stage(d)
    <2>1. CASE n = Server
      <3>1. Handled = {} /\ Handled' = {}
        BY <1>2, <2>1 DEF SocketsInv, Handled, At, Loops
      <3> QED
        BY <1>2, <1>3, <2>1, <3>1, Stages DEF At, Loops, SyncPoint1
    <2>2. CASE n # Server
      BY <1>2, <1>3, <2>2, KeepStage
    <2> QED
      BY <2>1, <2>2
  <1>8. \A d \in Clients \ {n} : Handshake(d)'
    <2>1. \A d \in Clients \ {n} : gave'[d] = gave[d] /\ pc'[d] = pc[d] /\ d # Server
      BY <1>1, <1>3, ClientCount DEF TypeInv
    <2>2. ~At(Server, "closed") \/ At(Server, "closed")'
      BY <1>2, <1>3 DEF At
    <2> QED
      BY <1>2, <1>7, <2>1, <2>2, KeepHandshake DEF HandshakeInv
  <1>9. n \in Clients => Handshake(n)'
    <2> SUFFICES ASSUME n \in Clients PROVE Handshake(n)'
      OBVIOUS
    <2>1. pc'[n] = "sendEvents" /\ pc[n] = "collect" /\ Stage(n)' = Stage(n)
      BY <1>2, <1>3, <1>7, ClientCount DEF SyncPoint1, At
    <2> QED
      BY <1>2, <2>1 DEF HandshakeInv, Handshake, Begins, Works, Ends, Quiet, Says, IsTold, At
  <1> QED
    BY <1>5, <1>6, <1>8, <1>9 DEF HandshakeInv

\* A step of a client that is connected, or of the server between its loops, leaves the
\* sockets as they are.
LEMMA ClientMoves ==
    ASSUME TypeInv, SocketsInv, NEW c \in Clients, NEW point \in ClientPoints \ {"connect"},
           Goto(c, point), ~At(c, "connect"), UNCHANGED <<startVars, turn>>
    PROVE  /\ SocketsInv'
           /\ DOMAIN pc' = Nodes /\ pc'[c] = point /\ \A m \in Nodes \ {c} : pc'[m] = pc[m]
           /\ \A m \in Nodes : pc'[m] \in IF m = Server THEN ServerPoints ELSE ClientPoints
           /\ \A d \in Clients : Stage(d)' = Stage(d)
           /\ At(Server, "closed") => At(Server, "closed")'
           /\ c \in Nodes /\ Server \in Nodes /\ c # Server /\ Clients \subseteq Nodes
           /\ pc'[Server] = pc[Server] /\ Handled' = Handled
  <1>1. /\ DOMAIN pc' = Nodes /\ pc'[c] = point /\ \A m \in Nodes \ {c} : pc'[m] = pc[m]
        /\ c \in Nodes /\ Server \in Nodes /\ c # Server /\ Clients \subseteq Nodes
    BY PointReached, ClientCount DEF Nodes
  <1>2. SocketsInv'
    <2>1. \A d \in Clients : At(d, "connect")' <=> At(d, "connect")
      BY <1>1 DEF At
    <2> QED
      BY <1>1, <2>1 DEF SocketsInv, Loops, startVars
  <1>3. \A d \in Clients : Stage(d)' = Stage(d)
    BY <1>1, KeepStage DEF startVars
  <1>4. Handled' = Handled
    BY <1>1, KeepStage DEF startVars
  <1> QED
    BY <1>1, <1>2, <1>3, <1>4 DEF TypeInv, At

\* A step of the server between its loops leaves the sockets as they are.
LEMMA ServerMoves ==
    ASSUME TypeInv, SocketsInv, NEW point \in ServerPoints \ {"listen", "accept"},
           Goto(Server, point), pc[Server] \notin Loops \cup {"listen", "accept"},
           UNCHANGED <<startVars, turn>>
    PROVE  /\ SocketsInv'
           /\ DOMAIN pc' = Nodes /\ pc'[Server] = point /\ \A m \in Nodes \ {Server} : pc'[m] = pc[m]
           /\ \A m \in Nodes : pc'[m] \in IF m = Server THEN ServerPoints ELSE ClientPoints
           /\ Handled = {} /\ Handled' = {} /\ turn = 1
           /\ Server \in Nodes /\ Clients \subseteq Nodes /\ Clients = Nodes \ {Server}
  <1>1. /\ DOMAIN pc' = Nodes /\ pc'[Server] = point /\ \A m \in Nodes \ {Server} : pc'[m] = pc[m]
        /\ Server \in Nodes /\ Clients \subseteq Nodes /\ Clients = Nodes \ {Server}
    BY PointReached, ClientCount DEF Nodes
  <1>2. turn = 1
    BY DEF SocketsInv
  <1>3. SocketsInv'
    BY <1>1, <1>2 DEF SocketsInv, Loops, At, startVars
  <1> QED
    BY <1>1, <1>2, <1>3 DEF TypeInv, Handled

\* The control of one client after a step of that client.
LEMMA OwnHandshake ==
    ASSUME ControlInv, NEW c \in Clients, Handshake(c)',
           \A d \in Clients : Stage(d)' = Stage(d),
           \A d \in Clients \ {c} : /\ pc'[d] = pc[d] /\ frame'[d] = frame[d] /\ gave'[d] = gave[d]
                                    /\ up'[d] = up[d] /\ down'[d] = down[d],
           got'[Server] = got[Server], frame'[Server] = frame[Server],
           pc'[Server] = pc[Server]
    PROVE  HandshakeInv'
  BY KeepHandshake DEF HandshakeInv, ControlInv, At

\* A node that processes its list stays in the same stage of the frame.
LEMMA DispatchControl ==
    ASSUME ControlInv, NEW n \in Nodes, Dispatch(n) PROVE ControlInv'
  <1> USE DEF ControlInv
  <1>1. /\ pc[n] = "dispatch" /\ Goto(n, "render")
        /\ UNCHANGED <<frame, backlog, sockets, turn, up, down, gave, got>>
        /\ shutdown' = [shutdown EXCEPT ![n] = @ \/ QuitSeen(n)]
        /\ queue' = [queue EXCEPT ![n] = EmptyQueue]
    BY DEF Dispatch, At, startVars, netVars
  <1>2. shutdown' \in [Nodes -> BOOLEAN] /\ DOMAIN queue' = Nodes
    BY <1>1 DEF TypeInv, QuitSeen
  <1>3. CASE n \in Clients
    <2>1. /\ SocketsInv' /\ DOMAIN pc' = Nodes /\ pc'[n] = "render"
          /\ \A m \in Nodes \ {n} : pc'[m] = pc[m]
          /\ \A m \in Nodes : pc'[m] \in IF m = Server THEN ServerPoints ELSE ClientPoints
          /\ \A d \in Clients : Stage(d)' = Stage(d)
          /\ pc'[Server] = pc[Server] /\ Clients \subseteq Nodes
      <3>1. "render" \in ClientPoints \ {"connect"} /\ ~At(n, "connect") /\ UNCHANGED <<startVars, turn>>
        BY <1>1 DEF ClientPoints, At, startVars
      <3> QED
        BY <1>1, <1>3, <3>1, ClientMoves
    <2>2. Handshake(n)'
      BY <1>1, <1>3, <2>1 DEF HandshakeInv, Handshake, Begins, Works, Ends, Quiet, Says, IsTold, At
    <2>3. HandshakeInv'
      BY <1>1, <1>3, <2>1, <2>2, OwnHandshake
    <2> QED
      BY <1>1, <1>2, <2>1, <2>3 DEF TypeInv
  <1>4. CASE n = Server
    <2>1. /\ SocketsInv' /\ DOMAIN pc' = Nodes /\ pc'[Server] = "render"
          /\ \A m \in Nodes \ {Server} : pc'[m] = pc[m]
          /\ \A m \in Nodes : pc'[m] \in IF m = Server THEN ServerPoints ELSE ClientPoints
          /\ Clients = Nodes \ {Server}
      <3>1. "render" \in ServerPoints \ {"listen", "accept"} /\ UNCHANGED <<startVars, turn>>
            /\ pc[Server] \notin Loops \cup {"listen", "accept"} /\ Goto(Server, "render")
        BY <1>1, <1>4 DEF ServerPoints, Loops, startVars
      <3> QED
        BY <3>1, ServerMoves
    <2>2. \A d \in Clients : Stage(d)' = Stage(d)
      BY <1>1, <1>4, <2>1, Stages DEF At, Loops
    <2>3. HandshakeInv'
      BY <1>1, <1>4, <2>1, <2>2, KeepHandshake DEF HandshakeInv, At
    <2> QED
      BY <1>1, <1>2, <2>1, <2>3 DEF TypeInv
  <1> QED
    BY <1>3, <1>4 DEF Nodes

\* A node that has rendered will ask for its release, or gather what the others ask.
LEMMA RenderControl ==
    ASSUME ControlInv, NEW n \in Nodes, Render(n) PROVE ControlInv'
  <1> USE DEF ControlInv
  <1>1. /\ pc[n] = "render" /\ Goto(n, SyncPoint2(n))
        /\ UNCHANGED <<frame, queue, backlog, sockets, turn, up, down, gave, got>>
    BY DEF Render, At, startVars, netVars
  <1>2. shutdown' \in [Nodes -> BOOLEAN]
    <2>1. PICK quit \in {FALSE, LocalShutdown} : shutdown' = [shutdown EXCEPT ![n] = @ \/ quit]
      BY DEF Render
    <2> QED
      BY <2>1 DEF TypeInv
  <1>3. CASE n \in Clients
    <2>1. /\ SocketsInv' /\ DOMAIN pc' = Nodes /\ pc'[n] = "sendRequest"
          /\ \A m \in Nodes \ {n} : pc'[m] = pc[m]
          /\ \A m \in Nodes : pc'[m] \in IF m = Server THEN ServerPoints ELSE ClientPoints
          /\ \A d \in Clients : Stage(d)' = Stage(d)
          /\ pc'[Server] = pc[Server] /\ Clients \subseteq Nodes
      <3>1. /\ "sendRequest" \in ClientPoints \ {"connect"} /\ ~At(n, "connect")
            /\ UNCHANGED <<startVars, turn>> /\ Goto(n, "sendRequest")
        BY <1>1, <1>3, ClientCount DEF ClientPoints, At, startVars, SyncPoint2
      <3> QED
        BY <1>3, <3>1, ClientMoves
    <2>2. Handshake(n)'
      BY <1>1, <1>3, <2>1 DEF HandshakeInv, Handshake, Begins, Works, Ends, Quiet, Says, IsTold, At
    <2>3. HandshakeInv'
      BY <1>1, <1>3, <2>1, <2>2, OwnHandshake
    <2> QED
      BY <1>1, <1>2, <2>1, <2>3 DEF TypeInv
  <1>4. CASE n = Server
    <2>1. /\ SocketsInv' /\ DOMAIN pc' = Nodes /\ pc'[Server] = "gatherRequests"
          /\ \A m \in Nodes \ {Server} : pc'[m] = pc[m]
          /\ \A m \in Nodes : pc'[m] \in IF m = Server THEN ServerPoints ELSE ClientPoints
          /\ Clients = Nodes \ {Server} /\ Handled' = {}
      <3>1. /\ "gatherRequests" \in ServerPoints \ {"listen", "accept"} /\ UNCHANGED <<startVars, turn>>
            /\ pc[Server] \notin Loops \cup {"listen", "accept"} /\ Goto(Server, "gatherRequests")
        BY <1>1, <1>4 DEF ServerPoints, Loops, startVars, SyncPoint2
      <3> QED
        BY <3>1, ServerMoves
    <2>2. \A d \in Clients : Stage(d)' = Stage(d)
      BY <1>1, <1>4, <2>1, Stages DEF At, Loops
    <2>3. HandshakeInv'
      BY <1>1, <1>4, <2>1, <2>2, KeepHandshake DEF HandshakeInv, At
    <2> QED
      BY <1>1, <1>2, <2>1, <2>3 DEF TypeInv
  <1> QED
    BY <1>3, <1>4 DEF Nodes

\* A client that displays its frame comes level with the server, or is one frame ahead.
LEMMA DisplayControl ==
    ASSUME ControlInv, NEW n \in Nodes, Display(n) PROVE ControlInv'
  <1> USE DEF ControlInv
  <1> DEFINE next == IF shutdown[n] THEN "close" ELSE "collect"
  <1>1. /\ pc[n] = "display" /\ Goto(n, next)
        /\ UNCHANGED <<shutdown, queue, backlog, sockets, turn, up, down>>
        /\ frame' = [frame EXCEPT ![n] = @ + 1]
        /\ gave' = [gave EXCEPT ![n] = <<>>] /\ got' = [got EXCEPT ![n] = <<>>]
    BY DEF Display, At, startVars, netVars
  <1>2. /\ frame' \in [Nodes -> Nat] /\ gave' \in [Nodes -> Seq(Texts(Nodes))]
        /\ got' \in [Nodes -> EventLists]
    <2>1. <<>> \in Seq(Texts(Nodes)) /\ <<>> \in EventLists
      BY DEF EventLists
    <2> QED
      BY <1>1, <2>1 DEF TypeInv
  <1>3. CASE n \in Clients
    <2>1. /\ SocketsInv' /\ DOMAIN pc' = Nodes /\ pc'[n] = next
          /\ \A m \in Nodes \ {n} : pc'[m] = pc[m]
          /\ \A m \in Nodes : pc'[m] \in IF m = Server THEN ServerPoints ELSE ClientPoints
          /\ \A d \in Clients : Stage(d)' = Stage(d)
          /\ pc'[Server] = pc[Server] /\ Clients \subseteq Nodes /\ n # Server /\ Server \in Nodes
      <3>1. next \in ClientPoints \ {"connect"} /\ ~At(n, "connect") /\ UNCHANGED <<startVars, turn>>
        BY <1>1 DEF ClientPoints, At, startVars
      <3> QED
        BY <1>1, <1>3, <3>1, ClientMoves
    <2>2. /\ frame'[n] = frame[n] + 1 /\ frame[n] \in Nat /\ frame[Server] \in Nat
          /\ \A m \in Nodes \ {n} : /\ frame'[m] = frame[m] /\ gave'[m] = gave[m]
                                    /\ got'[m] = got[m]
      BY <1>1, <2>1 DEF TypeInv
    <2>3. Handshake(n)'
      BY <1>1, <1>3, <2>1, <2>2 DEF HandshakeInv, Handshake, Begins, Works, Ends, Quiet, Says, IsTold, At
    <2>4. HandshakeInv'
      BY <1>1, <1>3, <2>1, <2>2, <2>3, OwnHandshake
    <2> QED
      BY <1>1, <1>2, <2>1, <2>4 DEF TypeInv
  <1>4. CASE n = Server
    <2>1. /\ SocketsInv' /\ DOMAIN pc' = Nodes /\ pc'[Server] = next
          /\ \A m \in Nodes \ {Server} : pc'[m] = pc[m]
          /\ \A m \in Nodes : pc'[m] \in IF m = Server THEN ServerPoints ELSE ClientPoints
          /\ Clients = Nodes \ {Server} /\ Server \in Nodes
      <3>1. /\ next \in ServerPoints \ {"listen", "accept"} /\ UNCHANGED <<startVars, turn>>
            /\ pc[Server] \notin Loops \cup {"listen", "accept"} /\ Goto(Server, next)
        BY <1>1, <1>4 DEF ServerPoints, Loops, startVars
      <3> HIDE DEF next
      <3> QED
        BY <3>1, ServerMoves
    <2>2. \A d \in Clients : Stage(d) = "released" /\ Stage(d)' = "begun"
      BY <1>1, <1>4, <2>1, Stages DEF At, Loops
    <2>3. /\ frame'[Server] = frame[Server] + 1 /\ frame[Server] \in Nat
          /\ \A d \in Clients : /\ frame'[d] = frame[d] /\ gave'[d] = gave[d] /\ frame[d] \in Nat
                                /\ pc'[d] = pc[d]
      BY <1>1, <1>4, <2>1 DEF TypeInv
    <2>4. ASSUME NEW d \in Clients PROVE Handshake(d)'
      <3>1. \/ frame[d] = frame[Server] /\ Ends(d)
            \/ frame[d] = frame[Server] + 1 /\ Begins(d)
        BY <2>2 DEF HandshakeInv, Handshake
      <3>2. Ends(d) => Ends(d)'
        BY <1>1, <2>3 DEF Ends, At, IsTold, Quiet
      <3>3. Begins(d) => Begins(d)'
        BY <1>1, <1>4, <2>3 DEF Begins, At, Says, Quiet
      <3> QED
        BY <2>2, <2>3, <3>1, <3>2, <3>3 DEF Handshake
    <2> QED
      BY <1>1, <1>2, <2>1, <2>4 DEF TypeInv, HandshakeInv
  <1> QED
    BY <1>3, <1>4 DEF Nodes

\* A node closes its connections between two frames.
LEMMA CloseControl ==
    ASSUME ControlInv, NEW n \in Nodes, Close(n) PROVE ControlInv'
  <1> USE DEF ControlInv
  <1>1. /\ pc[n] = "close" /\ Goto(n, "closed")
        /\ UNCHANGED <<frame, shutdown, queue, backlog, sockets, turn, up, down, gave, got>>
    BY DEF Close, At, startVars, netVars, mainVars
  <1>3. CASE n \in Clients
    <2>1. /\ SocketsInv' /\ DOMAIN pc' = Nodes /\ pc'[n] = "closed"
          /\ \A m \in Nodes \ {n} : pc'[m] = pc[m]
          /\ \A m \in Nodes : pc'[m] \in IF m = Server THEN ServerPoints ELSE ClientPoints
          /\ \A d \in Clients : Stage(d)' = Stage(d)
          /\ pc'[Server] = pc[Server] /\ Clients \subseteq Nodes
      <3>1. "closed" \in ClientPoints \ {"connect"} /\ ~At(n, "connect") /\ UNCHANGED <<startVars, turn>>
        BY <1>1 DEF ClientPoints, At, startVars
      <3> QED
        BY <1>1, <1>3, <3>1, ClientMoves
    <2>2. Handshake(n)'
      BY <1>1, <1>3, <2>1 DEF HandshakeInv, Handshake, Begins, Works, Ends, Quiet, Says, IsTold, At
    <2>3. HandshakeInv'
      BY <1>1, <1>3, <2>1, <2>2, OwnHandshake
    <2> QED
      BY <1>1, <2>1, <2>3 DEF TypeInv
  <1>4. CASE n = Server
    <2>1. /\ SocketsInv' /\ DOMAIN pc' = Nodes /\ pc'[Server] = "closed"
          /\ \A m \in Nodes \ {Server} : pc'[m] = pc[m]
          /\ \A m \in Nodes : pc'[m] \in IF m = Server THEN ServerPoints ELSE ClientPoints
          /\ Clients = Nodes \ {Server}
      <3>1. "closed" \in ServerPoints \ {"listen", "accept"} /\ UNCHANGED <<startVars, turn>>
            /\ pc[Server] \notin Loops \cup {"listen", "accept"} /\ Goto(Server, "closed")
        BY <1>1, <1>4 DEF ServerPoints, Loops, startVars
      <3> QED
        BY <3>1, ServerMoves
    <2>2. \A d \in Clients : Stage(d)' = Stage(d)
      BY <1>1, <1>4, <2>1, Stages DEF At, Loops
    <2>3. HandshakeInv'
      BY <1>1, <1>4, <2>1, <2>2, KeepHandshake DEF HandshakeInv, At
    <2> QED
      BY <1>1, <2>1, <2>3 DEF TypeInv
  <1> QED
    BY <1>3, <1>4 DEF Nodes

\* A client sends what is in its queue, and later a request.
LEMMA ClientSendsControl ==
    ASSUME ControlInv, OwnInv, NEW c \in Clients, ClientSends(c) PROVE ControlInv'
  <1> USE DEF ControlInv
  <1> DEFINE next == IF pc[c] = "sendEvents" THEN "awaitEvents" ELSE "awaitNow"
             m    == IF pc[c] = "sendEvents" THEN Message("EVENTS", gave[c])
                     ELSE Message("REQUEST", <<>>)
  <1>1. /\ pc[c] \in {"sendEvents", "sendRequest"} /\ Goto(c, next)
        /\ up' = [up EXCEPT ![c] = Append(@, m)]
        /\ UNCHANGED <<frame, shutdown, queue, backlog, sockets, turn, down, gave, got>>
    BY DEF ClientSends, At, startVars, mainVars, OwnInv
  <1> HIDE DEF m
  <1>2. /\ SocketsInv' /\ DOMAIN pc' = Nodes /\ pc'[c] = next
        /\ \A d \in Nodes \ {c} : pc'[d] = pc[d]
        /\ \A d \in Nodes : pc'[d] \in IF d = Server THEN ServerPoints ELSE ClientPoints
        /\ \A d \in Clients : Stage(d)' = Stage(d)
        /\ pc'[Server] = pc[Server] /\ Clients \subseteq Nodes
    <2>1. next \in ClientPoints \ {"connect"} /\ ~At(c, "connect") /\ UNCHANGED <<startVars, turn>>
      BY <1>1 DEF ClientPoints, At, startVars
    <2> HIDE DEF next
    <2> QED
      BY <1>1, <2>1, ClientMoves
  <1>3. Quiet(c)
    BY <1>1 DEF HandshakeInv, Handshake, Begins, Works, Ends, Quiet, Says, IsTold, At, Stage
  <1>4. up'[c] = <<m>> /\ \A d \in Clients \ {c} : up'[d] = up[d]
    <2>1. up'[c] = Append(<<>>, m)
      BY <1>1, <1>3 DEF TypeInv, Quiet
    <2> QED
      BY <1>1, <2>1 DEF TypeInv
  <1>5. Handshake(c)'
    BY <1>1, <1>2, <1>3, <1>4
       DEF HandshakeInv, Handshake, Begins, Works, Ends, Quiet, Says, IsTold, At, m
  <1>6. HandshakeInv'
    BY <1>1, <1>2, <1>4, <1>5, OwnHandshake
  <1> QED
    BY <1>1, <1>2, <1>6 DEF TypeInv

\* The server's list, as text, is a list that a client can read back.
LEMMA ServersText ==
    ASSUME ControlInv, GotInv, EventsMerged
    PROVE  LET text == TextOf(got[Server])
               q    == FromSerialized(text)
           IN  /\ text \in Seq(Texts(Nodes)) /\ text \in EventLists
               /\ InTimeOrder(text) /\ TextOf(text) = text
               /\ Len(text) = Len(got[Server])
               /\ InOrder(q) = text
               /\ IsQueue(q, Items) /\ Contiguous(q)
               /\ DOMAIN q \subseteq Times \X (0..(2 * numClients + 1))
  <1> DEFINE list == got[Server]
             text == TextOf(list)
             M    == 2 * numClients + 2
  <1>1. list \in EventLists /\ Len(list) <= M /\ M \in Nat
    BY ClientCount DEF ControlInv, TypeInv, GotInv, Nodes
  <1>2. InTimeOrder(list)
    <2>1. <<>> = list => DOMAIN list = {}
      OBVIOUS
    <2> QED
      BY <2>1 DEF EventsMerged, InTimeOrder, Nodes
  <1> HIDE DEF list, M
  <1>3. /\ text \in Seq(Texts(Nodes))
        /\ Len(text) = Len(list) /\ Len(list) \in Nat
        /\ InTimeOrder(text)
    BY <1>1, <1>2, TextOfEvents
  <1> HIDE DEF text
  <1>4. text \in EventLists /\ text \in Seq(EntriesOf(Items)) /\ TextOf(text) = text
    BY <1>3, TextTypes, TextOfTexts
  <1>5. /\ IsQueue(FromSerialized(text), Items)
        /\ Contiguous(FromSerialized(text))
        /\ InOrder(FromSerialized(text)) = text
    BY <1>3, <1>4, FromSerializedInOrder
  <1>6. DOMAIN FromSerialized(text) \subseteq Times \X (0..(M - 1))
    <2>1. IsQueue(EmptyQueue, Items) /\ DOMAIN EmptyQueue = {} /\ Cardinality(DOMAIN EmptyQueue) = 0
      BY EmptyQueueInOrder, FS_EmptySet DEF EmptyQueue
    <2>2. \A i \in 1..Len(text) : text[i].time \in Times
      <3>1. \A i \in 1..Len(text) : text[i] \in Entries
        BY <1>4 DEF EventLists
      <3> QED
        BY <3>1 DEF Entries
    <2>3. /\ DOMAIN EmptyQueue \subseteq Times \X (0..(M - 1))
          /\ Cardinality(DOMAIN EmptyQueue) + Len(text) <= M
      BY <1>1, <1>3, <2>1
    <2>4. DOMAIN PushAll(EmptyQueue, text) \subseteq Times \X (0..(M - 1))
      BY <1>1, <1>4, <2>1, <2>2, <2>3, PushAllKeys
    <2> QED
      BY <2>4 DEF FromSerialized, AddSerializedQueue
  <1>7. M - 1 = 2 * numClients + 1
    BY ClientCount DEF M
  <1> QED
    BY <1>3, <1>4, <1>5, <1>6, <1>7 DEF list, text

\* A client that receives is told the server's list, or that it may display its frame.
LEMMA ClientReceivesEffect ==
    ASSUME ControlInv, GotInv, EventsMerged, NEW c \in Clients, ClientReceives(c)
    PROVE  /\ up[c] = <<>> /\ down'[c] = <<>>
           /\ \A d \in Clients \ {c} : down'[d] = down[d]
           /\ DOMAIN down' = Clients
           /\ UNCHANGED <<frame, shutdown, backlog, sockets, turn, up, gave>>
           /\ \/ /\ pc[c] = "awaitEvents" /\ Goto(c, "dispatch")
                 /\ Stage(c) = "told" /\ frame[c] = frame[Server]
                 /\ queue' = [queue EXCEPT ![c] = FromSerialized(TextOf(got[Server]))]
                 /\ got' = [got EXCEPT ![c] = TextOf(got[Server])]
              \/ /\ pc[c] = "awaitNow" /\ Goto(c, "display")
                 /\ Ends(c) /\ Stage(c) \in {"begun", "released"}
                 /\ UNCHANGED <<queue, got>>
  <1> DEFINE text == TextOf(got[Server])
  <1>1. /\ down' = [down EXCEPT ![c] = Tail(@)] /\ down[c] # <<>>
        /\ UNCHANGED <<frame, shutdown, backlog, sockets, turn, up, gave>>
        /\ pc[c] \in {"awaitEvents", "awaitNow"}
        /\ Head(down[c]).type = ClientExpects(c)
    BY DEF ClientReceives, Arrived, startVars, mainVars, At
  <1>2. Handshake(c) /\ Stage(c) \in {"begun", "heard", "told", "asked", "released"}
    BY DEF ControlInv, HandshakeInv, Stage
  <1>3. CASE pc[c] = "awaitEvents"
    <2>1. Stage(c) = "told" /\ frame[c] = frame[Server] /\ IsTold(c, Message("EVENTS", text))
      <3> HIDE DEF text
      <3>1. Stage(c) = "told" /\ frame[c] = frame[Server] /\ Works(c)
        BY <1>1, <1>2, <1>3 DEF Handshake, Begins, Ends, Quiet, Says, At
      <3> QED
        BY <1>3, <3>1 DEF Works, At, text
    <2>2. /\ Goto(c, "dispatch")
          /\ \E q \in {Received(queue[c], Head(down[c]).data)} :
                /\ queue' = [queue EXCEPT ![c] = q]
                /\ got' = [got EXCEPT ![c] = InOrder(q)]
      BY <1>3 DEF ClientReceives, At
    <2>3. Head(down[c]).data = text /\ Tail(down[c]) = <<>> /\ up[c] = <<>>
      <3> DEFINE m == Message("EVENTS", text)
      <3>1. m.data = text
        BY DEF Message
      <3> HIDE DEF m
      <3>2. down[c] = <<m>> /\ up[c] = <<>>
        BY <2>1 DEF IsTold, m
      <3> QED
        BY <3>1, <3>2
    <2>4. InOrder(FromSerialized(text)) = text
      BY ServersText
    <2>5. /\ queue' = [queue EXCEPT ![c] = FromSerialized(text)]
          /\ got' = [got EXCEPT ![c] = text]
      BY <2>2, <2>3, <2>4 DEF Received
    <2> QED
      BY <1>1, <1>3, <2>1, <2>2, <2>3, <2>5 DEF ControlInv, TypeInv
  <1>4. CASE pc[c] = "awaitNow"
    <2>1. Ends(c) /\ Stage(c) \in {"begun", "released"}
      BY <1>1, <1>2, <1>4 DEF Handshake, Begins, Works, Quiet, Says, At
    <2>2. down[c] = <<Message("NOW", <<>>)>> /\ up[c] = <<>>
      BY <1>4, <2>1 DEF Ends, IsTold, At
    <2>3. Goto(c, "display") /\ UNCHANGED <<queue, got>>
      BY <1>4 DEF ClientReceives, At
    <2>4. Tail(down[c]) = <<>>
      <3> DEFINE m == Message("NOW", <<>>)
      <3> HIDE DEF m
      <3>1. down[c] = <<m>>
        BY <2>2 DEF m
      <3> QED
        BY <3>1
    <2> QED
      BY <1>1, <1>4, <2>1, <2>2, <2>3, <2>4 DEF ControlInv, TypeInv
  <1> QED
    BY <1>1, <1>3, <1>4

\* A client goes on with the list, or with its release, which only then is over.
LEMMA ClientReceivesControl ==
    ASSUME ControlInv, GotInv, EventsMerged, NEW c \in Clients, ClientReceives(c)
    PROVE  ControlInv'
  <1> USE DEF ControlInv
  <1> DEFINE next == IF pc[c] = "awaitEvents" THEN "dispatch" ELSE "display"
  <1>1. /\ up[c] = <<>> /\ down'[c] = <<>>
        /\ \A d \in Clients \ {c} : down'[d] = down[d]
        /\ DOMAIN down' = Clients
        /\ UNCHANGED <<frame, shutdown, backlog, sockets, turn, up, gave>>
        /\ pc[c] \in {"awaitEvents", "awaitNow"} /\ Goto(c, next)
        /\ pc[c] = "awaitEvents" => Stage(c) = "told" /\ frame[c] = frame[Server]
        /\ pc[c] = "awaitNow" => Ends(c) /\ Stage(c) \in {"begun", "released"}
        /\ DOMAIN queue' = Nodes
        /\ got' = got \/ got' = [got EXCEPT ![c] = TextOf(got[Server])]
    BY ClientReceivesEffect DEF TypeInv
  <1>2. /\ SocketsInv' /\ DOMAIN pc' = Nodes /\ pc'[c] = next
        /\ \A d \in Nodes \ {c} : pc'[d] = pc[d]
        /\ \A d \in Nodes : pc'[d] \in IF d = Server THEN ServerPoints ELSE ClientPoints
        /\ \A d \in Clients : Stage(d)' = Stage(d)
        /\ pc'[Server] = pc[Server] /\ Clients \subseteq Nodes /\ c # Server /\ Server \in Nodes
    <2>1. next \in ClientPoints \ {"connect"} /\ ~At(c, "connect") /\ UNCHANGED <<startVars, turn>>
      BY <1>1 DEF ClientPoints, At, startVars
    <2> HIDE DEF next
    <2> QED
      BY <1>1, <2>1, ClientMoves
  <1>3. got' \in [Nodes -> EventLists]
    BY <1>1, ServersText DEF TypeInv
  <1>4. got'[Server] = got[Server]
    BY <1>1, <1>2 DEF TypeInv
  <1>5. Handshake(c)'
    <2>1. Handshake(c)
      BY DEF HandshakeInv
    <2> QED
      BY <1>1, <1>2, <2>1 DEF Handshake, Begins, Works, Ends, Quiet, Says, IsTold, At
  <1>6. HandshakeInv'
    BY <1>1, <1>2, <1>4, <1>5, OwnHandshake
  <1> QED
    BY <1>1, <1>2, <1>3, <1>6 DEF TypeInv

\* A client gives up when the server has closed: its events were not taken.
LEMMA ResetControl ==
    ASSUME ControlInv, NEW c \in Clients, ConnectionReset(c) PROVE ControlInv'
  <1> USE DEF ControlInv
  <1>1. /\ Goto(c, "exited") /\ down[c] = <<>> /\ pc[c] \in {"awaitEvents", "awaitNow"}
        /\ pc[Server] \in {"closed", "exited"}
        /\ UNCHANGED <<frame, shutdown, queue, backlog, sockets, turn, up, down, gave, got>>
    BY ClientCount DEF ConnectionReset, WaitsForGone, Gone, ClientExpects, At,
                       startVars, netVars, mainVars
  <1>2. /\ SocketsInv' /\ DOMAIN pc' = Nodes /\ pc'[c] = "exited"
        /\ \A d \in Nodes \ {c} : pc'[d] = pc[d]
        /\ \A d \in Nodes : pc'[d] \in IF d = Server THEN ServerPoints ELSE ClientPoints
        /\ \A d \in Clients : Stage(d)' = Stage(d)
        /\ pc'[Server] = pc[Server] /\ Clients \subseteq Nodes /\ Server \in Nodes
    <2>1. "exited" \in ClientPoints \ {"connect"} /\ ~At(c, "connect") /\ UNCHANGED <<startVars, turn>>
      BY <1>1 DEF ClientPoints, At, startVars
    <2> QED
      BY <1>1, <2>1, ClientMoves
  <1>3. pc[Server] = "closed"
    BY <1>1, <1>2 DEF TypeInv, ServerPoints
  <1>4. Handshake(c) /\ Stage(c) = "begun"
    BY <1>3, Stages DEF HandshakeInv, Loops
  <1>5. Handshake(c)'
    BY <1>1, <1>2, <1>3, <1>4 DEF Handshake, Begins, Works, Ends, Quiet, Says, IsTold, At
  <1>6. HandshakeInv'
    BY <1>1, <1>2, <1>5, OwnHandshake
  <1> QED
    BY <1>1, <1>2, <1>6 DEF TypeInv

\* The server takes the events of the client whose turn it is, and later its request.
LEMMA ServerReceivesEffect ==
    ASSUME ControlInv, ServerReceives
    PROVE  LET s == sockets[turn]
           IN  /\ pc[Server] \in Loops /\ s \in Clients
               /\ NextTurn(After[pc[Server]].point)
               /\ down[s] = <<>> /\ up'[s] = <<>>
               /\ \A d \in Clients \ {s} : up'[d] = up[d]
               /\ DOMAIN up' = Clients
               /\ UNCHANGED <<frame, shutdown, backlog, sockets, down, gave, got>>
               /\ frame[s] = frame[Server]
               /\ \/ /\ pc[Server] = "gatherEvents" /\ pc[s] = "awaitEvents"
                     /\ queue' = [queue EXCEPT ![Server] = AddQueue(@, FromSerialized(gave[s]))]
                  \/ /\ pc[Server] = "gatherRequests" /\ pc[s] = "awaitNow"
                     /\ UNCHANGED queue
  <1> DEFINE s == sockets[turn]
  <1>1. /\ pc[Server] \in {"gatherEvents", "gatherRequests"}
        /\ up[s] # <<>> /\ up' = [up EXCEPT ![s] = Tail(@)]
        /\ UNCHANGED <<frame, shutdown, backlog, sockets, down, gave, got>>
    BY DEF ServerReceives, ServerExpects, Arrived, startVars, mainVars, At
  <1>2. /\ s \in Clients /\ s \notin Handled /\ pc[Server] \in Loops
        /\ pc[s] \in ClientPoints /\ s # Server
    <2>1. pc[Server] \in Loops
      BY <1>1 DEF Loops
    <2> QED
      BY <2>1, TurnOf, ClientCount DEF ControlInv, TypeInv, Nodes
  <1> HIDE DEF s
  <1>3. Handshake(s)
    BY <1>2 DEF ControlInv, HandshakeInv
  <1>4. CASE pc[Server] = "gatherEvents"
    <2> DEFINE m == Message("EVENTS", gave[s])
    <2>1. frame[s] = frame[Server] /\ pc[s] = "awaitEvents" /\ Says(s, m)
      <3>1. Stage(s) = "begun"
        BY <1>2, <1>4, Stages
      <3> HIDE DEF m
      <3> QED
        BY <1>1, <1>3, <1>4, <3>1 DEF Handshake, Begins, Ends, Quiet, IsTold, At, m
    <2>2. m.data = gave[s]
      BY DEF Message
    <2> HIDE DEF m
    <2>3. Head(up[s]) = m /\ Tail(up[s]) = <<>> /\ down[s] = <<>>
      BY <2>1 DEF Says
    <2>4. /\ \E new \in {FromSerialized(Head(up[s]).data)} :
                queue' = [queue EXCEPT ![Server] = Gathered(@, new)]
          /\ NextTurn("sendEvents")
      BY <1>4 DEF ServerReceives, At, s
    <2>5. queue' = [queue EXCEPT ![Server] = AddQueue(@, FromSerialized(gave[s]))]
      BY <2>2, <2>3, <2>4 DEF Gathered
    <2>6. NextTurn(After[pc[Server]].point)
      BY <1>4, <2>4 DEF After
    <2> QED
      BY <1>1, <1>2, <1>4, <2>1, <2>3, <2>5, <2>6 DEF ControlInv, TypeInv, s
  <1>5. CASE pc[Server] = "gatherRequests"
    <2> DEFINE m == Message("REQUEST", <<>>)
    <2>1. frame[s] = frame[Server] /\ pc[s] = "awaitNow" /\ Says(s, m)
      <3>1. Stage(s) = "told"
        BY <1>2, <1>5, Stages
      <3> HIDE DEF m
      <3> QED
        BY <1>1, <1>3, <3>1 DEF Handshake, Works, Quiet, IsTold, At, m
    <2> HIDE DEF m
    <2>2. Tail(up[s]) = <<>> /\ down[s] = <<>>
      BY <2>1 DEF Says
    <2>3. NextTurn("sendNow") /\ UNCHANGED queue
      BY <1>5 DEF ServerReceives, At
    <2>4. NextTurn(After[pc[Server]].point)
      BY <1>5, <2>3 DEF After
    <2> QED
      BY <1>1, <1>2, <1>5, <2>1, <2>2, <2>3, <2>4 DEF ControlInv, TypeInv, s
  <1> QED
    BY <1>1, <1>4, <1>5

\* A turn of the server that takes a message leads its client from one stage to the next.
LEMMA ServerReceivesControl ==
    ASSUME ControlInv, ServerReceives PROVE ControlInv'
  <1> USE DEF ControlInv
  <1>0. PICK s : s = sockets[turn]
    OBVIOUS
  <1>1. /\ pc[Server] \in Loops /\ s \in Clients
        /\ NextTurn(After[pc[Server]].point)
        /\ down[s] = <<>> /\ up'[s] = <<>>
        /\ \A d \in Clients \ {s} : up'[d] = up[d]
        /\ DOMAIN up' = Clients /\ DOMAIN queue' = Nodes
        /\ UNCHANGED <<frame, shutdown, backlog, sockets, down, gave, got>>
        /\ frame[s] = frame[Server]
        /\ \/ pc[Server] = "gatherEvents" /\ pc[s] = "awaitEvents"
           \/ pc[Server] = "gatherRequests" /\ pc[s] = "awaitNow"
    BY <1>0, ServerReceivesEffect DEF TypeInv
  <1>2. /\ \A c \in Clients : Stage(c)' = IF c = s THEN After[pc[Server]].stage ELSE Stage(c)
        /\ \A c \in Clients : pc'[c] = pc[c]
        /\ SocketsInv'
        /\ pc'[Server] = IF LastTurn THEN After[pc[Server]].point ELSE pc[Server]
        /\ DOMAIN pc' = Nodes
    BY <1>0, <1>1, TurnTaken DEF startVars
  <1>3. \A d \in Clients \ {s} : Handshake(d)'
    BY <1>1, <1>2, KeepHandshake DEF HandshakeInv, At
  <1>4. Handshake(s)'
    <2>1. Stage(s)' = IF pc[Server] = "gatherEvents" THEN "heard" ELSE "asked"
      BY <1>1, <1>2 DEF After
    <2> QED
      BY <1>1, <1>2, <2>1 DEF Handshake, Quiet, At
  <1>5. TypeInv'
    <2>1. pc'[Server] \in ServerPoints
      BY <1>1, <1>2 DEF After, ServerPoints
    <2> QED
      BY <1>1, <1>2, <2>1 DEF TypeInv, Nodes
  <1> QED
    BY <1>2, <1>3, <1>4, <1>5 DEF HandshakeInv

\* The server sends its list, or that the frame may be displayed.
LEMMA ServerSendsEffect ==
    ASSUME ControlInv, QueuesInv, GotInv, ServerSends
    PROVE  LET s == sockets[turn]
           IN  /\ pc[Server] \in Loops /\ s \in Clients
               /\ NextTurn(After[pc[Server]].point)
               /\ up[s] = <<>> /\ down[s] = <<>>
               /\ \A d \in Clients \ {s} : down'[d] = down[d]
               /\ DOMAIN down' = Clients
               /\ UNCHANGED <<frame, shutdown, queue, backlog, sockets, up, gave>>
               /\ frame[s] = frame[Server]
               /\ \/ /\ pc[Server] = "sendEvents" /\ pc[s] = "awaitEvents"
                     /\ down'[s] = <<Message("EVENTS", TextOf(InOrder(queue[Server])))>>
                     /\ got' = [got EXCEPT ![Server] = InOrder(queue[Server])]
                     /\ turn > 1 => got' = got
                     /\ turn = 1 => got[Server] = <<>> /\ Handled = {}
                  \/ /\ pc[Server] = "sendNow" /\ pc[s] = "awaitNow"
                     /\ down'[s] = <<Message("NOW", <<>>)>>
                     /\ UNCHANGED got
  <1> DEFINE s == sockets[turn]
             list == InOrder(queue[Server])
             m == IF pc[Server] = "sendEvents" THEN Message("EVENTS", TextOf(list))
                  ELSE Message("NOW", <<>>)
  <1>1. /\ pc[Server] \in {"sendEvents", "sendNow"}
        /\ down' = [down EXCEPT ![s] = Append(@, m)]
        /\ NextTurn(After[pc[Server]].point)
        /\ UNCHANGED <<frame, shutdown, queue, backlog, sockets, up, gave>>
        /\ IF pc[Server] = "sendEvents" THEN got' = [got EXCEPT ![Server] = list] ELSE UNCHANGED got
    BY DEF ServerSends, startVars, mainVars, At, After, Serialize
  <1>2. /\ s \in Clients /\ s \notin Handled /\ pc[Server] \in Loops /\ turn \in Nat \ {0}
        /\ turn = 1 => Handled = {}
    <2>1. pc[Server] \in Loops
      BY <1>1 DEF Loops
    <2> QED
      BY <2>1, TurnOf, ClientCount DEF ControlInv, TypeInv, SocketsInv
  <1> HIDE DEF s, m
  <1>3. Handshake(s) /\ Stage(s) = IF pc[Server] = "sendEvents" THEN "heard" ELSE "asked"
    BY <1>1, <1>2, Stages DEF ControlInv, HandshakeInv
  <1>4. /\ frame[s] = frame[Server] /\ Quiet(s)
        /\ pc[s] = IF pc[Server] = "sendEvents" THEN "awaitEvents" ELSE "awaitNow"
    BY <1>3 DEF Handshake, At
  <1>5. down'[s] = <<m>> /\ (\A d \in Clients \ {s} : down'[d] = down[d]) /\ DOMAIN down' = Clients
    <2>1. down'[s] = Append(<<>>, m)
      BY <1>1, <1>2, <1>4 DEF ControlInv, TypeInv, Quiet
    <2> QED
      BY <1>1, <2>1 DEF ControlInv, TypeInv
  <1>6. CASE pc[Server] = "sendEvents"
    <2>1. turn > 1 => got[Server] # <<>>
      BY <1>6 DEF GotInv, At, Nodes
    <2>2. turn > 1 => got' = got
      <3>1. turn > 1 => list = got[Server]
        BY <1>6, <2>1 DEF GotInv
      <3>2. Server \in DOMAIN got /\ got' = [got EXCEPT ![Server] = list]
        BY <1>1, <1>6 DEF ControlInv, TypeInv, Nodes
      <3>3. got = [n \in DOMAIN got |-> got[n]]
        BY DEF ControlInv, TypeInv
      <3> QED
        BY <3>1, <3>2, <3>3
    <2>3. turn = 1 => got[Server] = <<>>
      BY <1>6 DEF GotInv, At, Nodes, Processing
    <2> QED
      BY <1>1, <1>2, <1>4, <1>5, <1>6, <2>2, <2>3 DEF Quiet, s, m
  <1>7. CASE pc[Server] = "sendNow"
    BY <1>1, <1>2, <1>4, <1>5, <1>7 DEF Quiet, s, m
  <1> QED
    BY <1>1, <1>6, <1>7

\* So does one that sends a message.
LEMMA ServerSendsControl ==
    ASSUME ControlInv, QueuesInv, GotInv, ServerSends PROVE ControlInv'
  <1> USE DEF ControlInv
  <1> DEFINE list == InOrder(queue[Server])
  <1>0. PICK s : s = sockets[turn]
    OBVIOUS
  <1>1. /\ pc[Server] \in Loops /\ s \in Clients
        /\ NextTurn(After[pc[Server]].point)
        /\ up[s] = <<>> /\ down[s] = <<>>
        /\ \A d \in Clients \ {s} : down'[d] = down[d]
        /\ DOMAIN down' = Clients
        /\ UNCHANGED <<frame, shutdown, queue, backlog, sockets, up, gave>>
        /\ frame[s] = frame[Server]
        /\ \/ /\ pc[Server] = "sendEvents" /\ pc[s] = "awaitEvents"
              /\ down'[s] = <<Message("EVENTS", TextOf(list))>>
              /\ got' = [got EXCEPT ![Server] = list]
              /\ turn > 1 => got' = got
              /\ turn = 1 => got[Server] = <<>> /\ Handled = {}
           \/ /\ pc[Server] = "sendNow" /\ pc[s] = "awaitNow"
              /\ down'[s] = <<Message("NOW", <<>>)>>
              /\ UNCHANGED got
    BY <1>0, ServerSendsEffect
  <1>2. /\ \A c \in Clients : Stage(c)' = IF c = s THEN After[pc[Server]].stage ELSE Stage(c)
        /\ \A c \in Clients : pc'[c] = pc[c]
        /\ SocketsInv'
        /\ pc'[Server] = IF LastTurn THEN After[pc[Server]].point ELSE pc[Server]
        /\ DOMAIN pc' = Nodes
    BY <1>0, <1>1, TurnTaken DEF startVars
  <1>3. list \in EventLists
    BY QueueShows DEF QueuesInv, Nodes
  <1> HIDE DEF list
  <1>4. TypeInv'
    <2>1. pc'[Server] \in ServerPoints
      BY <1>1, <1>2 DEF After, ServerPoints
    <2>2. got' \in [Nodes -> EventLists]
      BY <1>1, <1>3 DEF TypeInv
    <2> QED
      BY <1>1, <1>2, <2>1, <2>2 DEF TypeInv, Nodes
  <1>5. \A d \in Clients \ {s} : got'[Server] = got[Server] \/ pc[d] # "awaitEvents" \/ Stage(d) # "told"
    <2>1. CASE pc[Server] = "sendEvents"
      <3>1. turn \in Nat \ {0}
        BY ClientCount DEF SocketsInv
      <3>2. CASE turn = 1
        <4>1. \A d \in Clients : Stage(d) = "heard"
          BY <1>1, <2>1, <3>2, Stages
        <4> QED
          BY <4>1
      <3> QED
        BY <1>1, <2>1, <3>1, <3>2
    <2>2. CASE pc[Server] # "sendEvents"
      BY <1>1, <2>2
    <2> QED
      BY <2>1, <2>2
  <1>6. \A d \in Clients \ {s} : Handshake(d)'
    <2> SUFFICES ASSUME NEW d \in Clients \ {s} PROVE Handshake(d)'
      OBVIOUS
    <2>1. Handshake(d) /\ d \in Clients
      BY DEF HandshakeInv
    <2>2. CASE got'[Server] = got[Server] \/ pc[d] # "awaitEvents"
      BY <1>1, <1>2, <2>1, <2>2, KeepHandshake DEF At, Loops
    <2>3. CASE Stage(d) # "told"
      BY <1>1, <1>2, <2>1, <2>3 DEF Handshake, Begins, Ends, Quiet, Says, IsTold, At, Loops
    <2> QED
      BY <1>5, <2>2, <2>3
  <1>7. Handshake(s)'
    <2>1. Stage(s)' = IF pc[Server] = "sendEvents" THEN "told" ELSE "released"
      BY <1>1, <1>2 DEF After
    <2>2. pc[Server] = "sendEvents" => got'[Server] = list
      BY <1>1 DEF TypeInv, Nodes
    <2> QED
      BY <1>1, <1>2, <2>1, <2>2 DEF Handshake, Works, Ends, IsTold, At
  <1> QED
    BY <1>2, <1>4, <1>6, <1>7 DEF HandshakeInv

-----------------------------------------------------------------------------
(* The events: what the lists hold.                                        *)

\* The text of a longer list is that of the list and the last entry's.
LEMMA TextOfAppend ==
    ASSUME NEW list \in EventLists, NEW e \in Entries
    PROVE  TextOf(Append(list, e)) = Append(TextOf(list), Entry(e.time, AsText(e.item)))
  <1> DEFINE long == Append(list, e)
             text == TextOf(list)
             last == Entry(e.time, AsText(e.item))
             both == TextOf(long)
             n    == Len(list)
  <1>1. /\ long \in EventLists /\ Len(long) = n + 1 /\ n \in Nat
        /\ long[n + 1] = e /\ \A i \in 1..n : long[i] = list[i]
    BY DEF EventLists
  <1>2. last \in Texts(Nodes)
    BY TextOfItem DEF Entries, Entry, Texts
  <1> HIDE DEF long, last
  <1>3. /\ text \in Seq(Texts(Nodes)) /\ Len(text) = n
        /\ \A i \in 1..n : text[i] = Entry(list[i].time, AsText(list[i].item))
    BY TextOfEvents
  <1>4. /\ both \in Seq(Texts(Nodes)) /\ Len(both) = n + 1
        /\ \A i \in 1..(n + 1) : both[i] = Entry(long[i].time, AsText(long[i].item))
    BY <1>1, TextOfEvents
  <1> HIDE DEF text, both
  <1>5. /\ Append(text, last) \in Seq(Texts(Nodes)) /\ Len(Append(text, last)) = n + 1
        /\ \A i \in 1..n : Append(text, last)[i] = text[i]
        /\ Append(text, last)[n + 1] = last
    BY <1>1, <1>2, <1>3, AppendProperties
  <1> DEFINE shown == Append(text, last)
  <1>6. \A i \in 1..(n + 1) : both[i] = shown[i]
    <2> TAKE i \in 1..(n + 1)
    <2>1. CASE i = n + 1
      BY <1>1, <1>4, <1>5, <2>1 DEF last
    <2>2. CASE i \in 1..n
      BY <1>1, <1>3, <1>4, <1>5, <2>2
    <2>3. i = n + 1 \/ i \in 1..n
      BY <1>1
    <2> QED
      BY <2>1, <2>2, <2>3
  <1>7. shown \in Seq(Texts(Nodes)) /\ Len(shown) = n + 1
    BY <1>5
  <1> HIDE DEF shown
  <1>8. shown \in [1..(n + 1) -> Texts(Nodes)] /\ n + 1 \in Nat
    BY <1>1, <1>7, LenProperties
  <1>9. both = shown
    BY <1>4, <1>6, <1>8, SameSeq
  <1> QED
    BY <1>9 DEF both, shown, text, long, last

\* The events of a node in the text of a list are the text of its events in the list.
LEMMA TextOfFrom ==
    ASSUME NEW list \in EventLists, NEW n
    PROVE  /\ From(TextOf(list), n) = TextOf(From(list, n))
           /\ From(list, n) \in EventLists
  <1> DEFINE S == {l \in EventLists : From(TextOf(l), n) = TextOf(From(l, n))}
  <1>1. <<>> \in S
    <2> DEFINE none == <<>>
    <2>1. none \in EventLists /\ none \in Seq(Texts(Nodes)) /\ From(none, n) = none
      BY FromEmpty DEF EventLists
    <2>2. TextOf(none) = none
      <3> HIDE DEF none
      <3> QED
        BY <2>1, TextOfTexts
    <2> QED
      BY <2>1, <2>2
  <1>2. ASSUME NEW l \in EventLists, NEW e \in Entries, l \in S
        PROVE  Append(l, e) \in S
    <2> DEFINE text == TextOf(l)
               last == Entry(e.time, AsText(e.item))
    <2>1. text \in Seq(Texts(Nodes)) /\ TextOf(Append(l, e)) = Append(text, last)
          /\ Append(l, e) \in EventLists
      BY TextOfEvents, TextOfAppend DEF EventLists
    <2>2. last \in Texts(Nodes) /\ last.item.id[1] = e.item.id[1]
      <3>1. e.item \in Items
        BY DEF Entries
      <3> QED
        BY <3>1, TextOfItem, EntryFields DEF Entries, Entry, Texts
    <2> HIDE DEF text, last
    <2>3. From(Append(text, last), n) =
             IF last.item.id[1] = n THEN Append(From(text, n), last) ELSE From(text, n)
      BY <2>1, <2>2, FromAppend
    <2>4. From(Append(l, e), n) = IF e.item.id[1] = n THEN Append(From(l, n), e) ELSE From(l, n)
      BY FromAppend DEF EventLists
    <2>5. From(l, n) \in EventLists
      BY FromType DEF EventLists
    <2>6. TextOf(Append(From(l, n), e)) = Append(TextOf(From(l, n)), last)
      BY <2>5, TextOfAppend DEF last
    <2>7. From(text, n) = TextOf(From(l, n))
      BY <1>2 DEF text
    <2> QED
      BY <2>1, <2>2, <2>3, <2>4, <2>6, <2>7
  <1>3. \A l \in Seq(Entries) : l \in S
    <2> HIDE DEF S
    <2>1. \A l \in Seq(Entries), e \in Entries : l \in S => Append(l, e) \in S
      BY <1>2 DEF EventLists
    <2> QED
      BY <1>1, <2>1, ListInduction
  <1>4. From(list, n) \in EventLists
    BY FromType DEF EventLists
  <1> QED
    BY <1>3, <1>4 DEF EventLists

\* A node's events are among those of a list.
LEMMA FromShows ==
    ASSUME NEW list \in EventLists, NEW n, NEW i \in 1..Len(From(TextOf(list), n))
    PROVE  \E j \in 1..Len(list) : From(TextOf(list), n)[i].item.id = list[j].item.id
  <1> DEFINE text == TextOf(list)
  <1>1. /\ text \in Seq(Texts(Nodes)) /\ Len(text) = Len(list)
        /\ \A j \in 1..Len(list) : text[j] = Entry(list[j].time, AsText(list[j].item))
    BY TextOfEvents
  <1>2. \E j \in 1..Len(text) : From(text, n)[i] = text[j]
    BY <1>1, FromType
  <1> HIDE DEF text
  <1>3. PICK j \in 1..Len(list) : From(text, n)[i] = text[j]
    BY <1>1, <1>2
  <1>4. list[j].item \in Items
    <2>1. list[j] \in Entries
      BY DEF EventLists
    <2> QED
      BY <2>1 DEF Entries
  <1>5. text[j].item.id = list[j].item.id
    BY <1>1, <1>4, TextOfItem, EntryFields
  <1> QED
    BY <1>3, <1>5 DEF text

\* Nobody processes a list in the frame in which a node still collects, or in the one
\* after that which it has yet to display.
LEMMA NobodyProcesses ==
    ASSUME ControlInv, GotInv, NEW n \in Nodes, NEW m \in Nodes, got[m] # <<>>
    PROVE  /\ pc[n] = "collect" => frame[m] # frame[n]
           /\ pc[n] = "display" => frame[m] # frame[n] + 1
  <1>1. /\ pc[m] \in Processing \/ (m = Server /\ pc[m] = "sendEvents" /\ turn > 1)
        /\ \A k \in Nodes : frame[k] \in Nat
        /\ Clients = Nodes \ {Server} /\ Server \in Nodes
    BY ClientCount DEF GotInv, At, ControlInv, TypeInv, Nodes
  <1>2. \A c \in Clients : Handshake(c)
    BY DEF ControlInv, HandshakeInv
  \* What each stage means for a client that collects, displays or processes.
  <1>3. \A c \in Clients :
           /\ pc[c] = "collect" => \/ Stage(c) = "begun" /\ frame[c] = frame[Server]
                                   \/ Stage(c) = "released" /\ frame[c] = frame[Server] + 1
           /\ pc[c] = "display" => \/ Stage(c) = "begun" /\ frame[c] + 1 = frame[Server]
                                   \/ Stage(c) = "released" /\ frame[c] = frame[Server]
           /\ pc[c] \in Processing => \/ Stage(c) = "begun" /\ frame[c] + 1 = frame[Server]
                                      \/ Stage(c) \in {"told", "asked", "released"}
                                         /\ frame[c] = frame[Server]
    <2> TAKE c \in Clients
    <2>1. Stage(c) \in {"begun", "heard", "told", "asked", "released"} /\ Handshake(c)
      BY <1>2 DEF Stage
    <2>2. pc[c] = "collect" => ~Ends(c) /\ ~Works(c)
      BY DEF Works, Ends, At
    <2>3. pc[c] = "display" => ~Begins(c) /\ ~Works(c)
      BY DEF Begins, Works, At
    <2>4. pc[c] \in Processing => ~Begins(c)
      BY DEF Begins, At, Processing
    <2>5. pc[c] = "collect" => \/ Stage(c) = "begun" /\ frame[c] = frame[Server]
                               \/ Stage(c) = "released" /\ frame[c] = frame[Server] + 1
      BY <2>1, <2>2 DEF Handshake, At
    <2>6. pc[c] = "display" => \/ Stage(c) = "begun" /\ frame[c] + 1 = frame[Server]
                               \/ Stage(c) = "released" /\ frame[c] = frame[Server]
      BY <2>1, <2>3 DEF Handshake, At
    <2>7. pc[c] \in Processing => \/ Stage(c) = "begun" /\ frame[c] + 1 = frame[Server]
                                  \/ Stage(c) \in {"told", "asked", "released"} /\ frame[c] = frame[Server]
      BY <2>1, <2>4 DEF Handshake, At, Processing
    <2> QED
      BY <2>5, <2>6, <2>7
  \* Clients are at the same stage of their exchange with the server, or at the next.
  <1>4. \A c, d \in Clients :
           /\ Stage(c) = "begun" => Stage(d) \in {"begun", "heard"}
           /\ Stage(c) = "released" => Stage(d) \in {"asked", "released"}
    BY DEF Stage
  <1>5. \A c \in Clients :
           /\ pc[Server] \in {"collect", "gatherEvents"} => Stage(c) \in {"begun", "heard"}
           /\ pc[Server] = "sendEvents" => Stage(c) \in {"heard", "told"}
           /\ pc[Server] = "display" => Stage(c) = "released"
           /\ pc[Server] \in Processing => Stage(c) \in {"told", "asked", "released"}
    <2>1. pc[Server] \in ServerPoints
      BY <1>1 DEF ControlInv, TypeInv
    <2> QED
      BY <2>1 DEF Stage, At, Processing, ServerPoints
  <1>6. CASE n = Server /\ m = Server
    BY <1>1, <1>6 DEF Processing
  <1>7. CASE n = Server /\ m \in Clients
    BY <1>1, <1>3, <1>5, <1>7
  <1>8. CASE n \in Clients /\ m = Server
    BY <1>1, <1>3, <1>5, <1>8
  <1>9. CASE n \in Clients /\ m \in Clients
    BY <1>1, <1>3, <1>4, <1>9
  <1> QED
    BY <1>1, <1>6, <1>7, <1>8, <1>9

\* Two points that are both before a node gives its events or both not, and both while it
\* processes the list or both not.
Alike(p, q) ==
    /\ p \in BeforeGiving <=> q \in BeforeGiving
    /\ p \in Processing <=> q \in Processing

\* The events are as they were after a step that only leads from a point to one like it,
\* for the server one outside the part of the frame in which it has a list.
LEMMA PointsOnly ==
    ASSUME TypeInv, EventsInv, UNCHANGED <<frame, queue, gave, got, turn>>,
           \A n \in Nodes : Alike(pc[n], pc'[n]),
           \A c \in Clients : pc'[c] = "sendEvents" => pc[c] = "sendEvents",
           \/ pc'[Server] = pc[Server] /\ sockets' = sockets
           \/ {pc[Server], pc'[Server]} \cap {"gatherEvents", "sendEvents", "dispatch"} = {}
    PROVE  EventsInv'
  <1> USE DEF EventsInv
  <1>1. QueuesInv' /\ SameEvents' /\ EventsMerged'
    BY DEF QueuesInv, SameEvents, EventsMerged
  <1>2. GaveInv'
    BY DEF GaveInv, Alike, IsGiven
  <1>3. MergedInv'
    BY DEF MergedInv, Merged, Handled, ServersList, At
  <1>4. OwnInv'
    BY DEF OwnInv, At
  <1>5. GotInv'
    <2>1. ASSUME NEW n \in Nodes
          PROVE  (got'[n] # <<>>) <=> \/ pc'[n] \in Processing
                                      \/ n = Server /\ pc'[n] = "sendEvents" /\ turn' > 1
      <3>1. (got[n] # <<>>) <=> \/ pc[n] \in Processing
                                \/ n = Server /\ pc[n] = "sendEvents" /\ turn > 1
        BY DEF GotInv, At
      <3>2. n = Server => (pc'[n] = "sendEvents" <=> pc[n] = "sendEvents")
        OBVIOUS
      <3> QED
        BY <3>1, <3>2 DEF Alike
    <2> QED
      BY <2>1 DEF GotInv, At
  <1> QED
    BY <1>1, <1>2, <1>3, <1>4, <1>5

\* A client that has given its events to the server does not collect or display.
LEMMA MergedWait ==
    ASSUME ControlInv, NEW c \in Clients, c \in Merged,
           pc[Server] \in {"gatherEvents", "sendEvents", "dispatch"}
    PROVE  pc[c] \notin {"collect", "display"}
  <1>1. Stage(c) \in {"heard", "told"} /\ Handshake(c)
    BY ClientCount DEF Merged, Stage, At, ControlInv, HandshakeInv
  <1> QED
    BY <1>1 DEF Handshake, Works, At

\* A node collects.
LEMMA CollectEvents ==
    ASSUME IInv, NEW n \in Nodes, Collect(n) PROVE EventsInv'
  <1> USE DEF IInv, EventsInv
  <1>1. PICK q : /\ Own(q, n) /\ gave' = [gave EXCEPT ![n] = Serialize(q)]
                 /\ queue' = [queue EXCEPT ![n] = q]
    BY CollectEffect
  <1>2. /\ pc[n] = "collect" /\ Goto(n, SyncPoint1(n))
        /\ UNCHANGED <<frame, backlog, sockets, turn, got>>
    BY DEF Collect, At, mainVars, startVars
  <1>3. /\ DOMAIN pc' = Nodes /\ pc'[n] = SyncPoint1(n) /\ \A m \in Nodes \ {n} : pc'[m] = pc[m]
        /\ Clients = Nodes \ {Server} /\ Server \in Nodes
    BY <1>2, PointReached, ClientCount DEF ControlInv, Nodes
  <1>4. /\ IsGiven(n, Serialize(q)) /\ Serialize(q) \in Seq(Texts(Nodes))
        /\ DOMAIN q \subseteq Times \X (0..(2 * numClients + 1))
        /\ IsQueue(q, Items) /\ Contiguous(q) /\ Cardinality(DOMAIN q) \in 1..2
    BY <1>1, OwnIsGiven DEF Own
  <1>5. /\ gave'[n] = Serialize(q) /\ queue'[n] = q
        /\ \A m \in Nodes \ {n} : gave'[m] = gave[m] /\ queue'[m] = queue[m]
    BY <1>1 DEF ControlInv, TypeInv
  <1>6. QueuesInv'
    BY <1>4, <1>5 DEF QueuesInv
  <1>7. GaveInv'
    <2>1. IsGiven(n, gave'[n]) /\ pc'[n] \notin BeforeGiving
      BY <1>3, <1>4, <1>5 DEF SyncPoint1, BeforeGiving
    <2> QED
      BY <1>3, <1>5, <2>1 DEF GaveInv, IsGiven
  <1>8. OwnInv'
    BY <1>3, <1>5 DEF OwnInv, At
  <1>9. GotInv'
    <2>1. ASSUME NEW m \in Nodes
          PROVE  (got'[m] # <<>>) <=> \/ pc'[m] \in Processing
                                      \/ m = Server /\ pc'[m] = "sendEvents" /\ turn' > 1
      BY <1>2, <1>3, <2>1 DEF GotInv, At, SyncPoint1, Processing
    <2>2. pc'[Server] \in {"sendEvents", "dispatch"} => pc[Server] = pc'[Server] /\ n # Server
      BY <1>3 DEF SyncPoint1
    <2>3. pc'[Server] \in {"sendEvents", "dispatch"} => queue'[Server] = queue[Server]
      BY <1>3, <1>5, <2>2
    <2>4. /\ pc'[Server] \in {"sendEvents", "dispatch"} /\ got'[Server] # <<>> =>
                got'[Server] = InOrder(queue'[Server])
          /\ Len(got'[Server]) <= 2 * numClients + 2
      BY <1>2, <2>2, <2>3 DEF GotInv
    <2> QED
      BY <2>1, <2>4 DEF GotInv, At
  <1>10. SameEvents'
    BY <1>2 DEF SameEvents
  <1>11. EventsMerged'
    <2>1. ASSUME NEW m \in Nodes, got[m] # <<>> PROVE frame[m] # frame[n]
      BY <1>2, <2>1, NobodyProcesses
    <2> QED
      BY <1>2, <1>5, <2>1 DEF EventsMerged
  <1>12. MergedInv'
    <2>1. CASE n # Server
      <3>1. pc'[Server] = pc[Server] /\ queue'[Server] = queue[Server] /\ n \in Clients
        BY <1>3, <1>5, <2>1
      <3>2. Merged' = Merged /\ ServersList' = ServersList
        BY <1>2, <3>1 DEF Merged, Handled, ServersList, At
      <3>3. pc[Server] \in {"gatherEvents", "sendEvents", "dispatch"} => n \notin Merged
        BY <1>2, <3>1, MergedWait
      <3> QED
        BY <1>2, <1>5, <3>1, <3>2, <3>3 DEF MergedInv, At
    <2>2. CASE n = Server
      <3>1. /\ turn = 1 /\ pc'[Server] = "gatherEvents" /\ Merged' = {Server}
            /\ ServersList' = gave'[Server]
        BY <1>2, <1>3, <1>5, <2>2
           DEF ControlInv, SocketsInv, Loops, Merged, Handled, ServersList, At, Serialize, SyncPoint1
      <3>2. \A i \in DOMAIN gave'[Server] : gave'[Server][i].item.id[1] = Server
        <4>1. gave'[Server] \in Seq(Texts({Server}))
          BY <1>4, <1>5, <2>2 DEF IsGiven
        <4>2. \A i \in DOMAIN gave'[Server] : gave'[Server][i] \in Texts({Server})
          BY <4>1
        <4> QED
          BY <4>2 DEF Texts
      <3>3. gave'[Server] \in Seq(Texts(Nodes))
        BY <1>4, <1>5, <2>2
      <3>4. /\ From(gave'[Server], Server) = gave'[Server]
            /\ \A m : m # Server => From(gave'[Server], m) = <<>>
        BY <3>2, <3>3, FromOnly
      <3>5. Cardinality(DOMAIN queue'[Server]) <= 2 * turn'
        BY <1>2, <1>4, <1>5, <2>2, <3>1
      <3> QED
        BY <3>1, <3>4, <3>5 DEF MergedInv, At
    <2> QED
      BY <2>1, <2>2
  <1> QED
    BY <1>6, <1>7, <1>8, <1>9, <1>10, <1>11, <1>12

\* A node processes its list.
LEMMA DispatchEvents ==
    ASSUME IInv, NEW n \in Nodes, Dispatch(n) PROVE EventsInv'
  <1> USE DEF IInv, EventsInv
  <1>1. /\ pc[n] = "dispatch" /\ Goto(n, "render")
        /\ UNCHANGED <<frame, backlog, sockets, turn, gave, got>>
        /\ queue' = [queue EXCEPT ![n] = EmptyQueue]
    BY DEF Dispatch, At, startVars
  <1>2. /\ DOMAIN pc' = Nodes /\ pc'[n] = "render" /\ \A m \in Nodes \ {n} : pc'[m] = pc[m]
        /\ Clients = Nodes \ {Server} /\ Server \in Nodes
    BY <1>1, PointReached, ClientCount DEF ControlInv, Nodes
  <1>3. queue'[n] = EmptyQueue /\ \A m \in Nodes \ {n} : queue'[m] = queue[m]
    BY <1>1 DEF ControlInv, TypeInv
  <1>4. QueuesInv'
    <2>1. IsQueue(EmptyQueue, Items) /\ Contiguous(EmptyQueue) /\ DOMAIN EmptyQueue = {}
      BY EmptyQueueInOrder DEF EmptyQueue
    <2> QED
      BY <1>3, <2>1 DEF QueuesInv
  <1>5. GaveInv'
    BY <1>1, <1>2 DEF GaveInv, IsGiven, BeforeGiving
  <1>6. MergedInv'
    <2>1. CASE n = Server
      BY <1>2, <2>1 DEF MergedInv
    <2>2. CASE n # Server
      <3>1. pc'[Server] = pc[Server] /\ queue'[Server] = queue[Server]
        BY <1>2, <1>3, <2>2
      <3>2. Merged' = Merged /\ ServersList' = ServersList
        BY <1>1, <3>1 DEF Merged, Handled, ServersList, At
      <3> QED
        BY <1>1, <3>1, <3>2 DEF MergedInv, At
    <2> QED
      BY <2>1, <2>2
  <1>7. OwnInv'
    <2>1. \A c \in Clients : pc'[c] = "sendEvents" => pc[c] = "sendEvents" /\ queue'[c] = queue[c]
      BY <1>2, <1>3
    <2> QED
      BY <1>1, <2>1 DEF OwnInv, At
  <1>8. GotInv'
    <2>1. ASSUME NEW m \in Nodes
          PROVE  (got'[m] # <<>>) <=> \/ pc'[m] \in Processing
                                      \/ m = Server /\ pc'[m] = "sendEvents" /\ turn' > 1
      BY <1>1, <1>2, <2>1 DEF GotInv, At, Processing
    <2>2. pc'[Server] \in {"sendEvents", "dispatch"} =>
              pc[Server] = pc'[Server] /\ queue'[Server] = queue[Server]
      BY <1>2, <1>3
    <2>3. /\ pc'[Server] \in {"sendEvents", "dispatch"} /\ got'[Server] # <<>> =>
                got'[Server] = InOrder(queue'[Server])
          /\ Len(got'[Server]) <= 2 * numClients + 2
      BY <1>1, <2>2 DEF GotInv
    <2> QED
      BY <2>1, <2>3 DEF GotInv, At
  <1>9. SameEvents' /\ EventsMerged'
    BY <1>1 DEF SameEvents, EventsMerged
  <1> QED
    BY <1>4, <1>5, <1>6, <1>7, <1>8, <1>9

\* A node ends its frame: its events and its list are of the past.
LEMMA DisplayEvents ==
    ASSUME IInv, NEW n \in Nodes, Display(n) PROVE EventsInv'
  <1> USE DEF IInv, EventsInv
  <1> DEFINE next == IF shutdown[n] THEN "close" ELSE "collect"
  <1>1. /\ pc[n] = "display" /\ Goto(n, next)
        /\ UNCHANGED <<queue, backlog, sockets, turn>>
        /\ frame' = [frame EXCEPT ![n] = @ + 1]
        /\ gave' = [gave EXCEPT ![n] = <<>>] /\ got' = [got EXCEPT ![n] = <<>>]
    BY DEF Display, At, startVars
  <1>2. /\ DOMAIN pc' = Nodes /\ pc'[n] \in {"close", "collect"}
        /\ \A m \in Nodes \ {n} : pc'[m] = pc[m]
        /\ Clients = Nodes \ {Server} /\ Server \in Nodes
    <2>1. DOMAIN pc' = Nodes /\ pc'[n] = next /\ \A m \in Nodes \ {n} : pc'[m] = pc[m]
      <3> HIDE DEF next
      <3> QED
        BY <1>1, PointReached DEF ControlInv
    <2> QED
      BY <2>1, ClientCount DEF Nodes
  <1>3. /\ frame'[n] = frame[n] + 1 /\ gave'[n] = <<>> /\ got'[n] = <<>>
        /\ \A m \in Nodes \ {n} : frame'[m] = frame[m] /\ gave'[m] = gave[m] /\ got'[m] = got[m]
    BY <1>1 DEF ControlInv, TypeInv
  <1>4. QueuesInv'
    BY <1>1 DEF QueuesInv
  <1>5. GaveInv'
    BY <1>2, <1>3 DEF GaveInv, IsGiven, BeforeGiving
  <1>6. MergedInv'
    <2>1. CASE n = Server
      BY <1>2, <2>1 DEF MergedInv
    <2>2. CASE n # Server
      <3>1. pc'[Server] = pc[Server] /\ n \in Clients
        BY <1>2, <2>2
      <3>2. Merged' = Merged /\ ServersList' = ServersList
        BY <1>1, <3>1 DEF Merged, Handled, ServersList, At
      <3>3. pc[Server] \in {"gatherEvents", "sendEvents", "dispatch"} => n \notin Merged
        BY <1>1, <3>1, MergedWait
      <3> QED
        BY <1>1, <1>3, <3>1, <3>2, <3>3 DEF MergedInv, At
    <2> QED
      BY <2>1, <2>2
  <1>7. OwnInv'
    <2>1. \A c \in Clients : pc'[c] = "sendEvents" => pc[c] = "sendEvents" /\ gave'[c] = gave[c]
      BY <1>2, <1>3
    <2> QED
      BY <1>1, <2>1 DEF OwnInv, At
  <1>8. GotInv'
    <2>1. ASSUME NEW m \in Nodes
          PROVE  (got'[m] # <<>>) <=> \/ pc'[m] \in Processing
                                      \/ m = Server /\ pc'[m] = "sendEvents" /\ turn' > 1
      BY <1>1, <1>2, <1>3, <2>1 DEF GotInv, At, Processing
    <2>2. pc'[Server] \in {"sendEvents", "dispatch"} =>
              pc[Server] = pc'[Server] /\ got'[Server] = got[Server]
      BY <1>2, <1>3
    <2>3. Len(got'[Server]) <= 2 * numClients + 2
      <3>1. CASE n = Server
        BY <1>3, <3>1, ClientCount
      <3>2. CASE n # Server
        BY <1>2, <1>3, <3>2 DEF GotInv
      <3> QED
        BY <3>1, <3>2
    <2>4. pc'[Server] \in {"sendEvents", "dispatch"} /\ got'[Server] # <<>> =>
                got'[Server] = InOrder(queue'[Server])
      BY <1>1, <2>2 DEF GotInv
    <2> QED
      BY <2>1, <2>3, <2>4 DEF GotInv, At
  <1>9. SameEvents'
    BY <1>3 DEF SameEvents
  <1>10. EventsMerged'
    <2>1. ASSUME NEW m \in Nodes, got[m] # <<>> PROVE frame[m] # frame[n] + 1
      BY <1>1, <2>1, NobodyProcesses
    <2> SUFFICES ASSUME NEW k \in Nodes, got'[k] # <<>>
                 PROVE  /\ InTimeOrder(got'[k])
                        /\ \A m \in Nodes : frame'[m] = frame'[k] => From(TextOf(got'[k]), m) = gave'[m]
      BY DEF EventsMerged
    <2>2. k # n /\ got'[k] = got[k] /\ frame'[k] = frame[k]
      BY <1>3
    <2>3. InTimeOrder(got[k])
          /\ \A m \in Nodes : frame[m] = frame[k] => From(TextOf(got[k]), m) = gave[m]
      BY <2>2 DEF EventsMerged
    <2> QED
      BY <1>3, <2>1, <2>2, <2>3
  <1> QED
    BY <1>4, <1>5, <1>6, <1>7, <1>8, <1>9, <1>10

\* A client gets the server's list.
LEMMA ClientReceivesEvents ==
    ASSUME IInv, NEW c \in Clients, ClientReceives(c) PROVE EventsInv'
  <1> USE DEF IInv, EventsInv
  <1> DEFINE text == TextOf(got[Server])
  <1>1. /\ UNCHANGED <<frame, backlog, sockets, turn, gave>>
        /\ \/ /\ pc[c] = "awaitEvents" /\ Goto(c, "dispatch")
              /\ Stage(c) = "told" /\ frame[c] = frame[Server]
              /\ queue' = [queue EXCEPT ![c] = FromSerialized(text)]
              /\ got' = [got EXCEPT ![c] = text]
           \/ /\ pc[c] = "awaitNow" /\ Goto(c, "display")
              /\ UNCHANGED <<queue, got>>
    BY ClientReceivesEffect
  <1>2. c \in Nodes /\ Server \in Nodes /\ c # Server /\ Clients = Nodes \ {Server}
    BY ClientCount DEF Nodes
  <1>3. CASE pc[c] = "awaitNow"
    <2>1. DOMAIN pc' = Nodes /\ pc'[c] = "display" /\ \A m \in Nodes \ {c} : pc'[m] = pc[m]
      BY <1>1, <1>2, <1>3, PointReached DEF ControlInv
    <2>2. \A m \in Nodes : Alike(pc[m], pc'[m])
      BY <1>3, <2>1 DEF Alike, BeforeGiving, Processing
    <2>3. \A d \in Clients : pc'[d] = "sendEvents" => pc[d] = "sendEvents"
      BY <1>2, <2>1
    <2> QED
      BY <1>1, <1>2, <1>3, <2>1, <2>2, <2>3, PointsOnly DEF ControlInv
  <1>4. CASE pc[c] = "awaitEvents"
    <2>1. DOMAIN pc' = Nodes /\ pc'[c] = "dispatch" /\ \A m \in Nodes \ {c} : pc'[m] = pc[m]
      BY <1>1, <1>2, <1>4, PointReached DEF ControlInv
    <2>2. /\ queue'[c] = FromSerialized(text) /\ got'[c] = text
          /\ \A m \in Nodes \ {c} : queue'[m] = queue[m] /\ got'[m] = got[m]
          /\ Stage(c) = "told" /\ frame[c] = frame[Server]
      BY <1>1, <1>2, <1>4 DEF ControlInv, TypeInv
    <2>3. /\ text \in Seq(Texts(Nodes)) /\ InTimeOrder(text) /\ TextOf(text) = text
          /\ Len(text) = Len(got[Server])
          /\ IsQueue(FromSerialized(text), Items) /\ Contiguous(FromSerialized(text))
          /\ DOMAIN FromSerialized(text) \subseteq Times \X (0..(2 * numClients + 1))
      BY ServersText
    <2> HIDE DEF text
    <2>4. got[Server] # <<>> /\ got[Server] \in EventLists
      <3>1. \/ pc[Server] \in Processing
            \/ At(Server, "sendEvents") /\ c \in Handled
        BY <2>2, ClientCount DEF Stage, At, Processing
      <3>2. c \in Handled => turn > 1
        BY DEF Handled, ControlInv, SocketsInv
      <3> QED
        BY <1>2, <3>1, <3>2 DEF GotInv, ControlInv, TypeInv
    <2>5. text # <<>>
      <3>1. Len(got[Server]) # 0
        BY <2>4 DEF EventLists
      <3> QED
        BY <2>3, <3>1
    <2>6. QueuesInv'
      BY <2>2, <2>3 DEF QueuesInv
    <2>7. GaveInv'
      BY <1>1, <1>4, <2>1 DEF GaveInv, IsGiven, BeforeGiving
    <2>8. MergedInv'
      <3>1. pc'[Server] = pc[Server] /\ queue'[Server] = queue[Server]
        BY <1>2, <2>1, <2>2
      <3>2. Merged' = Merged /\ ServersList' = ServersList
        BY <1>1, <3>1 DEF Merged, Handled, ServersList, At
      <3> QED
        BY <1>1, <3>1, <3>2 DEF MergedInv, At
    <2>9. OwnInv'
      <3>1. \A d \in Clients : pc'[d] = "sendEvents" => pc[d] = "sendEvents" /\ queue'[d] = queue[d]
        BY <1>2, <2>1, <2>2
      <3> QED
        BY <1>1, <3>1 DEF OwnInv, At
    <2>10. GotInv'
      <3>1. ASSUME NEW m \in Nodes
            PROVE  (got'[m] # <<>>) <=> \/ pc'[m] \in Processing
                                        \/ m = Server /\ pc'[m] = "sendEvents" /\ turn' > 1
        BY <1>1, <1>2, <2>1, <2>2, <2>5, <3>1 DEF GotInv, At, Processing
      <3>2. pc'[Server] = pc[Server] /\ got'[Server] = got[Server] /\ queue'[Server] = queue[Server]
        BY <1>2, <2>1, <2>2
      <3> QED
        BY <3>1, <3>2 DEF GotInv, At
    <2>11. SameEvents'
      <3> SUFFICES ASSUME NEW m \in Nodes, NEW n \in Nodes, frame'[m] = frame'[n],
                          got'[m] # <<>>, got'[n] # <<>>
                   PROVE  TextOf(got'[m]) = TextOf(got'[n])
        BY DEF SameEvents
      <3>1. ASSUME NEW k \in Nodes \ {c}, got[k] # <<>>, frame[k] = frame[c]
            PROVE  TextOf(got[k]) = text
        BY <1>2, <2>2, <2>4, <3>1 DEF SameEvents, text
      <3>2. ASSUME NEW k \in Nodes \ {c}, NEW l \in Nodes \ {c}, frame[k] = frame[l],
                   got[k] # <<>>, got[l] # <<>>
            PROVE  TextOf(got[k]) = TextOf(got[l])
        BY <3>2 DEF SameEvents
      <3> QED
        BY <1>1, <2>2, <2>3, <3>1, <3>2
    <2>12. EventsMerged'
      <3> SUFFICES ASSUME NEW k \in Nodes, got'[k] # <<>>
                   PROVE  /\ InTimeOrder(got'[k])
                          /\ \A m \in Nodes : frame'[m] = frame'[k] => From(TextOf(got'[k]), m) = gave'[m]
        BY DEF EventsMerged
      <3>1. CASE k = c
        <4>1. \A m \in Nodes : frame[m] = frame[Server] => From(text, m) = gave[m]
          BY <1>2, <2>4 DEF EventsMerged, text
        <4> QED
          BY <1>1, <2>2, <2>3, <3>1, <4>1
      <3>2. CASE k # c
        BY <1>1, <2>2, <3>2 DEF EventsMerged
      <3> QED
        BY <3>1, <3>2
    <2> QED
      BY <2>6, <2>7, <2>8, <2>9, <2>10, <2>11, <2>12
  <1> QED
    BY <1>1, <1>3, <1>4

\* What a client has given is a list that the server can read back and merge.
LEMMA GivenText ==
    ASSUME IInv, NEW c \in Clients, pc[c] = "awaitEvents"
    PROVE  LET list == gave[c]
               q    == FromSerialized(list)
           IN  /\ list \in EventLists /\ InTimeOrder(list) /\ Len(list) \in 1..2
               /\ list \in Seq(Texts(Nodes))
               /\ \A i \in DOMAIN list : list[i].item.id[1] = c
               /\ IsQueue(q, Items) /\ InOrder(q) = list
               /\ Cardinality(DOMAIN q) = Len(list)
  <1> DEFINE list == gave[c]
  <1>1. IsGiven(c, list)
    BY DEF IInv, EventsInv, GaveInv, Nodes, BeforeGiving
  <1> HIDE DEF list
  <1>2. list \in Seq(Texts({c})) /\ Len(list) \in 1..2 /\ InTimeOrder(list)
    BY <1>1 DEF IsGiven
  <1>3. \A i \in DOMAIN list : list[i].item.id[1] = c
    <2>1. \A i \in DOMAIN list : list[i] \in Texts({c})
      BY <1>2
    <2> QED
      BY <2>1 DEF Texts
  <1>4. list \in Seq(Texts(Nodes)) /\ list \in EventLists /\ list \in Seq(EntriesOf(Items))
    <2>1. {c} \in SUBSET Nodes
      BY DEF Nodes
    <2> QED
      BY <1>2, <2>1, TextTypes
  <1>5. /\ IsQueue(FromSerialized(list), Items)
        /\ Contiguous(FromSerialized(list))
        /\ InOrder(FromSerialized(list)) = list
        /\ Cardinality(DOMAIN FromSerialized(list)) = Len(list)
    BY <1>2, <1>4, FromSerializedInOrder
  <1> QED
    BY <1>2, <1>3, <1>4, <1>5 DEF list

\* The server's list after one more client: what it had of the others, and the events of
\* that client as it gave them.
LEMMA Gathers ==
    ASSUME IInv, NEW s \in Clients, pc[s] = "awaitEvents", pc[Server] = "gatherEvents",
           s \notin Merged
    PROVE  LET q    == AddQueue(queue[Server], FromSerialized(gave[s]))
               list == TextOf(InOrder(q))
           IN  /\ IsQueue(q, Items) /\ Contiguous(q)
               /\ DOMAIN q \subseteq Times \X (0..(2 * numClients + 1))
               /\ Cardinality(DOMAIN q) <= 2 * (turn + 1)
               /\ From(list, s) = gave[s]
               /\ \A m \in Nodes \ {s} : From(list, m) = From(ServersList, m)
  <1> DEFINE old  == queue[Server]
             had  == InOrder(old)
             new  == gave[s]
             more == FromSerialized(new)
             q    == AddQueue(old, more)
             M    == 2 * numClients + 2
  <1>1. /\ new \in EventLists /\ InTimeOrder(new) /\ Len(new) \in 1..2
        /\ new \in Seq(Texts(Nodes))
        /\ \A i \in DOMAIN new : new[i].item.id[1] = s
        /\ IsQueue(more, Items) /\ InOrder(more) = new
        /\ Cardinality(DOMAIN more) = Len(new)
    BY GivenText
  <1>2. /\ IsQueue(old, Items) /\ Contiguous(old) /\ DOMAIN old \subseteq Times \X (0..(M - 1))
        /\ Cardinality(DOMAIN old) <= 2 * turn /\ turn \in 1..numClients
        /\ numClients \in Nat
        /\ \A m \in Nodes : From(TextOf(had), m) = IF m \in Merged THEN gave[m] ELSE <<>>
    <2>1. M - 1 = 2 * numClients + 1
      BY ClientCount
    <2>2. IsQueue(old, Items) /\ Contiguous(old) /\ DOMAIN old \subseteq Times \X (0..(2 * numClients + 1))
      BY DEF IInv, EventsInv, QueuesInv, Nodes
    <2>3. \A m \in Nodes : From(TextOf(had), m) = IF m \in Merged THEN gave[m] ELSE <<>>
      BY DEF IInv, EventsInv, MergedInv, ServersList
    <2>4. Cardinality(DOMAIN old) <= 2 * turn
      BY DEF IInv, EventsInv, MergedInv, At
    <2> QED
      BY <2>1, <2>2, <2>3, <2>4, ClientCount DEF IInv, ControlInv, SocketsInv
  <1> HIDE DEF old, new, M
  <1>3. had \in EventLists /\ InTimeOrder(had)
    BY <1>2, QueueShows
  <1> HIDE DEF more
  <1>4. /\ IsQueue(q, Items)
        /\ Cardinality(DOMAIN q) = Cardinality(DOMAIN old) + Cardinality(DOMAIN more)
        /\ Contiguous(old) => Contiguous(q) /\ InOrder(q) = Merge(InOrder(old), InOrder(more))
    BY <1>1, <1>2, AddQueueInOrder
  <1>5. Contiguous(q) /\ InOrder(q) = Merge(had, new)
    BY <1>1, <1>2, <1>4
  <1> HIDE DEF had
  <1>6. Cardinality(DOMAIN q) <= 2 * (turn + 1) /\ Cardinality(DOMAIN old) \in Nat
    <2>1. Cardinality(DOMAIN old) \in Nat
      BY <1>2, InOrderType
    <2> QED
      BY <1>1, <1>2, <1>4, <2>1
  <1>7. DOMAIN q \subseteq Times \X (0..(M - 1))
    <2>1. new \in Seq(EntriesOf(Items))
      BY <1>1, TextTypes
    <2>2. \A i \in 1..Len(new) : new[i].time \in Times
      <3>1. \A i \in 1..Len(new) : new[i] \in Entries
        BY <1>1 DEF EventLists
      <3> QED
        BY <3>1 DEF Entries
    <2>3. Cardinality(DOMAIN old) + Len(new) <= M /\ M \in Nat
      BY <1>1, <1>2, <1>6 DEF M
    <2>4. DOMAIN PushAll(old, new) \subseteq Times \X (0..(M - 1))
      BY <1>2, <2>1, <2>2, <2>3, PushAllKeys
    <2>5. q = PushAll(old, new)
      BY <1>1 DEF AddQueue
    <2> QED
      BY <2>4, <2>5
  <1>8. M - 1 = 2 * numClients + 1
    BY <1>2 DEF M
  <1>9. /\ had \in Seq(Entries) /\ new \in Seq(Entries) /\ Timed(Entries)
        /\ Merge(had, new) \in EventLists
    <2>1. had \in Seq(Entries) /\ new \in Seq(Entries) /\ Timed(Entries)
      BY <1>1, <1>3, TextTypes DEF EventLists
    <2> QED
      BY <1>3, <2>1, MergeType DEF EventLists
  <1>10. From(had, s) = <<>>
    <2>1. From(TextOf(had), s) = <<>> /\ s \in Nodes
      BY <1>2 DEF Nodes
    <2>2. From(TextOf(had), s) = TextOf(From(had, s)) /\ From(had, s) \in EventLists
      BY <1>3, TextOfFrom
    <2> DEFINE none == From(had, s)
    <2>3. Len(TextOf(none)) = Len(none) /\ none \in EventLists
      BY <2>2, TextOfEvents
    <2>4. Len(none) = 0
      BY <2>1, <2>2, <2>3
    <2> QED
      BY <2>3, <2>4 DEF EventLists
  <1>11. From(Merge(had, new), s) = new
    BY <1>1, <1>3, <1>9, <1>10, MergeFromOwn
  <1>12. ASSUME NEW m \in Nodes \ {s} PROVE From(Merge(had, new), m) = From(had, m)
    BY <1>1, <1>3, <1>9, MergeFromOthers
  <1>13. From(TextOf(Merge(had, new)), s) = new
    BY <1>1, <1>9, <1>11, TextOfFrom, TextOfTexts
  <1>14. ASSUME NEW m \in Nodes \ {s}
         PROVE  From(TextOf(Merge(had, new)), m) = From(TextOf(had), m)
    BY <1>3, <1>9, <1>12, TextOfFrom
  <1> QED
    BY <1>4, <1>5, <1>6, <1>7, <1>8, <1>13, <1>14 DEF ServersList, had, new, old, more

\* The server takes a client's events, or a request.
LEMMA ServerReceivesEvents ==
    ASSUME IInv, ServerReceives PROVE EventsInv'
  <1> USE DEF IInv, EventsInv
  <1>0. PICK s : s = sockets[turn]
    OBVIOUS
  <1>1. /\ pc[Server] \in Loops /\ s \in Clients
        /\ NextTurn(After[pc[Server]].point)
        /\ UNCHANGED <<frame, shutdown, backlog, sockets, down, gave, got>>
        /\ \/ /\ pc[Server] = "gatherEvents" /\ pc[s] = "awaitEvents"
              /\ queue' = [queue EXCEPT ![Server] = AddQueue(@, FromSerialized(gave[s]))]
           \/ /\ pc[Server] = "gatherRequests" /\ pc[s] = "awaitNow"
              /\ UNCHANGED queue
    BY <1>0, ServerReceivesEffect
  <1>2. /\ \A c \in Clients : pc'[c] = pc[c]
        /\ pc'[Server] = IF LastTurn THEN After[pc[Server]].point ELSE pc[Server]
        /\ turn' = IF LastTurn THEN 1 ELSE turn + 1
        /\ DOMAIN pc' = Nodes
        /\ Handled' = IF LastTurn THEN {} ELSE Handled \cup {s}
    <2>1. Handled' = IF LastTurn THEN {} ELSE Handled \cup {sockets[turn]}
      BY <1>1, TurnTaken DEF ControlInv, startVars
    <2>2. /\ \A c \in Clients : pc'[c] = pc[c]
          /\ pc'[Server] = IF LastTurn THEN After[pc[Server]].point ELSE pc[Server]
          /\ turn' = IF LastTurn THEN 1 ELSE turn + 1
          /\ DOMAIN pc' = Nodes
      BY <1>1, TurnTaken DEF ControlInv, startVars
    <2> QED
      BY <1>0, <2>1, <2>2
  <1>3. /\ Clients = Nodes \ {Server} /\ Server \in Nodes
        /\ s \notin Handled /\ turn \in 1..Len(sockets) /\ Len(sockets) = numClients
        /\ numClients \in Nat
        /\ LastTurn => \A c \in Clients : c = s \/ c \in Handled
    BY <1>0, <1>1, TurnOf, ClientCount DEF ControlInv, Nodes
  <1>4. SameEvents' /\ EventsMerged'
    BY <1>1 DEF SameEvents, EventsMerged
  <1>5. GaveInv'
    <2>1. pc'[Server] \in BeforeGiving <=> pc[Server] \in BeforeGiving
      BY <1>1, <1>2 DEF After, BeforeGiving
    <2> QED
      BY <1>1, <1>2, <1>3, <2>1 DEF GaveInv, IsGiven
  <1>6. OwnInv'
    <2>1. \A c \in Clients : queue'[c] = queue[c]
      BY <1>1, <1>3 DEF ControlInv, TypeInv
    <2> QED
      BY <1>1, <1>2, <2>1 DEF OwnInv, At
  <1>7. GotInv'
    <2>1. ASSUME NEW m \in Clients
          PROVE  (got'[m] # <<>>) <=> pc'[m] \in Processing
      BY <1>1, <1>2, <1>3 DEF GotInv, At
    <2>2. CASE pc[Server] = "gatherEvents"
      <3>1. got'[Server] = <<>> /\ pc'[Server] \in {"gatherEvents", "sendEvents"}
            /\ (pc'[Server] = "sendEvents" => turn' = 1)
        BY <1>1, <1>2, <1>3, <2>2 DEF GotInv, At, After, Processing
      <3>2. (got'[Server] # <<>>) <=> \/ pc'[Server] \in Processing
                                      \/ pc'[Server] = "sendEvents" /\ turn' > 1
        BY <3>1 DEF Processing
      <3> QED
        BY <1>1, <1>3, <2>1, <3>1, <3>2 DEF GotInv, At
    <2>3. CASE pc[Server] = "gatherRequests"
      <3>1. got'[Server] # <<>> /\ pc'[Server] \in {"gatherRequests", "sendNow"}
        BY <1>1, <1>2, <1>3, <2>3 DEF GotInv, At, After, Processing
      <3>2. (got'[Server] # <<>>) <=> \/ pc'[Server] \in Processing
                                      \/ pc'[Server] = "sendEvents" /\ turn' > 1
        BY <3>1 DEF Processing
      <3> QED
        BY <1>1, <1>3, <2>1, <3>1, <3>2 DEF GotInv, At
    <2> QED
      BY <1>1, <2>2, <2>3
  <1>8. CASE pc[Server] = "gatherRequests"
    <2>1. QueuesInv'
      BY <1>1, <1>8 DEF QueuesInv
    <2>2. MergedInv'
      BY <1>2, <1>8 DEF MergedInv, After
    <2> QED
      BY <1>4, <1>5, <1>6, <1>7, <2>1, <2>2
  <1>9. CASE pc[Server] = "gatherEvents"
    <2> DEFINE q == AddQueue(queue[Server], FromSerialized(gave[s]))
    <2>1. queue'[Server] = q /\ \A c \in Clients : queue'[c] = queue[c]
      BY <1>1, <1>3, <1>9 DEF ControlInv, TypeInv
    <2>2. Merged = Handled \cup {Server} /\ s \notin Merged
      BY <1>1, <1>3, <1>9 DEF Merged, At
    <2>3. /\ IsQueue(q, Items) /\ Contiguous(q)
          /\ DOMAIN q \subseteq Times \X (0..(2 * numClients + 1))
          /\ Cardinality(DOMAIN q) <= 2 * (turn + 1)
          /\ From(TextOf(InOrder(q)), s) = gave[s]
          /\ \A m \in Nodes \ {s} : From(TextOf(InOrder(q)), m) = From(ServersList, m)
      BY <1>1, <1>9, <2>2, Gathers
    <2> HIDE DEF q
    <2>4. QueuesInv'
      BY <1>3, <2>1, <2>3 DEF QueuesInv
    <2>5. Merged' \cap Nodes = (Merged \cup {s}) \cap Nodes
      <3>1. CASE LastTurn
        <4>1. pc'[Server] = "sendEvents"
          BY <1>2, <1>9, <3>1 DEF After
        <4>2. Merged' = Nodes
          BY <4>1 DEF Merged, At
        <4> QED
          BY <1>3, <2>2, <3>1, <4>2
      <3>2. CASE ~LastTurn
        <4>1. Merged' = Handled' \cup {Server}
          BY <1>2, <1>9, <3>2 DEF Merged, At
        <4> QED
          BY <1>2, <2>2, <3>2, <4>1
      <3> QED
        BY <3>1, <3>2
    <2>6. \A m \in Nodes : From(ServersList, m) = IF m \in Merged THEN gave[m] ELSE <<>>
      BY <1>9 DEF MergedInv
    <2>7. ServersList' = TextOf(InOrder(q))
      BY <2>1 DEF ServersList
    <2>8. \A m \in Nodes : From(ServersList', m) = IF m \in Merged' THEN gave'[m] ELSE <<>>
      BY <1>1, <2>3, <2>5, <2>6, <2>7
    <2>9. Cardinality(DOMAIN queue'[Server]) <=
              IF pc'[Server] = "gatherEvents" THEN 2 * turn' ELSE 2 * numClients + 2
      <3>1. CASE LastTurn
        <4>1. pc'[Server] = "sendEvents" /\ turn = numClients
          BY <1>2, <1>3, <1>9, <3>1 DEF After, LastTurn
        <4>2. 2 * (turn + 1) = 2 * numClients + 2
          BY <1>3, <4>1
        <4> QED
          BY <2>1, <2>3, <4>1, <4>2
      <3>2. CASE ~LastTurn
        BY <1>2, <1>9, <2>1, <2>3, <3>2
      <3> QED
        BY <3>1, <3>2
    <2>10. MergedInv'
      BY <2>8, <2>9 DEF MergedInv, At
    <2> QED
      BY <1>4, <1>5, <1>6, <1>7, <2>4, <2>10
  <1> QED
    BY <1>1, <1>8, <1>9

\* The server sends its list, or the release.
LEMMA ServerSendsEvents ==
    ASSUME IInv, ServerSends PROVE EventsInv'
  <1> USE DEF IInv, EventsInv
  <1> DEFINE list == InOrder(queue[Server])
  <1>0. PICK s : s = sockets[turn]
    OBVIOUS
  <1>1. /\ pc[Server] \in Loops /\ s \in Clients
        /\ NextTurn(After[pc[Server]].point)
        /\ UNCHANGED <<frame, shutdown, queue, backlog, sockets, gave>>
        /\ \/ /\ pc[Server] = "sendEvents"
              /\ got' = [got EXCEPT ![Server] = list]
              /\ turn > 1 => got' = got
              /\ turn = 1 => got[Server] = <<>> /\ Handled = {}
           \/ pc[Server] = "sendNow" /\ UNCHANGED got
    BY <1>0, ServerSendsEffect
  <1>2. /\ \A c \in Clients : pc'[c] = pc[c]
        /\ pc'[Server] = IF LastTurn THEN After[pc[Server]].point ELSE pc[Server]
        /\ turn' = IF LastTurn THEN 1 ELSE turn + 1
    BY <1>1, TurnTaken DEF ControlInv, startVars
  <1>3. /\ Clients = Nodes \ {Server} /\ Server \in Nodes /\ turn \in Nat \ {0}
        /\ numClients \in Nat \ {0}
    BY ClientCount DEF ControlInv, SocketsInv, Nodes
  <1>4. QueuesInv'
    BY <1>1 DEF QueuesInv
  <1>5. GaveInv'
    <2>1. pc'[Server] \in BeforeGiving <=> pc[Server] \in BeforeGiving
      BY <1>1, <1>2 DEF After, BeforeGiving
    <2> QED
      BY <1>1, <1>2, <1>3, <2>1 DEF GaveInv, IsGiven
  <1>6. OwnInv'
    BY <1>1, <1>2 DEF OwnInv, At
  <1>7. CASE pc[Server] = "sendNow"
    <2>1. pc'[Server] \in {"sendNow", "display"}
      BY <1>2, <1>7 DEF After
    <2>2. MergedInv'
      BY <2>1 DEF MergedInv
    <2>3. \A n \in Nodes : pc'[n] \in Processing <=> pc[n] \in Processing
      BY <1>2, <1>3, <1>7, <2>1 DEF Processing
    <2>4. GotInv'
      BY <1>1, <1>7, <2>1, <2>3 DEF GotInv, At
    <2>5. SameEvents' /\ EventsMerged'
      BY <1>1, <1>7 DEF SameEvents, EventsMerged
    <2> QED
      BY <1>4, <1>5, <1>6, <2>2, <2>4, <2>5
  <1>8. CASE pc[Server] = "sendEvents"
    <2>1. pc'[Server] \in {"sendEvents", "dispatch"} /\ (pc'[Server] = "sendEvents" => turn' > 1)
      BY <1>2, <1>3, <1>8 DEF After
    <2>2. got'[Server] = list /\ \A c \in Clients : got'[c] = got[c]
      BY <1>1, <1>3, <1>8 DEF ControlInv, TypeInv
    <2>3. /\ \A m \in Nodes : From(TextOf(list), m) = gave[m]
          /\ Cardinality(DOMAIN queue[Server]) <= 2 * numClients + 2
      BY <1>8 DEF MergedInv, Merged, ServersList, At
    <2>4. /\ list \in EventLists /\ InTimeOrder(list) /\ TextOf(list) \in Seq(Texts(Nodes))
          /\ Len(list) = Cardinality(DOMAIN queue[Server])
          /\ Len(TextOf(list)) = Cardinality(DOMAIN queue[Server])
      BY QueueShows DEF QueuesInv, Nodes
    <2>5. list # <<>>
      <3>1. gave[Server] # <<>>
        <4>1. IsGiven(Server, gave[Server])
          BY <1>3, <1>8 DEF GaveInv, BeforeGiving
        <4>2. Len(gave[Server]) \in 1..2
          BY <4>1 DEF IsGiven
        <4>3. \A l : Len(l) \in 1..2 => l # <<>>
          OBVIOUS
        <4> QED
          BY <4>2, <4>3
      <3>2. From(TextOf(list), Server) # <<>>
        BY <1>3, <2>3, <3>1
      <3>3. TextOf(list) # <<>>
        BY <3>2, FromEmpty
      <3> HIDE DEF list
      <3>4. Len(TextOf(list)) # 0
        BY <2>4, <3>3
      <3>5. Len(list) # 0
        BY <2>4, <3>4
      <3> QED
        BY <3>5
    <2> HIDE DEF list
    <2>6. MergedInv'
      <3>1. ServersList' = TextOf(list) /\ Merged' = Nodes
        BY <1>1, <2>1 DEF ServersList, Merged, At, list
      <3> QED
        BY <1>1, <2>1, <2>3, <3>1 DEF MergedInv, At
    <2>7. GotInv'
      <3>1. ASSUME NEW m \in Clients
            PROVE  (got'[m] # <<>>) <=> pc'[m] \in Processing
        BY <1>2, <1>3, <2>2 DEF GotInv, At
      <3>2. (got'[Server] # <<>>) <=> \/ pc'[Server] \in Processing
                                      \/ pc'[Server] = "sendEvents" /\ turn' > 1
        BY <2>1, <2>2, <2>5 DEF Processing
      <3>3. Len(got'[Server]) <= 2 * numClients + 2
        BY <2>2, <2>3, <2>4
      <3>4. got'[Server] = InOrder(queue'[Server])
        BY <1>1, <2>2 DEF list
      <3> QED
        BY <1>3, <3>1, <3>2, <3>3, <3>4 DEF GotInv, At
    <2>8. ASSUME turn = 1
          PROVE  \A c \in Clients : got[c] = <<>> /\ frame[c] = frame[Server]
      <3>1. \A c \in Clients : Stage(c) = "heard" /\ Handshake(c)
        BY <1>1, <1>8, <2>8, Stages DEF ControlInv, HandshakeInv
      <3> QED
        BY <1>3, <3>1 DEF Handshake, At, GotInv, Processing
    <2>9. SameEvents'
      <3>1. CASE turn > 1
        BY <1>1, <1>8, <3>1 DEF SameEvents
      <3>2. CASE turn = 1
        BY <1>1, <1>3, <2>2, <2>8, <3>2 DEF SameEvents
      <3> QED
        BY <1>3, <3>1, <3>2
    <2>10. EventsMerged'
      <3> SUFFICES ASSUME NEW k \in Nodes, got'[k] # <<>>
                   PROVE  /\ InTimeOrder(got'[k])
                          /\ \A m \in Nodes : frame'[m] = frame'[k] => From(TextOf(got'[k]), m) = gave'[m]
        BY DEF EventsMerged
      <3>1. CASE k = Server
        BY <1>1, <2>2, <2>3, <2>4, <3>1
      <3>2. CASE k # Server
        BY <1>1, <1>3, <2>2, <3>2 DEF EventsMerged
      <3> QED
        BY <3>1, <3>2
    <2> QED
      BY <1>4, <1>5, <1>6, <2>6, <2>7, <2>9, <2>10
  <1> QED
    BY <1>1, <1>7, <1>8

\* The other steps leave the events alone.
LEMMA OtherEvents ==
    ASSUME IInv,
           \/ Listen \/ Accept
           \/ \E n \in Nodes : Render(n) \/ Close(n)
           \/ \E c \in Clients : Connect(c) \/ ClientSends(c) \/ ConnectionReset(c)
    PROVE  EventsInv'
  <1> USE DEF IInv
  <1>0. DOMAIN pc = Nodes /\ Clients = Nodes \ {Server} /\ Server \in Nodes /\ TypeInv
    BY ClientCount DEF ControlInv, TypeInv, Nodes
  <1>1. ASSUME NEW n \in Nodes, NEW point, Goto(n, point), pc[n] # point, Alike(pc[n], point),
               UNCHANGED <<frame, queue, gave, got, turn>>, point # "sendEvents",
               n # Server => UNCHANGED sockets,
               n = Server => {pc[n], point} \cap {"gatherEvents", "sendEvents", "dispatch"} = {}
        PROVE  EventsInv'
    <2>1. pc'[n] = point /\ \A m \in Nodes \ {n} : pc'[m] = pc[m]
      BY <1>0, <1>1, PointReached
    <2>2. \A m \in Nodes : Alike(pc[m], pc'[m])
      BY <1>1, <2>1 DEF Alike
    <2>3. \A c \in Clients : pc'[c] = "sendEvents" => pc[c] = "sendEvents"
      BY <1>0, <1>1, <2>1
    <2>4. \/ pc'[Server] = pc[Server] /\ sockets' = sockets
          \/ {pc[Server], pc'[Server]} \cap {"gatherEvents", "sendEvents", "dispatch"} = {}
      BY <1>0, <1>1, <2>1
    <2> QED
      BY <1>0, <1>1, <2>2, <2>3, <2>4, PointsOnly
  <1>2. CASE Listen
    BY <1>0, <1>1, <1>2 DEF Listen, At, Alike, BeforeGiving, Processing, mainVars
  <1>3. CASE Accept
    <2>1. pc[Server] = "accept" /\ pc'[Server] \in {"accept", "collect"}
          /\ \A c \in Clients : pc'[c] = pc[c]
      BY <1>0, <1>3 DEF Accept, At
    <2>2. \A m \in Nodes : Alike(pc[m], pc'[m])
      BY <1>0, <2>1 DEF Alike, BeforeGiving, Processing
    <2>3. UNCHANGED <<frame, queue, gave, got, turn>>
      BY <1>3 DEF Accept, mainVars
    <2> QED
      BY <1>0, <2>1, <2>2, <2>3, PointsOnly
  <1>4. ASSUME NEW n \in Nodes, Render(n) PROVE EventsInv'
    <2>1. /\ pc[n] = "render" /\ Goto(n, SyncPoint2(n))
          /\ UNCHANGED <<frame, queue, gave, got, turn, sockets>>
      BY <1>4 DEF Render, At, startVars
    <2>2. SyncPoint2(n) \in {"gatherRequests", "sendRequest"}
      BY DEF SyncPoint2
    <2>3. Alike(pc[n], SyncPoint2(n))
      BY <2>1, <2>2 DEF Alike, BeforeGiving, Processing
    <2> QED
      BY <1>1, <2>1, <2>2, <2>3
  <1>5. ASSUME NEW n \in Nodes, Close(n) PROVE EventsInv'
    <2>1. /\ pc[n] = "close" /\ Goto(n, "closed")
          /\ UNCHANGED <<frame, queue, gave, got, turn, sockets>>
      BY <1>5 DEF Close, At, startVars, mainVars
    <2>2. Alike("close", "closed")
      BY DEF Alike, BeforeGiving, Processing
    <2> QED
      BY <1>1, <2>1, <2>2
  <1>6. ASSUME NEW c \in Clients, Connect(c) PROVE EventsInv'
    <2>1. /\ pc[c] = "connect" /\ Goto(c, "collect")
          /\ UNCHANGED <<frame, queue, gave, got, turn, sockets>>
      BY <1>6 DEF Connect, At, mainVars
    <2>2. Alike("connect", "collect")
      BY DEF Alike, BeforeGiving, Processing
    <2> QED
      BY <1>0, <1>1, <2>1, <2>2
  <1>7. ASSUME NEW c \in Clients, ClientSends(c) PROVE EventsInv'
    <2>1. /\ \/ pc[c] = "sendEvents" /\ Goto(c, "awaitEvents")
             \/ pc[c] = "sendRequest" /\ Goto(c, "awaitNow")
          /\ UNCHANGED <<frame, queue, gave, got, turn, sockets>>
      BY <1>7 DEF ClientSends, At, mainVars, startVars
    <2>2. Alike("sendEvents", "awaitEvents") /\ Alike("sendRequest", "awaitNow")
      BY DEF Alike, BeforeGiving, Processing
    <2> QED
      BY <1>0, <1>1, <2>1, <2>2
  <1>8. ASSUME NEW c \in Clients, ConnectionReset(c) PROVE EventsInv'
    <2>1. /\ Goto(c, "exited") /\ down[c] = <<>> /\ pc[c] \in {"awaitEvents", "awaitNow"}
          /\ pc[Server] \in {"closed", "exited"}
          /\ UNCHANGED <<frame, queue, gave, got, turn, sockets>>
      BY <1>0, <1>8 DEF ConnectionReset, WaitsForGone, Gone, ClientExpects, At,
                        startVars, netVars, mainVars
    <2>2. Handshake(c) /\ Stage(c) = "begun"
      BY <2>1, Stages DEF ControlInv, HandshakeInv, Loops
    <2>3. pc[c] = "awaitEvents"
      BY <2>1, <2>2 DEF Handshake, Begins, Ends, IsTold, At
    <2>4. Alike("awaitEvents", "exited")
      BY DEF Alike, BeforeGiving, Processing
    <2> QED
      BY <1>0, <1>1, <2>1, <2>3, <2>4
  <1> QED
    BY <1>2, <1>3, <1>4, <1>5, <1>6, <1>7, <1>8

-----------------------------------------------------------------------------
(* The last frame.                                                         *)

\* Whoever quits on the server is seen by it when it processes the list.
LEMMA QuitIsSeen ==
    ASSUME IInv, pc[Server] = "dispatch", NEW i \in 1..Len(gave[Server]),
           IsQuit(gave[Server][i].item)
    PROVE  QuitSeen(Server)
  <1> DEFINE q    == queue[Server]
             list == InOrder(q)
  <1>1. IsQueue(q, Items) /\ DOMAIN q \subseteq Times \X (0..(2 * numClients + 1))
    BY DEF IInv, EventsInv, QueuesInv, Nodes
  <1>2. list \in EventLists
    BY <1>1, QueueShows
  <1>3. From(TextOf(list), Server) = gave[Server]
    BY DEF IInv, EventsInv, MergedInv, Merged, ServersList, At, Nodes
  <1>4. \A j \in 1..Len(list) : \E k \in DOMAIN q : list[j] = Entry(k[1], q[k])
    BY <1>1, InOrderType
  <1> HIDE DEF list, q
  <1>5. i \in 1..Len(From(TextOf(list), Server))
    BY <1>3
  <1>6. PICK j \in 1..Len(list) : From(TextOf(list), Server)[i].item.id = list[j].item.id
    BY <1>2, <1>5, FromShows
  <1>7. PICK k \in DOMAIN q : list[j].item = q[k]
    BY <1>4, EntryFields
  <1>8. IsQuit(q[k])
    BY <1>3, <1>6, <1>7 DEF IsQuit
  <1> QED
    BY <1>8 DEF QuitSeen, q

\* The server leaves the main loop at the end of the frame in which somebody quits.
LEMMA LastFrameStep ==
    ASSUME IInv, ControlInv', Next PROVE LastFrameInv'
  <1> USE DEF IInv
  <1>0. /\ DOMAIN pc = Nodes /\ Clients = Nodes \ {Server} /\ Server \in Nodes /\ TypeInv
        /\ frame \in [Nodes -> Nat] /\ shutdown \in [Nodes -> BOOLEAN] /\ MaxFrames \in Nat \ {0}
    BY ClientCount DEF ControlInv, TypeInv, Nodes
  \* A step that leaves the server where it is, or on its way, in the same frame.
  <1>1. ASSUME frame'[Server] = frame[Server],
               gave'[Server] = gave[Server] \/ pc'[Server] \notin {"gatherEvents", "sendEvents", "dispatch"},
               shutdown[Server] => shutdown'[Server],
               \/ pc'[Server] = pc[Server]
               \/ /\ pc'[Server] \in {"gatherEvents", "sendEvents", "dispatch"}
                  /\ pc[Server] \in {"gatherEvents", "sendEvents", "dispatch"}
               \/ /\ pc'[Server] \in {"render", "gatherRequests", "sendNow", "display"}
                  /\ pc[Server] \in {"render", "gatherRequests", "sendNow", "display"}
               \/ pc'[Server] \in {"accept", "collect"} /\ pc[Server] \notin {"close", "closed"}
               \/ pc'[Server] \in {"closed"}
        PROVE  LastFrameInv'
    BY <1>1 DEF LastFrameInv
  \* Steps of the clients.
  <1>2. ASSUME NEW c \in Clients,
               Collect(c) \/ Dispatch(c) \/ Render(c) \/ Display(c) \/ Close(c)
                   \/ Connect(c) \/ ClientSends(c) \/ ClientReceives(c) \/ ConnectionReset(c)
        PROVE  LastFrameInv'
    <2>0. c \in Nodes /\ c # Server
      BY <1>0
    <2>1. frame'[Server] = frame[Server]
      BY <1>0, <1>2, <2>0 DEF Collect, Dispatch, Render, Display, Close, Connect, ClientSends,
                        ClientReceives, ConnectionReset, mainVars
    <2>2. shutdown'[Server] = shutdown[Server]
      <3>1. CASE Render(c)
        <4>1. PICK quit \in {FALSE, LocalShutdown} : shutdown' = [shutdown EXCEPT ![c] = @ \/ quit]
          BY <3>1 DEF Render
        <4> QED
          BY <1>0, <2>0, <4>1
      <3> QED
        BY <1>0, <1>2, <2>0, <3>1 DEF Collect, Dispatch, Display, Close, Connect, ClientSends,
                        ClientReceives, ConnectionReset, mainVars
    <2>3. gave'[Server] = gave[Server]
      <3>1. CASE Collect(c)
        <4>1. PICK q : gave' = [gave EXCEPT ![c] = Serialize(q)]
          BY <2>0, <3>1, CollectEffect
        <4> QED
          BY <1>0, <2>0, <4>1 DEF TypeInv
      <3> QED
        BY <1>0, <1>2, <2>0, <3>1 DEF Dispatch, Render, Display, Close, Connect, ClientSends,
                        ClientReceives, ConnectionReset, mainVars, TypeInv
    <2>4. pc'[Server] = pc[Server]
      BY <1>0, <1>2, <2>0 DEF Collect, Dispatch, Render, Display, Close, Connect, ClientSends,
                        ClientReceives, ConnectionReset, Goto
    <2> QED
      BY <1>1, <2>1, <2>2, <2>3, <2>4
  \* Steps of the server.
  <1>3. CASE Listen
    BY <1>0, <1>1, <1>3 DEF Listen, At, Goto, mainVars
  <1>4. CASE Accept
    BY <1>0, <1>1, <1>4 DEF Accept, At, mainVars
  <1>5. CASE ServerReceives \/ ServerSends
    <2>1. /\ pc[Server] \in Loops /\ NextTurn(After[pc[Server]].point)
          /\ UNCHANGED <<frame, shutdown, gave, backlog, sockets>>
      BY <1>5, ServerReceivesEffect, ServerSendsEffect DEF EventsInv
    <2>2. pc'[Server] = IF LastTurn THEN After[pc[Server]].point ELSE pc[Server]
      BY <2>1, TurnTaken DEF ControlInv, startVars
    <2>3. \/ pc'[Server] \in {"gatherEvents", "sendEvents", "dispatch"}
             /\ pc[Server] \in {"gatherEvents", "sendEvents", "dispatch"}
          \/ pc'[Server] \in {"render", "gatherRequests", "sendNow", "display"}
             /\ pc[Server] \in {"render", "gatherRequests", "sendNow", "display"}
      BY <2>1, <2>2 DEF Loops, After
    <2> QED
      BY <1>1, <2>1, <2>3
  <1>6. CASE Collect(Server)
    <2>1. PICK q : /\ Own(q, Server)
                   /\ gave' = [gave EXCEPT ![Server] = Serialize(q)]
                   /\ frame[Server] = MaxFrames - 1 => \E k \in DOMAIN q : IsQuit(q[k])
      BY <1>0, <1>6, CollectEffect
    <2>2. /\ (\E k \in DOMAIN q : IsQuit(q[k])) =>
                \E i \in 1..Len(Serialize(q)) : IsQuit(Serialize(q)[i].item)
          /\ gave'[Server] = Serialize(q)
      BY <1>0, <2>1, OwnIsGiven DEF TypeInv
    <2>3. pc[Server] = "collect" /\ pc'[Server] = "gatherEvents" /\ frame' = frame
      BY <1>0, <1>6 DEF Collect, At, Goto, mainVars, SyncPoint1
    <2> QED
      BY <2>1, <2>2, <2>3 DEF LastFrameInv
  <1>7. CASE Dispatch(Server)
    <2>1. /\ pc[Server] = "dispatch" /\ pc'[Server] = "render" /\ frame' = frame
          /\ shutdown' = [shutdown EXCEPT ![Server] = @ \/ QuitSeen(Server)]
      BY <1>0, <1>7 DEF Dispatch, At, Goto
    <2>2. frame[Server] = MaxFrames - 1 => QuitSeen(Server)
      BY <2>1, QuitIsSeen DEF LastFrameInv
    <2> QED
      BY <1>0, <2>1, <2>2 DEF LastFrameInv
  <1>8. CASE Render(Server)
    <2>1. PICK quit \in {FALSE, LocalShutdown} : shutdown' = [shutdown EXCEPT ![Server] = @ \/ quit]
      BY <1>8 DEF Render
    <2>2. pc[Server] = "render" /\ pc'[Server] = "gatherRequests" /\ frame' = frame
      BY <1>0, <1>8 DEF Render, At, Goto, SyncPoint2
    <2> QED
      BY <1>0, <1>1, <2>1, <2>2
  <1>9. CASE Display(Server)
    <2>1. /\ pc[Server] = "display"
          /\ pc'[Server] = IF shutdown[Server] THEN "close" ELSE "collect"
          /\ frame'[Server] = frame[Server] + 1 /\ shutdown' = shutdown
      BY <1>0, <1>9 DEF Display, At, Goto
    <2>2. frame[Server] < MaxFrames /\ (frame[Server] = MaxFrames - 1 => shutdown[Server])
          /\ frame[Server] \in Nat
      BY <1>0, <2>1 DEF LastFrameInv
    <2> QED
      BY <1>0, <2>1, <2>2 DEF LastFrameInv
  <1>10. CASE Close(Server)
    BY <1>0, <1>1, <1>10 DEF Close, At, Goto, mainVars
  <1>11. CASE UNCHANGED vars
    BY <1>1, <1>11 DEF vars, mainVars
  <1> QED
    BY <1>0, <1>2, <1>3, <1>4, <1>5, <1>6, <1>7, <1>8, <1>9, <1>10, <1>11
       DEF Next, MainStep, ServerStep, ClientStep, ReceiveNothing, Over

-----------------------------------------------------------------------------
(* The invariant.                                                          *)

\* At first nobody has connected, and there are no events.
LEMMA InitInv == Init => IInv
  <1> SUFFICES ASSUME Init PROVE IInv
    OBVIOUS
  <1> USE DEF Init
  <1>1. /\ Clients = Nodes \ {Server} /\ Server \in Nodes /\ numClients \in Nat \ {0}
        /\ pc[Server] = "listen" /\ \A c \in Clients : pc[c] = "connect"
        /\ MaxFrames \in Nat \ {0}
    BY ClientCount DEF Nodes
  <1>2. \A n \in Nodes : queue[n] = EmptyQueue /\ gave[n] = <<>> /\ got[n] = <<>> /\ frame[n] = 0
    OBVIOUS
  <1>3. /\ \A I : IsQueue(EmptyQueue, I)
        /\ Contiguous(EmptyQueue) /\ InOrder(EmptyQueue) = <<>> /\ DOMAIN EmptyQueue = {}
    BY EmptyQueueInOrder DEF EmptyQueue
  <1>4. TypeInv
    <2>1. <<>> \in Seq(Texts(Nodes)) /\ <<>> \in EventLists
      BY EmptySeq DEF EventLists
    <2> QED
      BY <1>1, <2>1 DEF TypeInv, ServerPoints, ClientPoints
  <1>5. SocketsInv
    <2>1. <<>> \in Seq(Clients) /\ DOMAIN <<>> = {}
      BY EmptySeq
    <2> QED
      BY <1>1, <2>1 DEF SocketsInv, At, Loops
  <1>6. HandshakeInv
    <2> SUFFICES ASSUME NEW c \in Clients PROVE Handshake(c)
      BY DEF HandshakeInv
    <2>1. Stage(c) = "begun"
      BY <1>1, Stages DEF Loops
    <2>2. Begins(c) /\ frame[c] = frame[Server]
      BY <1>1, <1>2 DEF Begins, Quiet
    <2> QED
      BY <2>1, <2>2 DEF Handshake
  <1>7. QueuesInv
    BY <1>2, <1>3 DEF QueuesInv
  <1>8. GaveInv /\ MergedInv /\ OwnInv /\ SameEvents /\ EventsMerged
    BY <1>1, <1>2 DEF GaveInv, BeforeGiving, MergedInv, OwnInv, At, SameEvents, EventsMerged
  <1>9. GotInv
    <2>1. Len(<<>>) = 0
      OBVIOUS
    <2> QED
      BY <1>1, <1>2, <2>1 DEF GotInv, Processing, At
  <1>10. LastFrameInv
    BY <1>1, <1>2 DEF LastFrameInv
  <1> QED
    BY <1>4, <1>5, <1>6, <1>7, <1>8, <1>9, <1>10 DEF IInv, ControlInv, EventsInv

\* Every step keeps the control part, for which it needs some of the part on events.
LEMMA ControlStep == ASSUME IInv, [Next]_vars PROVE ControlInv'
  <1>1. ControlInv /\ QueuesInv /\ OwnInv /\ GotInv /\ EventsMerged
    BY DEF IInv, EventsInv
  <1>2. CASE \E n \in Nodes : MainStep(n)
    BY <1>1, <1>2, CollectControl, DispatchControl, RenderControl, DisplayControl, CloseControl
       DEF MainStep
  <1>3. CASE ServerStep
    BY <1>1, <1>3, ListenControl, AcceptControl, ServerReceivesControl, ServerSendsControl
       DEF ServerStep
  <1>4. CASE \E c \in Clients : ClientStep(c) \/ ConnectionReset(c)
    BY <1>1, <1>4, ConnectControl, ClientSendsControl, ClientReceivesControl, ResetControl
       DEF ClientStep
  <1>5. CASE UNCHANGED vars
    <2>1. TypeInv' /\ SocketsInv' /\ Handled' = Handled
      BY <1>1, <1>5 DEF vars, mainVars, startVars, netVars, ControlInv, TypeInv, SocketsInv, At,
                        Handled
    <2>2. \A c \in Clients : Handshake(c)'
      BY <1>1, <1>5, KeepHandshake, KeepStage
         DEF vars, mainVars, startVars, netVars, ControlInv, HandshakeInv, At
    <2> QED
      BY <2>1, <2>2 DEF ControlInv, HandshakeInv
  <1> QED
    BY <1>2, <1>3, <1>4, <1>5 DEF Next, ReceiveNothing, Over

\* And every step keeps the part on events.
LEMMA EventsStep == ASSUME IInv, [Next]_vars PROVE EventsInv'
  <1>1. CASE \E n \in Nodes : MainStep(n)
    BY <1>1, CollectEvents, DispatchEvents, DisplayEvents, OtherEvents DEF MainStep
  <1>2. CASE ServerStep
    BY <1>2, ServerReceivesEvents, ServerSendsEvents, OtherEvents DEF ServerStep
  <1>3. CASE \E c \in Clients : ClientStep(c) \/ ConnectionReset(c)
    BY <1>3, ClientReceivesEvents, OtherEvents DEF ClientStep
  <1>4. CASE UNCHANGED vars
    <2>1. \A n \in Nodes : Alike(pc[n], pc'[n])
      BY <1>4 DEF vars, Alike
    <2>2. UNCHANGED <<pc, frame, queue, gave, got, turn, sockets>>
      BY <1>4 DEF vars, mainVars, startVars
    <2> QED
      BY <2>1, <2>2, PointsOnly DEF IInv, ControlInv
  <1> QED
    BY <1>1, <1>2, <1>3, <1>4 DEF Next, ReceiveNothing, Over

\* The invariant holds in every state of a cluster.
THEOREM Invariance == SafetySpec => []IInv
  <1>1. IInv /\ [Next]_vars => IInv'
    <2> SUFFICES ASSUME IInv, [Next]_vars PROVE IInv'
      OBVIOUS
    <2>1. ControlInv' /\ EventsInv'
      BY ControlStep, EventsStep
    <2>2. LastFrameInv'
      <3>1. CASE Next
        BY <2>1, <3>1, LastFrameStep
      <3>2. CASE UNCHANGED vars
        BY <3>2 DEF IInv, LastFrameInv, vars, mainVars
      <3> QED
        BY <3>1, <3>2
    <2> QED
      BY <2>1, <2>2 DEF IInv
  <1> QED
    BY <1>1, InitInv, PTL DEF SafetySpec

-----------------------------------------------------------------------------
(* What follows from it.                                                   *)

\* Synchronization point 1: the nodes that process the events of the same frame process
\* the same events in the same order.
THEOREM SameForAll == SafetySpec => []SameEvents
  <1>1. IInv => SameEvents
    BY DEF IInv, EventsInv
  <1> QED
    BY <1>1, Invariance, PTL

\* A node processes, in time order, exactly the events that the nodes have collected.
THEOREM AllMerged == SafetySpec => []EventsMerged
  <1>1. IInv => EventsMerged
    BY DEF IInv, EventsInv
  <1> QED
    BY <1>1, Invariance, PTL

\* The message under way is the one its reader waits for, and there is no other: the two
\* synchronization points of all frames stay in step without numbers in their messages.
THEOREM InStep == SafetySpec => []ExpectedOnly
  <1>1. IInv => ExpectedOnly
    <2> SUFFICES ASSUME IInv, NEW c \in Clients
                 PROVE  /\ Len(up[c]) <= 1 /\ Len(down[c]) <= 1
                        /\ ClientExpects(c) # "-" /\ down[c] # <<>> =>
                              Head(down[c]).type = ClientExpects(c)
                        /\ ServerExpects # "-" /\ sockets[turn] = c /\ up[c] # <<>>
                              => Head(up[c]).type = ServerExpects
      BY DEF ExpectedOnly
    <2>1. TypeInv /\ SocketsInv /\ Handshake(c)
      BY DEF IInv, ControlInv, HandshakeInv
    <2>2. Begins(c) \/ Works(c) \/ Ends(c) \/ Quiet(c)
      <3>1. Stage(c) \in {"begun", "heard", "told", "asked", "released"}
        BY DEF Stage
      <3> QED
        BY <2>1, <3>1 DEF Handshake
    <2>3. \A m : Len(<<m>>) = 1 /\ Len(<<>>) = 0 /\ Head(<<m>>) = m
      OBVIOUS
    <2>4. \A type, data : Message(type, data).type = type
      BY DEF Message
    <2>5. Len(up[c]) <= 1 /\ Len(down[c]) <= 1
      <3>1. \E m : up[c] \in {<<>>, <<m>>}
        BY <2>2 DEF Begins, Works, Ends, Quiet, Says, IsTold
      <3>2. \E m : down[c] \in {<<>>, <<m>>}
        BY <2>2 DEF Begins, Works, Ends, Quiet, Says, IsTold
      <3>3. Len(up[c]) \in {0, 1} /\ Len(down[c]) \in {0, 1}
        BY <3>1, <3>2, <2>3, Zenon
      <3>4. \A x \in {0, 1} : x <= 1
        OBVIOUS
      <3> QED
        BY <3>3, <3>4, Zenon
    <2>6. ClientExpects(c) # "-" /\ down[c] # <<>> => Head(down[c]).type = ClientExpects(c)
      BY <2>2, <2>3, <2>4 DEF Begins, Works, Ends, Quiet, Says, IsTold, ClientExpects, At
    <2>7. ASSUME ServerExpects # "-", sockets[turn] = c, up[c] # <<>>
          PROVE  Head(up[c]).type = ServerExpects
      <3>1. \/ pc[Server] = "gatherEvents" /\ ServerExpects = "EVENTS"
            \/ pc[Server] = "gatherRequests" /\ ServerExpects = "REQUEST"
        BY <2>7 DEF ServerExpects, At
      <3>2. c \notin Handled
        BY <2>1, <2>7, <3>1, TurnOf DEF Loops
      <3>3. \/ Stage(c) = "begun" /\ pc[Server] = "gatherEvents"
            \/ Stage(c) = "told" /\ pc[Server] = "gatherRequests"
        BY <3>1, <3>2, Stages
      <3>4. \/ Begins(c) /\ pc[Server] = "gatherEvents"
            \/ Works(c) /\ pc[Server] = "gatherRequests"
        BY <2>1, <2>7, <3>3 DEF Handshake, Ends, Quiet, IsTold
      <3> QED
        BY <2>3, <2>4, <2>7, <3>1, <3>4 DEF Begins, Works, Quiet, Says, IsTold, At
    <2> QED
      BY <2>5, <2>6, <2>7
  <1> QED
    BY <1>1, Invariance, PTL

\* A node about to display its frame knows that all the others have rendered it.
LEMMA SwapInv == IInv => SwapTogether
  <1> SUFFICES ASSUME IInv, NEW m \in Nodes, NEW n \in Nodes, pc[m] = "display"
               PROVE  Rendered(n, frame[m])
    BY DEF SwapTogether, At
  <1>1. /\ \A c \in Clients : Handshake(c)
        /\ \A k \in Nodes : frame[k] \in Nat
        /\ Clients = Nodes \ {Server} /\ Server \in Nodes
    BY ClientCount DEF IInv, ControlInv, HandshakeInv, TypeInv, Nodes
  <1>2. \A c \in Clients : /\ pc[c] = "display" => ~Begins(c) /\ ~Works(c)
                           /\ Ends(c) => pc[c] \in {"awaitNow", "display"}
    BY DEF Begins, Works, Ends, At
  <1>3. CASE m = Server
    <2>1. \A c \in Clients : Stage(c) = "released"
      BY <1>3, Stages
    <2> QED
      BY <1>1, <1>2, <1>3, <2>1 DEF Handshake, Rendered
  <1>4. CASE m \in Clients /\ frame[m] + 1 = frame[Server]
    <2>1. Stage(m) = "begun"
      <3>1. Stage(m) \in {"begun", "heard", "told", "asked", "released"}
        BY DEF Stage
      <3> QED
        BY <1>1, <1>4, <3>1 DEF Handshake
    <2>2. \A d \in Clients : Stage(d) \in {"begun", "heard"}
      BY <2>1 DEF Stage
    <2> QED
      BY <1>1, <1>2, <1>4, <2>2 DEF Handshake, Rendered
  <1>5. CASE m \in Clients /\ frame[m] + 1 # frame[Server]
    <2>1. Stage(m) = "released" /\ frame[m] = frame[Server]
      <3>1. Stage(m) \in {"begun", "heard", "told", "asked", "released"}
        BY DEF Stage
      <3> QED
        BY <1>1, <1>2, <1>5, <3>1 DEF Handshake, At
    <2>2. pc[Server] \in {"sendNow", "display"}
      BY <2>1 DEF Stage, At
    <2>3. \A d \in Clients : Stage(d) \in {"asked", "released"}
      BY <2>2, Stages
    <2> QED
      BY <1>1, <1>2, <2>1, <2>2, <2>3 DEF Handshake, Rendered, At
  <1> QED
    BY <1>1, <1>3, <1>4, <1>5

\* Synchronization point 2: all the nodes have rendered a frame before one displays it.
THEOREM Swap == SafetySpec => []SwapTogether
  BY SwapInv, Invariance, PTL

\* A client has at most one place among the connections and the sockets.
LEMMA OnePlace ==
    ASSUME SocketsInv, NEW c \in Clients
    PROVE  Cardinality({i \in DOMAIN backlog : backlog[i] = c})
         + Cardinality({i \in DOMAIN sockets : sockets[i] = c}) = IF At(c, "connect") THEN 0 ELSE 1
  <1> DEFINE waiting  == {i \in DOMAIN backlog : backlog[i] = c}
             accepted == {i \in DOMAIN sockets : sockets[i] = c}
  <1>1. /\ \A i, j \in waiting : i = j
        /\ \A i, j \in accepted : i = j
        /\ waiting = {} \/ accepted = {}
        /\ ~At(c, "connect") <=> waiting # {} \/ accepted # {}
    BY DEF SocketsInv
  <1> HIDE DEF waiting, accepted
  <1>2. Cardinality({}) = 0 /\ \A i : Cardinality({i}) = 1
    BY FS_EmptySet, FS_Singleton
  <1>3. /\ waiting = {} \/ \E i : waiting = {i}
        /\ accepted = {} \/ \E i : accepted = {i}
    <2>1. ASSUME NEW S, \A i, j \in S : i = j, NEW i \in S
          PROVE  S = {i}
      BY <2>1
    <2> QED
      BY <1>1, <2>1
  <1>4. /\ waiting # {} => Cardinality(waiting) = 1
        /\ accepted # {} => Cardinality(accepted) = 1
    BY <1>2, <1>3
  <1>5. Cardinality(waiting) + Cardinality(accepted) = IF At(c, "connect") THEN 0 ELSE 1
    BY <1>1, <1>2, <1>4
  <1> QED
    BY <1>5 DEF waiting, accepted

\* Everybody is at a point of its own program, a client has one connection, keys are
\* within their bounds, and no node goes beyond the last frame.
THEOREM TypeCorrect == SafetySpec => []TypeOK
  <1>1. IInv => TypeOK
    <2> SUFFICES ASSUME IInv PROVE TypeOK
      OBVIOUS
    <2>1. TypeInv /\ SocketsInv /\ HandshakeInv /\ LastFrameInv /\ QueuesInv
      BY DEF IInv, ControlInv, EventsInv
    <2>2. \A n \in Nodes : frame[n] \in 0..MaxFrames
      <3>1. /\ frame[Server] <= MaxFrames /\ MaxFrames \in Nat
            /\ \A n \in Nodes : frame[n] \in Nat
            /\ Clients = Nodes \ {Server} /\ Server \in Nodes
        BY <2>1, ClientCount DEF LastFrameInv, TypeInv, Nodes
      <3>2. ASSUME NEW c \in Clients PROVE frame[c] <= MaxFrames
        <4>1. Stage(c) \in {"begun", "heard", "told", "asked", "released"}
          BY DEF Stage
        <4>2. CASE Stage(c) = "released"
          <5>1. pc[Server] \in {"sendNow", "display"}
            BY <4>2 DEF Stage, At
          <5>2. frame[Server] < MaxFrames
            BY <2>1, <5>1 DEF LastFrameInv
          <5> QED
            BY <2>1, <3>1, <4>2, <5>2 DEF HandshakeInv, Handshake
        <4>3. CASE Stage(c) # "released"
          BY <2>1, <3>1, <4>1, <4>3 DEF HandshakeInv, Handshake
        <4> QED
          BY <4>2, <4>3
      <3> QED
        BY <3>1, <3>2
    <2>3. frame \in [Nodes -> 0..MaxFrames]
      BY <2>1, <2>2 DEF TypeInv
    <2>4. \A n \in Nodes : /\ DOMAIN queue[n] \subseteq Times \X (0..(2 * numClients + 1))
                           /\ \A k \in DOMAIN queue[n] : queue[n][k] \in Items
      BY <2>1 DEF QueuesInv, IsQueue
    <2> QED
      BY <2>1, <2>3, <2>4, OnePlace DEF TypeOK, TypeInv, SocketsInv
  <1> QED
    BY <1>1, Invariance, PTL
=============================================================================
