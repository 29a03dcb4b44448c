-------------------------- MODULE NetSyncRefinement --------------------------
(***************************************************************************)
(* A proof that the processes of NetSync, with their messages, sockets and *)
(* queues, implement the lock step of FrameLockstep: of the steps of a     *)
(* frame only giving, getting, drawing and displaying are seen there.      *)
(***************************************************************************)
EXTENDS NetSyncProofs

USE NetSyncAssumption

-----------------------------------------------------------------------------
(* The refinement mapping.                                                 *)

Phase   == [n \in Nodes |-> PhaseOf(n)]
GotText == [n \in Nodes |-> TextOf(got[n])]

\* FrameLockstep's operators on lists, seen from here, are those of TimedList.
LEMMA SameOperators ==
    /\ \A list : Lockstep!InTimeOrder(list) = InTimeOrder(list)
    /\ \A list, n : Lockstep!From(list, n) = From(list, n)
  <1>1. \A list : Lockstep!InTimeOrder(list) <=> InTimeOrder(list)
    BY DEF Lockstep!InTimeOrder, InTimeOrder
  <1>2. \A list, n : Lockstep!From(list, n) = From(list, n)
    BY DEF Lockstep!From, From
  <1> QED
    BY <1>1, <1>2

\* Program points that are one phase, and at which a node has no list.
StartPoints == {"listen", "accept", "connect", "collect", "close"}
EndPoints   == {"closed", "exited"}
DonePoints  == {"sendRequest", "awaitNow", "gatherRequests", "sendNow", "display"}

\* The phase of a node at each of its program points.
LEMMA PhaseAt ==
    ASSUME IInv, NEW n \in Nodes
    PROVE  /\ pc[n] \in StartPoints => PhaseOf(n) = "start"
           /\ pc[n] \in EndPoints => PhaseOf(n) = "stopped"
           /\ pc[n] \in {"gatherEvents", "awaitEvents"} => PhaseOf(n) = "given"
           /\ pc[n] = "sendEvents" /\ (n # Server \/ turn = 1) => PhaseOf(n) = "given"
           /\ pc[n] = "sendEvents" /\ n = Server /\ turn > 1 => PhaseOf(n) = "working"
           /\ pc[n] \in {"dispatch", "render"} => PhaseOf(n) = "working"
           /\ pc[n] \in DonePoints => PhaseOf(n) = "rendered"
           /\ pc[n] \notin StartPoints \cup EndPoints =>
                 PhaseOf(n) \in {"given", "working", "rendered"}
  <1>1. frame[n] \in Nat /\ turn \in Nat
    BY ClientCount DEF IInv, ControlInv, TypeInv, SocketsInv
  <1>2. Rendered(n, frame[n]) <=> pc[n] \in DonePoints
    BY <1>1 DEF Rendered, DonePoints
  <1>3. (got[n] # <<>>) <=> \/ pc[n] \in Processing
                            \/ n = Server /\ pc[n] = "sendEvents" /\ turn > 1
    BY DEF IInv, EventsInv, GotInv, At
  <1>4. DonePoints \subseteq Processing /\ {"dispatch", "render"} \subseteq Processing
    BY DEF DonePoints, Processing
  <1> QED
    BY <1>1, <1>2, <1>3, <1>4 DEF PhaseOf, StartPoints, EndPoints, DonePoints, Processing

\* The same after a step.
LEMMA PhaseAtNext ==
    ASSUME IInv', NEW n \in Nodes
    PROVE  /\ pc'[n] \in StartPoints => PhaseOf(n)' = "start"
           /\ pc'[n] \in EndPoints => PhaseOf(n)' = "stopped"
           /\ pc'[n] \in {"gatherEvents", "awaitEvents"} => PhaseOf(n)' = "given"
           /\ pc'[n] = "sendEvents" /\ (n # Server \/ turn' = 1) => PhaseOf(n)' = "given"
           /\ pc'[n] = "sendEvents" /\ n = Server /\ turn' > 1 => PhaseOf(n)' = "working"
           /\ pc'[n] \in {"dispatch", "render"} => PhaseOf(n)' = "working"
           /\ pc'[n] \in DonePoints => PhaseOf(n)' = "rendered"
  <1>1. frame'[n] \in Nat /\ turn' \in Nat
    BY ClientCount DEF IInv, ControlInv, TypeInv, SocketsInv
  <1>2. Rendered(n, frame[n])' <=> pc'[n] \in DonePoints
    BY <1>1 DEF Rendered, DonePoints
  <1>3. (got'[n] # <<>>) <=> \/ pc'[n] \in Processing
                             \/ n = Server /\ pc'[n] = "sendEvents" /\ turn' > 1
    BY DEF IInv, EventsInv, GotInv, At
  <1>4. DonePoints \subseteq Processing /\ {"dispatch", "render"} \subseteq Processing
    BY DEF DonePoints, Processing
  <1> QED
    BY <1>1, <1>2, <1>3, <1>4 DEF PhaseOf, StartPoints, EndPoints, DonePoints, Processing

\* A step of which the other nodes' phases take no notice.
LEMMA OthersPhase ==
    ASSUME IInv, IInv', NEW n \in Nodes, \A m \in Nodes \ {n} : pc'[m] = pc[m] /\ got'[m] = got[m]
    PROVE  \A m \in Nodes \ {n} : PhaseOf(m)' = PhaseOf(m)
  <1> SUFFICES ASSUME NEW m \in Nodes \ {n} PROVE PhaseOf(m)' = PhaseOf(m)
    OBVIOUS
  <1>1. frame[m] \in Nat /\ frame'[m] \in Nat
    BY DEF IInv, ControlInv, TypeInv
  <1>2. Rendered(m, frame[m])' <=> Rendered(m, frame[m])
    BY <1>1 DEF Rendered
  <1> QED
    BY <1>2 DEF PhaseOf

\* What FrameLockstep asks of the others in a phase, in terms of program points.
LEMMA ReachedBy ==
    ASSUME IInv, NEW m \in Nodes, NEW f
    PROVE  /\ (frame[m] > f \/ (frame[m] = f /\ pc[m] \notin StartPoints \cup EndPoints))
                  => Lockstep!Given(m, f)
           /\ Rendered(m, f) => Lockstep!Rendered(m, f)
  <1>1. /\ {Lockstep!Phases[i] : i \in 2..Len(Lockstep!Phases)} = {"given", "working", "rendered"}
        /\ {Lockstep!Phases[i] : i \in 4..Len(Lockstep!Phases)} = {"rendered"}
    BY DEF Lockstep!Phases
  <1>2. pc[m] \notin StartPoints \cup EndPoints => PhaseOf(m) \in {"given", "working", "rendered"}
    BY PhaseAt
  <1>3. frame[m] = f /\ Rendered(m, f) => frame[m] > f \/ PhaseOf(m) = "rendered"
    BY PhaseAt DEF Rendered, DonePoints
  <1> HIDE DEF PhaseOf
  <1> QED
    BY <1>1, <1>2, <1>3 DEF Lockstep!Given, Lockstep!Rendered, Lockstep!Reached, Rendered

\* A step that is seen as one of a single node, of which it changes the phase.
LEMMA PhaseStep ==
    ASSUME IInv, IInv', NEW n \in Nodes, NEW p,
           \A m \in Nodes \ {n} : pc'[m] = pc[m] /\ got'[m] = got[m], PhaseOf(n)' = p
    PROVE  Phase' = [Phase EXCEPT ![n] = p]
  <1>1. \A m \in Nodes \ {n} : PhaseOf(m)' = PhaseOf(m)
    BY OthersPhase
  <1> HIDE DEF PhaseOf
  <1> QED
    BY <1>1 DEF Phase

-----------------------------------------------------------------------------
(* The steps that are seen.                                                *)

\* A node that collects gives its events.
LEMMA CollectGives ==
    ASSUME IInv, IInv', NEW n \in Nodes, Collect(n) PROVE Lockstep!Give(n)
  <1>1. PICK q : Own(q, n) /\ gave' = [gave EXCEPT ![n] = Serialize(q)]
    BY CollectEffect
  <1>2. /\ pc[n] = "collect" /\ Goto(n, SyncPoint1(n)) /\ UNCHANGED <<frame, got, turn>>
    BY DEF Collect, At, mainVars
  <1>3. DOMAIN gave = Nodes /\ TypeInv
    BY DEF IInv, ControlInv, TypeInv
  <1>4. /\ pc'[n] = SyncPoint1(n)
        /\ \A m \in Nodes \ {n} : pc'[m] = pc[m]
    BY <1>2, <1>3, PointReached
  <1>5. PhaseOf(n) = "start"
    BY <1>2, PhaseAt DEF StartPoints
  <1>6. PhaseOf(n)' = "given"
    BY <1>4, PhaseAtNext DEF SyncPoint1
  <1>7. Phase' = [Phase EXCEPT ![n] = "given"]
    BY <1>2, <1>4, <1>6, PhaseStep
  <1>8. InTimeOrder(gave'[n]) /\ From(gave'[n], n) = gave'[n]
    <2>1. IsGiven(n, Serialize(q)) /\ gave'[n] = Serialize(q)
      BY <1>1, <1>3, OwnIsGiven
    <2> DEFINE list == gave'[n]
    <2>2. list \in Seq(Texts({n})) /\ InTimeOrder(list)
      BY <2>1 DEF IsGiven
    <2> HIDE DEF list
    <2>3. \A i \in DOMAIN list : list[i] \in Texts({n})
      BY <2>2
    <2>4. \A i \in DOMAIN list : list[i].item.id[1] = n
      BY <2>3 DEF Texts
    <2>5. From(list, n) = list
      BY <2>2, <2>4, FromOnly
    <2> QED
      BY <2>2, <2>5 DEF list
  <1>9. gave' = [gave EXCEPT ![n] = gave'[n]]
    BY <1>1, <1>3
  <1>10. UNCHANGED <<frame, GotText>>
    BY <1>2 DEF GotText
  <1> HIDE DEF PhaseOf
  <1> QED
    BY <1>5, <1>7, <1>8, <1>9, <1>10, SameOperators DEF Lockstep!Give, Phase, GotText

\* A node that gets its list after all have given their events, in one frame.
LEMMA GetStep ==
    ASSUME IInv, IInv', NEW n \in Nodes,
           UNCHANGED <<frame, gave>>,
           \A m \in Nodes \ {n} : pc'[m] = pc[m] /\ got'[m] = got[m],
           PhaseOf(n) = "given", PhaseOf(n)' = "working", got'[n] # <<>>,
           \A m \in Nodes : frame[m] = frame[n] /\ pc[m] \notin StartPoints \cup EndPoints
    PROVE  Lockstep!Get(n)
  <1>1. \A m \in Nodes : Lockstep!Given(m, frame[n])
    BY ReachedBy
  <1>2. Phase' = [Phase EXCEPT ![n] = "working"]
    BY PhaseStep
  <1>3. got'[n] \in EventLists /\ EventsMerged' /\ SameEvents'
    BY DEF IInv, ControlInv, EventsInv, TypeInv
  <1>4. /\ InTimeOrder(TextOf(got'[n]))
        /\ \A m \in Nodes : From(TextOf(got'[n]), m) = gave[m]
    <2>1. InTimeOrder(got'[n]) /\ \A m \in Nodes : From(TextOf(got'[n]), m) = gave'[m]
      BY <1>3 DEF EventsMerged
    <2> QED
      BY <1>3, <2>1, TextOfEvents
  <1>5. \A m \in Nodes \ {n} : TextOf(got[m]) # <<>> => TextOf(got'[n]) = TextOf(got[m])
    <2> SUFFICES ASSUME NEW m \in Nodes \ {n}, TextOf(got[m]) # <<>>
                 PROVE  TextOf(got'[n]) = TextOf(got[m])
      OBVIOUS
    <2>1. got[m] # <<>>
      <3>1. <<>> \in Seq(Texts(Nodes))
        OBVIOUS
      <3> QED
        BY <3>1, TextOfTexts
    <2> QED
      BY <1>3, <2>1 DEF SameEvents
  <1>6. GotText' = [GotText EXCEPT ![n] = TextOf(got'[n])] /\ GotText'[n] = TextOf(got'[n])
    BY DEF GotText
  <1> HIDE DEF PhaseOf
  <1>7. Lockstep!IsMerge(TextOf(got'[n]))
    BY <1>4, SameOperators DEF Lockstep!IsMerge
  <1>8. \A m \in Nodes : Phase[m] = PhaseOf(m) /\ GotText[m] = TextOf(got[m])
    BY DEF Phase, GotText
  <1> QED
    BY <1>1, <1>2, <1>5, <1>6, <1>7, <1>8 DEF Lockstep!Get, Phase, GotText

\* A client gets the list from the server's message.
LEMMA ClientGets ==
    ASSUME IInv, IInv', NEW c \in Clients, ClientReceives(c), pc[c] = "awaitEvents"
    PROVE  Lockstep!Get(c)
  <1>1. /\ UNCHANGED <<frame, gave, turn>> /\ Goto(c, "dispatch")
        /\ Stage(c) = "told" /\ frame[c] = frame[Server]
        /\ got' = [got EXCEPT ![c] = TextOf(got[Server])]
    BY ClientReceivesEffect DEF IInv, EventsInv
  <1>2. /\ c \in Nodes /\ Clients = Nodes \ {Server} /\ TypeInv /\ HandshakeInv
        /\ DOMAIN got = Nodes
    BY ClientCount DEF Nodes, IInv, ControlInv, TypeInv
  <1>3. pc'[c] = "dispatch" /\ \A m \in Nodes \ {c} : pc'[m] = pc[m] /\ got'[m] = got[m]
    BY <1>1, <1>2, PointReached
  <1>4. PhaseOf(c) = "given" /\ PhaseOf(c)' = "working"
    BY <1>2, <1>3, PhaseAt, PhaseAtNext
  <1>5. got'[c] # <<>>
    BY <1>2, <1>3 DEF IInv, EventsInv, GotInv, Processing
  <1>6. pc[Server] \in {"sendEvents", "dispatch", "render", "gatherRequests"}
    BY <1>1 DEF Stage, At
  <1>7. \A d \in Clients : Stage(d) \in {"heard", "told", "asked"}
    BY <1>6, Stages
  <1>8. \A d \in Clients : frame[d] = frame[c]
            /\ pc[d] \in {"awaitEvents", "dispatch", "render", "sendRequest", "awaitNow"}
    BY <1>1, <1>2, <1>7 DEF HandshakeInv, Handshake, Works, At
  <1>9. \A m \in Nodes : frame[m] = frame[c] /\ pc[m] \notin StartPoints \cup EndPoints
    BY <1>1, <1>2, <1>6, <1>8 DEF StartPoints, EndPoints
  <1> QED
    BY <1>1, <1>2, <1>3, <1>4, <1>5, <1>9, GetStep

\* The server gets it when it sends it to its first client.
LEMMA ServerGets ==
    ASSUME IInv, IInv', ServerSends, pc[Server] = "sendEvents", turn = 1
    PROVE  Lockstep!Get(Server)
  <1>0. PICK s : s = sockets[turn]
    OBVIOUS
  <1>1. /\ NextTurn(After[pc[Server]].point)
        /\ UNCHANGED <<frame, gave, backlog, sockets>>
        /\ got' = [got EXCEPT ![Server] = InOrder(queue[Server])]
        /\ Handled = {}
    BY <1>0, ServerSendsEffect DEF IInv, EventsInv
  <1>2. /\ Server \in Nodes /\ Clients = Nodes \ {Server} /\ TypeInv /\ SocketsInv /\ HandshakeInv
        /\ DOMAIN got = Nodes /\ pc[Server] \in Loops
    BY ClientCount DEF Nodes, IInv, ControlInv, TypeInv, Loops
  <1>3. /\ \A c \in Clients : pc'[c] = pc[c]
        /\ pc'[Server] = IF LastTurn THEN After[pc[Server]].point ELSE pc[Server]
        /\ turn' = IF LastTurn THEN 1 ELSE turn + 1
    BY <1>1, <1>2, TurnTaken DEF startVars
  <1>4. pc'[Server] = "dispatch" \/ (pc'[Server] = "sendEvents" /\ turn' > 1)
    BY <1>3 DEF After
  <1>5. PhaseOf(Server) = "given" /\ PhaseOf(Server)' = "working"
    BY <1>2, <1>4, PhaseAt, PhaseAtNext
  <1>6. got'[Server] # <<>>
    BY <1>2, <1>4 DEF IInv, EventsInv, GotInv, Processing, At
  <1>7. \A c \in Clients : Stage(c) = "heard"
    BY <1>1, Stages
  <1>8. \A m \in Nodes : frame[m] = frame[Server] /\ pc[m] \notin StartPoints \cup EndPoints
    BY <1>2, <1>7 DEF HandshakeInv, Handshake, At, StartPoints, EndPoints
  <1>9. \A m \in Nodes \ {Server} : pc'[m] = pc[m] /\ got'[m] = got[m]
    BY <1>1, <1>2, <1>3
  <1> QED
    BY <1>1, <1>2, <1>5, <1>6, <1>8, <1>9, GetStep

\* A node that renders draws.
LEMMA RenderDraws ==
    ASSUME IInv, IInv', NEW n \in Nodes, Render(n) PROVE Lockstep!Draw(n)
  <1>1. /\ pc[n] = "render" /\ Goto(n, SyncPoint2(n)) /\ UNCHANGED <<frame, gave, got, turn>>
        /\ TypeInv
    BY DEF Render, At, IInv, ControlInv
  <1>2. pc'[n] = SyncPoint2(n) /\ \A m \in Nodes \ {n} : pc'[m] = pc[m]
    BY <1>1, PointReached
  <1>3. PhaseOf(n) = "working" /\ PhaseOf(n)' = "rendered"
    BY <1>1, <1>2, PhaseAt, PhaseAtNext DEF SyncPoint2, DonePoints
  <1>4. Phase' = [Phase EXCEPT ![n] = "rendered"]
    BY <1>1, <1>2, <1>3, PhaseStep
  <1>5. UNCHANGED <<frame, gave, GotText>>
    BY <1>1 DEF GotText
  <1> HIDE DEF PhaseOf
  <1> QED
    BY <1>3, <1>4, <1>5 DEF Lockstep!Draw, Phase, GotText

\* A node that displays its frame begins the next.
LEMMA DisplayDisplays ==
    ASSUME IInv, IInv', NEW n \in Nodes, Display(n) PROVE Lockstep!Display(n)
  <1> DEFINE next == IF shutdown[n] THEN "close" ELSE "collect"
  <1>1. /\ pc[n] = "display" /\ Goto(n, next)
        /\ frame' = [frame EXCEPT ![n] = @ + 1]
        /\ gave' = [gave EXCEPT ![n] = <<>>] /\ got' = [got EXCEPT ![n] = <<>>]
        /\ TypeInv
    BY DEF Display, At, IInv, ControlInv
  <1>2. pc'[n] = next /\ \A m \in Nodes \ {n} : pc'[m] = pc[m]
    BY <1>1, PointReached
  <1>3. PhaseOf(n) = "rendered"
    BY <1>1, PhaseAt DEF DonePoints
  <1>4. \A m \in Nodes : Lockstep!Rendered(m, frame[n])
    BY <1>1, SwapInv, ReachedBy DEF SwapTogether, At
  <1>5. got'[n] = <<>> /\ \A m \in Nodes \ {n} : got'[m] = got[m] /\ frame'[m] = frame[m]
    BY <1>1 DEF TypeInv
  <1>6. PhaseOf(n)' = "start"
    BY <1>2, PhaseAtNext DEF StartPoints
  <1>7. Phase' = [Phase EXCEPT ![n] = "start"]
    BY <1>2, <1>5, <1>6, PhaseStep
  <1>8. GotText' = [GotText EXCEPT ![n] = <<>>]
    <2>1. TextOf(<<>>) = <<>>
      <3>1. <<>> \in Seq(Texts(Nodes))
        OBVIOUS
      <3> QED
        BY <3>1, TextOfTexts
    <2> QED
      BY <1>5, <2>1 DEF GotText
  <1> HIDE DEF PhaseOf
  <1> QED
    BY <1>1, <1>3, <1>4, <1>7, <1>8 DEF Lockstep!Display, Phase, GotText

\* A node that closes its connections, or finds its connection reset, stops.
LEMMA StopStep ==
    ASSUME IInv, IInv', NEW n \in Nodes, Close(n) \/ (n \in Clients /\ ConnectionReset(n))
    PROVE  Lockstep!Stop(n)
  <1>1. /\ pc[n] \notin EndPoints /\ UNCHANGED <<frame, gave, got, turn>>
        /\ \E point \in EndPoints : Goto(n, point)
        /\ TypeInv
    <2>1. CASE Close(n)
      BY <2>1 DEF Close, At, mainVars, IInv, ControlInv, EndPoints
    <2>2. CASE n \in Clients /\ ConnectionReset(n)
      <3>1. n # Server
        BY <2>2, ClientCount
      <3>2. pc[n] \in {"awaitEvents", "awaitNow"}
        BY <2>2, <3>1 DEF ConnectionReset, WaitsForGone, ClientExpects, At
      <3> QED
        BY <2>2, <3>2 DEF ConnectionReset, mainVars, IInv, ControlInv, EndPoints
    <2> QED
      BY <2>1, <2>2
  <1>2. pc'[n] \in EndPoints /\ \A m \in Nodes \ {n} : pc'[m] = pc[m]
    BY <1>1, PointReached
  <1>3. PhaseOf(n) # "stopped"
    <2>1. pc[n] \in StartPoints => PhaseOf(n) = "start"
      BY PhaseAt
    <2>2. pc[n] \notin StartPoints \cup EndPoints => PhaseOf(n) \in {"given", "working", "rendered"}
      BY PhaseAt
    <2> QED
      BY <1>1, <2>1, <2>2
  <1>4. PhaseOf(n)' = "stopped"
    BY <1>2, PhaseAtNext
  <1>5. Phase' = [Phase EXCEPT ![n] = "stopped"]
    BY <1>1, <1>2, <1>4, PhaseStep
  <1>6. UNCHANGED <<frame, gave, GotText>>
    BY <1>1 DEF GotText
  <1> HIDE DEF PhaseOf
  <1> QED
    BY <1>3, <1>5, <1>6 DEF Lockstep!Stop, Phase, GotText

-----------------------------------------------------------------------------
(* The steps that are not seen.                                            *)

\* A step by which a node does not leave its phase.
LEMMA Unseen ==
    ASSUME IInv, IInv', NEW n \in Nodes, UNCHANGED <<frame, gave, got>>,
           \A m \in Nodes \ {n} : pc'[m] = pc[m], PhaseOf(n)' = PhaseOf(n)
    PROVE  UNCHANGED Lockstep!vars
  <1>1. \A m \in Nodes \ {n} : PhaseOf(m)' = PhaseOf(m)
    BY OthersPhase
  <1>2. UNCHANGED <<Phase, GotText>>
    <2> HIDE DEF PhaseOf
    <2>1. \A m \in Nodes : PhaseOf(m)' = PhaseOf(m)
      BY <1>1
    <2> QED
      BY <2>1 DEF Phase, GotText
  <1> HIDE DEF PhaseOf
  <1> QED
    BY <1>2 DEF Lockstep!vars, Phase, GotText

\* Connecting, dispatching, and a client's sending and waiting for the release.
LEMMA PointsUnseen ==
    ASSUME IInv, IInv',
           \/ Listen \/ Accept
           \/ \E n \in Nodes : Dispatch(n)
           \/ \E c \in Clients : \/ Connect(c) \/ ClientSends(c)
                                 \/ ClientReceives(c) /\ pc[c] # "awaitEvents"
    PROVE  UNCHANGED Lockstep!vars
  <1>0. /\ Server \in Nodes /\ Clients = Nodes \ {Server} /\ TypeInv /\ DOMAIN pc = Nodes
    BY ClientCount DEF Nodes, IInv, ControlInv, TypeInv
  <1>1. CASE Listen \/ Accept
    <2>1. /\ pc[Server] \in StartPoints /\ pc'[Server] \in StartPoints
          /\ \A m \in Nodes \ {Server} : pc'[m] = pc[m]
          /\ UNCHANGED <<frame, gave, got>>
      BY <1>0, <1>1 DEF Listen, Accept, At, Goto, mainVars, StartPoints
    <2>2. PhaseOf(Server) = "start" /\ PhaseOf(Server)' = "start"
      BY <1>0, <2>1, PhaseAt, PhaseAtNext
    <2> QED
      BY <1>0, <2>1, <2>2, Unseen
  <1>2. ASSUME NEW n \in Nodes, Dispatch(n) PROVE UNCHANGED Lockstep!vars
    <2>1. /\ pc[n] = "dispatch" /\ Goto(n, "render") /\ UNCHANGED <<frame, gave, got>>
      BY <1>2 DEF Dispatch, At
    <2>2. pc'[n] = "render" /\ \A m \in Nodes \ {n} : pc'[m] = pc[m]
      BY <1>0, <2>1, PointReached
    <2>3. PhaseOf(n) = "working" /\ PhaseOf(n)' = "working"
      BY <2>1, <2>2, PhaseAt, PhaseAtNext
    <2> QED
      BY <2>1, <2>2, <2>3, Unseen
  <1>3. ASSUME NEW c \in Clients, Connect(c) PROVE UNCHANGED Lockstep!vars
    <2>1. /\ pc[c] = "connect" /\ Goto(c, "collect") /\ UNCHANGED <<frame, gave, got>>
      BY <1>3 DEF Connect, At, mainVars
    <2>2. pc'[c] = "collect" /\ \A m \in Nodes \ {c} : pc'[m] = pc[m]
      BY <1>0, <2>1, PointReached
    <2>3. PhaseOf(c) = "start" /\ PhaseOf(c)' = "start"
      BY <1>0, <2>1, <2>2, PhaseAt, PhaseAtNext DEF StartPoints
    <2> QED
      BY <1>0, <2>1, <2>2, <2>3, Unseen
  <1>4. ASSUME NEW c \in Clients, ClientSends(c) PROVE UNCHANGED Lockstep!vars
    <2>1. /\ UNCHANGED <<frame, gave, got>>
          /\ \/ pc[c] = "sendEvents" /\ Goto(c, "awaitEvents")
             \/ pc[c] = "sendRequest" /\ Goto(c, "awaitNow")
      BY <1>4 DEF ClientSends, At, mainVars
    <2>2. /\ \/ pc[c] = "sendEvents" /\ pc'[c] = "awaitEvents"
             \/ pc[c] = "sendRequest" /\ pc'[c] = "awaitNow"
          /\ \A m \in Nodes \ {c} : pc'[m] = pc[m]
      BY <1>0, <2>1, PointReached
    <2>3. PhaseOf(c)' = PhaseOf(c)
      BY <1>0, <2>2, PhaseAt, PhaseAtNext DEF DonePoints
    <2> QED
      BY <1>0, <2>1, <2>2, <2>3, Unseen
  <1>5. ASSUME NEW c \in Clients, ClientReceives(c), pc[c] # "awaitEvents"
        PROVE  UNCHANGED Lockstep!vars
    <2>1. /\ UNCHANGED <<frame, gave, got>> /\ pc[c] = "awaitNow" /\ Goto(c, "display")
      BY <1>5 DEF ClientReceives, At, mainVars
    <2>2. pc'[c] = "display" /\ \A m \in Nodes \ {c} : pc'[m] = pc[m]
      BY <1>0, <2>1, PointReached
    <2>3. PhaseOf(c)' = PhaseOf(c)
      BY <1>0, <2>1, <2>2, PhaseAt, PhaseAtNext DEF DonePoints
    <2> QED
      BY <1>0, <2>1, <2>2, <2>3, Unseen
  <1> QED
    BY <1>1, <1>2, <1>3, <1>4, <1>5

\* The server's turns, but for the one by which it gets the list.
LEMMA TurnsUnseen ==
    ASSUME IInv, IInv',
           ServerReceives \/ (ServerSends /\ ~(pc[Server] = "sendEvents" /\ turn = 1))
    PROVE  UNCHANGED Lockstep!vars
  <1>0. PICK s : s = sockets[turn]
    OBVIOUS
  <1>1. /\ Server \in Nodes /\ Clients = Nodes \ {Server} /\ TypeInv /\ SocketsInv
        /\ turn \in 1..numClients /\ numClients \in Nat
    BY ClientCount DEF Nodes, IInv, ControlInv, SocketsInv
  <1>2. /\ pc[Server] \in Loops /\ NextTurn(After[pc[Server]].point)
        /\ UNCHANGED <<frame, gave, got, backlog, sockets>>
        /\ pc[Server] = "sendEvents" => turn > 1
    <2>1. CASE ServerReceives
      BY <1>0, <2>1, ServerReceivesEffect DEF IInv
    <2>2. CASE ServerSends /\ ~(pc[Server] = "sendEvents" /\ turn = 1)
      <3>1. pc[Server] = "sendEvents" => turn > 1
        BY <1>1, <2>2
      <3> QED
        BY <1>0, <2>2, <3>1, ServerSendsEffect DEF IInv, EventsInv
    <2> QED
      BY <2>1, <2>2
  <1>3. /\ \A c \in Clients : pc'[c] = pc[c]
        /\ pc'[Server] = IF LastTurn THEN After[pc[Server]].point ELSE pc[Server]
        /\ turn' = IF LastTurn THEN 1 ELSE turn + 1
    BY <1>1, <1>2, TurnTaken DEF startVars
  <1>4. PhaseOf(Server)' = PhaseOf(Server)
    <2>1. CASE pc[Server] = "gatherEvents"
      <3>1. pc'[Server] = "gatherEvents" \/ (pc'[Server] = "sendEvents" /\ turn' = 1)
        BY <1>3, <2>1 DEF After
      <3> QED
        BY <1>1, <2>1, <3>1, PhaseAt, PhaseAtNext
    <2>2. CASE pc[Server] = "sendEvents"
      <3>1. pc'[Server] = "dispatch" \/ (pc'[Server] = "sendEvents" /\ turn' > 1)
        BY <1>1, <1>3, <2>2 DEF After
      <3> QED
        BY <1>1, <1>2, <2>2, <3>1, PhaseAt, PhaseAtNext
    <2>3. CASE pc[Server] \in {"gatherRequests", "sendNow"}
      <3>1. pc'[Server] \in DonePoints
        BY <1>3, <2>3 DEF After, DonePoints
      <3> QED
        BY <1>1, <2>3, <3>1, PhaseAt, PhaseAtNext DEF DonePoints
    <2> QED
      BY <1>2, <2>1, <2>2, <2>3 DEF Loops
  <1> QED
    BY <1>1, <1>2, <1>3, <1>4, Unseen

-----------------------------------------------------------------------------
\* Every step is one of the lock step or is not seen there.
LEMMA StepSeen ==
    ASSUME IInv, IInv', [Next]_vars PROVE [Lockstep!Next]_(Lockstep!vars)
  <1>1. ASSUME NEW n \in Nodes, MainStep(n) PROVE [Lockstep!Next]_(Lockstep!vars)
    <2>1. CASE Collect(n)
      BY <2>1, CollectGives DEF Lockstep!Next
    <2>2. CASE Dispatch(n)
      BY <2>2, PointsUnseen
    <2>3. CASE Render(n)
      BY <2>3, RenderDraws DEF Lockstep!Next
    <2>4. CASE Display(n)
      BY <2>4, DisplayDisplays DEF Lockstep!Next
    <2>5. CASE Close(n)
      BY <2>5, StopStep DEF Lockstep!Next
    <2> QED
      BY <1>1, <2>1, <2>2, <2>3, <2>4, <2>5 DEF MainStep
  <1>2. CASE ServerStep
    <2>1. CASE Listen \/ Accept
      BY <2>1, PointsUnseen
    <2>2. CASE ServerReceives \/ (ServerSends /\ ~(pc[Server] = "sendEvents" /\ turn = 1))
      BY <2>2, TurnsUnseen
    <2>3. CASE ServerSends /\ pc[Server] = "sendEvents" /\ turn = 1
      <3>1. Lockstep!Get(Server) /\ Server \in Nodes
        BY <2>3, ServerGets DEF Nodes
      <3> QED
        BY <3>1 DEF Lockstep!Next
    <2> QED
      BY <1>2, <2>1, <2>2, <2>3 DEF ServerStep
  <1>3. ASSUME NEW c \in Clients, ClientStep(c) \/ ConnectionReset(c)
        PROVE  [Lockstep!Next]_(Lockstep!vars)
    <2>0. c \in Nodes
      BY DEF Nodes
    <2>1. CASE Connect(c) \/ ClientSends(c) \/ (ClientReceives(c) /\ pc[c] # "awaitEvents")
      BY <2>1, PointsUnseen
    <2>2. CASE ClientReceives(c) /\ pc[c] = "awaitEvents"
      BY <2>0, <2>2, ClientGets DEF Lockstep!Next
    <2>3. CASE ConnectionReset(c)
      BY <2>0, <2>3, StopStep DEF Lockstep!Next
    <2> QED
      BY <1>3, <2>1, <2>2, <2>3 DEF ClientStep
  <1>4. CASE UNCHANGED vars
    <2>1. UNCHANGED <<pc, frame, gave, got>> /\ Server \in Nodes
      BY <1>4 DEF vars, mainVars, Nodes
    <2>2. PhaseOf(Server)' = PhaseOf(Server)
      BY <2>1 DEF PhaseOf, Rendered
    <2> QED
      BY <2>1, <2>2, Unseen
  <1> QED
    BY <1>1, <1>2, <1>3, <1>4 DEF Next, ReceiveNothing, Over

\* The cluster, with its messages, sockets and queues, implements the lock step of
\* frames: all give their events, all process one merged list, all draw, all display.
THEOREM Refinement == SafetySpec => ImplementsLockstep
  <1>1. Init => Lockstep!Init
    <2> SUFFICES ASSUME Init PROVE Lockstep!Init
      OBVIOUS
    <2>1. IInv
      BY InitInv
    <2>2. \A n \in Nodes : PhaseOf(n) = "start"
      BY <2>1, PhaseAt DEF Init, StartPoints
    <2>3. TextOf(<<>>) = <<>>
      <3>1. <<>> \in Seq(Texts(Nodes))
        OBVIOUS
      <3> QED
        BY <3>1, TextOfTexts
    <2> HIDE DEF PhaseOf
    <2> QED
      BY <2>2, <2>3 DEF Init, Lockstep!Init
  <1>2. IInv /\ IInv' /\ [Next]_vars => [Lockstep!Next]_(Lockstep!vars)
    BY StepSeen
  <1> QED
    BY <1>1, <1>2, Invariance, PTL DEF SafetySpec, ImplementsLockstep, Lockstep!Spec
=============================================================================
