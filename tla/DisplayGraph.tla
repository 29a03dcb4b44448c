---------------------------- MODULE DisplayGraph ----------------------------
(***************************************************************************)
(* The frames of a program: its display graphs make their calls, those of a*)
(* thread group in threads of its own, on the render state of their thread *)
(* and on the window that is current in it.  The main thread is 0, another *)
(* one has the number of the node that it draws.                           *)
(*                                                                         *)
(* A value of the render state is the node that it is from, and for a      *)
(* matrix the eye it is for and the pose of the head it follows from.  The *)
(* handler of the calls for a context and for a scene is a VRApp.          *)
(***************************************************************************)
EXTENDS Rendering
LOCAL INSTANCE SequencesExt
LOCAL INSTANCE FiniteSetsExt

CONSTANTS
    Setups,         \* what there is to be shown: documents, and the path of a setup
    MaxFrames       \* a bound on the frames drawn

VARIABLES
    graphs,         \* _displayGraphs
    threads,        \* who started them, the calls still to be made, the stack of render states
    current,        \* the window that is current in a thread, or 0
    windows,        \* of each window: how it is drawn to, and how far it is
    heads,          \* _headMatrix of the head tracking nodes
    started,        \* the thread groups that have threads
    drawn,          \* how often the scene was drawn at a node, in this frame
    frame,          \* frames begun
    failed          \* an exception was thrown, or the program crashed

vars == <<graphs, threads, current, windows, heads, started, drawn, frame, failed>>

NodesOf(trees) == UNION {NodesIn(trees[i]) : i \in DOMAIN trees}
WindowTypes == {"VRGraphicsWindowNode", "VRG3DDisplayNode"}

\* The graphs of a setup, with all plugins loaded.
Loaded(setup) ==
    [NoProgram EXCEPT
        !.ix = AddSerializedValue(Empty("VRMain"), setup.document, Root),
        !.factory = FoldLeft(RegisterWithMinVR, CoreFactory, setup.plugins)]
GraphsOf(setup) ==
    LET one(m, name) == LET made == DisplayNode(m.main, name)
                        IN  [main |-> made, graphs |-> Append(m.graphs, made.node)]
        all == CHOOSE s \in {[main |-> Loaded(setup), graphs |-> <<>>]} : TRUE
    IN  FoldLeft(one, all, SelectByAttribute(all.main.ix, "displaynodeType", "*", setup.path, TRUE)).graphs

Whole(node) == [node.settings.rect EXCEPT !.x = 0, !.y = 0]
Fresh(node) == [buffer |-> "Back", rect |-> Whole(node), target |-> "window", quilt |-> <<>>,
                finished |-> 0, swaps |-> 0]
NodeWithId(trees, id) == CHOOSE n \in NodesOf(trees) : n.id = id
NodeOf(id) == NodeWithId(graphs, id)

NoThread == [owner |-> 0, calls |-> <<>>, stack |-> <<>>]
Init ==
    /\ graphs \in {GraphsOf(s) : s \in Setups}
    /\ threads = [t \in {0} |-> NoThread] /\ current = [t \in {0} |-> 0]
    /\ windows = [w \in {n.id : n \in {m \in NodesOf(graphs) : m.type \in WindowTypes}} |->
                     Fresh(NodeOf(w))]
    /\ heads = [h \in {n.id : n \in {m \in NodesOf(graphs) : m.type = "VRHeadTrackingNode"}} |-> 0]
    /\ started = {} /\ drawn = <<>> /\ frame = 0 /\ failed = FALSE

-----------------------------------------------------------------------------
\* The next call of a thread.
Calls(t, op) == ~failed /\ threads[t].calls # <<>> /\ Head(threads[t].calls).op = op
Argument(t) == Head(threads[t].calls).arg
Done(t) == [threads EXCEPT ![t].calls = Tail(@)]
State(t) == Last(threads[t].stack)
Made(t) == threads' = Done(t)
Crash == failed' = TRUE /\ UNCHANGED <<graphs, threads, current, windows, heads, started, drawn, frame>>

Value(from, eye, pose) == [from |-> from, eye |-> eye, pose |-> pose]
InitRender(first) == [v \in {"InitRender"} |-> Value(0, "", IF first THEN 1 ELSE 0)]
Idle == threads[0].calls = <<>> /\ ~failed

\* The program only runs if the audit finds nothing.
BeginFrame ==
    /\ Idle /\ frame < MaxFrames
    /\ \A i \in DOMAIN graphs : AuditValues(graphs[i], {})
    /\ threads' = [threads EXCEPT ![0] = [owner |-> 0, calls |-> RenderOnAllDisplays(graphs),
                                          stack |-> <<InitRender(frame = 0)>>]]
    /\ frame' = frame + 1
    /\ drawn' = [n \in {m.id : m \in NodesOf(graphs)} |-> 0]
    /\ UNCHANGED <<graphs, current, windows, heads, started, failed>>

\* onVREvent of a head tracking node: events are handled between frames.
HeadMoves ==
    /\ Idle /\ frame > 0 /\ frame < MaxFrames
    /\ \E h \in DOMAIN heads, pose \in 0..1 : heads' = [heads EXCEPT ![h] = pose]
    /\ UNCHANGED <<graphs, threads, current, windows, started, drawn, frame, failed>>

PushState(t) ==
    /\ Calls(t, "PushState")
    /\ threads' = [Done(t) EXCEPT ![t].stack = Append(@, Last(@))]
    /\ UNCHANGED <<graphs, current, windows, heads, started, drawn, frame, failed>>
PopState(t) ==
    /\ Calls(t, "PopState")
    /\ threads' = [Done(t) EXCEPT ![t].stack = Front(@)]
    /\ UNCHANGED <<graphs, current, windows, heads, started, drawn, frame, failed>>

\* What is added: a matrix of a head tracking node is the last one it was told.
Added(state, arg) ==
    LET eye  == IF arg.of \in DOMAIN state /\ arg.eye = "" THEN state[arg.of].eye ELSE arg.eye
        pose == IF arg.of \in DOMAIN state THEN state[arg.of].pose
                ELSE IF arg.from \in DOMAIN heads THEN heads[arg.from] ELSE 0
    IN  [v \in DOMAIN state \cup arg.names |->
            IF v \in arg.names THEN Value(arg.from, eye, pose) ELSE state[v]]
AddData(t) ==
    /\ Calls(t, "AddData")
    /\ threads' = [Done(t) EXCEPT ![t].stack = Append(Front(@), Added(Last(@), Argument(t)))]
    /\ UNCHANGED <<graphs, current, windows, heads, started, drawn, frame, failed>>

ReadValue(t) ==
    /\ Calls(t, "GetValue") /\ Argument(t) \in DOMAIN State(t)
    /\ Made(t)
    /\ UNCHANGED <<graphs, current, windows, heads, started, drawn, frame, failed>>
ReadValueThrows(t) ==
    /\ Calls(t, "GetValue") /\ Argument(t) \notin DOMAIN State(t)
    /\ Crash

-----------------------------------------------------------------------------
(* Calls on the current window; without one they have no effect.           *)

MakeWindowCurrent(t) ==
    /\ Calls(t, "MakeWindowCurrent")
    /\ current' = [current EXCEPT ![t] = Argument(t)]
    /\ Made(t)
    /\ UNCHANGED <<graphs, windows, heads, started, drawn, frame, failed>>

Changed(t, window) ==
    /\ windows' = IF current[t] = 0 THEN windows ELSE [windows EXCEPT ![current[t]] = window]
    /\ Made(t)
    /\ UNCHANGED <<graphs, current, heads, started, drawn, frame, failed>>
CurrentWindow(t) == windows[current[t]]

SetDrawBuffer(t) ==
    /\ Calls(t, "SetDrawBuffer")
    /\ Changed(t, [CurrentWindow(t) EXCEPT !.buffer = Argument(t)])

\* G3D has no sub-windows.
IsG3D(t) == current[t] # 0 /\ NodeOf(current[t]).type = "VRG3DDisplayNode"
SetSubWindow(t) ==
    /\ Calls(t, "SetSubWindow")
    /\ Changed(t, IF IsG3D(t) THEN CurrentWindow(t) ELSE [CurrentWindow(t) EXCEPT !.rect = Argument(t)])

\* Half of the viewport that the render state tells of, or else of the window.  The
\* right one begins a column after the middle.
Half(half, rect) ==
    IF half = "Left" THEN [rect EXCEPT !.w = @ \div 2]
    ELSE [rect EXCEPT !.x = @ + rect.w \div 2 + 1, !.w = @ \div 2]
Surroundings(t) ==
    IF "ViewportX" \in DOMAIN State(t) THEN NodeOf(State(t)["ViewportX"].from).settings.rect
    ELSE Whole(NodeOf(State(t)["WindowWidth"].from))
HasSurroundings(t) == "ViewportX" \in DOMAIN State(t) \/ {"WindowWidth", "WindowHeight"} \subseteq DOMAIN State(t)
SetHalfWindow(t) ==
    /\ Calls(t, "SetHalfWindow") /\ HasSurroundings(t)
    /\ Changed(t, IF IsG3D(t) THEN CurrentWindow(t)
                  ELSE [CurrentWindow(t) EXCEPT !.rect = Half(Argument(t), Surroundings(t))])
SetHalfWindowThrows(t) ==
    /\ Calls(t, "SetHalfWindow") /\ ~HasSurroundings(t)
    /\ Crash

BindFramebuffer(t) ==
    /\ Calls(t, "BindFramebuffer")
    /\ Changed(t, [CurrentWindow(t) EXCEPT
                      !.target = Argument(t).target,
                      !.rect = IF Argument(t).rects = {} THEN @ ELSE CHOOSE r \in Argument(t).rects : TRUE])
SetWholeWindow(t) ==
    /\ Calls(t, "SetWholeWindow")
    /\ Changed(t, [CurrentWindow(t) EXCEPT !.rect = Whole(NodeOf(State(t)["WindowWidth"].from))])

CopyViewToQuilt(t) ==
    /\ Calls(t, "CopyViewToQuilt")
    /\ LET tile == <<Argument(t).x, Argument(t).y>>
           view == Argument(t).view
       IN  Changed(t, [CurrentWindow(t) EXCEPT !.quilt =
                          [p \in DOMAIN @ \cup {tile} |-> IF p = tile THEN view ELSE @[p]]])
DrawLightField(t) ==
    /\ Calls(t, "DrawLightField")
    /\ Made(t)
    /\ UNCHANGED <<graphs, current, windows, heads, started, drawn, frame, failed>>

FlushGraphics(t) ==
    /\ Calls(t, "FlushGraphics")
    /\ Made(t)
    /\ UNCHANGED <<graphs, current, windows, heads, started, drawn, frame, failed>>
FinishGraphics(t) ==
    /\ Calls(t, "FinishGraphics")
    /\ Changed(t, [CurrentWindow(t) EXCEPT !.finished = frame])
TransformInputToOutput(t) ==
    /\ Calls(t, "TransformInputToOutput")
    /\ Made(t)
    /\ UNCHANGED <<graphs, current, windows, heads, started, drawn, frame, failed>>

SwapBuffers(t) ==
    /\ Calls(t, "SwapBuffers")
    /\ current' = [current EXCEPT ![t] = Argument(t)]
    /\ windows' = [windows EXCEPT ![Argument(t)].swaps = @ + 1]
    /\ Made(t)
    /\ UNCHANGED <<graphs, heads, started, drawn, frame, failed>>

-----------------------------------------------------------------------------
(* Calls of the program.                                                   *)

KnownCallback(t) == {"IsGraphics", "/IsConsole"} \cap DOMAIN State(t) # {}
OnVRRenderContext(t) ==
    /\ Calls(t, "RenderContext") /\ KnownCallback(t)
    /\ Made(t)
    /\ UNCHANGED <<graphs, current, windows, heads, started, drawn, frame, failed>>
OnVRRenderScene(t) ==
    /\ Calls(t, "RenderScene") /\ KnownCallback(t)
    /\ drawn' = [drawn EXCEPT ![Last(Argument(t)).id] = @ + 1]
    /\ Made(t)
    /\ UNCHANGED <<graphs, current, windows, heads, started, frame, failed>>
OnVRRenderSceneThrows(t) ==
    /\ Calls(t, "RenderScene") /\ ~KnownCallback(t)
    /\ Crash

-----------------------------------------------------------------------------
(* Thread groups.                                                          *)

\* The render state of a thread: nothing but whether this is the first frame.
ThreadState(group, action) ==
    IF action = "Render" THEN InitRender(group \notin started) ELSE [v \in {} |-> Value(0, "", 0)]
StartThreadAction(t) ==
    /\ Calls(t, "StartThreadAction")
    /\ Argument(t).action = "Render" \/ Argument(t).group \in started
    /\ LET work == Argument(t).work
           new  == [c \in {work[i].thread : i \in DOMAIN work} |->
                       [owner |-> t, calls |-> work[CHOOSE i \in DOMAIN work : work[i].thread = c].calls,
                        stack |-> <<ThreadState(Argument(t).group, Argument(t).action)>>]]
       IN  /\ threads' = [c \in DOMAIN threads \cup DOMAIN new |->
                             IF c \in DOMAIN new THEN new[c] ELSE Done(t)[c]]
           /\ current' = [c \in DOMAIN current \cup DOMAIN new |->
                             IF c \in DOMAIN current THEN current[c] ELSE 0]
           /\ started' = started \cup {Argument(t).group}
    /\ UNCHANGED <<graphs, windows, heads, drawn, frame, failed>>

StartedBy(t) == {c \in DOMAIN threads \ {0} : threads[c].owner = t}
WaitForComplete(t) ==
    /\ Calls(t, "WaitForComplete")
    /\ \A c \in StartedBy(t) : threads[c].calls = <<>>
    /\ threads' = [c \in DOMAIN threads \ StartedBy(t) |-> Done(t)[c]]
    /\ UNCHANGED <<graphs, current, windows, heads, started, drawn, frame, failed>>

Step(t) ==
    \/ PushState(t) \/ PopState(t) \/ AddData(t) \/ ReadValue(t) \/ ReadValueThrows(t)
    \/ MakeWindowCurrent(t) \/ SetDrawBuffer(t) \/ SetSubWindow(t) \/ SetHalfWindow(t)
    \/ SetHalfWindowThrows(t) \/ BindFramebuffer(t) \/ SetWholeWindow(t)
    \/ CopyViewToQuilt(t) \/ DrawLightField(t) \/ FlushGraphics(t) \/ FinishGraphics(t)
    \/ TransformInputToOutput(t) \/ SwapBuffers(t) \/ OnVRRenderContext(t) \/ OnVRRenderScene(t)
    \/ OnVRRenderSceneThrows(t) \/ StartThreadAction(t) \/ WaitForComplete(t)

Next == BeginFrame \/ HeadMoves \/ \E t \in DOMAIN threads : Step(t)
Spec == Init /\ [][Next]_vars

-----------------------------------------------------------------------------
(* Scenes about to be drawn, and the chains of nodes above them.           *)

AtScene == {t \in DOMAIN threads : Calls(t, "RenderScene") /\ KnownCallback(t)}
Above(chain, P(_)) == {i \in DOMAIN chain : P(NodeOf(chain[i].id))}
Innermost(chain, types) == Above(chain, LAMBDA n : n.type \in types)
Eyes(chain) == SelectSeq(chain, LAMBDA e : e.eye # "")
Declared(chain) == UNION {NodeOf(chain[i].id).added : i \in DOMAIN chain}
LastDeclaring(chain, v) == NodeOf(chain[Max(Above(chain, LAMBDA n : v \in n.added))].id)
\* A stereo node without children does not tell the eye.
TellsEye(chain) == Last(chain).eye = "" \/ NodeOf(Last(chain).id).type # "VRStereoNode"
\* The view on the screen beside a head mounted display is that of its right eye.
CameraFor(chain) ==
    LET e == Last(Eyes(chain)) IN
    IF NodeOf(e.id).type = "VROpenVRNode" /\ e.eye = "Cyclops" THEN "Right" ELSE e.eye
HeadTypes == {"VRLookAtNode", "VRHeadTrackingNode"}
PoseAbove(chain) ==
    LET n == NodeOf(chain[Max(Innermost(chain, HeadTypes))].id) IN
    IF n.id \in DOMAIN heads THEN heads[n.id] ELSE 0

\* A scene sees each value that a node above it in its thread declares to add as the
\* innermost of these nodes has set it, for the eye and the pose of the head that it is
\* drawn for, and knows whether this is the first frame; when a thread is done its
\* render state is what it began with.  The render state is one index that all nodes
\* above change, and the eyes are drawn one after the other with it.
SceneState ==
    /\ \A t \in AtScene :
        LET chain == Argument(t)
            seen  == State(t)
        IN  /\ \A v \in Declared(chain) : v # "Eye" \/ TellsEye(chain) =>
                  v \in DOMAIN seen /\ seen[v].from = LastDeclaring(chain, v).id
            /\ seen["InitRender"].pose = (IF frame = 1 THEN 1 ELSE 0)
            /\ Eyes(chain) # <<>> =>
                  /\ TellsEye(chain) => seen["Eye"].eye = Last(Eyes(chain)).eye
                  /\ "ViewMatrix" \in DOMAIN seen => seen["ViewMatrix"].eye = CameraFor(chain)
            /\ Innermost(chain, HeadTypes) # {} /\ Innermost(chain, {"VROpenVRNode"}) = {} =>
                  \A v \in {"CameraMatrix", "ViewMatrix"} \cap DOMAIN seen : seen[v].pose = PoseAbove(chain)
    /\ \A t \in DOMAIN threads : threads[t].calls = <<>> => Len(threads[t].stack) <= 1

\* Where a scene is to be drawn, from the nodes above it alone: into which target,
\* buffer and part of the window.
Within(inner, outer) ==
    /\ inner.x >= outer.x /\ inner.x + inner.w <= outer.x + outer.w + 1
    /\ inner.y >= outer.y /\ inner.y + inner.h <= outer.y + outer.h
ProperPart(chain, window) ==
    LET own   == NodeOf(chain[Max(Innermost(chain, WindowTypes))].id)
        views == Innermost(chain, {"VRViewportNode"})
        outer == IF views = {} THEN Whole(own) ELSE NodeOf(chain[Max(views)].id).settings.rect
        e     == IF Eyes(chain) = <<>> THEN [id |-> chain[1].id, eye |-> ""] ELSE Last(Eyes(chain))
        by    == NodeOf(e.id)
    IN  CASE by.type = "VROpenVRNode" /\ e.eye # "Cyclops" ->
                 window.target = e.eye /\ window.rect = RenderTarget
          [] by.type = "VRHoloPlayNode" -> window.target = "view"
          [] by.type = "VRStereoNode" /\ by.settings.format = "SideBySide" ->
                 /\ Within(window.rect, outer)
                 /\ IF e.eye = "Left" THEN window.rect.x = outer.x
                    ELSE window.rect.x > outer.x + outer.w \div 2
          [] OTHER ->
                 /\ window.target = "window" /\ window.rect = outer
                 /\ window.buffer = IF by.type = "VRStereoNode" /\ by.settings.format = "QuadBuffered"
                                    THEN IF e.eye = "Left" THEN "BackLeft" ELSE "BackRight" ELSE "Back"

\* A scene is drawn into the window above it, and there into the buffer and the part
\* for its eye and its viewport; no window is current in two threads; and the light
\* field is drawn when each view has a tile of its own.  The code sets these with
\* global calls, for whatever window happens to be current in the thread.
DrawsInOwnWindow ==
    /\ \A t \in AtScene :
          LET above == Innermost(Argument(t), WindowTypes) IN
          above # {} => /\ current[t] = Argument(t)[Max(above)].id
                        /\ ProperPart(Argument(t), windows[current[t]])
    /\ \A t, u \in DOMAIN current : t # u /\ current[t] # 0 => current[t] # current[u]
    /\ \A t \in DOMAIN threads : Calls(t, "DrawLightField") =>
          LET quilt == windows[current[t]].quilt IN
          /\ {quilt[p] : p \in DOMAIN quilt} = {ViewName(i - 1) : i \in 1..Quilt.views}
          /\ \A p \in DOMAIN quilt : p[1] < Quilt.columns /\ p[2] < Quilt.rows

\* How often the scene is drawn at each node without children.
RECURSIVE Draws(_, _)
ViewsOf(node) ==
    CASE node.type = "VRHoloPlayNode" -> Quilt.views
      [] node.type = "VROpenVRNode"   -> IF node.settings.screen THEN 3 ELSE 2
      [] OTHER                        -> 1
Draws(node, times) ==
    IF node.children = <<>> THEN {<<node.id, times * ViewsOf(node)>>}
    ELSE UNION {Draws(node.children[i], times * ViewsOf(node)) : i \in DOMAIN node.children}

\* When a window of the process shows a frame, all of its windows have drawn it: every
\* scene once for each view, and the graphics of every window is finished.  Each window
\* is swapped once in a frame.
SwapAfterAllDrawn ==
    \A w \in DOMAIN windows :
        /\ windows[w].swaps \in {frame, frame - 1}
        /\ frame > 0 /\ Idle => windows[w].swaps = frame
        /\ frame > 0 /\ windows[w].swaps = frame =>
              /\ \A i \in DOMAIN graphs : \A d \in Draws(graphs[i], 1) : drawn[d[1]] = d[2]
              /\ \A v \in DOMAIN windows :
                    NodeOf(v).type = "VRG3DDisplayNode" \/ windows[v].finished = frame

\* What a thread draws: a graph, or a child of a thread group.
ThreadRoots ==
    {graphs[i] : i \in DOMAIN graphs}
    \cup UNION {{n.children[i] : i \in DOMAIN n.children} :
                   n \in {m \in NodesOf(graphs) : m.type = "VRThreadGroupNode" /\ m.settings.async}}
RECURSIVE Covered(_, _)
Covered(node, types) ==
    \/ node.type \in types
    \/ node.type = "VRThreadGroupNode" /\ node.settings.async
    \/ node.children # <<>> /\ \A i \in DOMAIN node.children : Covered(node.children[i], types)
RECURSIVE AllMarked(_)
AllMarked(print) == print.marked \cup UNION {AllMarked(print.children[i]) : i \in DOMAIN print.children}

\* A frame can only fail if the audit would have refused what one of the threads draws,
\* or a scene is below no window or console of its thread; the audit does not know that
\* scenes, and stereo nodes that split a window, need one.  What printNode marks is what
\* the audit refuses, and getValuesAdded lists what the nodes declare.
AuditSound ==
    /\ failed => \E r \in ThreadRoots :
          ~AuditValues(r, {}) \/ ~Covered(r, WindowTypes \cup {"VRConsoleNode"})
    /\ \A i \in DOMAIN graphs :
          /\ AuditValues(graphs[i], {}) <=> AllMarked(PrintNode(graphs[i], {})) = {}
          /\ DOMAIN GetValuesAdded(graphs[i]) = UNION {n.added : n \in NodesIn(graphs[i])}
=============================================================================
