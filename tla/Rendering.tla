----------------------------- MODULE Rendering -----------------------------
(***************************************************************************)
(* What the nodes of a display graph do when they are asked to render, to  *)
(* wait until that is complete, and to display it: the calls that a node   *)
(* makes, in their order, those of its children among them.  Every call is *)
(* a record of what is called and with which argument.  A scene comes with *)
(* the chain of the nodes above it in its thread, and for which eye each   *)
(* of them renders.                                                        *)
(***************************************************************************)
EXTENDS DisplayTree
LOCAL INSTANCE SequencesExt
LOCAL INSTANCE TLC

Call(op, arg) == [op |-> op, arg |-> arg]
Push == Call("PushState", {})
Pop  == Call("PopState", {})
\* (Faulty: the values stay.)
Unscoped(calls) == <<Push>> \o calls
Scoped(calls) == <<Push>> \o calls \o <<Pop>>

\* Values of a node: with no eye, for one eye, or computed from another value.
Add(node, names) == Call("AddData", [names |-> names, from |-> node.id, eye |-> "", of |-> ""])
AddForEye(node, names, eye) == Call("AddData", [names |-> names, from |-> node.id, eye |-> eye, of |-> ""])
AddComputed(node, names, eye, of) == Call("AddData", [names |-> names, from |-> node.id, eye |-> eye, of |-> of])
Get(name) == Call("GetValue", name)

SceneBelow(chain) == Call("RenderScene", chain)
BoundTo(target, rects) == Call("BindFramebuffer", [target |-> target, rects |-> rects])
Here(chain, node)         == Append(chain, [id |-> node.id, eye |-> ""])
HereFor(chain, node, eye) == Append(chain, [id |-> node.id, eye |-> eye])

RECURSIVE Render(_, _)

\* VRDisplayNode's own: the children, or the scene if there are none.
RenderAll(node, chain) ==
    IF node.children = <<>> THEN <<SceneBelow(chain)>>
    ELSE FlattenSeq([i \in DOMAIN node.children |-> Render(node.children[i], chain)])

\* (Faulty: the window is not made current.)
RenderWindowAnyhow(node, chain) ==
    Scoped(<<Add(node, WindowValues \cup {"IsGraphics"}), Call("RenderContext", {})>>
           \o RenderAll(node, Here(chain, node)) \o <<Call("FlushGraphics", {})>>)
RenderWindow(node, chain) ==
    Scoped(<<Add(node, WindowValues \cup {"IsGraphics"}), Call("MakeWindowCurrent", node.id), Call("RenderContext", {})>>
           \o RenderAll(node, Here(chain, node)) \o <<Call("FlushGraphics", {})>>)
RenderG3DWindow(node, chain) ==
    Scoped(<<Add(node, WindowValues \cup {"IsGraphics"}), Call("MakeWindowCurrent", node.id), Call("RenderContext", {})>>
           \o RenderAll(node, Here(chain, node)) \o <<Call("FlushGraphics", {})>>)

RenderViewport(node, chain) ==
    Scoped(<<Add(node, ViewportValues), Call("SetSubWindow", node.settings.rect)>>
           \o RenderAll(node, Here(chain, node)))

\* A stereo node has one child for each eye, or uses the first one it has.
\* (Faulty: the second eye takes the camera of the first.)
SameCamera(node, eye) ==
    <<Get("HeadMatrix"), AddComputed(node, {"CameraMatrix"}, "Left", "HeadMatrix")>>
SetCameraMatrix(node, eye) ==
    <<Get("HeadMatrix"), AddComputed(node, {"CameraMatrix"}, eye, "HeadMatrix")>>
RenderOneEye(node, chain, eye) ==
    Scoped(SetCameraMatrix(node, eye)
           \o IF node.children = <<>> THEN <<SceneBelow(HereFor(chain, node, eye))>>
              ELSE <<AddForEye(node, {"Eye"}, eye)>>
                   \o Render(node.children[IF eye = "Right" THEN 2 ELSE 1], HereFor(chain, node, eye)))

\* No toolkit can leave out columns of a window: the call has no effect.
RenderStereo(node, chain) ==
    LET eye(e) == RenderOneEye(node, chain, e) IN
    Scoped(<<Add(node, {"StereoFormat"})>> \o
           CASE node.settings.format = "Mono" -> <<Call("SetDrawBuffer", "Back")>> \o eye("Cyclops")
             [] node.settings.format = "QuadBuffered" ->
                    <<Call("SetDrawBuffer", "BackLeft")>> \o eye("Left") \o <<Call("SetDrawBuffer", "BackRight")>> \o eye("Right")
             [] node.settings.format = "SideBySide" ->
                    <<Call("SetHalfWindow", "Left")>> \o eye("Left") \o <<Call("SetHalfWindow", "Right")>> \o eye("Right")
             [] node.settings.format = "ColumnInterlaced" -> eye("Left") \o eye("Right"))

RenderOffAxisProjection(node, chain) ==
    Scoped(<<Get("CameraMatrix"),
             AddComputed(node, {"ProjectionMatrix", "ViewMatrix"}, "", "CameraMatrix")>>
           \o RenderAll(node, Here(chain, node)))

RenderProjection(node, chain) ==
    Scoped(<<Add(node, {"ProjectionMatrix", "ProjectionHorizontalClip", "ProjectoinVerticalClip",
                        "ProjectionFovX", "ProjectionFovY", "ProjectionNearClip", "ProjectionFarClip"}),
             Get("CameraMatrix"), AddComputed(node, {"ViewMatrix"}, "", "CameraMatrix")>>
           \o RenderAll(node, Here(chain, node)))

RenderLookAt(node, chain) ==
    Scoped(<<Add(node, {"HeadMatrix", "CameraMatrix"})>> \o RenderAll(node, Here(chain, node)))
RenderHeadTracking(node, chain) ==
    Scoped(<<Add(node, {"HeadMatrix", "CameraMatrix"})>> \o RenderAll(node, Here(chain, node)))

RenderConsole(node, chain) ==
    Scoped(<<Add(node, {"/IsConsole"}), Call("RenderContext", {}), SceneBelow(Here(chain, node))>>)

\* Each of the views is drawn into a texture, which is copied to its tile of the quilt.
QuiltSettings(preset) ==
    IF preset = 0 THEN [columns |-> 4, rows |-> 8, views |-> 32] ELSE [columns |-> 5, rows |-> 9, views |-> 45]
Quilt == QuiltSettings(0)
ViewName(view) == "LKview" \o ToString(view)
\* (Faulty: rows for columns.)
TransposedTile(view) == Call("CopyViewToQuilt", [x |-> view % Quilt.rows, y |-> view \div Quilt.rows, view |-> ViewName(view)])
Tile(view) ==
    Call("CopyViewToQuilt", [x |-> view % Quilt.columns, y |-> view \div Quilt.columns, view |-> ViewName(view)])
RenderView(node, chain, view) ==
    <<BoundTo("view", {})>>
    \o Scoped(<<AddComputed(node, {"ProjectionMatrix", "ViewMatrix"}, ViewName(view), "CameraMatrix"),
                AddForEye(node, {"Eye"}, ViewName(view))>>
              \o RenderAll(node, HereFor(chain, node, ViewName(view))))
    \o <<BoundTo("window", {}), Tile(view)>>
RenderHoloPlay(node, chain) ==
    <<Get("WindowWidth"), Get("WindowHeight"), Get("CameraMatrix")>>
    \o FlattenSeq([i \in 1..Quilt.views |-> RenderView(node, chain, i - 1)])
    \o <<Call("DrawLightField", {}), Call("FinishGraphics", {})>>

RenderTarget == [x |-> 0, y |-> 0, w |-> 1024, h |-> 1024]
HeadMountedEye(node, chain, eye) ==
    Scoped(<<BoundTo(eye, {RenderTarget}),
             AddForEye(node, {"ProjectionMatrix", "ViewMatrix", "Eye"}, eye)>>
           \o RenderAll(node, HereFor(chain, node, eye))
           \o <<BoundTo("window", {})>>)
RenderOpenVR(node, chain) ==
    HeadMountedEye(node, chain, "Left") \o HeadMountedEye(node, chain, "Right")
    \o IF ~node.settings.screen THEN <<>>
       ELSE Scoped(<<Get("WindowWidth"), Get("WindowHeight"), Call("SetWholeWindow", {}),
                     AddForEye(node, {"ProjectionMatrix", "ViewMatrix"}, "Right"),
                     AddForEye(node, {"Eye"}, "Cyclops")>>
                   \o RenderAll(node, HereFor(chain, node, "Cyclops")))

RenderScalable(node, chain) ==
    Scoped(<<AddComputed(node, {"ProjectionMatrix", "ViewMatrix"}, "", "CameraMatrix")>>
           \o RenderAll(node, Here(chain, node)))

\* With threads there is one for each child, whose chain begins anew.
InThreads(node, action, calls) ==
    <<Call("StartThreadAction",
          [group |-> node.id, action |-> action, work |->
             [i \in DOMAIN node.children |-> [thread |-> node.children[i].id, calls |-> calls[i]]]]),
      Call("WaitForComplete", {})>>
RenderThreadGroup(node, chain) ==
    IF ~node.settings.async THEN RenderAll(node, Here(chain, node))
    ELSE InThreads(node, "Render", [i \in DOMAIN node.children |-> Render(node.children[i], <<>>)])

Render(node, chain) ==
    CASE node.type = "VRGraphicsWindowNode"    -> RenderWindow(node, chain)
      [] node.type = "VRG3DDisplayNode"        -> RenderG3DWindow(node, chain)
      [] node.type = "VRGroupNode"             -> RenderAll(node, Here(chain, node))
      [] node.type = "VRConsoleNode"           -> RenderConsole(node, chain)
      [] node.type = "VRViewportNode"          -> RenderViewport(node, chain)
      [] node.type = "VRStereoNode"            -> RenderStereo(node, chain)
      [] node.type = "VROffAxisProjectionNode" -> RenderOffAxisProjection(node, chain)
      [] node.type = "VRProjectionNode"        -> RenderProjection(node, chain)
      [] node.type = "VRLookAtNode"            -> RenderLookAt(node, chain)
      [] node.type = "VRHeadTrackingNode"      -> RenderHeadTracking(node, chain)
      [] node.type = "VRThreadGroupNode"       -> RenderThreadGroup(node, chain)
      [] node.type = "VRScalableNode"          -> RenderScalable(node, chain)
      [] node.type = "VRHoloPlayNode"          -> RenderHoloPlay(node, chain)
      [] node.type = "VROpenVRNode"            -> RenderOpenVR(node, chain)

-----------------------------------------------------------------------------
RECURSIVE WaitForRenderToComplete(_)
WaitForAll(node) == FlattenSeq([i \in DOMAIN node.children |-> WaitForRenderToComplete(node.children[i])])
WaitForWindow(node) == WaitForAll(node) \o <<Call("MakeWindowCurrent", node.id), Call("FinishGraphics", {})>>
WaitForThreadGroup(node) ==
    IF ~node.settings.async THEN WaitForAll(node)
    ELSE InThreads(node, "Wait", [i \in DOMAIN node.children |-> WaitForRenderToComplete(node.children[i])])
\* A G3D window does not even ask its children.
WaitForRenderToComplete(node) ==
    CASE node.type = "VRGraphicsWindowNode" -> WaitForWindow(node)
      [] node.type = "VRG3DDisplayNode"     -> <<>>
      [] node.type = "VRThreadGroupNode"    -> WaitForThreadGroup(node)
      [] OTHER                              -> WaitForAll(node)

RECURSIVE DisplayFinishedRendering(_)
DisplayAll(node) == FlattenSeq([i \in DOMAIN node.children |-> DisplayFinishedRendering(node.children[i])])
DisplayWindow(node) == DisplayAll(node) \o <<Call("MakeWindowCurrent", node.id), Call("SwapBuffers", node.id)>>
DisplayG3DWindow(node) == DisplayAll(node) \o <<Call("MakeWindowCurrent", node.id), Call("SwapBuffers", node.id)>>
DisplayConsole(node) == <<>>
DisplayScalable(node) == DisplayAll(node) \o <<Call("FinishGraphics", {}), Call("TransformInputToOutput", {})>>
DisplayThreadGroup(node) ==
    IF ~node.settings.async THEN DisplayAll(node)
    ELSE InThreads(node, "Display", [i \in DOMAIN node.children |-> DisplayFinishedRendering(node.children[i])])
DisplayFinishedRendering(node) ==
    CASE node.type = "VRGraphicsWindowNode" -> DisplayWindow(node)
      [] node.type = "VRG3DDisplayNode"     -> DisplayG3DWindow(node)
      [] node.type = "VRConsoleNode"        -> DisplayConsole(node)
      [] node.type = "VRScalableNode"       -> DisplayScalable(node)
      [] node.type = "VRThreadGroupNode"    -> DisplayThreadGroup(node)
      [] OTHER                              -> DisplayAll(node)

-----------------------------------------------------------------------------
\* renderOnAllDisplays, for the display graphs of a program.
\* (Faulty: each graph is displayed as soon as it has been rendered.)
EachAtOnce(graphs) ==
    FlattenSeq([i \in DOMAIN graphs |->
        Render(graphs[i], <<>>) \o WaitForRenderToComplete(graphs[i]) \o DisplayFinishedRendering(graphs[i])])
RenderOnAllDisplays(graphs) ==
    FlattenSeq([i \in DOMAIN graphs |-> Render(graphs[i], <<>>)])
    \o FlattenSeq([i \in DOMAIN graphs |-> WaitForRenderToComplete(graphs[i])])
    \o FlattenSeq([i \in DOMAIN graphs |-> DisplayFinishedRendering(graphs[i])])
=============================================================================
