---------------------------- MODULE DisplayTree ----------------------------
(***************************************************************************)
(* How the nodes of a display graph are made from the configuration, and   *)
(* audited.  A program is a record with the fields                         *)
(*    ix           _config                                                 *)
(*    factory      see Plugins                                             *)
(*    gfx, win     _gfxToolkits and _winToolkits                           *)
(*    devices      _inputDevices                                           *)
(*    handlers     _eventHandlers                                          *)
(*    objects      all objects made: the library their code is in, and     *)
(*                 how many times they were deleted                        *)
(*    failed       an exception was thrown, or the program crashed         *)
(*    node         what was created last                                   *)
(* Toolkits, devices and nodes have the number of their object for id.     *)
(***************************************************************************)
EXTENDS DataIndexOps, Plugins
LOCAL INSTANCE SequencesExt
LOCAL INSTANCE FiniteSetsExt

CONSTANT Numbers     \* what words in the configuration are as whole numbers

NoNode == [type |-> "none"]
NoProgram ==
    [ix |-> Empty("none"), factory |-> <<>>, gfx |-> <<>>, win |-> <<>>, devices |-> <<>>,
     handlers |-> <<>>, objects |-> <<>>, failed |-> FALSE, node |-> NoNode]
Fails(m) == [m EXCEPT !.failed = TRUE]

New(m, library) == [m EXCEPT !.objects = Append(@, [library |-> library, deletions |-> 0])]
NewestId(m) == Len(m.objects)

At(m, key, ns)   == ValueString(GetDatum(m.ix, Relative(<<key>>), ns))[1]
Given(m, key, ns) == Exists(m.ix, Relative(<<key>>), ns, TRUE)
NumberAt(m, key, default, ns) == IF Given(m, key, ns) THEN Numbers[At(m, key, ns)] ELSE default

-----------------------------------------------------------------------------
(* Toolkits and windows.  A toolkit keeps a virtual input device, which it *)
(* hands over to VRMain with its first window.                             *)

NewToolkit(m, name, library) ==
    LET device == New(m, library)
        both   == New(device, library)
    IN  [both EXCEPT !.node = [type |-> name, id |-> NewestId(both), device |-> NewestId(device),
                               library |-> library, windows |-> <<>>, groups |-> <<>>]]

VRGLFWWindowToolkit(m, library)     == NewToolkit(m, "VRGLFWWindowToolkit", library)
VRFreeGLUTWindowToolkit(m, library) == NewToolkit(m, "VRFreeGLUTWindowToolkit", library)
VRG3DWindowToolkit(m, library)      == NewToolkit(m, "VR3GDWindowToolkit", library)
VROpenGLGraphicsToolkit(m, library) ==
    [New(m, library) EXCEPT !.node = [type |-> "VROpenGLGraphicsToolkit", id |-> NewestId(m) + 1]]
VRG3DGraphicsToolkit(m, library) ==
    [New(m, library) EXCEPT !.node = [type |-> "VRG3DGraphicsToolkit", id |-> NewestId(m) + 1]]

\* addInputDevice puts a device before those of the configuration.
AddInputDevice(m, id) == [m EXCEPT !.devices = <<id>> \o @]

\* The toolkit with a name, or none.
Named(toolkits, name) == {i \in DOMAIN toolkits : toolkits[i].type = name}
GetGraphicsToolkit(m, name) == IF Named(m.gfx, name) = {} THEN 0 ELSE Min(Named(m.gfx, name))
GetWindowToolkit(m, name)   == IF Named(m.win, name) = {} THEN 0 ELSE Min(Named(m.win, name))

\* (Faulty: the device is handed over with every window.)
WithEachDevice(m, w) == AddInputDevice(m, m.win[w].device)
WithDevice(m, w) == IF m.win[w].windows = <<>> THEN AddInputDevice(m, m.win[w].device) ELSE m
Window(open, shares) == [open |-> open, shares |-> shares]

\* A window of a group shares the context of the last one made in that group.
\* (Faulty: only a group that is known is noted.)
Shares(toolkit, group) == IF group >= 0 /\ group \in DOMAIN toolkit.groups THEN toolkit.groups[group] ELSE 0
NotedIfKnown(groups, group, window) ==
    IF group \notin DOMAIN groups THEN groups ELSE [groups EXCEPT ![group] = window]
NotedGroup(groups, group, window) ==
    [g \in DOMAIN groups \cup {group} |-> IF g = group THEN window ELSE groups[g]]
GLFWCreateWindow(m, w, group) ==
    [WithDevice(m, w) EXCEPT
        !.win[w].windows = Append(@, Window(TRUE, Shares(m.win[w], group))),
        !.win[w].groups = NotedGroup(@, group, Len(m.win[w].windows) + 1)]
FreeGLUTCreateWindow(m, w) ==
    [WithDevice(m, w) EXCEPT !.win[w].windows = Append(@, Window(TRUE, 0))]
G3DCreateWindow(m, w) ==
    [WithDevice(m, w) EXCEPT !.win[w].windows = Append(@, Window(TRUE, 0))]
CreateWindow(m, w, group) ==
    CASE m.win[w].type = "VRGLFWWindowToolkit"             -> GLFWCreateWindow(m, w, group)
      [] m.win[w].type = "VRFreeGLUTWindowToolkit" -> FreeGLUTCreateWindow(m, w)
      [] m.win[w].type = "VR3GDWindowToolkit"      -> G3DCreateWindow(m, w)

\* What deleting a toolkit does to windows: glfwTerminate destroys all there are,
\* FreeGLUT those of the toolkit, G3D none.
Closed(toolkit) == [toolkit EXCEPT !.windows = [i \in DOMAIN @ |-> [@[i] EXCEPT !.open = FALSE]]]
CloseWindows(m, toolkit) ==
    CASE toolkit.type = "VRGLFWWindowToolkit" ->
            [m EXCEPT !.win = [i \in DOMAIN @ |->
                IF @[i].type = toolkit.type THEN Closed(@[i]) ELSE @[i]]]
      [] toolkit.type = "VRFreeGLUTWindowToolkit" ->
            [m EXCEPT !.win = [i \in DOMAIN @ |-> IF @[i].id = toolkit.id THEN Closed(@[i]) ELSE @[i]]]
      [] OTHER -> m

-----------------------------------------------------------------------------
(* The nodes: what each needs of the render state, what it adds, and what  *)
(* it takes from the configuration.                                        *)

NewNode(m, type, name, library, needed, added, settings) ==
    [New(m, library) EXCEPT
        !.node = [type |-> type, name |-> name, id |-> NewestId(m) + 1, needed |-> needed,
                  added |-> added, settings |-> settings, children |-> <<>>]]
NoSettings == <<>>
WindowValues == { "WindowX", "WindowY", "WindowWidth", "WindowHeight", "FramebufferWidth",
                  "FramebufferHeight", "SharedContextId", "WindowID" }
ViewportValues == {"ViewportX", "ViewportY", "ViewportWidth", "ViewportHeight"}

\* Values that create() reads without a default.
Requires(m, keys, ns) == \A key \in keys : Given(m, key, ns)

Rectangle(m, default, ns) ==
    [x |-> NumberAt(m, "XPos", default.x, ns), y |-> NumberAt(m, "YPos", default.y, ns),
     w |-> NumberAt(m, "Width", default.w, ns), h |-> NumberAt(m, "Height", default.h, ns)]
DefaultWindow == [x |-> 100, y |-> 100, w |-> 640, h |-> 640]

\* The constructor of a window node opens the window.
VRGraphicsWindowNode(m, ns, library, w, settings) ==
    LET opened == CreateWindow(m, w, settings.group) IN
    NewNode(opened, "VRGraphicsWindowNode", ns, library, {}, WindowValues,
            [toolkit |-> w, window |-> Len(opened.win[w].windows), rect |-> settings.rect,
             group |-> settings.group])
CreateGraphicsWindowNode(m, ns, library) ==
    LET w == GetWindowToolkit(m, At(m, "WindowToolkit", ns))
        settings == [rect |-> Rectangle(m, DefaultWindow, ns),
                     group |-> NumberAt(m, "SharedContextGroupID", -1, ns)]
    IN  IF ~Requires(m, {"GraphicsToolkit", "WindowToolkit"}, ns) \/ w = 0 THEN Fails(m)
        ELSE VRGraphicsWindowNode(m, ns, library, w, settings)

\* A G3D window node opens it in create(), and needs the toolkits of G3D.
VRG3DDisplayNode(m, ns, library, settings) ==
    NewNode(m, "VRG3DDisplayNode", ns, library, {}, WindowValues, settings)
CreateG3DDisplayNode(m, ns, library) ==
    LET w == GetWindowToolkit(m, At(m, "WindowToolkit", ns))
        opened == CreateWindow(m, w, NumberAt(m, "SharedContextGroupID", -1, ns))
    IN  IF \/ ~Requires(m, {"GraphicsToolkit", "WindowToolkit"}, ns) \/ w = 0
           \/ m.win[w].type # "VR3GDWindowToolkit"
           \/ GetGraphicsToolkit(m, "VRG3DGraphicsToolkit") = 0
        THEN Fails(m)
        ELSE VRG3DDisplayNode(opened, ns, library,
                 [toolkit |-> w, window |-> Len(opened.win[w].windows), group |-> -1,
                  rect |-> Rectangle(m, DefaultWindow, ns)])

VRGroupNode(m, ns, library) == NewNode(m, "VRGroupNode", ns, library, {}, {}, NoSettings)

VRConsoleNode(m, ns, library) ==
    NewNode(m, "VRConsoleNode", ns, library, {}, {"/IsConsole"}, NoSettings)
CreateConsoleNode(m, ns, library) ==
    IF Requires(m, {"Stream"}, ns) THEN VRConsoleNode(m, ns, library) ELSE Fails(m)

VRViewportNode(m, ns, library, rect) ==
    NewNode(m, "VRViewportNode", ns, library, {}, ViewportValues, [rect |-> rect])
CreateViewportNode(m, ns, library) ==
    IF Requires(m, {"GraphicsToolkit", "XPos", "YPos", "Width", "Height"}, ns)
    THEN VRViewportNode(m, ns, library, Rectangle(m, DefaultWindow, ns)) ELSE Fails(m)

Formats == {"QuadBuffered", "SideBySide", "ColumnInterlaced"}
VRStereoNode(m, ns, library, format) ==
    NewNode(m, "VRStereoNode", ns, library, {"HeadMatrix"},
            {"CameraMatrix", "Eye", "StereoFormat"}, [format |-> format])
\* An unknown format is mono.
CreateStereoNode(m, ns, library) ==
    LET format == At(m, "StereoFormat", ns) IN
    IF \/ ~Requires(m, {"GraphicsToolkit", "StereoFormat"}, ns)
       \/ format \in Formats /\ ~Requires(m, {"EyeSeparation"}, ns)
    THEN Fails(m)
    ELSE VRStereoNode(m, ns, library, IF format \in Formats THEN format ELSE "Mono")

VROffAxisProjectionNode(m, ns, library) ==
    NewNode(m, "VROffAxisProjectionNode", ns, library, {"CameraMatrix"},
            {"ProjectionMatrix", "ViewMatrix"}, NoSettings)
CreateOffAxisProjectionNode(m, ns, library) ==
    IF Requires(m, {"TopLeft", "BottomLeft", "TopRight", "BottomRight", "NearClip", "FarClip"}, ns)
    THEN VROffAxisProjectionNode(m, ns, library) ELSE Fails(m)

VRProjectionNode(m, ns, library) ==
    NewNode(m, "VRProjectionNode", ns, library, {"CameraMatrix"},
            {"ViewMatrix", "ProjectionMatrix"}, NoSettings)

\* The matrix is that of the configuration, or follows from where to look, or is the
\* identity.
HeadMatrix(m, ns) ==
    CASE Given(m, "HeadMatrix", ns) -> "given"
      [] ~Given(m, "HeadMatrix", ns) /\ Requires(m, {"LookAtUp", "LookAtEye", "LookAtCenter"}, ns) -> "looks"
      [] OTHER -> "identity"
VRLookAtNode(m, ns, library, matrix) ==
    NewNode(m, "VRLookAtNode", ns, library, {}, {"HeadMatrix", "CameraMatrix"}, [matrix |-> matrix])
CreateLookAtNode(m, ns, library) == VRLookAtNode(m, ns, library, HeadMatrix(m, ns))

VRHeadTrackingNode(m, ns, library, matrix, event) ==
    NewNode(m, "VRHeadTrackingNode", ns, library, {}, {"HeadMatrix", "CameraMatrix"},
            [matrix |-> matrix, event |-> event])
\* It is an event handler, and never taken back from VRMain.
CreateHeadTrackingNode(m, ns, library) ==
    LET made == VRHeadTrackingNode(m, ns, library, HeadMatrix(m, ns), At(m, "HeadTrackingEvent", ns))
    IN  IF Requires(m, {"HeadTrackingEvent"}, ns)
        THEN [made EXCEPT !.handlers = Append(@, made.node.id)] ELSE Fails(m)

CreateThreadGroupNode(m, ns, library) ==
    IF Requires(m, {"AsyncEnabled"}, ns)
    THEN NewNode(m, "VRThreadGroupNode", ns, library, {}, {},
                 [async |-> Numbers[At(m, "AsyncEnabled", ns)] # 0])
    ELSE Fails(m)

VRScalableNode(m, ns, library) ==
    NewNode(m, "VRScalableNode", ns, library, {"CameraMatrix", "Eye"},
            {"ProjectionMatrix", "ViewMatrix"}, NoSettings)
CreateScalableNode(m, ns, library) ==
    IF Requires(m, {"ScalableWarpFile", "NearClip", "FarClip"}, ns)
    THEN VRScalableNode(m, ns, library) ELSE Fails(m)

HeadMountedValues == {"ProjectionMatrix", "ViewMatrix", "Eye"}
\* The node is an input device, too.
VRHoloPlayNode(m, ns, library) ==
    LET made == NewNode(m, "VRHoloPlayNode", ns, library,
                        {"WindowHeight", "WindowWidth", "CameraMatrix"}, HeadMountedValues, NoSettings)
    IN  AddInputDevice(made, made.node.id)
\* The node has an input device of its own.
VROpenVRNode(m, ns, library, settings) ==
    LET device == New(m, library) IN
    NewNode(AddInputDevice(device, NewestId(device)), "VROpenVRNode", ns, library,
            {"WindowHeight", "WindowWidth"}, HeadMountedValues, settings)
CreateOpenVRNode(m, ns, library) ==
    VROpenVRNode(m, ns, library,
        [screen |-> ~(Given(m, "DrawHMDOnly", ns) /\ Numbers[At(m, "DrawHMDOnly", ns)] # 0)])

CreateConcrete(m, ns, item) ==
    CASE item.name = "VRGraphicsWindowNode"    -> CreateGraphicsWindowNode(m, ns, item.library)
      [] item.name = "VRG3DDisplayNode"        -> CreateG3DDisplayNode(m, ns, item.library)
      [] item.name = "VRGroupNode"             -> VRGroupNode(m, ns, item.library)
      [] item.name = "VRConsoleNode"           -> CreateConsoleNode(m, ns, item.library)
      [] item.name = "VRViewportNode"          -> CreateViewportNode(m, ns, item.library)
      [] item.name = "VRStereoNode"            -> CreateStereoNode(m, ns, item.library)
      [] item.name = "VROffAxisProjectionNode" -> CreateOffAxisProjectionNode(m, ns, item.library)
      [] item.name = "VRProjectionNode"        -> VRProjectionNode(m, ns, item.library)
      [] item.name = "VRLookAtNode"            -> CreateLookAtNode(m, ns, item.library)
      [] item.name = "VRHeadTrackingNode"      -> CreateHeadTrackingNode(m, ns, item.library)
      [] item.name = "VRThreadGroupNode"       -> CreateThreadGroupNode(m, ns, item.library)
      [] item.name = "VRScalableNode"          -> CreateScalableNode(m, ns, item.library)
      [] item.name = "VRHoloPlayNode"          -> VRHoloPlayNode(m, ns, item.library)
      [] item.name = "VROpenVRNode"            -> CreateOpenVRNode(m, ns, item.library)

-----------------------------------------------------------------------------
(* Trees of nodes.                                                         *)

AttributeValue(m, ns, attr) ==
    LET attrs == DatumOf(m.ix, ns).attrs IN IF attr \in DOMAIN attrs THEN attrs[attr] ELSE ""

\* A console node has no children.
Adopted(m, parent) ==
    [m EXCEPT !.node = IF m.node = NoNode \/ parent.type = "VRConsoleNode" THEN parent
                       ELSE [parent EXCEPT !.children = Append(@, m.node)]]

DisplayNodesIn(m, ns) ==
    SelectSeq(SelectByAttribute(m.ix, "displaynodeType", "*", ns, TRUE), LAMBDA n : IsChild(ns, n) = 1)

\* A stereo node takes its children as they are listed in its container, and makes
\* them twice, once for each eye; what it tells the configuration of the eye is
\* undone by popState.
ListedNodes(m, ns) ==
    LET names == DatumOf(m.ix, ns).names
        listed == [i \in DOMAIN names |-> Append(ns, names[i])]
    IN  SelectSeq(listed, LAMBDA n : "displaynodeType" \in DOMAIN DatumOf(m.ix, n).attrs)
EyeName(ns, suffix) == Append(Front(ns), Last(ns) \o suffix)

RECURSIVE Create(_, _)
CreateAll(m, names) ==
    LET child(s, n) == IF s.failed THEN s ELSE Adopted(Create(s, n), s.node)
    IN  Each(child, m, names)

CreateStereoChildren(m, ns) ==
    LET parent == m.node
        names  == ListedNodes(m, ns)
        group(s, suffix) == CreateAll(VRGroupNode(s, EyeName(ns, suffix), Core), names)
        left   == Adopted(group(m, "_left"), parent)
        right  == Adopted(group(left, "_right"), left.node)
    IN  IF parent.settings.format = "Mono" THEN CreateAll(m, names)
        ELSE CHOOSE t \in {right} : TRUE

CreateChildren(m, ns) == CreateAll(m, DisplayNodesIn(m, ns))

\* The factory's create: the node, and then its children.
Create(m, ns) ==
    LET item == FactoryFor(m.factory, "VRDisplayNode", AttributeValue(m, ns, "displaynodeType")) IN
    IF item = NoFactory THEN [m EXCEPT !.node = NoNode]
    ELSE CHOOSE t \in { IF made.failed THEN made
                        ELSE IF made.node.type = "VRStereoNode" THEN CreateStereoChildren(made, ns)
                        ELSE CreateChildren(made, ns) : made \in {CreateConcrete(m, ns, item)} } : TRUE

-----------------------------------------------------------------------------
(* What initialize does for a display node that is at the top of a graph.  *)

Deleted(m, id) == [m EXCEPT !.objects[id].deletions = @ + 1]

ConcreteToolkit(m, item) ==
    CASE item.name = "VROpenGLGraphicsToolkit" -> VROpenGLGraphicsToolkit(m, item.library)
      [] item.name = "VRG3DGraphicsToolkit"    -> VRG3DGraphicsToolkit(m, item.library)
      [] item.name = "VRGLFWWindowToolkit"     -> VRGLFWWindowToolkit(m, item.library)
      [] item.name = "VRFreeGLUTWindowToolkit" -> VRFreeGLUTWindowToolkit(m, item.library)
      [] item.name = "VRG3DWindowToolkit"      -> VRG3DWindowToolkit(m, item.library)

\* The toolkit found nearest to the node.
ToolkitFor(m, ns, parent, attr) ==
    LET place == GetByAttribute(m.ix, attr, "*", ns)
        item  == FactoryFor(m.factory, parent, AttributeValue(m, place, attr))
    IN  IF m.failed \/ place = NoEntry \/ item = NoFactory THEN Fails(m) ELSE ConcreteToolkit(m, item)

\* The node is told its name; one of a name that is in use is deleted again.
UseGraphicsToolkit(m, ns) ==
    LET told == [m EXCEPT !.ix = AddValue(@, Append(ns, "GraphicsToolkit"), "string", <<<<m.node.type>>>>)]
    IN  IF m.failed THEN m
        ELSE IF GetGraphicsToolkit(m, m.node.type) # 0 THEN Deleted(told, m.node.id)
        ELSE [told EXCEPT !.gfx = Append(@, m.node)]
UseWindowToolkit(m, ns) ==
    LET told == [m EXCEPT !.ix = AddValue(@, Append(ns, "WindowToolkit"), "string", <<<<m.node.type>>>>)]
    IN  IF m.failed THEN m
        ELSE IF GetWindowToolkit(m, m.node.type) # 0
        THEN CloseWindows(Deleted(told, m.node.id), m.node)
        ELSE [told EXCEPT !.win = Append(@, m.node)]

DisplayNode(m, ns) ==
    LET gfx == UseGraphicsToolkit(ToolkitFor(m, ns, "VRGraphicsToolkit", "graphicstoolkitType"), ns)
        win == UseWindowToolkit(ToolkitFor(gfx, ns, "VRWindowToolkit", "windowtoolkitType"), ns)
    IN  CHOOSE t \in { IF made.failed THEN made ELSE Create(made, ns) : made \in {win} } : TRUE

-----------------------------------------------------------------------------
(* What is asked of a tree.                                                *)

RECURSIVE IdsIn(_)
IdsIn(node) == {node.id} \cup UNION {IdsIn(node.children[i]) : i \in DOMAIN node.children}
RECURSIVE NodesIn(_)
NodesIn(node) == {node} \cup UNION {NodesIn(node.children[i]) : i \in DOMAIN node.children}

\* auditValues: each node finds what it needs in what it, or a node above it, adds.
\* (Faulty: only the node at the top is asked.)
AuditTop(node, above) == node.needed \subseteq above \cup node.added
RECURSIVE AuditValues(_, _)
AuditValues(node, above) ==
    LET values == above \cup node.added IN
    /\ node.needed \subseteq values
    /\ \A i \in DOMAIN node.children : AuditValues(node.children[i], values)

\* printNode: the values that it marks as ones that will not be found.
RECURSIVE PrintNode(_, _)
PrintNode(node, above) ==
    LET values == above \cup node.added IN
    [name |-> node.name, type |-> node.type, added |-> node.added,
     marked |-> node.needed \ values,
     children |-> [i \in DOMAIN node.children |-> PrintNode(node.children[i], values)]]

\* getValuesAdded: each value, and the node that adds it: the last and innermost one.
RECURSIVE GetValuesAdded(_)
GetValuesAdded(node) ==
    LET own == [v \in node.added |-> <<node.name, node.type>>]
        with(out, child) == LET new == GetValuesAdded(child) IN
                            [v \in DOMAIN out \cup DOMAIN new |-> IF v \in DOMAIN new THEN new[v] ELSE out[v]]
    IN  FoldLeft(with, own, node.children)
=============================================================================
