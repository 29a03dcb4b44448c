------------------------------ MODULE LifeCycle ------------------------------
(***************************************************************************)
(* The life of a VRMain from the setup that it is to run to the end of its *)
(* destructor: plugins, network, input devices, toolkits and display graphs*)
(* are made one after the other, used in frames, and deleted.  A plugin's  *)
(* library holds the code of what it made.                                 *)
(***************************************************************************)
EXTENDS DisplayTree, SearchPath
LOCAL INSTANCE SequencesExt

CONSTANTS
    PluginHost,     \* where libraries are looked for, and the files there are
    MaxFrames       \* a bound on the frames drawn before the program shuts down

VARIABLES
    phase,          \* "none", "plugins", "network", "devices", "displays", "audit",
                    \* "running", "closing", "ended", or "stopped" or "failed"
    main,           \* the program: see DisplayTree
    setup,          \* _name
    execute,        \* not --no-execute
    graphs,         \* _displayGraphs
    network,        \* _net: "none", "server", "client"
    plugins,        \* _plugins: the libraries that they are from
    loaded,         \* the libraries that are loaded, as often as they are
    todo,           \* names that are still to be dealt with, or what is still to be deleted
    frames          \* _frame

lifeVars == <<phase, main, setup, execute, graphs, network, plugins, loaded, todo, frames>>

LifeInit ==
    /\ phase = "none" /\ main = NoProgram /\ setup = Root /\ execute = TRUE
    /\ graphs = <<>> /\ network = "none" /\ plugins = <<>> /\ loaded = <<>>
    /\ todo = <<>> /\ frames = 0

\* The plugins of the whole configuration, not only of the setup.
Start(ix, name, executes) ==
    /\ phase = "none"
    /\ phase' = "plugins"
    /\ main' = [NoProgram EXCEPT !.ix = ix, !.factory = CoreFactory]
    /\ setup' = name
    /\ execute' = executes
    /\ todo' = SelectByAttribute(ix, "pluginType", "*", Root, FALSE)
    /\ UNCHANGED <<graphs, network, plugins, loaded, frames>>

Fail == phase' = "failed" /\ UNCHANGED <<main, setup, execute, graphs, network, plugins, loaded, todo, frames>>

PluginPath ==
    LET path == <<"MinVR", "PluginPath">> IN
    IF Has(main.ix, path) THEN DigestPathString(PluginHost.path, ValueString(DatumOf(main.ix, path)))
    ELSE PluginHost.path
LibraryOf(name) ==
    FindLibrary(PluginPath, FileName(AttributeValue(main, name, "pluginType"), ""), PluginHost.files)

\* loadPlugin: the library, and what the plugin registers.
LoadPlugin ==
    /\ phase = "plugins" /\ todo # <<>>
    /\ LibraryOf(Head(todo)) # NotFound
    /\ LET library == AttributeValue(main, Head(todo), "pluginType")
       IN  /\ main' = [main EXCEPT !.factory = RegisterWithMinVR(@, library)]
           /\ plugins' = Append(plugins, library)
           /\ loaded' = Append(loaded, library)
    /\ todo' = Tail(todo)
    /\ UNCHANGED <<phase, setup, execute, graphs, network, frames>>

\* No such file, a version that is not the program's, a symbol that is missing.
LoadPluginFails ==
    /\ phase = "plugins" /\ todo # <<>>
    /\ Fail

\* The type of the setup says whether it is a server, a client, or stands alone.
StartNetwork ==
    /\ phase = "plugins" /\ todo = <<>>
    /\ LET type == AttributeValue(main, setup, "hostType") IN
       /\ type = "VRServer" => Requires(main, {"Port", "NumClients"}, setup)
       /\ type = "VRClient" => Requires(main, {"Port", "ServerIP"}, setup)
       /\ network' = CASE type = "VRServer" -> "server" [] type = "VRClient" -> "client" [] OTHER -> "none"
    /\ phase' = "devices"
    /\ todo' = SelectByAttribute(main.ix, "inputdeviceType", "*", setup, FALSE)
    /\ UNCHANGED <<main, setup, execute, graphs, plugins, loaded, frames>>

\* Peers that are not there, or a configuration that does not say where.
StartNetworkFails ==
    /\ phase = "plugins" /\ todo = <<>>
    /\ AttributeValue(main, setup, "hostType") \in {"VRServer", "VRClient"}
    /\ Fail

\* The fake trackers are event handlers, too.
CreatedDevice(item) ==
    LET made == New(main, item.library) IN
    [made EXCEPT !.devices = Append(@, NewestId(made)),
                 !.handlers = IF item.library = Core THEN Append(@, NewestId(made)) ELSE @]
DeviceFactory == FactoryFor(main.factory, "VRInputDevice", AttributeValue(main, Head(todo), "inputdeviceType"))

CreateInputDevice ==
    /\ phase = "devices" /\ todo # <<>>
    /\ DeviceFactory # NoFactory
    /\ main' = CreatedDevice(DeviceFactory)
    /\ todo' = Tail(todo)
    /\ UNCHANGED <<phase, setup, execute, graphs, network, plugins, loaded, frames>>

\* There is no factory for it, or a value is missing.
CreateInputDeviceFails ==
    /\ phase = "devices" /\ todo # <<>>
    /\ Fail

\* --no-execute: exit(1).
Stop ==
    /\ phase = "devices" /\ todo = <<>> /\ ~execute
    /\ phase' = "stopped"
    /\ UNCHANGED <<main, setup, execute, graphs, network, plugins, loaded, todo, frames>>

BeginDisplays ==
    /\ phase = "devices" /\ todo = <<>> /\ execute
    /\ phase' = "displays"
    /\ todo' = SelectByAttribute(main.ix, "displaynodeType", "*", setup, TRUE)
    /\ UNCHANGED <<main, setup, execute, graphs, network, plugins, loaded, frames>>

-----------------------------------------------------------------------------
(* One round of the loop over the display nodes of the setup.              *)

CreateDisplayNode ==
    /\ phase = "displays" /\ todo # <<>>
    /\ main' = DisplayNode(main, Head(todo))
    /\ phase' = IF main'.failed THEN "failed" ELSE phase
    /\ graphs' = IF main'.failed \/ main'.node = NoNode THEN graphs ELSE Append(graphs, main'.node)
    /\ todo' = Tail(todo)
    /\ UNCHANGED <<setup, execute, network, plugins, loaded, frames>>

\* auditValuesFromAllDisplays
Audit ==
    /\ phase = "displays" /\ todo = <<>>
    /\ phase' = IF \A i \in DOMAIN graphs : AuditValues(graphs[i], {}) THEN "running" ELSE "failed"
    /\ UNCHANGED <<main, setup, execute, graphs, network, plugins, loaded, todo, frames>>

Frame ==
    /\ phase = "running" /\ frames < MaxFrames
    /\ frames' = frames + 1
    /\ UNCHANGED <<phase, main, setup, execute, graphs, network, plugins, loaded, todo>>

-----------------------------------------------------------------------------
(* ~VRMain.                                                                *)

Item(what, id) == [what |-> what, id |-> id]
Items(what, list) == [i \in DOMAIN list |-> Item(what, list[i])]

\* (Faulty: plugins and libraries first.)
PluginsFirst ==
    Items("plugin", plugins) \o Items("library", plugins) \o Items("device", main.devices)
    \o Items("graph", graphs) \o Items("gfx", main.gfx) \o Items("win", main.win)
Destruction ==
    Items("device", main.devices) \o Items("graph", graphs) \o Items("gfx", main.gfx)
    \o Items("win", main.win) \o Items("plugin", plugins) \o Items("library", plugins)

\* After a frame: a thread group that never rendered cannot be deleted.
Shutdown ==
    /\ phase = "running" /\ frames > 0
    /\ phase' = "closing"
    /\ todo' = Destruction
    /\ UNCHANGED <<main, setup, execute, graphs, network, plugins, loaded, frames>>

\* Deleting a node deletes its children.
RECURSIVE DeleteAll(_, _)
DeleteAll(m, node) == FoldLeft(DeleteAll, Deleted(m, node.id), node.children)

DeleteItem(item) ==
    CASE item.what = "device" -> Deleted(main, item.id)
      [] item.what = "graph"  -> DeleteAll(main, item.id)
      [] item.what = "gfx"    -> Deleted(main, item.id.id)
      [] item.what = "win"    -> CloseWindows(Deleted(main, item.id.id), item.id)
      [] OTHER                -> main

Destroy ==
    /\ phase = "closing" /\ todo # <<>>
    /\ main' = DeleteItem(Head(todo))
    /\ loaded' = IF Head(todo).what = "library" THEN RemoveFirst(loaded, Head(todo).id) ELSE loaded
    /\ todo' = Tail(todo)
    /\ UNCHANGED <<phase, setup, execute, graphs, network, plugins, frames>>

End ==
    /\ phase = "closing" /\ todo = <<>>
    /\ phase' = "ended"
    /\ UNCHANGED <<main, setup, execute, graphs, network, plugins, loaded, todo, frames>>

LifeNext ==
    \/ LoadPlugin \/ LoadPluginFails \/ StartNetwork \/ StartNetworkFails
    \/ CreateInputDevice \/ CreateInputDeviceFails \/ Stop \/ BeginDisplays
    \/ CreateDisplayNode \/ Audit \/ Frame \/ Shutdown \/ Destroy \/ End

-----------------------------------------------------------------------------

\* VRMain deletes the devices, the display graphs and the toolkits, each of which
\* was also handed around: a toolkit's device to VRMain, a toolkit to the nodes, a
\* toolkit of a name in use back to be deleted.  Nothing is deleted twice, and what
\* the lists hold was not deleted before it is its turn.
Alive(id) == main.objects[id].deletions = 0
Listed ==
    Range(main.devices) \cup UNION {IdsIn(graphs[i]) : i \in DOMAIN graphs}
    \cup {main.gfx[i].id : i \in DOMAIN main.gfx} \cup {main.win[i].id : i \in DOMAIN main.win}
DeletedOnce ==
    /\ \A id \in DOMAIN main.objects : main.objects[id].deletions <= 1
    /\ phase \in {"devices", "displays", "running"} => \A id \in Listed : Alive(id)
    /\ phase = "ended" => \A id \in Listed : ~Alive(id)

\* As long as an object of a list lives, the library with its code is loaded: the
\* destructor would run code that is not there any more.
CodeLoaded ==
    \A id \in Listed :
        Alive(id) => main.objects[id].library \in {Core} \cup Range(loaded)

\* While frames are drawn every window node has an open window that no other node
\* has, the device of its toolkit is one that VRMain asks for events, and GLFW windows
\* share the context of another one just if that is in the same group.
WindowNodes == {n \in UNION {NodesIn(graphs[i]) : i \in DOMAIN graphs} :
                    n.type \in {"VRGraphicsWindowNode", "VRG3DDisplayNode"}}
WindowOf(n) == main.win[n.settings.toolkit].windows[n.settings.window]
Together(n, o) == n.settings.toolkit = o.settings.toolkit /\ n.settings.group = o.settings.group
UsableWindows ==
    phase = "running" =>
        \A n \in WindowNodes :
            /\ WindowOf(n).open
            /\ main.win[n.settings.toolkit].device \in Range(main.devices)
            /\ WindowOf(n).shares # 0 =>
                  \E o \in WindowNodes : Together(n, o) /\ o.settings.window = WindowOf(n).shares
            /\ \A o \in WindowNodes \ {n} :
                  /\ <<n.settings.toolkit, n.settings.window>> # <<o.settings.toolkit, o.settings.window>>
                  /\ Together(n, o) /\ n.settings.group >= 0 /\ main.win[n.settings.toolkit].type = "VRGLFWWindowToolkit"
                     => WindowOf(n).shares # 0 \/ WindowOf(o).shares # 0
=============================================================================
