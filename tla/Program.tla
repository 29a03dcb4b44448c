------------------------------- MODULE Program -------------------------------
(***************************************************************************)
(* The processes of a program are launched, and then the life of one of    *)
(* those that run a setup is followed.                                     *)
(***************************************************************************)
EXTENDS Launch, LifeCycle

vars == <<launchVars, lifeVars>>

Init == LaunchInit /\ LifeInit

Follow ==
    /\ Quiet
    /\ \E p \in In("running") : Start(Index(p), processes[p].name, processes[p].read.execute)
    /\ UNCHANGED launchVars

Next ==
    \/ LaunchNext /\ UNCHANGED lifeVars
    \/ Follow
    \/ LifeNext /\ UNCHANGED launchVars

Spec == Init /\ [][Next]_vars

-----------------------------------------------------------------------------
(* For TLC: three machines, three configurations, and command lines for     *)
(* them.                                                                    *)

\* In the order of their characters.
MCAlphabet ==
    << "AsyncEnabled", "BottomLeft", "BottomRight", "Broken", "Camera", "Desk", "EyeSeparation",
       "FarClip", "Front", "GraphicsToolkit", "HeadMatrix", "HeadTrackingEvent", "Height",
       "HostIP", "Left", "Library", "MinVR", "NearClip", "NumClients", "P1", "P2", "P3", "Plain",
       "PluginPath", "Port", "Right", "Screen", "ServerIP", "Side", "SharedContextGroupID",
       "StartedSSH", "Stereo", "StereoFormat", "Threads", "TopLeft", "TopRight", "Tools",
       "Tracker", "Two", "VRSetups", "VRSetupsToStart", "Wall", "Width", "WindowToolkit", "XPos",
       "YPos">>
MCBeginsWith == {<<"StereoFormat", "Stereo">>}
MCLexicon == [t \in {"0", "1", "2"} |-> [kind |-> "int", int |-> t, float |-> t, printed |-> t,
                                        escapes |-> FALSE, body |-> t]]
MCNumbers == [t \in {"0", "1", "2", "-1"} |->
                 CASE t = "0" -> 0 [] t = "1" -> 1 [] t = "2" -> 2 [] t = "-1" -> -1]

Tagged(name, attr, value, children) == Element(name, NoType, [a \in {attr} |-> value], <<>>, children)
Group(name, children) == Element(name, NoType, NoAttributes, <<>>, children)
Value(name, word) == Element(name, "string", NoAttributes, <<word>>, <<>>)
Node(name, type, children) == Tagged(name, "displaynodeType", type, children)
GLFWAndOpenGL ==
    << Tagged("P1", "pluginType", "MinVR_GLFW", <<>>), Tagged("P2", "pluginType", "MinVR_OpenGL", <<>>) >>
Tools(toolkit) ==
    Element("Tools", NoType, [a \in {"windowtoolkitType", "graphicstoolkitType"} |->
        IF a = "windowtoolkitType" THEN toolkit ELSE "VROpenGLGraphicsToolkit"], <<>>, <<>>)
Corners == [i \in 1..4 |-> Value(<<"TopLeft", "TopRight", "BottomLeft", "BottomRight">>[i], "1")]
Clips   == <<Value("NearClip", "1"), Value("FarClip", "2")>>
Camera  == Node("Camera", "VRHeadTrackingNode",
                << Node("Stereo", "VRStereoNode", <<Node("Screen", "VROffAxisProjectionNode", <<>>)>>) >>)

\* A server here, and two clients on another machine.
Cluster == << Group("MinVR", GLFWAndOpenGL \o Clips \o Corners \o
    << Value("Port", "2"), Value("ServerIP", "desk.lab"), Value("EyeSeparation", "1"),
       Tools("VRGLFWWindowToolkit"),
       Tagged("Desk", "hostType", "VRServer",
           << Value("NumClients", "2"), Tagged("Tracker", "inputdeviceType", "VRFakeTrackerDevice", <<>>) >>),
       Group("Wall", << Value("HostIP", "wall.lab"), Value("HeadTrackingEvent", "Head_Move"),
           Tagged("Left", "hostType", "VRClient",
               << Value("AsyncEnabled", "1"), Value("StereoFormat", "QuadBuffered"),
                  Value("SharedContextGroupID", "1"),
                  Node("Threads", "VRThreadGroupNode",
                      << Node("Front", "VRGraphicsWindowNode", <<Camera>>),
                         Node("Side", "VRGraphicsWindowNode", <<Camera>>) >>),
                  Tagged("P3", "pluginType", "MinVR_Threading", <<>>) >>),
           Tagged("Right", "hostType", "VRClient",
               << Value("StereoFormat", "Mono"),
                  Node("Front", "VRGraphicsWindowNode", <<Camera>>) >>) >>) >>) >>

\* Setups for one machine; the second has two windows of its own, the third does not
\* give what its stereo node needs.
Local == << Group("MinVR",
    << Tagged("P1", "pluginType", "MinVR_FREEGLUT", <<>>), Tagged("P2", "pluginType", "MinVR_OpenGL", <<>>),
       Tools("VRFreeGLUTWindowToolkit"), Value("PluginPath", "here"),
       Group("VRSetups",
           << Tagged("Plain", "hostType", "VRStandAlone", <<Node("Front", "VRGraphicsWindowNode", <<>>)>>),
              Tagged("Two", "hostType", "VRStandAlone",
                  << Node("Front", "VRGraphicsWindowNode", <<Node("Camera", "VRLookAtNode", <<>>)>>),
                     Node("Side", "VRGraphicsWindowNode", <<>>),
                     Tagged("Tracker", "inputdeviceType", "VRFakeHandTrackerDevice", <<>>) >>),
              Tagged("Broken", "hostType", "VRStandAlone",
                  << Value("StereoFormat", "Mono"),
                     Node("Front", "VRGraphicsWindowNode", <<Node("Stereo", "VRStereoNode", <<>>)>>) >>) >>) >>) >>
Nothing == <<Group("MinVR", <<>>)>>

ConfigFile(base) == InDirectory("./", base, ".minvr")
MCDocuments ==
    [f \in {ConfigFile("cluster"), ConfigFile("local"), ConfigFile("default")} |->
        CASE f = ConfigFile("cluster") -> Cluster
          [] f = ConfigFile("local")   -> Local
          [] f = ConfigFile("default") -> Nothing]
Host(files, forks) == [path |-> SearchConfig([v \in {} |-> ""]), files |-> files, forks |-> forks]
MCHosts ==
    [h \in {"desk", "wall", "box"} |->
        IF h = "box" THEN Host({ConfigFile("local")}, FALSE) ELSE Host(DOMAIN MCDocuments, TRUE)]
MCFirstHosts == {"desk", "box"}
MCHostAt == [ip \in {"wall.lab"} |-> "wall"]
MCPathOf ==
    [w \in {"plain", "two", "broken", "left", "right", "desk", "none"} |->
        CASE w = "plain"  -> <<"MinVR", "VRSetups", "Plain">>
          [] w = "two"    -> <<"MinVR", "VRSetups", "Two">>
          [] w = "broken" -> <<"MinVR", "VRSetups", "Broken">>
          [] w = "left"   -> <<"MinVR", "Wall", "Left">>
          [] w = "right"  -> <<"MinVR", "Wall", "Right">>
          [] w = "desk"   -> <<"MinVR", "Desk">>
          [] w = "none"   -> <<"MinVR", "Library">>]
MCSpaced == [a \in {} |-> <<>>]

Me == Word(Other("program"))
MCLines ==
    { << Me, Option("-c"), Word(File(FileName("cluster", ""))), Word(Other("data")) >>,
      << Me, OptionWith("--load-config", File(FileName("local", ".minvr"))) >>,
      << Me, OptionWith("-s", [kind |-> "setting", path |-> <<"VRSetupsToStart">>, text |-> <<"left", "desk">>]),
         Option("--no-execute"), Option("-c"), Word(File(FileName("cluster", ""))) >>,
      << Me, OptionWith("-s", [kind |-> "setting", path |-> <<"VRSetupsToStart">>, text |-> <<"plain", "none">>]),
         Option("-c"), Word(File(FileName("local", ""))) >>,
      << Me >> }

MCPluginHost ==
    [path |-> SearchPlugin([v \in {"MINVR_ROOT"} |-> "/opt"]),
     files |-> {InDirectory("/opt/lib/", "lib" \o n, ".so") :
                   n \in {"MinVR_GLFW", "MinVR_OpenGL", "MinVR_Threading", "MinVR_FREEGLUT"}}
               \cup {InDirectory("here", "libMinVR_FREEGLUT", ".so")}]
=============================================================================
