--------------------------- MODULE MCDisplayGraph ---------------------------
(* Display graphs of one process.                                           *)
EXTENDS DisplayGraph

\* In the order of their characters.
MCAlphabet ==
    << "AsyncEnabled", "BottomLeft", "BottomRight", "Camera", "DrawHMDOnly", "EyeSeparation",
       "FarClip", "Front", "GraphicsToolkit", "HeadMatrix", "HeadTrackingEvent", "Height", "Inner",
       "LookAtCenter", "LookAtEye", "LookAtUp", "Lower", "MinVR", "NearClip", "P1", "Quilt",
       "Scalable", "ScalableWarpFile", "Screen", "Screen_left", "Screen_right",
       "SharedContextGroupID", "Side", "Stereo", "StereoFormat", "Stereo_left", "Stereo_right",
       "Stream", "Threads", "Tools", "TopLeft", "TopRight", "Upper", "Wall", "Width",
       "WindowToolkit", "XPos", "YPos">>
MCBeginsWith == {<<"StereoFormat", "Stereo">>, <<"Stereo_left", "Stereo">>, <<"Stereo_right", "Stereo">>,
                 <<"Screen_left", "Screen">>, <<"Screen_right", "Screen">>, <<"ScalableWarpFile", "Scalable">>}
Words == {"0", "1", "2", "99", "100"}
MCLexicon == [t \in Words |-> [kind |-> "int", int |-> t, float |-> t, printed |-> t,
                               escapes |-> FALSE, body |-> t]]
MCNumbers == [t \in Words |->
                 CASE t = "0" -> 0 [] t = "1" -> 1 [] t = "2" -> 2 [] t = "99" -> 99 [] t = "100" -> 100]

Tagged(name, attr, value, children) == Element(name, NoType, [a \in {attr} |-> value], <<>>, children)
Datum(name, word) == Element(name, "string", NoAttributes, <<word>>, <<>>)
Node(name, type, children) == Tagged(name, "displaynodeType", type, children)
Tools(wtk, gtk) ==
    Element("Tools", NoType, [a \in {"windowtoolkitType", "graphicstoolkitType"} |->
        IF a = "windowtoolkitType" THEN wtk ELSE gtk], <<>>, <<>>)
Screens == << Datum("TopLeft", "1"), Datum("TopRight", "1"), Datum("BottomLeft", "1"),
              Datum("BottomRight", "1"), Datum("NearClip", "1"), Datum("FarClip", "2"),
              Datum("EyeSeparation", "1"), Datum("HeadTrackingEvent", "Head_Move") >>
Format(format) == Datum("StereoFormat", format)
Async(word)    == Datum("AsyncEnabled", word)
Framed(name, children) == Node(name, "VRGraphicsWindowNode", children)
Part(name, y, children) ==
    Node(name, "VRViewportNode",
         << Datum("XPos", "0"), Datum("YPos", y), Datum("Width", "99"), Datum("Height", "100") >> \o children)
OffAxis == Node("Screen", "VROffAxisProjectionNode", <<>>)
Plain   == Node("Screen", "VRProjectionNode", <<>>)
Camera(type, children) == Node("Camera", type, children)
Tracked(children) == Camera("VRHeadTrackingNode", children)
Fixed(children)   == Camera("VRLookAtNode", children)
Stereo(children)  == Node("Stereo", "VRStereoNode", children)

Setup(wtk, gtk, plugins, content) ==
    [document |-> <<Element("MinVR", NoType, NoAttributes, <<>>,
                        Screens \o <<Tools(wtk, gtk),
                                     Element("Wall", NoType, NoAttributes, <<>>, content)>>)>>,
     path |-> <<"MinVR", "Wall">>, plugins |-> plugins]
OpenGL(plugins, content) ==
    Setup("VRGLFWWindowToolkit", "VROpenGLGraphicsToolkit",
          <<"MinVR_GLFW", "MinVR_OpenGL">> \o plugins, content)
GLUT(plugins, content) ==
    Setup("VRFreeGLUTWindowToolkit", "VROpenGLGraphicsToolkit",
          <<"MinVR_FREEGLUT", "MinVR_OpenGL">> \o plugins, content)
G3D(content) == Setup("VRG3DWindowToolkit", "VRG3DGraphicsToolkit", <<"MinVR_G3D">>, content)
Threads(children) == Node("Threads", "VRThreadGroupNode", children)

MCSetups ==
    { \* two walls, each with a thread and both eyes
      OpenGL(<<"MinVR_Threading">>, << Async("1"), Format("QuadBuffered"),
          Threads(<< Framed("Front", <<Tracked(<<Stereo(<<OffAxis>>)>>)>>),
                     Framed("Side", <<Fixed(<<Stereo(<<OffAxis>>)>>)>>) >>) >>),
      \* the same without threads, seen with one eye
      OpenGL(<<"MinVR_Threading">>, << Async("0"), Format("Mono"),
          Threads(<< Framed("Front", <<Tracked(<<Stereo(<<OffAxis>>)>>)>>),
                     Framed("Side", <<Tracked(<<Stereo(<<>>)>>)>>) >>) >>),
      \* a head above the threads, of which they do not know
      OpenGL(<<"MinVR_Threading">>, << Async("1"),
          Fixed(<<Threads(<<Framed("Front", <<Plain>>), Framed("Side", <<Plain>>)>>)>>) >>),
      \* a window above the threads
      OpenGL(<<"MinVR_Threading">>, << Async("1"),
          Framed("Front", <<Threads(<<Fixed(<<Plain>>)>>)>>) >>),
      \* two windows of their own, one in two parts, and a console
      GLUT(<<>>, << Datum("Stream", "1"), Format("SideBySide"),
          Framed("Front", << Part("Lower", "0", <<Fixed(<<Plain>>)>>),
                             Part("Upper", "100", <<Tracked(<<Stereo(<<OffAxis>>)>>)>>) >>),
          Node("Inner", "VRConsoleNode", <<>>),
          Framed("Side", <<Tracked(<<Stereo(<<Plain, OffAxis>>)>>)>>) >>),
      \* columns, of one window within a group
      OpenGL(<<>>, << Format("ColumnInterlaced"),
          Framed("Front", <<Node("Inner", "VRGroupNode", <<Tracked(<<Stereo(<<>>)>>)>>)>>) >>),
      OpenGL(<<"MinVR_Scalable">>, << Datum("ScalableWarpFile", "1"), Format("QuadBuffered"),
          Framed("Front", <<Tracked(<<Stereo(<<Node("Scalable", "VRScalableNode", <<>>)>>)>>)>>) >>),
      OpenGL(<<"MinVR_OpenVR">>, << Framed("Front", <<Node("Inner", "VROpenVRNode", <<>>)>>) >>),
      OpenGL(<<"MinVR_OpenVR">>, << Datum("DrawHMDOnly", "1"),
          Framed("Front", <<Node("Inner", "VROpenVRNode", <<Node("Screen", "VRGroupNode", <<>>)>>)>>) >>),
      OpenGL(<<"MinVR_HoloPlay">>, << Framed("Front", <<Tracked(<<Node("Quilt", "VRHoloPlayNode", <<>>)>>)>>) >>),
      G3D(<< Node("Front", "VRG3DDisplayNode", <<Fixed(<<Plain>>)>>) >>),
      \* no head for the eyes, no window to split, and no window at all
      OpenGL(<<>>, << Format("Mono"), Framed("Front", <<Stereo(<<>>)>>) >>),
      OpenGL(<<>>, << Format("SideBySide"), Fixed(<<Stereo(<<>>)>>) >>),
      OpenGL(<<>>, << Fixed(<<Plain>>) >>) }
=============================================================================
