------------------------------ MODULE Plugins ------------------------------
(***************************************************************************)
(* What the plugins and the core register with VRFactory, and how the      *)
(* factory, the plugin manager and the shared libraries go about it.  An   *)
(* item factory is a record of the type of what it makes, the name it makes*)
(* it for, and the library its code is in.                                 *)
(***************************************************************************)
EXTENDS Sequences, Integers, FiniteSets
LOCAL INSTANCE FiniteSetsExt
LOCAL INSTANCE SequencesExt

Core == "the core"
ItemFactory(parent, name, library) == [parent |-> parent, name |-> name, library |-> library]

\* VRFactory::registerItemType
RegisterItemType(factory, parent, name, library) ==
    Append(factory, ItemFactory(parent, name, library))

DisplayNodes(factory, names, library) ==
    FoldLeft(LAMBDA f, n : RegisterItemType(f, "VRDisplayNode", n, library), factory, names)
InputDevices(factory, names, library) ==
    FoldLeft(LAMBDA f, n : RegisterItemType(f, "VRInputDevice", n, library), factory, names)

\* The constructor of VRMain.
CoreFactory ==
    InputDevices(
        DisplayNodes(<<>>, << "VRConsoleNode", "VRGraphicsWindowNode", "VRGroupNode",
                              "VROffAxisProjectionNode", "VRProjectionNode", "VRStereoNode",
                              "VRViewportNode", "VRLookAtNode", "VRHeadTrackingNode" >>, Core),
        << "VRFakeHandTrackerDevice", "VRFakeHeadTrackerDevice", "VRFakeTrackerDevice" >>, Core)

\* registerWithMinVR of each plugin, by the name of its library.
VRGLFWPlugin(factory, l) == RegisterItemType(factory, "VRWindowToolkit", "VRGLFWWindowToolkit", l)
VRFreeGLUTPlugin(factory, l) ==
    RegisterItemType(factory, "VRWindowToolkit", "VRFreeGLUTWindowToolkit", l)
VROpenGLPlugin(factory, l) ==
    RegisterItemType(factory, "VRGraphicsToolkit", "VROpenGLGraphicsToolkit", l)
VRG3DPlugin(factory, l) ==
    DisplayNodes(RegisterItemType(
        RegisterItemType(factory, "VRWindowToolkit", "VRG3DWindowToolkit", l),
        "VRGraphicsToolkit", "VRG3DGraphicsToolkit", l), <<"VRG3DDisplayNode">>, l)
VRThreadingPlugin(factory, l) == DisplayNodes(factory, <<"VRThreadGroupNode">>, l)
VRScalablePlugin(factory, l)  == DisplayNodes(factory, <<"VRScalableNode">>, l)
VROpenVRPlugin(factory, l)    == DisplayNodes(factory, <<"VROpenVRNode">>, l)
VRHoloPlayPlugin(factory, l)  == DisplayNodes(factory, <<"VRHoloPlayNode">>, l)
VRVRPNPlugin(factory, l) ==
    InputDevices(factory, << "VRVRPNAnalogDevice", "VRVRPNButtonDevice", "VRVRPNTrackerDevice" >>, l)
VRTUIOPlugin(factory, l)   == InputDevices(factory, <<"VRTUIODevice">>, l)
GainputPlugin(factory, l)  == InputDevices(factory, <<"VRGainputDevice">>, l)
VRPhotonPlugin(factory, l) == InputDevices(factory, <<"VRPhotonDevice">>, l)
VRVTKPlugin(factory, l)    == factory

RegisterWithMinVR(factory, l) ==
    CASE l = "MinVR_GLFW"      -> VRGLFWPlugin(factory, l)
      [] l = "MinVR_FREEGLUT"  -> VRFreeGLUTPlugin(factory, l)
      [] l = "MinVR_OpenGL"    -> VROpenGLPlugin(factory, l)
      [] l = "MinVR_G3D"       -> VRG3DPlugin(factory, l)
      [] l = "MinVR_Threading" -> VRThreadingPlugin(factory, l)
      [] l = "MinVR_Scalable"  -> VRScalablePlugin(factory, l)
      [] l = "MinVR_OpenVR"    -> VROpenVRPlugin(factory, l)
      [] l = "MinVR_HoloPlay"  -> VRHoloPlayPlugin(factory, l)
      [] l = "MinVR_VRPN"      -> VRVRPNPlugin(factory, l)
      [] l = "MinVR_TUIO"      -> VRTUIOPlugin(factory, l)
      [] l = "MinVR_Gainput"   -> GainputPlugin(factory, l)
      [] l = "MinVR_Photon"    -> VRPhotonPlugin(factory, l)
      [] l = "MinVR_VTK"       -> VRVTKPlugin(factory, l)

\* VRFactory::create asks one item factory after the other; one for another parent
\* type or another name makes nothing.  NoFactory: it returns NULL.
NoFactory == ItemFactory("", "", "")
FactoryFor(factory, parent, name) ==
    LET makes == {i \in DOMAIN factory : factory[i].parent = parent /\ factory[i].name = name}
    IN  IF makes = {} THEN NoFactory ELSE factory[Min(makes)]
=============================================================================
