---------------------------- MODULE FakeTrackers ----------------------------
(***************************************************************************)
(* The three devices that make tracker events of mouse and keys.  They are *)
(* event handlers too: what they do to an event waits as a pending event   *)
(* for the next frame.  A device is its configuration and its state; `add` *)
(* is what _pendingEvents receives.                                        *)
(***************************************************************************)
EXTENDS InputEvents, Matrices, TLC

\* A value of the configuration, or the default that create has for it.
Given(config, name, default) == IF name \in DOMAIN config THEN config[name] ELSE default

\* A cursor in halves of the window, from its top left corner: the middle is zero.
Mouse(event) == <<event.data.NormalizedPosition[1] - 1, 1 - event.data.NormalizedPosition[2]>>
MouseMove == <<"Mouse", "Move">>

Pushed(device, transform) ==
    [device EXCEPT !.pending = Append(@, TrackerEvent(<<device.config.name, "Move">>, transform))]

\* Looking from one point to another: the columns of the rotation.
Frame(x, y, z) == FromRowMajorElements(<<x[1], y[1], z[1], 0,
                                         x[2], y[2], z[2], 0,
                                         x[3], y[3], z[3], 0,
                                         0, 0, 0, 1>>)

-----------------------------------------------------------------------------
(* VRFakeTrackerDevice: a mouse that is in one of the modes at a time.     *)

FakeTrackerConfig(config) ==
    [name       |-> config.TrackerName,
     toggle     |-> config.ToggleOnOffEvent,
     keys       |-> [Rotating      |-> Given(config, "RotateEvent", "Kbdr"),
                     XYTranslating |-> Given(config, "TranslateEvent", "Kbdw"),
                     ZTranslating  |-> Given(config, "TranslateZEvent", "Kbdz"),
                     Rolling       |-> Given(config, "RollEvent", "Kbde")],
     xy         |-> Given(config, "XYTranslationScale", 1),
     z          |-> Given(config, "ZTranslationScale", 1),
     rot        |-> Given(config, "RotationScale", 2),
     sticky     |-> Given(config, "Sticky", 0) # 0,
     seeker     |-> Given(config, "Style", "Looker") = "Seeker",
     eye        |-> Given(config, "LookAtEye", <<0, 0, -1>>),
     center     |-> Given(config, "LookAtCenter", <<0, 0, 0>>),
     up         |-> Given(config, "LookAtUp", <<0, 1, 0>>)]

\* The mouse is where the memory says: nothing sets _lastMouseX and _lastMouseY.
FakeTracker(config, memory) ==
    LET forward == Normalize(Minus(config.eye, config.center))
        x       == Normalize(Cross(config.up, forward))
        rotm    == Frame(x, Cross(forward, x), forward)
        made    == [kind |-> "FakeTracker", config |-> config, tracking |-> FALSE,
                    mode |-> "XYTranslating", pos |-> config.eye, rotm |-> rotm,
                    transform |-> Product(Translation(config.eye), rotm),
                    mouse |-> memory, pending |-> <<>>]
    IN  Pushed(made, made.transform)

\* (Faulty: the mode from before remains.)
ToggledInMode(device) == [device EXCEPT !.tracking = ~@]
Toggled(device) ==
    [device EXCEPT
        !.tracking = ~@,
        !.mode = IF device.tracking THEN @ ELSE IF device.config.sticky THEN "XYTranslating" ELSE "None"]

\* How far the mouse moves a tracker in its mode, the seeker's up being the looker's forward.
MovedBy(device, delta) ==
    LET c == device.config IN
    CASE device.mode = "ZTranslating" ->
            IF c.seeker THEN <<0, c.z * delta[2], 0>> ELSE <<0, 0, c.z * delta[2]>>
      [] device.mode = "XYTranslating" ->
            Times(c.xy, IF c.seeker THEN <<delta[1], 0, delta[2]>> ELSE <<delta[1], delta[2], 0>>)
      [] OTHER -> <<0, 0, 0>>

TurnedBy(device, delta) ==
    LET c    == device.config
        up   == TimesVector(device.rotm, <<0, 1, 0>>)
        here == Times(-1, device.pos)
    IN  CASE device.mode = "Rotating" ->
                IF c.seeker
                THEN Product(Rotation(here, up, c.rot * delta[1]),
                             Rotation(here, Cross(up, device.pos), c.rot * delta[2]))
                ELSE Product(RotationY(c.rot * delta[1]), RotationX(-c.rot * delta[2]))
          [] device.mode = "Rolling" -> RotationZ(c.rot * delta[1])
          [] OTHER -> Identity

FollowMouse(device, mouse) ==
    LET delta == Minus(mouse \o <<0>>, device.mouse \o <<0>>)
        pos   == Plus(MovedBy(device, delta), device.pos)
        rotm  == Product(TurnedBy(device, delta), device.rotm)
        moved == [device EXCEPT !.pos = pos, !.rotm = rotm,
                                !.transform = Product(Translation(pos), rotm)]
    IN  [(IF device.tracking THEN Pushed(moved, moved.transform) ELSE device)
            EXCEPT !.mouse = mouse]

FakeTrackerOnEvent(device, event) ==
    LET modes == {m \in DOMAIN device.config.keys : device.config.keys[m] = event.name[1]} IN
    IF event.name = device.config.toggle THEN Toggled(device)
    ELSE IF modes # {} /\ event.name[2] = "Down"
    THEN LET m == CHOOSE m \in modes : TRUE
         IN  [device EXCEPT !.mode = IF @ # m THEN m ELSE "None"]
    ELSE IF modes # {} /\ event.name[2] = "Up" /\ ~device.config.sticky
    THEN [device EXCEPT !.mode = "None"]
    ELSE IF event.name = MouseMove THEN FollowMouse(device, Mouse(event))
    ELSE device

-----------------------------------------------------------------------------
(* VRFakeHeadTrackerDevice: keys walk and turn, the mouse looks around.    *)

HeadFrame(config) ==
    IF "HeadMatrix" \in DOMAIN config THEN config.HeadMatrix
    ELSE IF {"LookAtUp", "LookAtEye", "LookAtCenter"} \subseteq DOMAIN config
    THEN LET z == Normalize(Minus(config.LookAtEye, config.LookAtCenter))
             x == Normalize(Cross(config.LookAtUp, z))
         IN  Inverted(Product(Frame(x, Cross(z, x), z), Translation(Times(-1, config.LookAtEye))))
    ELSE Translation(<<0, 0, 4>>)

FakeHeadTrackerConfig(config) ==
    [name     |-> config.TrackerName,
     toggle   |-> Given(config, "ToggleOnOffEvent", <<"Kbd1", "Down">>),
     t        |-> Given(config, "TranslationScale", 1),
     r        |-> Given(config, "RotationScale", 1),
     head     |-> HeadFrame(config),
     forward  |-> Given(config, "ForwardKeys", {"KbdUp", "KbdW"}),
     back     |-> Given(config, "BackKeys", {"KbdDown", "KbdZ"}),
     left     |-> Given(config, "LeftKeys", {"KbdLeft", "KbdA"}),
     right    |-> Given(config, "RightKeys", {"KbdRight", "KbdS"}),
     mouseRot |-> Given(config, "MouseRotationKeys", {"MouseBtnRight"})]

FakeHeadTracker(config, memory) ==
    [kind |-> "FakeHeadTracker", config |-> config, tracking |-> TRUE, rotating |-> FALSE,
     base |-> config.head, added |-> Identity, yaw |-> 0, pitch |-> 0,
     mouse |-> memory, pending |-> <<>>]

\* The events "_Down" and "_Repeat" of the keys of a list.
Struck(event, keys) == event.name[1] \in keys /\ event.name[2] \in {"Down", "Repeat"}
EventMatch(event, keys, what) == event.name[1] \in keys /\ event.name[2] = what

\* The direction is one of the room, but the base takes it for one of its own.
Walk(device, ahead) ==
    LET dir == Normalize(TimesVector(Product(device.base, RotationY(-device.yaw)), ahead))
    IN  [device EXCEPT !.base = Product(@, Translation(Times(device.config.t, dir)))]
Turn(device, q) == [device EXCEPT !.base = Product(@, RotationY(q))]

LookAround(device, mouse) ==
    LET yaw   == device.yaw + mouse[1] - device.mouse[1]
        pitch == device.pitch + mouse[2] - device.mouse[2]
    IN  [device EXCEPT !.yaw = yaw, !.pitch = pitch,
                       !.added = Product(RotationY(-yaw), RotationX(pitch))]

SendHead(device) == Pushed(device, Product(device.base, device.added))

FakeHeadTrackerOnEvent(device, event) ==
    LET c == device.config
        d == IF event.name = c.toggle THEN [device EXCEPT !.tracking = ~@] ELSE device
    IN  IF ~d.tracking THEN d
        ELSE IF Struck(event, c.forward) THEN SendHead(Walk(d, <<0, 0, -1>>))
        ELSE IF Struck(event, c.back) THEN SendHead(Walk(d, <<0, 0, 1>>))
        ELSE IF Struck(event, c.left) THEN SendHead(Turn(d, c.r))
        ELSE IF Struck(event, c.right) THEN SendHead(Turn(d, -c.r))
        ELSE IF EventMatch(event, c.mouseRot, "Down") THEN [d EXCEPT !.rotating = TRUE]
        ELSE IF EventMatch(event, c.mouseRot, "Up") THEN [d EXCEPT !.rotating = FALSE]
        ELSE IF event.name = MouseMove
        THEN [(IF d.rotating THEN SendHead(LookAround(d, Mouse(event))) ELSE d)
                EXCEPT !.mouse = Mouse(event)]
        ELSE d

-----------------------------------------------------------------------------
(* VRFakeHandTrackerDevice: the hand is where the mouse is.                *)

\* The keys are looked up at the root, not among the settings of the device.
FakeHandTrackerConfig(config, root) ==
    [name   |-> config.TrackerName,
     toggle |-> Given(config, "ToggleOnOffEvent", <<"Kbd2", "Down">>),
     xy     |-> Given(config, "XYTranslationScale", 1),
     z      |-> Given(config, "ZTranslationScale", 1),
     r      |-> Given(config, "RotationScale", 1),
     zKeys  |-> Given(root, "ZTranslationKeys", {"KbdT"}),
     rotKeys |-> Given(root, "RotationKeys", {"KbdR"})]

FakeHandTracker(config, memory) ==
    [kind |-> "FakeHandTracker", config |-> config, tracking |-> TRUE, mode |-> "XYTranslating",
     z |-> 0, rotm |-> Identity, mouse |-> memory, pending |-> <<>>]

MoveHand(device, mouse) ==
    LET c     == device.config
        delta == <<mouse[1] - device.mouse[1], mouse[2] - device.mouse[2]>>
        z     == IF device.mode = "ZTranslating" THEN device.z + c.z * delta[2] ELSE device.z
        rotm  == IF device.mode = "Rotating"
                 THEN Product(Product(RotationY(c.r * delta[1]), RotationX(-c.r * delta[2])), device.rotm)
                 ELSE device.rotm
        pos   == <<c.xy * mouse[1], c.xy * mouse[2], z>>
    IN  Pushed([device EXCEPT !.z = z, !.rotm = rotm], Product(Translation(pos), rotm))

FakeHandTrackerOnEvent(device, event) ==
    LET c == device.config
        mode(m) == [device EXCEPT !.mode = m]
    IN  IF event.name = c.toggle
        THEN [device EXCEPT !.tracking = ~@, !.mode = IF device.tracking THEN @ ELSE "XYTranslating"]
        ELSE IF EventMatch(event, c.zKeys, "Down") THEN mode("ZTranslating")
        ELSE IF EventMatch(event, c.zKeys, "Up") THEN mode("XYTranslating")
        ELSE IF EventMatch(event, c.rotKeys, "Down") THEN mode("Rotating")
        ELSE IF EventMatch(event, c.rotKeys, "Up") THEN mode("XYTranslating")
        ELSE IF event.name = MouseMove
        THEN [(IF device.tracking THEN MoveHand(device, Mouse(event)) ELSE device)
                EXCEPT !.mouse = Mouse(event)]
        ELSE device

-----------------------------------------------------------------------------
FakeKinds == {"FakeTracker", "FakeHeadTracker", "FakeHandTracker"}
FakeOnEvent(device, event) ==
    CASE device.kind = "FakeTracker"     -> FakeTrackerOnEvent(device, event)
      [] device.kind = "FakeHeadTracker" -> FakeHeadTrackerOnEvent(device, event)
      [] device.kind = "FakeHandTracker" -> FakeHandTrackerOnEvent(device, event)
=============================================================================
