----------------------------- MODULE MCDevices -----------------------------
(* Eight programs, or pairs of them: every kind of input device.            *)
EXTENDS Devices

KeysOf(set) == {[do |-> d, key |-> k] : d \in {"press", "release"}, k \in set}
ClicksOf(set) == {[do |-> d, key |-> k] : d \in {"click", "unclick"}, k \in set}
Moves(set) == {[do |-> "move", to |-> to] : to \in set}
Middle == <<1, 1>>    \* the middle of the window
NoRoom == <<>>
One(list, doable, n) ==
    [programs |-> {<<list>>}, photon |-> NoRoom, acts |-> <<doable>>, maxActs |-> n, maxFrames |-> 3]
\* Where the memory of a fake tracker says that the mouse was.
Memories == {<<0, 0>>, <<1, 0>>}

MouseAndKeys ==
    LET config == FakeTrackerConfig([TrackerName |-> "Wand", ToggleOnOffEvent |-> <<"KbdT", "Down">>,
                        TranslateEvent |-> "KbdW", RotateEvent |-> "KbdR", RotationScale |-> 1])
    IN  [programs |-> {<<<<Desktop("GLFW"), FakeTracker(config, m)>>>> : m \in Memories},
         acts |-> <<<<KeysOf({"t", "w", "r"}) \cup {[do |-> "repeat", key |-> "w"]} \cup Moves({<<2, 1>>, <<1, 0>>}),
                      {}>>>>,
         photon |-> NoRoom, maxActs |-> 3, maxFrames |-> 3]

HeadAndHand ==
    LET head == FakeHeadTrackerConfig([TrackerName |-> "Head", ToggleOnOffEvent |-> <<"KbdT", "Down">>,
                    LookAtUp |-> <<0, 1, 0>>, LookAtEye |-> <<0, 0, 4>>, LookAtCenter |-> <<0, 0, 0>>])
        hand == FakeHandTrackerConfig([TrackerName |-> "Hand", ToggleOnOffEvent |-> <<"KbdX", "Down">>], <<>>)
    IN  [programs |-> {<<<<Desktop("GLFW"), FakeHeadTracker(head, m), FakeHandTracker(hand, m)>>>> : m \in Memories},
         acts |-> <<<<KeysOf({"UP", "LEFT", "r", "t", "x"}) \cup ClicksOf({"Right"}) \cup Moves({<<2, 1>>, <<1, 0>>}),
                      {}, {}>>>>,
         photon |-> NoRoom, maxActs |-> 3, maxFrames |-> 3]

Seeking ==
    LET config == FakeTrackerConfig([TrackerName |-> "View", ToggleOnOffEvent |-> <<"Kbdt", "Down">>,
                        Style |-> "Seeker", RotationScale |-> 1])
    IN  [programs |-> {<<<<Desktop("FREEGLUT"), FakeTracker(config, m)>>>> : m \in {<<0, 0>>}},
         acts |-> <<<<KeysOf({"t", "r", "LEFT_SHIFT"}) \cup ClicksOf({"Left"}) \cup {[do |-> "repeat", key |-> "r"]}
                        \cup Moves({<<1, 0>>, <<1, 2>>}),
                      {}>>>>,
         photon |-> NoRoom, maxActs |-> 3, maxFrames |-> 3]

Old ==
    One(<<Desktop("G3D"), MouseToTracker(2)>>,
        <<KeysOf({"x", "TAB", "LEFT_SHIFT"}) \cup Moves({<<2, 1>>, <<1, 0>>})
            \cup {[do |-> "scroll", offset |-> 1], [do |-> "resize", size |-> <<3, 2>>]}, {}>>, 3)

Turned == RotationY(1)
Cave ==
    One(<<Wired(VRPNButton(<<"Wand_Trigger", "Wand_Left">>), [held |-> {}]),
          Wired(VRPNAnalog(<<"Joystick_X", "Joystick_Y">>), [channels |-> <<0, 0, 0>>]),
          Wired(VRPNTracker(<<"Wand">>,
                    [deviceToRoom |-> Turned, propToTracker |-> <<Identity>>, finalOffset |-> <<Turned>>,
                     ConvertLHtoRH |-> TRUE, TrackerUnitsToRoomUnitsScale |-> 3, IgnoreZeroes |-> TRUE,
                     WaitForNewReportInPoll |-> TRUE]), <<>>)>>,
        <<{[do |-> d, button |-> b] : d \in {"press", "release"}, b \in 1..3},
          {[do |-> "channel", channel |-> c, value |-> v] : c \in {1, 3}, v \in 0..1},
          {[do |-> "sense", sensor |-> 1, transform |-> t] : t \in {Identity, Translation(<<1, 0, 2>>)}}>>, 4)

Table ==
    One(<<Wired(TUIO(4, 3), [cursors |-> <<>>]),
          Wired(Gainput("Pad0"), [held |-> {}, stick |-> 0]),
          Wired(HoloPlay, [buttons |-> <<0, 0, 0, 0>>])>>,
        <<{[do |-> "touch", at |-> Middle]} \cup {[do |-> "lift", id |-> i] : i \in 0..1}
            \cup {[do |-> "slide", id |-> i, at |-> <<2, 1>>] : i \in 0..1},
          {[do |-> d, button |-> "A"] : d \in {"press", "release"}} \cup {[do |-> "stick", value |-> v] : v \in 0..1},
          {[button |-> 2]}>>, 4)

Hmd(c) == [class |-> "HMD", role |-> "none", connected |-> c, axes |-> <<>>, poseIsValid |-> TRUE,
           pose |-> Translation(<<0, 2, 0>>), tip |-> Identity]
Controller(role, c) ==
    [class |-> "Controller", role |-> role, connected |-> c, axes |-> <<[type |-> "Trigger", x |-> 0]>>,
     poseIsValid |-> role = "none", pose |-> Turned, tip |-> Translation(<<0, 0, -1>>)]
Headset ==
    One(<<OpenVR("VR", 2, Turned, [held |-> {}, touched |-> {}, stray |-> {},
              devices |-> <<Hmd(TRUE), Controller("none", TRUE), Controller("none", TRUE), Controller("Left", FALSE)>>])>>,
        <<{[do |-> d, device |-> i, button |-> "GripButton"] :
              d \in {"press", "release", "connect", "disconnect"}, i \in 2..3}
          \cup {[do |-> "touch", device |-> 3, button |-> "GripButton"], [do |-> "connect", device |-> 4, button |-> ""],
                [do |-> "untouch", device |-> 3, button |-> "GripButton"],
                [do |-> "pull", device |-> 3, value |-> 1]}>>, 3)

Names(key) == {<<key, "Down">>, <<key, "Up">>}
Room(receiveOnly, replacements) ==
    Photon([receiveOnly |-> receiveOnly, replacements |-> replacements,
            whitelist |-> Names("KbdW") \cup Names("KbdX")])
TogetherThere ==
    [programs |-> {<<<<Desktop("GLFW")>>, <<Desktop("GLFW")>>>>},
     photon |-> <<Room(FALSE, <<>>), Room(FALSE, <<>>)>>,
     acts |-> <<<<KeysOf({"w"})>>, <<KeysOf({"x"})>>>>, maxActs |-> 2, maxFrames |-> 2]
\* What a keyboard reports of a key.
OfKey(key) == {ButtonEvent(<<key, "Down">>, 1), ButtonEvent(<<key, "Up">>, 0), ButtonEvent(<<key, "Repeat">>, 2)}
MCEvents == <<{FrameStart} \cup OfKey("KbdW"), {FrameStart} \cup OfKey("KbdX")>>

MCSetups == [mouseAndKeys |-> MouseAndKeys, headAndHand |-> HeadAndHand, seeking |-> Seeking, old |-> Old,
             cave |-> Cave, table |-> Table, headset |-> Headset, together |-> TogetherThere]
=============================================================================
