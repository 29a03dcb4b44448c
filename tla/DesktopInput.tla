---------------------------- MODULE DesktopInput ----------------------------
(***************************************************************************)
(* Keyboard and mouse: the devices of the GLFW, FREEGLUT and G3D plugins,  *)
(* and MouseToTracker of G3D.  What the user does reaches a device as calls*)
(* of its toolkit, which wait in `raw` until the device is polled:         *)
(*   [call, key, action, shift] for a key or a button, action 1 for a press*)
(*   0 for a release, 2 for a repeat; a cursor position in half windows.   *)
(* A key has the name of its constant in the toolkit, a letter is "w".     *)
(***************************************************************************)
EXTENDS FakeTrackers
LOCAL INSTANCE SequencesExt

Letters == [a |-> "A", b |-> "B", e |-> "E", r |-> "R", s |-> "S", t |-> "T",
            w |-> "W", x |-> "X", y |-> "Y", z |-> "Z"]

-----------------------------------------------------------------------------
(* GLFW.                                                                   *)

SameNames == {"F1", "F2", "F12", "0", "1", "2", "9"}
GlfwNames ==
    Letters @@
    [n \in SameNames |-> n] @@
    [SPACE |-> "Space", MINUS |-> "Minus", EQUAL |-> "Equal", LEFT_BRACKET |-> "LeftBracket",
     RIGHT_BRACKET |-> "RightBracket", BACKSLASH |-> "Backslash", SEMICOLON |-> "Semicolon",
     APOSTROPHE |-> "Apostrophe", GRAVE_ACCENT |-> "GraveAccent", COMMA |-> "Comma",
     PERIOD |-> "Period", SLASH |-> "Slash", WORLD_1 |-> "World1", WORLD_2 |-> "World2",
     ESCAPE |-> "Esc", UP |-> "Up", DOWN |-> "Down", LEFT |-> "Left", RIGHT |-> "Right",
     LEFT_SHIFT |-> "LeftShift", RIGHT_SHIFT |-> "RightShift", LEFT_CONTROL |-> "LeftControl",
     RIGHT_CONTROL |-> "RightControl", LEFT_ALT |-> "LeftAlt", RIGHT_ALT |-> "RightAlt",
     TAB |-> "Tab", ENTER |-> "Enter", BACKSPACE |-> "Backspace", INSERT |-> "Insert",
     DELETE |-> "Delete", PAGE_UP |-> "PageUp", PAGE_DOWN |-> "PageDown", HOME |-> "Home",
     END |-> "End", KP_0 |-> "Keypad0", KP_9 |-> "Keypad9", KP_DIVIDE |-> "KeypadDivide",
     KP_MULTIPLY |-> "KeypadMultiply", KP_SUBTRACT |-> "KeypadSubtract", KP_ADD |-> "KeypadAdd",
     KP_DECIMAL |-> "KeypadDecimal", KP_EQUAL |-> "KeypadEqual", KP_ENTER |-> "KeypadEnter",
     PRINT_SCREEN |-> "PrintScreen", NUM_LOCK |-> "NumLock", CAPS_LOCK |-> "CapsLock",
     SCROLL_LOCK |-> "ScrollLock", PAUSE |-> "Pause", LEFT_SUPER |-> "LeftSuper",
     RIGHT_SUPER |-> "RightSuper", MENU |-> "Menu", UNKNOWN |-> "Unknown"]
GetGlfwKeyName(key) == IF key \in DOMAIN GlfwNames THEN GlfwNames[key] ELSE ""
GetGlfwActionName(action) ==
    CASE action = 1 -> "Down" [] action = 0 -> "Up" [] action = 2 -> "Repeat"

GlfwKey(c) == ButtonEvent(<<"Kbd" \o GetGlfwKeyName(c.key), GetGlfwActionName(c.action)>>, c.action)
CursorPosition(c) == CursorEvent(<<"Mouse", "Move">>, c.at, c.at)
ButtonName(button) == "MouseBtn" \o button
GlfwButton(c) == ButtonEvent(<<ButtonName(c.key), IF c.action = 1 THEN "Down" ELSE "Up">>, c.action)
GlfwScroll(c) == AnalogEvent(<<"MouseWheel", "Spin">>, c.offset)

\* The callbacks of one poll; sizeCallback makes no event.
GlfwEvents(c) ==
    CASE c.call = "key"    -> <<GlfwKey(c)>>
      [] c.call = "cursor" -> <<CursorPosition(c)>>
      [] c.call = "button" -> <<GlfwButton(c)>>
      [] c.call = "scroll" -> <<GlfwScroll(c)>>
      [] c.call = "resize" -> <<>>

-----------------------------------------------------------------------------
(* FREEGLUT: a key is the character that it makes, shifted or not.         *)

Special == [F1 |-> "F1", F2 |-> "F2", F12 |-> "F12", PAGE_UP |-> "PageUp", PAGE_DOWN |-> "PageDown",
            HOME |-> "Home", END |-> "End", UP |-> "Up", DOWN |-> "Down", LEFT |-> "Left",
            RIGHT |-> "Right", INSERT |-> "Insert"]
GetKeyName(key, shift) ==
    IF key \in DOMAIN Special THEN Special[key]
    ELSE IF key = "ESCAPE" THEN "Esc"
    ELSE IF key \in DOMAIN Letters THEN (IF shift THEN Letters[key] ELSE key)
    ELSE key

\* The toolkit calls for a repeat what it calls for a press; for Shift itself nothing.
GlutKey(c) ==
    LET down == IF c.action = 0 THEN 0 ELSE 1
    IN  ButtonEvent(<<"Kbd" \o GetKeyName(c.key, c.shift), IF down = 1 THEN "Down" ELSE "Up">>, down)
\* The state of a pressed button is GLUT_DOWN, which is 0.
GlutState(action) == 1 - action
GlutButton(c) ==
    ButtonEvent(<<ButtonName(c.key), IF GlutState(c.action) = 0 THEN "Down" ELSE "Up">>, GlutState(c.action))
\* The number of the wheel is 0.
GlutWheel(c) == AnalogEvent(<<"MouseWheel", "Spin">>, c.offset * 0)

GlutEvents(c) ==
    CASE c.call = "key" /\ c.key = "LEFT_SHIFT" -> <<>>
      [] c.call = "key" /\ c.key # "LEFT_SHIFT" -> <<GlutKey(c)>>
      [] c.call = "cursor" -> <<CursorPosition(c)>>
      [] c.call = "button" -> <<GlutButton(c)>>
      [] c.call = "scroll" -> <<GlutWheel(c)>>
      [] c.call = "resize" -> <<>>

-----------------------------------------------------------------------------
(* G3D: modifiers are part of the name.                                    *)

G3DNames == Letters @@ [n \in SameNames |-> n] @@
            [UP |-> "UP", DOWN |-> "DOWN", TAB |-> "TAB", ENTER |-> "ENTER", ESCAPE |-> "ESC",
             SPACE |-> "SPACE", COMMA |-> ",", PERIOD |-> ".", LEFT_BRACKET |-> "[", RIGHT_BRACKET |-> "]"]
G3DKeyName(c) ==
    IF c.key = "LEFT_SHIFT" THEN "SHIFT"
    ELSE (IF c.shift THEN "SHIFT_" ELSE "")
         \o (IF c.key \in DOMAIN G3DNames THEN G3DNames[c.key] ELSE "UNKNOWN")
G3DWhat(action) == IF action = 0 THEN "up" ELSE "down"
G3DKey(c) == ButtonEvent(<<"kbd_" \o G3DKeyName(c), G3DWhat(c.action)>>, IF c.action = 0 THEN 0 ELSE 1)
G3DButton(c) == ButtonEvent(<<"Mouse_" \o c.key \o "_Btn", G3DWhat(c.action)>>, c.action)
\* The scroll wheel is two buttons.
G3DWheel(c) ==
    LET name == "Mouse_" \o (IF c.offset > 0 THEN "WheelUp" ELSE "WheelDown") \o "_Btn"
    IN  <<ButtonEvent(<<name, "down">>, 1), ButtonEvent(<<name, "up">>, 0)>>

\* All positions of a poll are put in one list, so that the second begins with the first.
G3DStep(acc, c) ==
    CASE c.call = "key"    -> [acc EXCEPT !.events = Append(@, G3DKey(c))]
      [] c.call = "button" -> [acc EXCEPT !.events = Append(@, G3DButton(c))]
      [] c.call = "scroll" -> [acc EXCEPT !.events = @ \o G3DWheel(c)]
      [] c.call = "resize" ->
            [acc EXCEPT !.events = Append(@, Event(<<"Window", "Resize">>,
                                                   [EventType |-> "WindowSize", WindowSize |-> c.size]))]
      [] c.call = "cursor" ->
            LET all == acc.mousePos \o c.at
            IN  [acc EXCEPT !.mousePos = all,
                            !.events = Append(@, CursorEvent(<<"Mouse", "Pointer">>, all,
                                                             <<c.at[1] - 1, -(c.at[2] - 1)>>))]
AppendToMinVREvents(raw) == FoldLeft(G3DStep, [events |-> <<>>, mousePos |-> <<>>], raw).events

-----------------------------------------------------------------------------
(* appendNewInputEventsSinceLastCall of the three.                         *)

DesktopKinds == {"GLFW", "FREEGLUT", "G3D"}
Translated(kind, raw) ==
    CASE kind = "GLFW"     -> FlattenSeq([i \in DOMAIN raw |-> GlfwEvents(raw[i])])
      [] kind = "FREEGLUT" -> FlattenSeq([i \in DOMAIN raw |-> GlutEvents(raw[i])])
      [] kind = "G3D"      -> AppendToMinVREvents(raw)

-----------------------------------------------------------------------------
(* MouseToTracker: an automaton that a key takes out of START, and back.   *)

Depth == 2      \* where the camera is, above the film plane at Depth - 1

MouseToTracker(numTrackers) ==
    [kind |-> "MouseToTracker", numTrackers |-> numTrackers, cur |-> 1, state |-> "START",
     rotm |-> Identity, trans |-> <<0, 0, 0>>, last |-> <<0, 0>>, pending |-> <<>>]

FsaKeys == [XROT |-> "kbd_X", YROT |-> "kbd_Y", ZROT |-> "kbd_Z", DOLLY |-> "kbd_SHIFT"]

CycleTracker(m) == [m EXCEPT !.cur = IF @ + 1 > m.numTrackers THEN 1 ELSE @ + 1]

\* On the plane of the tracker, seen through the film plane; the depth, or the rotation.
MouseMoveInPlane(m, v) ==
    [m EXCEPT !.trans = <<v[1] * (Depth - @[3]), v[2] * (Depth - @[3]), @[3]>>]
MouseMoveInOut(m, v) == [m EXCEPT !.trans = <<@[1], @[2], @[3] - 4 * (v[2] - m.last[2])>>]
MouseMoveRot(m, v) ==
    LET q == v[1] - m.last[1]
        r == CASE m.state = "XROT" -> RotationX(q)
               [] m.state = "YROT" -> RotationY(q)
               [] m.state = "ZROT" -> RotationZ(q)
    IN  [m EXCEPT !.rotm = Product(r, @)]

MouseMoved(m, v) ==
    LET to == CASE m.state = "START" -> MouseMoveInPlane(m, v)
                [] m.state = "DOLLY" -> MouseMoveInOut(m, v)
                [] OTHER -> MouseMoveRot(m, v)
    IN  [to EXCEPT !.last = v,
                   !.pending = Append(@, TrackerEvent(<<"Mouse" \o ToString(m.cur), "Tracker">>,
                                                      Product(Translation(to.trans), to.rotm)))]

\* doUserInput, for one of the events.
DoUserInput(m, event) ==
    LET states == {s \in DOMAIN FsaKeys : FsaKeys[s] = event.name[1]} IN
    IF event.name = <<"kbd_TAB", "down">> THEN CycleTracker(m)
    ELSE IF states # {} /\ event.name[2] = "down" /\ m.state = "START"
    THEN [m EXCEPT !.state = CHOOSE s \in states : TRUE]
    ELSE IF m.state \in states /\ event.name[2] = "up" THEN [m EXCEPT !.state = "START"]
    ELSE IF event.name = <<"Mouse", "Pointer">> THEN MouseMoved(m, event.data.NormalizedPosition)
    ELSE m
=============================================================================
