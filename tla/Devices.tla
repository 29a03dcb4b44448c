------------------------------ MODULE Devices ------------------------------
(***************************************************************************)
(* Input, frame after frame: a user acts, VRMain polls the devices and has *)
(* the events handled by the application and by the devices that are event *)
(* handlers, and renders.  Programs that have a Photon device share their  *)
(* events in a room.                                                       *)
(***************************************************************************)
EXTENDS SensorInput, PhotonRoom, FiniteSets
LOCAL INSTANCE SequencesExt

-----------------------------------------------------------------------------
(* What is around the input devices, none of it in the repository: a user,  *)
(* and the toolkits and servers that note what the user does until a device *)
(* asks.  `hand' is what a device's hardware is like, `raw' what waits for   *)
(* it.  An act that is not possible leaves everything as it is.             *)

DesktopHand == [held |-> {}, shift |-> FALSE, at |-> <<>>, stray |-> {}]
Wired(device, hand) == device @@ [raw |-> <<>>, out |-> <<>>, hand |-> hand]
Desktop(kind) == Wired([kind |-> kind], DesktopHand)

Waits(device, call) == [device EXCEPT !.raw = Append(@, call)]
KeyCall(device, call, key, action) ==
    Waits(device, [call |-> call, key |-> key, action |-> action, shift |-> device.hand.shift])

MouseButtons == {"Left", "Right", "Middle"}
\* With FREEGLUT and G3D, Shift changes the names of the keys that are down: they are stray.
Shifted(device) ==
    [device EXCEPT !.hand.shift = ~@,
                   !.hand.stray = IF device.kind = "GLFW" THEN @
                                     ELSE @ \cup (device.hand.held \ (MouseButtons \cup {"LEFT_SHIFT"}))]

DesktopAct(device, act) ==
    LET held == device.hand.held
        of   == IF act.do \in {"press", "release", "repeat"} THEN "key" ELSE "button"
        down == act.do \in {"press", "click"}
        changed == [device EXCEPT !.hand.held = IF down THEN @ \cup {act.key} ELSE @ \ {act.key}]
    IN  CASE act.do \in {"press", "click"} /\ act.key \notin held ->
                IF act.key = "LEFT_SHIFT" THEN Shifted(KeyCall(changed, of, act.key, 1))
                ELSE KeyCall(changed, of, act.key, 1)
          [] act.do \in {"release", "unclick"} /\ act.key \in held ->
                IF act.key = "LEFT_SHIFT" THEN Shifted(KeyCall(changed, of, act.key, 0))
                ELSE KeyCall(changed, of, act.key, 0)
          [] act.do = "repeat" /\ act.key \in held -> KeyCall(device, "key", act.key, 2)
          [] act.do = "move" /\ act.to # device.hand.at ->
                Waits([device EXCEPT !.hand.at = act.to], [call |-> "cursor", at |-> act.to])
          [] act.do = "scroll" -> Waits(device, [call |-> "scroll", offset |-> act.offset])
          [] act.do = "resize" -> Waits(device, [call |-> "resize", size |-> act.size])
          [] OTHER -> device

VRPNAct(device, act) ==
    CASE act.do = "press" /\ act.button \notin device.hand.held ->
            Waits([device EXCEPT !.hand.held = @ \cup {act.button}], [button |-> act.button, down |-> TRUE])
      [] act.do = "release" /\ act.button \in device.hand.held ->
            Waits([device EXCEPT !.hand.held = @ \ {act.button}], [button |-> act.button, down |-> FALSE])
      [] act.do = "channel" /\ device.hand.channels[act.channel] # act.value ->
            LET now == [device.hand.channels EXCEPT ![act.channel] = act.value]
            IN  Waits([device EXCEPT !.hand.channels = now], now)
      [] act.do = "sense" -> Waits(device, [sensor |-> act.sensor, transform |-> act.transform])
      [] OTHER -> device

\* The cursors that touch have the least identities; they are in the order of their touches.
TUIOAct(device, act) ==
    LET cursors == device.hand.cursors
        ids     == {cursors[i].id : i \in DOMAIN cursors}
        free    == CHOOSE n \in 0..Len(cursors) : n \notin ids /\ \A m \in 0..(n - 1) : m \in ids
    IN  CASE act.do = "touch" ->
                [device EXCEPT !.hand.cursors = Append(@, [id |-> free, at |-> act.at, speed |-> 0])]
          [] act.do = "lift" ->
                [device EXCEPT !.hand.cursors = SelectSeq(@, LAMBDA c : c.id # act.id)]
          [] act.do = "slide" ->
                [device EXCEPT !.hand.cursors = [i \in DOMAIN @ |->
                    IF @[i].id = act.id THEN [@[i] EXCEPT !.at = act.at, !.speed = 1] ELSE @[i]]]

\* A device that comes or goes may change the names of others: if any button is held then,
\* none can be trusted.
Buttons == {"GripButton", "Axis1Button"}
OpenVRAct(device, act) ==
    LET hand    == device.hand
        there   == hand.devices[act.device].connected
        control == <<act.device, act.button>>
        tell(d, call) == Waits(d, [call |-> call, device |-> act.device, button |-> act.button])
        plugged(b) == [device EXCEPT !.hand.devices[act.device].connected = b,
                                     !.hand.stray = IF hand.held \cup hand.touched = {} THEN @
                                                      ELSE (DOMAIN hand.devices) \X Buttons,
                                     !.hand.held = {c \in @ : c[1] # act.device},
                                     !.hand.touched = {c \in @ : c[1] # act.device}]
    IN  CASE act.do = "connect" /\ ~there -> tell(plugged(TRUE), "Activated")
          [] act.do = "disconnect" /\ there -> tell(plugged(FALSE), "Deactivated")
          [] act.do = "press" /\ there /\ control \notin hand.held ->
                tell([device EXCEPT !.hand.held = @ \cup {control}], "ButtonPress")
          [] act.do = "release" /\ there /\ control \in hand.held ->
                tell([device EXCEPT !.hand.held = @ \ {control}], "ButtonUnpress")
          [] act.do = "touch" /\ there /\ control \notin hand.touched ->
                tell([device EXCEPT !.hand.touched = @ \cup {control}], "ButtonTouch")
          [] act.do = "untouch" /\ there /\ control \in hand.touched ->
                tell([device EXCEPT !.hand.touched = @ \ {control}], "ButtonUntouch")
          [] act.do = "pull" /\ there ->
                [device EXCEPT !.hand.devices[act.device].axes[1].x = act.value]
          [] OTHER -> device

PadAct(device, act) ==
    CASE device.kind = "HoloPlay" -> [device EXCEPT !.hand.buttons[act.button] = 1 - @]
      [] device.kind = "Gainput" /\ act.do = "press" /\ act.button \notin device.hand.held ->
            Waits([device EXCEPT !.hand.held = @ \cup {act.button}],
                  [call |-> "bool", button |-> act.button, new |-> 1])
      [] device.kind = "Gainput" /\ act.do = "release" /\ act.button \in device.hand.held ->
            Waits([device EXCEPT !.hand.held = @ \ {act.button}],
                  [call |-> "bool", button |-> act.button, new |-> 0])
      [] device.kind = "Gainput" /\ act.do = "stick" /\ act.value # device.hand.stick ->
            Waits([device EXCEPT !.hand.stick = act.value],
                  [call |-> "float", button |-> "LeftStickX", new |-> act.value])
      [] OTHER -> device

Acted(device, act) ==
    CASE device.kind \in DesktopKinds -> DesktopAct(device, act)
      [] device.kind \in {"VRPNButton", "VRPNAnalog", "VRPNTracker"} -> VRPNAct(device, act)
      [] device.kind = "TUIO" -> TUIOAct(device, act)
      [] device.kind = "OpenVR" -> OpenVRAct(device, act)
      [] device.kind \in {"HoloPlay", "Gainput"} -> PadAct(device, act)

-----------------------------------------------------------------------------
CONSTANT
    Setups          \* of each: the programs, each a list of devices, the Photon devices of some,
                    \* the acts for each device, a bound on the acts, and one on the frames

VARIABLES
    setup,          \* the one that runs
    devices,        \* _inputDevices of each program, but for a Photon device, which is its last
    phase,          \* of a program: "user", "receive", "handle", "render", "settled"
    queue,          \* the events of the frame
    believed,       \* what the application of a program has been told, last
    acts, frames,
    missed          \* history: of each program: what a head tracker that was off has missed

vars == <<setup, devices, phase, queue, believed, acts, frames, missed, roomVars>>

Programs == DOMAIN devices
Init ==
    /\ setup \in DOMAIN Setups
    /\ devices \in Setups[setup].programs
    /\ phase = [p \in Programs |-> "user"]
    /\ queue = [p \in Programs |-> <<>>]
    /\ believed = [p \in Programs |-> <<>>]
    /\ acts = 0
    /\ frames = [p \in Programs |-> 0]
    /\ missed = [p \in Programs |-> {}]
    /\ photon = Setups[setup].photon /\ RoomInit

-----------------------------------------------------------------------------
(* The user.                                                               *)

Idle(p) == phase[p] \in {"user", "settled"}
Act(p) ==
    /\ Idle(p) /\ acts < Setups[setup].maxActs
    /\ \E i \in DOMAIN devices[p] : \E act \in Setups[setup].acts[p][i] :
        /\ Acted(devices[p][i], act) # devices[p][i]
        /\ devices' = [devices EXCEPT ![p][i] = Acted(@, act)]
    /\ acts' = acts + 1
    /\ phase' = [phase EXCEPT ![p] = "user"]
    /\ UNCHANGED <<setup, queue, believed, frames, missed, roomVars>>

-----------------------------------------------------------------------------
(* synchronizeAndProcessEvents.                                            *)

FrameStart == AnalogEvent(<<"FrameStart", "">>, 0)

PollOne(device) ==
    CASE device.kind \in DesktopKinds -> Polled(device, Translated(device.kind, device.raw))
      [] device.kind \in {"VRPNButton", "VRPNAnalog", "VRPNTracker"} -> VRPNPoll(device)
      [] device.kind = "TUIO" -> TUIOPoll(device)
      [] device.kind = "OpenVR" -> OpenVRPoll(device)
      [] device.kind = "Gainput" -> GainputPoll(device)
      [] device.kind = "HoloPlay" -> HoloPlayPoll(device)
      [] device.kind \in FakeKinds \cup {"MouseToTracker"} -> [device EXCEPT !.pending = <<>>]

\* The queue is in the order of the time stamps: the events that a fake tracker has had
\* since the last frame are older than those that the devices report now.
Older(device) == IF device.kind \in FakeKinds THEN device.pending ELSE <<>>
Newer(polled) == IF polled.kind \in FakeKinds \cup {"MouseToTracker"} THEN <<>> ELSE polled.out
NewEvents(list, polled) ==
    FlattenSeq([i \in DOMAIN list |-> Older(list[i])]) \o <<FrameStart>>
    \o FlattenSeq([i \in DOMAIN polled |-> Newer(polled[i])])

\* A Photon device is polled last, and gives away what the others have reported.
Poll(p) ==
    /\ Idle(p) /\ frames[p] < Setups[setup].maxFrames
    /\ \A i \in DOMAIN devices[p] : VRPNReady(devices[p][i])
    /\ \E polled \in {[i \in DOMAIN devices[p] |-> PollOne(devices[p][i])]} :
       \E events \in {NewEvents(devices[p], polled)} :
        /\ queue' = [queue EXCEPT ![p] = events]
        /\ devices' = [devices EXCEPT ![p] = polled]
        /\ IF SharesEvents(p)
           THEN Share(p, events) /\ phase' = [phase EXCEPT ![p] = "receive"]
           ELSE UNCHANGED roomVars /\ phase' = [phase EXCEPT ![p] = "handle"]
    /\ frames' = [frames EXCEPT ![p] = @ + 1]
    /\ UNCHANGED <<setup, believed, acts, missed>>

\* The events of the others are as old as their polls.
Received(messages) == FlattenSeq([i \in DOMAIN messages |-> messages[i].events])
Receive(p) ==
    /\ phase[p] = "receive"
    /\ queue' = [queue EXCEPT ![p] = Received(photon[p].pending) \o @]
    /\ Take(p)
    /\ phase' = [phase EXCEPT ![p] = "handle"]
    /\ UNCHANGED <<setup, devices, believed, acts, frames, missed>>

\* What the application is told: of a button by the callback, under the name of the control.
Touches == {"Touch", "Untouch"}
Hears(beliefs, event) ==
    CASE Callback(event) \in {"onButtonDown", "onButtonUp"} ->
            (<<event.name[1], IF event.name[2] \in Touches THEN "touched" ELSE "pressed">>
                :> (Callback(event) = "onButtonDown")) @@ beliefs
      [] Callback(event) = "onAnalogChange" -> (event.name :> GetAnalogValue(event)) @@ beliefs
      [] Callback(event) = "onCursorMove" -> (event.name :> GetCursorPos(event)) @@ beliefs
      [] Callback(event) = "onTrackerMove" -> (event.name :> GetTransform(event)) @@ beliefs
      [] OTHER -> beliefs

DeviceHears(device, event) ==
    CASE device.kind \in FakeKinds -> FakeOnEvent(device, event)
      [] device.kind = "MouseToTracker" -> DoUserInput(device, event)
      [] OTHER -> device

\* Each event goes to the handlers before the next: the application, then the devices.
Off(list) == \E i \in DOMAIN list : list[i].kind = "FakeHeadTracker" /\ ~list[i].tracking
HandleEvents(p) ==
    /\ phase[p] = "handle"
    /\ believed' = [believed EXCEPT ![p] = FoldLeft(Hears, @, queue[p])]
    /\ \E told \in {[i \in DOMAIN devices[p] |-> FoldLeft(DeviceHears, devices[p][i], queue[p])]} :
        /\ devices' = [devices EXCEPT ![p] = told]
        /\ missed' = [missed EXCEPT ![p] =
                IF Off(devices[p]) \/ Off(told) THEN @ \cup {queue[p][i].name : i \in DOMAIN queue[p]} ELSE @]
    /\ queue' = [queue EXCEPT ![p] = <<>>]
    /\ phase' = [phase EXCEPT ![p] = "render"]
    /\ UNCHANGED <<setup, acts, frames, roomVars>>

\* Rendering matters to a device that takes poses of the hardware then.
Render(p) ==
    /\ phase[p] = "render"
    /\ devices' = [devices EXCEPT ![p] =
            [i \in DOMAIN @ |-> IF @[i].kind = "OpenVR" THEN UpdatePoses(@[i]) ELSE @[i]]]
    /\ phase' = [phase EXCEPT ![p] = "settled"]
    /\ UNCHANGED <<setup, queue, believed, acts, frames, missed, roomVars>>

-----------------------------------------------------------------------------
(* The Photon devices: their threads, and their ends.                      *)

deviceVars == <<setup, devices, phase, queue, believed, acts, frames, missed>>

RunThread(p) == UpdateThread(p) /\ UNCHANGED deviceVars
Close(p) ==
    /\ Idle(p) /\ frames[p] = Setups[setup].maxFrames
    /\ Quit(p) /\ UNCHANGED deviceVars

Next == \E p \in Programs :
    Act(p) \/ Poll(p) \/ Receive(p) \/ HandleEvents(p) \/ Render(p) \/ RunThread(p) \/ Close(p)
Spec == Init /\ [][Next]_vars
-----------------------------------------------------------------------------
(* What the hardware says, under the names that an application knows.      *)

ControlName(device, key) ==
    CASE key \in MouseButtons /\ device.kind = "G3D" -> "Mouse_" \o key \o "_Btn"
      [] key \in MouseButtons /\ device.kind # "G3D" -> ButtonName(key)
      [] device.kind = "GLFW" -> "Kbd" \o GetGlfwKeyName(key)
      [] device.kind = "FREEGLUT" -> "Kbd" \o GetKeyName(key, device.hand.shift)
      [] device.kind = "G3D" -> "kbd_" \o G3DKeyName([key |-> key, shift |-> device.hand.shift])

KeysUsed(p, i) ==
    {a.key : a \in {b \in Setups[setup].acts[p][i] : b.do \in {"press", "click"}}}
\* FREEGLUT tells nothing of Shift, and of a mouse button the contrary.
KeysToldOf(p, i) ==
    KeysUsed(p, i) \ (devices[p][i].hand.stray
        \cup IF devices[p][i].kind = "FREEGLUT" THEN MouseButtons \cup {"LEFT_SHIFT"} ELSE {})

Told(p, name, default) == IF name \in DOMAIN believed[p] THEN believed[p][name] ELSE default
Pressed(p, name) == Told(p, <<name, "pressed">>, FALSE)

DesktopAgrees(p, i) ==
    LET d == devices[p][i] IN
    /\ \A k \in KeysToldOf(p, i) : Pressed(p, ControlName(d, k)) = (k \in d.hand.held)
    /\ d.kind # "G3D" /\ d.hand.at # <<>> => Told(p, MouseMove, <<>>) = d.hand.at
TUIOAgrees(p, d) ==
    LET cursors == d.hand.cursors IN
    /\ \A id \in 0..2 : Pressed(p, "Touch" \o ToString(id)) = (\E i \in DOMAIN cursors : cursors[i].id = id)
    /\ \A i \in DOMAIN cursors :
          cursors[i].speed > 0 => Told(p, TouchName(cursors[i].id, "Move"), <<>>) = cursors[i].at
OpenVRAgrees(p, d) ==
    \A i \in Connected(d) :
        LET name == CountedName(d.hand.devices, Connected(d), i)
            axes == d.hand.devices[i].axes
        IN  /\ \A b \in {c \in Buttons : <<i, c>> \notin d.hand.stray} :
                /\ Pressed(p, d.name \o name \o "_" \o b) = (<<i, b>> \in d.hand.held)
                /\ Told(p, <<d.name \o name \o "_" \o b, "touched">>, FALSE) = (<<i, b>> \in d.hand.touched)
            /\ axes # <<>> => Told(p, <<d.name \o name, "Trigger0">>, 0) = axes[1].x
PadAgrees(p, d) ==
    /\ \A b \in {"A", "B"} : Pressed(p, d.name \o "_" \o b) = (b \in d.hand.held)
    /\ Told(p, <<d.name, "LeftStickX">>, 0) = d.hand.stick

\* After a frame in which nothing happened any more, what the application was last told of a
\* key, button, touch, axis or cursor is how it is, and what it was told of a fake tracker is
\* where that is unless the next frame will tell it.
ApplicationAgrees ==
    \A p \in Programs : phase[p] = "settled" => \A i \in DOMAIN devices[p] :
        LET d == devices[p][i] IN
        CASE d.kind \in DesktopKinds -> DesktopAgrees(p, i)
          [] d.kind = "VRPNButton" ->
                \A n \in DOMAIN d.names : Pressed(p, d.names[n]) = (n \in d.hand.held)
          [] d.kind = "VRPNAnalog" ->
                \A n \in DOMAIN d.names : Told(p, <<d.names[n], "Update">>, 0) = d.hand.channels[n]
          [] d.kind = "TUIO" -> TUIOAgrees(p, d)
          [] d.kind = "OpenVR" -> OpenVRAgrees(p, d)
          [] d.kind = "Gainput" -> PadAgrees(p, d)
          [] d.kind = "FakeTracker" ->
                d.pending = <<>> => Told(p, <<d.config.name, "Move">>, <<>>) = d.transform
          [] OTHER -> TRUE

\* The names of the controls that are down at a program's keyboard and mouse.
Down(p) ==
    UNION {{ControlName(devices[p][i], k) : k \in devices[p][i].hand.held} :
              i \in {j \in DOMAIN devices[p] : devices[p][j].kind \in DesktopKinds}}
SomeStray(p) == \E i \in DOMAIN devices[p] :
    devices[p][i].kind \in DesktopKinds /\ devices[p][i].hand.stray # {}

KnowsMouse(p, d) == MouseMove \in DOMAIN believed[p] =>
    d.mouse = <<believed[p][MouseMove][1] - 1, 1 - believed[p][MouseMove][2]>>

\* A tracker that is moved by mouse and keys is in a mode only while a key of that mode is
\* down (if it is not sticky), whatever else was pressed, released, repeated or toggled
\* meanwhile; and it goes on from where the mouse is, not from where it was last used.  A head
\* tracker is excused from what it missed while it was off: nothing makes up for that.
TrackersInMode ==
    \A p \in Programs : phase[p] = "settled" /\ ~SomeStray(p) => \A i \in DOMAIN devices[p] :
        LET d == devices[p][i] IN
        CASE d.kind = "FakeTracker" ->
                /\ d.tracking /\ ~d.config.sticky /\ d.mode # "None" => d.config.keys[d.mode] \in Down(p)
                /\ KnowsMouse(p, d)
          [] d.kind = "FakeHeadTracker" ->
                /\ d.rotating => d.config.mouseRot \cap Down(p) # {}
                                  \/ \E k \in d.config.mouseRot : <<k, "Up">> \in missed[p]
                /\ MouseMove \notin missed[p] => KnowsMouse(p, d)
          [] d.kind = "FakeHandTracker" ->
                /\ d.mode = "ZTranslating" => d.config.zKeys \cap Down(p) # {}
                /\ d.mode = "Rotating" => d.config.rotKeys \cap Down(p) # {}
                /\ KnowsMouse(p, d)
          [] d.kind = "MouseToTracker" -> d.state # "START" => FsaKeys[d.state] \in Down(p)
          [] OTHER -> TRUE
=============================================================================
