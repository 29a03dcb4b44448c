---------------------------- MODULE SensorInput ----------------------------
(***************************************************************************)
(* Devices that are asked for their state or for reports: those of the     *)
(* VRPN, TUIO, OpenVR, Gainput and HoloPlay plugins.  A device has its     *)
(* configuration and state, the reports of its hardware that wait (`raw`)  *)
(* and what the hardware is like now (`hand`).  Each ...Poll is a device   *)
(* after appendNewInputEventsSinceLastCall, with the new events in `out`.  *)
(***************************************************************************)
EXTENDS DesktopInput
LOCAL INSTANCE SequencesExt
LOCAL INSTANCE FiniteSetsExt

Polled(device, events) == [device EXCEPT !.out = events, !.raw = <<>>]
Collect(Step(_, _), device) ==
    LET start == [device EXCEPT !.out = <<>>]
    IN  [FoldLeft(Step, start, device.raw) EXCEPT !.raw = <<>>]
Out(device, event) == [device EXCEPT !.out = Append(@, event)]

-----------------------------------------------------------------------------
(* VRPN: channels, buttons and sensors have the names of EventsToGenerate. *)

NamedOr(names, n, unknown) == IF n \in DOMAIN names THEN names[n] ELSE unknown

\* (Faulty: what has been sent is not noted.)
SendEventIfChangedUnnoted(device, channel, value) ==
    IF device.channels[channel] = value THEN device
    ELSE Out(device, AnalogEvent(<<device.names[channel], "Update">>, value))

\* A change handler is told all channels; those without a name are left out.
SendEventIfChanged(device, channel, value) ==
    IF device.channels[channel] = value THEN device
    ELSE [Out(device, AnalogEvent(<<device.names[channel], "Update">>, value))
            EXCEPT !.channels[channel] = value]
AnalogHandler(device, report) ==
    LET send(d, channel) == SendEventIfChanged(d, channel, report[channel])
        channels == {c \in DOMAIN report : c <= Len(device.channels)}
    IN  FoldLeft(send, device, [c \in 1..Cardinality(channels) |-> c])
VRPNAnalog(names) ==
    [kind |-> "VRPNAnalog", names |-> names, channels |-> [c \in DOMAIN names |-> 0]]

ButtonHandler(device, report) ==
    Out(device, ButtonEvent(<<NamedOr(device.names, report.button, "VRPNButtonDevice_Unknown_Event"),
                              IF report.down THEN "Down" ELSE "Up">>, IF report.down THEN 1 ELSE 0))
VRPNButton(names) == [kind |-> "VRPNButton", names |-> names]

\* Left handed to right handed: z is turned round.
TurnedZ(m) ==
    LET element(r, c) == IF (r = 2) = (c = 2) THEN At(m, r, c) ELSE -At(m, r, c)
    IN  Matrix(element)
Scaled(m, s) == LET element(r, c) == IF c = 3 /\ r < 3 THEN s * At(m, r, c) ELSE At(m, r, c)
                IN  Matrix(element)
ProcessEvent(device, report) ==
    LET c == device.config
        turned == IF c.ConvertLHtoRH THEN TurnedZ(report.transform) ELSE report.transform
        room == Product(c.finalOffset[report.sensor],
                        Product(Product(c.deviceToRoom, Scaled(turned, c.TrackerUnitsToRoomUnitsScale)),
                                c.propToTracker[report.sensor]))
        name == <<NamedOr(device.names, report.sensor, "VRPNTrackerDevice_Unknown_Event"), "Move">>
    IN  IF c.IgnoreZeroes /\ GetColumn(report.transform, 3) = <<0, 0, 0>> THEN device
        ELSE [Out(device, TrackerEvent(name, room)) EXCEPT !.newReport = TRUE]
VRPNTracker(names, config) ==
    [kind |-> "VRPNTracker", names |-> names, newReport |-> FALSE,
     config |-> [config EXCEPT !.deviceToRoom = Orthonormal(@),
                               !.propToTracker = [i \in DOMAIN @ |-> Orthonormal(@[i])],
                               !.finalOffset = [i \in DOMAIN @ |-> Orthonormal(@[i])]]]

VRPNPoll(device) ==
    CASE device.kind = "VRPNAnalog"  -> Collect(AnalogHandler, device)
      [] device.kind = "VRPNButton"  -> Collect(ButtonHandler, device)
      [] device.kind = "VRPNTracker" -> Collect(ProcessEvent, [device EXCEPT !.newReport = FALSE])
\* A tracker that waits for a new report asks until one comes that is not ignored.
VRPNReady(device) ==
    device.kind = "VRPNTracker" /\ device.config.WaitForNewReportInPoll => VRPNPoll(device).newReport

-----------------------------------------------------------------------------
(* TUIO: the cursors on the table, against those of the last poll.         *)

TouchName(id, what) == <<"Touch" \o ToString(id), what>>
TUIO(xScale, yScale) == [kind |-> "TUIO", x |-> xScale, y |-> yScale, cursorsDown |-> {}]
TUIOPoll(device) ==
    LET cursors == device.hand.cursors
        now     == {cursors[i].id : i \in DOMAIN cursors}
        ups     == SetToSortSeq(device.cursorsDown \ now, <)
        up(i)   == ButtonEvent(TouchName(ups[i], "Up"), 0)
        scaled(c) == <<device.x * c.at[1], device.y * c.at[2]>>
        down(c) == IF c.id \in device.cursorsDown THEN <<>>
                   ELSE <<ButtonEvent(TouchName(c.id, "Down"), 1)>>
        move(c) == IF c.speed > 0 THEN <<CursorEvent(TouchName(c.id, "Move"), scaled(c), c.at)>> ELSE <<>>
        each(i) == down(cursors[i]) \o move(cursors[i])
    IN  [Polled(device, [i \in DOMAIN ups |-> up(i)] \o FlattenSeq([i \in DOMAIN cursors |-> each(i)]))
            EXCEPT !.cursorsDown = now]

-----------------------------------------------------------------------------
(* OpenVR: devices have an index, and a name that counts those of a kind.  *)
(* The hardware is the devices that are connected, index after index, with *)
(* their class, role, axes and poses.                                      *)

Connected(device) == {i \in DOMAIN device.hand.devices : device.hand.devices[i].connected}
CountedName(hardware, connected, i) ==
    LET same == {j \in connected : j <= i /\ hardware[j].class = hardware[i].class}
    IN  CASE hardware[i].class = "HMD" -> "_HMD_" \o ToString(Cardinality(same))
          [] hardware[i].class = "Controller" ->
                IF hardware[i].role \in {"Left", "Right"} THEN "_Controller_" \o hardware[i].role
                ELSE "_Controller_" \o ToString(Cardinality(same))
          [] hardware[i].class = "Reference" -> "_TrackingReference_" \o ToString(Cardinality(same))
          [] OTHER -> "_UnknownDevice_" \o ToString(Cardinality(same))
UpdateDeviceNames(device) ==
    [device EXCEPT !.names = [i \in DOMAIN device.hand.devices |->
        IF i \in Connected(device)
        THEN device.name \o CountedName(device.hand.devices, Connected(device), i) ELSE ""]]
GetDeviceName(device, i) ==
    IF device.names[i] = "" THEN UpdateDeviceNames(device).names[i] ELSE device.names[i]

\* Only a controller that is connected has a tip.
SetTipOffset(device, i) ==
    IF i \in Connected(device) /\ device.hand.devices[i].class = "Controller"
    THEN [device EXCEPT !.tips[i] = device.hand.devices[i].tip] ELSE device
OpenVR(name, units, deviceToRoom, hand) ==
    LET made == [kind |-> "OpenVR", name |-> name, units |-> units, deviceToRoom |-> deviceToRoom,
                 names |-> <<>>, tips |-> [i \in DOMAIN hand.devices |-> Identity],
                 events |-> <<>>, raw |-> <<>>, out |-> <<>>, hand |-> hand]
        indices == [i \in DOMAIN hand.devices |-> i]
    IN  FoldLeft(SetTipOffset, UpdateDeviceNames(made), indices)

ControllerWhat == [ButtonPress |-> "Down", ButtonUnpress |-> "Up", ButtonTouch |-> "Touch",
                   ButtonUntouch |-> "Untouch"]
ProcessVREvent(device, c) ==
    LET told(state) == ButtonEvent(<<GetDeviceName(device, c.device) \o "_" \o c.button,
                                     ControllerWhat[c.call]>>, state)
        add(state)  == [device EXCEPT !.events = Append(@, told(state))]
    IN  CASE c.call = "Activated" -> SetTipOffset(UpdateDeviceNames(device), c.device)
          [] c.call \in {"Deactivated", "Updated"} -> UpdateDeviceNames(device)
          [] c.call \in {"ButtonPress", "ButtonTouch"} -> add(1)
          [] c.call \in {"ButtonUnpress", "ButtonUntouch"} -> add(0)

\* Every axis of every device, in every poll.
AxisEvents(device, i, axis) ==
    LET a    == device.hand.devices[i].axes[axis]
        name == GetDeviceName(device, i)
        kind == a.type \o ToString(axis - 1)
    IN  CASE a.type = "Trigger" -> <<AnalogEvent(<<name, kind>>, a.x)>>
          [] a.type \in {"TrackPad", "Joystick"} ->
                <<AnalogEvent(<<name, kind \o "_X">>, a.x), AnalogEvent(<<name, kind \o "_Y">>, a.y)>>
          [] OTHER -> <<>>
ReportAnalog(device) ==
    LET of(i) == IF i \in Connected(device)
                 THEN FlattenSeq([x \in DOMAIN device.hand.devices[i].axes |-> AxisEvents(device, i, x)])
                 ELSE <<>>
    IN  [device EXCEPT !.events = @ \o FlattenSeq([i \in DOMAIN device.hand.devices |-> of(i)])]

OpenVRPoll(device) ==
    LET told == ReportAnalog(FoldLeft(ProcessVREvent, device, device.raw))
    IN  [Polled(told, told.events) EXCEPT !.events = <<>>]

\* At the rendering of a frame; the events wait for the next one.
PoseToMatrix4(d) == IF d.poseIsValid THEN d.pose ELSE Identity
UpdatePoses(device) ==
    LET of(i) == LET pose == Product(PoseToMatrix4(device.hand.devices[i]), device.tips[i])
                     room == Product(Inverted(device.deviceToRoom), Scaled(pose, device.units))
                 IN  IF i \in Connected(device)
                     THEN <<TrackerEvent(<<GetDeviceName(device, i), "Move">>, room)>> ELSE <<>>
    IN  [device EXCEPT !.events = @ \o FlattenSeq([i \in DOMAIN device.hand.devices |-> of(i)])]

-----------------------------------------------------------------------------
(* Gainput and HoloPlay.                                                   *)

\* The listener of the manager; a button that comes up is "_UP".
OnDeviceButton(device, c) ==
    IF c.call = "bool"
    THEN Out(device, ButtonEvent(<<device.name \o "_" \o c.button,
                                   IF c.new = 1 THEN "Down" ELSE "UP">>, c.new))
    ELSE Out(device, AnalogEvent(<<device.name, c.button>>, c.new))
Gainput(name) == [kind |-> "Gainput", name |-> name]
GainputPoll(device) == Collect(OnDeviceButton, device)

HoloPlayButtons == <<"Square", "Left", "Right", "Circle">>
HoloPlay == [kind |-> "HoloPlay", last |-> [b \in 1..4 |-> 0]]
\* The test for a press compares the array with 0: it never fails.
HoloPlayPoll(device) ==
    LET changed == SelectSeq(<<1, 2, 3, 4>>, LAMBDA b : device.last[b] # device.hand.buttons[b])
        event(b) == ButtonEvent(<<"HoloPlay_Button_" \o HoloPlayButtons[b], "Up">>, 1)
    IN  [Polled(device, [i \in DOMAIN changed |-> event(changed[i])])
            EXCEPT !.last = device.hand.buttons]
=============================================================================
