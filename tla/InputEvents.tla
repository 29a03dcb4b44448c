---------------------------- MODULE InputEvents ----------------------------
(***************************************************************************)
(* The events of input devices.  An event is a name of two parts, the one  *)
(* of the control and what happened to it ("KbdW" and "Down" stand for     *)
(* KbdW_Down), and the entries of its data index: the indices made by      *)
(* createValidDataIndex, and what VRApp makes of them.                     *)
(***************************************************************************)
EXTENDS Integers, Sequences

Event(name, data) == [name |-> name, data |-> data]

ButtonTypes == <<"ButtonUp", "ButtonDown", "ButtonRepeat">>
ButtonEvent(name, state) == Event(name, [EventType |-> ButtonTypes[state + 1], ButtonState |-> state])
AnalogEvent(name, value) == Event(name, [EventType |-> "AnalogUpdate", AnalogValue |-> value])
CursorEvent(name, position, normalized) ==
    Event(name, [EventType |-> "CursorMove", Position |-> position, NormalizedPosition |-> normalized])
TrackerEvent(name, transform) == Event(name, [EventType |-> "TrackerMove", Transform |-> transform])

\* What the getters of the API return; each throws if its entry is missing.
GetAnalogValue(event) == event.data.AnalogValue
GetCursorPos(event) == event.data.NormalizedPosition
GetTransform(event) == event.data.Transform

\* onVREvent of VRApp: the callback made for an event; none for a repeat.
Callback(event) ==
    CASE event.data.EventType = "AnalogUpdate" -> "onAnalogChange"
      [] event.data.EventType = "ButtonDown"   -> "onButtonDown"
      [] event.data.EventType = "ButtonUp"     -> "onButtonUp"
      [] event.data.EventType = "ButtonRepeat" -> "none"
      [] event.data.EventType = "CursorMove"   -> "onCursorMove"
      [] event.data.EventType = "TrackerMove"  -> "onTrackerMove"
      [] OTHER -> "onGenericEvent"
=============================================================================
