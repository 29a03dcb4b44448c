----------------------------- MODULE PhotonRoom -----------------------------
(***************************************************************************)
(* The device of the Photon plugin: the events of a program are sent to the*)
(* others in a room and theirs received.  A thread of the device talks to  *)
(* the room, in one critical section after another; the main thread adds to*)
(* what is to be sent and takes what has come, in two more.                *)
(*                                                                         *)
(* The room, which is not in the repository, hands a message to its other  *)
(* members, reliably and in order; it answers a request sooner or later.   *)
(***************************************************************************)
EXTENDS InputEvents

CONSTANTS
    Events,         \* of each program: what its other devices may report
    MaxLost         \* a bound on the answers of the room that are errors or losses

VARIABLES
    photon,         \* the device of each program that has one
    inbox,          \* the messages that the room has for it
    lost,           \* how many answers were errors or losses
    given, taken    \* history: the events given away, and the messages taken, by each program

roomVars == <<photon, inbox, lost, given, taken>>

\* One sequence after the other.
Joined(sequences) ==
    LET joined[i \in 0..Len(sequences)] ==
            IF i = 0 THEN <<>> ELSE joined[i - 1] \o sequences[i]
    IN  joined[Len(sequences)]

Photon(config) ==
    [config |-> config, conn |-> "INITIALIZED", sendQueue |-> <<>>,
     pending |-> <<>>, lastsend |-> 0, running |-> TRUE]

IsConnected(device) == device.conn = "JOINED"

Sharers == DOMAIN photon
Members == {p \in Sharers : IsConnected(photon[p])}

RoomInit ==
    /\ photon = [p \in Sharers |-> Photon(photon[p].config)]
    /\ inbox = [p \in Sharers |-> <<>>] /\ lost = 0
    /\ given = [p \in Sharers |-> <<>>] /\ taken = [p \in Sharers |-> <<>>]

-----------------------------------------------------------------------------
(* The main thread.                                                        *)

Renamed(device, event) ==
    IF event.name \in DOMAIN device.config.replacements
    THEN [event EXCEPT !.name = device.config.replacements[@]] ELSE event
Whitelisted(device, event) ==
    device.config.whitelist = {} \/ event.name \in device.config.whitelist
LoopFinished(n) == AnalogEvent(<<"PhotonLoopFinished", "">>, n)

\* What one poll adds to the send queue: the events of the devices before this one.
Passed(device, inputEvents) ==
    Joined([i \in DOMAIN inputEvents |->
                IF Whitelisted(device, inputEvents[i]) THEN <<Renamed(device, inputEvents[i])>> ELSE <<>>])
NewlySent(device, inputEvents) ==
    IF device.config.receiveOnly \/ Passed(device, inputEvents) = <<>> THEN <<>>
    ELSE Append(Passed(device, inputEvents), LoopFinished(device.lastsend))
SendNewEvents(device, inputEvents) ==
    LET sent == NewlySent(device, inputEvents)
    IN  [device EXCEPT !.sendQueue = @ \o sent, !.lastsend = IF sent = <<>> THEN @ ELSE @ + 1]

\* It looks whether it is connected before it takes the lock: that it no longer is when it
\* adds to the queue is as if it had been then.
SharesEvents(p) == p \in Sharers /\ photon[p].running /\ IsConnected(photon[p])
Share(p, inputEvents) ==
    /\ SharesEvents(p)
    /\ photon' = [photon EXCEPT ![p] = SendNewEvents(@, inputEvents)]
    /\ given' = [given EXCEPT ![p] = @ \o NewlySent(photon[p], inputEvents)]
    /\ UNCHANGED <<inbox, lost, taken>>

TakePending(device) == [device EXCEPT !.pending = <<>>]
Take(p) ==
    /\ p \in Sharers
    /\ photon' = [photon EXCEPT ![p] = TakePending(@)]
    /\ taken' = [taken EXCEPT ![p] = @ \o photon[p].pending]
    /\ UNCHANGED <<inbox, lost, given>>

-----------------------------------------------------------------------------
(* PhotonLib.  A service of the client calls back: with the answer to what *)
(* is asked, which may be an error or not be there yet, with a loss of the *)
(* connection, and with the messages that have come.                       *)

Answers == {"none", "ok", "error", "lost"}
Failures(answer) == IF answer \in {"error", "lost"} THEN 1 ELSE 0

Asked(conn) ==
    CASE conn = "INITIALIZED" -> "CONNECTING"
      [] conn = "CONNECTED"   -> "JOINING"
      [] conn = "LEFT"        -> "DISCONNECTING"
      [] OTHER -> conn
\* connectReturn, joinOrCreateRoomReturn, leaveRoomReturn, disconnectReturn.
Answered(conn, answer) ==
    CASE answer = "lost" -> "DISCONNECTED"
      [] answer = "none" -> conn
      [] conn = "CONNECTING" -> IF answer = "ok" THEN "CONNECTED" ELSE "DISCONNECTING"
      [] conn = "JOINING"    -> IF answer = "ok" THEN "JOINED" ELSE "CONNECTED"
      [] conn = "LEAVING"    -> IF answer = "ok" THEN "LEFT" ELSE "DISCONNECTING"
      [] conn = "DISCONNECTING" -> "DISCONNECTED"
      [] OTHER -> conn

\* customEventAction: a message waits for the main thread.
Update(device, answer, messages) ==
    [device EXCEPT !.conn = Answered(Asked(@), answer), !.pending = @ \o messages]

\* One round of update_thread: what is sent without being joined is lost.
Message(from, events) == [from |-> from, events |-> events]
\* (Faulty: what has been sent is not taken out of the queue.)
ThreadRoundKeeping(device, from, answer1, answer2, messages) ==
    LET first == Update(device, answer1, messages)
        sends == IsConnected(first) /\ first.sendQueue # <<>>
    IN  [device   |-> Update(first, answer2, <<>>),
         messages |-> IF sends THEN <<Message(from, first.sendQueue)>> ELSE <<>>]
ThreadRound(device, from, answer1, answer2, messages) ==
    LET first == Update(device, answer1, messages)
        sends == IsConnected(first) /\ first.sendQueue # <<>>
    IN  [device   |-> Update([first EXCEPT !.sendQueue = <<>>], answer2, <<>>),
         messages |-> IF sends THEN <<Message(from, first.sendQueue)>> ELSE <<>>]

UpdateThread(p) ==
    /\ p \in Sharers
    /\ \E a1, a2 \in Answers :
        LET round == ThreadRound(photon[p], p, a1, a2, inbox[p]) IN
        /\ lost + Failures(a1) + Failures(a2) <= MaxLost
        /\ a1 = "none" \/ a2 = "none"    \* one answer in a round is enough
        /\ photon' = [photon EXCEPT ![p] = round.device]
        /\ inbox' = [q \in Sharers |->
              IF q = p THEN <<>> ELSE IF q \in Members THEN inbox[q] \o round.messages ELSE inbox[q]]
        /\ lost' = lost + Failures(a1) + Failures(a2)
    /\ UNCHANGED <<given, taken>>

\* The destructor: the thread has been joined, and the client asked to leave.  What is left
\* of the thread's work is done by the main thread.
Leave(device) == [device EXCEPT !.running = FALSE, !.conn = "LEAVING"]
Quit(p) ==
    /\ p \in Sharers /\ photon[p].running
    /\ photon' = [photon EXCEPT ![p] = Leave(@)]
    /\ UNCHANGED <<inbox, lost, given, taken>>

\* The room and all its programs, whatever the other devices report, and when.
RoomNext ==
    \E p \in Sharers :
        (\E inputEvents \in Seq(Events[p]) : Share(p, inputEvents)) \/ Take(p) \/ UpdateThread(p) \/ Quit(p)
RoomSpec == RoomInit /\ [][RoomNext]_roomVars

-----------------------------------------------------------------------------
\* The events of one program in messages that another one has got.
EventsOf(q, messages) ==
    Joined([i \in DOMAIN messages |-> IF messages[i].from = q THEN messages[i].events ELSE <<>>])
Took(p, q) == EventsOf(q, taken[p])
OnTheWay(p, q) ==
    EventsOf(q, photon[p].pending) \o EventsOf(q, inbox[p]) \o photon[q].sendQueue
MayGive(q, event) ==
    \/ event.name = LoopFinished(0).name
    \/ \E e \in Events[q] : Whitelisted(photon[q], e) /\ event = Renamed(photon[q], e)

\* What a program takes from another is, without gap, repetition or change of order, a part of
\* what that one gave away; as long as both are in the room, what is on its way continues it
\* up to the last event given away; and a program gives away only what may happen at its own
\* devices: nothing that came from others goes back to the room.
Shared ==
    \A p, q \in Sharers : p # q =>
        /\ \E k \in 0..(Len(given[q]) - Len(Took(p, q))) :
              Took(p, q) = SubSeq(given[q], k + 1, k + Len(Took(p, q)))
        /\ {p, q} \subseteq Members =>
              \E k \in 0..Len(given[q]) :
                  Took(p, q) \o OnTheWay(p, q) = SubSeq(given[q], k + 1, Len(given[q]))
        /\ \A i \in DOMAIN given[q] : MayGive(q, given[q][i])
=============================================================================
