------------------------------ MODULE NfcPort ------------------------------
(***************************************************************************)
(* What the console and a client see of the amiibo of one Switch 2 port,   *)
(* server/src/virtual_controller.cpp: the NFC event state in the HID       *)
(* report, and whether the client's picker is open.  What a command may do *)
(* to the tag is what TagPresence allows, which Nfc implements.            *)
(*                                                                         *)
(* The writer of the port (writers.cpp) lays the ports out and tells the   *)
(* sessions, answers commands, forms reports and watches the hold of the   *)
(* tag; the thread that receives from the client presents one.             *)
(***************************************************************************)
EXTENDS Naturals

CONSTANTS
  EventStates, \* 8 in the code
  Delay        \* from a command until its event is due, 40 or 700 ms in the code

VARIABLES
  presence,   \* "none", "there" or "taken"
  kept,       \* defers_read_eject: a leave that ends a read leaves the tag there
  extended,   \* "idle", "await" or "done": the figure-v3 update after a clear
  suppressed, \* g_amiibo_scan_suppressed
  hid,        \* g_amiibo_hid_state, g_amiibo_hid_event_pending, and the time left until it is due
  slot,       \* hw_slots: whether the session plays on the port, and as which controller
  mapped,     \* client_assignment: whether the session has been told that it does
  writer,     \* between telling the session its ports and withdrawing its picker, or not
  asked,      \* amiibo_requested of the session: its picker is open
  hand,       \* the session's thread: idle, or it has found the port, or presented there
  returned    \* history: a kept tag was put back under the picker
tag == <<presence, kept, extended>>
layout == <<slot, mapped, writer>>
vars == <<tag, suppressed, hid, layout, asked, hand, returned>>

\* controller_port_supports_amiibo, for the types of a native Switch 2 port.
Controllers == {"pro", "right", "left"}
Supports(s) == s.type # "left"
NoEvent(n) == [state |-> n, pending |-> FALSE, left |-> 0]

Init ==
  /\ presence = "none" /\ kept = FALSE /\ extended = "idle" /\ suppressed = FALSE
  /\ hid = NoEvent(0) /\ slot = [ours |-> FALSE, type |-> "pro"]
  /\ mapped = FALSE /\ writer = "idle" /\ asked = FALSE /\ hand = "idle" /\ returned = FALSE

Advance(h) == NoEvent((h.state + 1) % EventStates)
Schedule(h) == [h EXCEPT !.pending = TRUE, !.left = Delay]

\* publish_amiibo_request_for_port: the request is for whom the assignments name.
Published(request) == IF mapped THEN request ELSE asked

-----------------------------------------------------------------------------
(* Commands of the console.                                                *)

Asks(there) == ~there /\ ~suppressed'

\* A bug the checks must find: an empty scan that the console stops closes the picker.
ClosesEarly(sub) == sub = "leave"

Closes(sub) == sub = "leave" /\ presence = "there"

Commands == {"scan", "leave", "operation", "commit", "other"}

\* What a command does to the tag, in the way of TagPresence.  A clear waits for its update
\* for five seconds; any command that comes later ends the wait, and so does a scan.  Both take
\* the tag away, but a late command does not if an operation is under way.
Stays(sub) ==
  /\ presence' = presence
  /\ \/ extended' = extended /\ (extended = "await" => sub # "scan")
     \/ extended = "await" /\ extended' = "idle" /\ (sub = "scan" => presence # "there")
     \/ sub = "commit" /\ presence = "there" /\ extended' \in {"await", "done"}
Taken(sub) ==
  /\ presence = "there" /\ presence' = "taken"
  /\ \/ sub = "leave" /\ extended' = extended
     \/ extended = "await" /\ extended' = "idle"
Returned(sub) ==
  /\ presence = "taken" /\ kept /\ presence' = "there"
  /\ sub = "leave" /\ extended' \in {extended, "idle"}

\* fill_nfc_response_payload, under g_amiibo_mtx.
Command ==
  /\ writer = "idle" /\ Supports(slot)
  /\ \E sub \in Commands :
     /\ Stays(sub) \/ Taken(sub) \/ Returned(sub)
     /\ suppressed' = CASE extended' = "await" -> TRUE [] extended' = "done" -> FALSE [] OTHER -> suppressed
     /\ LET h == IF presence = "there" /\ presence' = "taken" THEN Advance(hid) ELSE hid IN
        hid' = IF sub \in {"operation", "commit"} \/ (sub = "scan" /\ presence' = "there") THEN Schedule(h) ELSE h
     /\ asked' = CASE sub = "scan" -> Published(Asks(presence' = "there"))
                   [] Closes(sub) -> Published(FALSE)
                   [] OTHER -> asked
  /\ returned' = (asked' /\ (returned \/ (presence = "taken" /\ presence' = "there")))
  /\ UNCHANGED <<kept, layout, hand>>

\* A command to a controller without a reader.
Unsupported ==
  /\ writer = "idle" /\ ~Supports(slot)
  /\ asked' = Published(FALSE) /\ returned' = (returned /\ asked')
  /\ UNCHANGED <<tag, suppressed, hid, layout, hand>>

\* set_write_persisted, of a tag whose removal waited for the library.
TakenLate ==
  /\ writer = "idle"
  /\ presence = "there" /\ presence' = "taken" /\ hid' = Advance(hid)
  /\ UNCHANGED <<kept, extended, suppressed, layout, asked, hand, returned>>

-----------------------------------------------------------------------------
(* The writer's other work.                                                *)

\* reconcile_hw_slots: another session, or the same as another controller.
Reassign ==
  /\ writer = "idle"
  /\ slot' \in [ours : BOOLEAN, type : Controllers] /\ slot' # slot
  /\ asked' = (asked /\ ~(slot.ours /\ Supports(slot))) /\ returned' = (returned /\ asked')
  /\ UNCHANGED <<tag, suppressed, hid, mapped, writer, hand>>

\* The session is told its ports, unless the tick was cut short before ...
Tell ==
  /\ writer = "idle" /\ writer' = "told" /\ mapped' = slot.ours
  /\ UNCHANGED <<tag, suppressed, hid, slot, asked, hand, returned>>

\* ... and its picker is withdrawn if none of them has a reader.
Withdraw ==
  /\ writer = "told" /\ writer' = "idle"
  /\ asked' = (asked /\ slot.ours /\ Supports(slot)) /\ returned' = (returned /\ asked')
  /\ UNCHANGED <<tag, suppressed, hid, slot, mapped, hand>>

\* check_amiibo_expiry; a tag that was taken away goes silently.
Clear == Advance(hid)

Expire ==
  /\ writer = "idle" /\ presence # "none" /\ presence' = "none" /\ extended' = "idle" /\ kept' = FALSE
  /\ hid' = IF presence = "there" THEN Clear ELSE hid
  /\ UNCHANGED <<suppressed, layout, asked, hand, returned>>

\* Time passes until the event is due.
Elapse ==
  /\ hid.pending /\ hid.left > 0 /\ hid' = [hid EXCEPT !.left = @ - 1]
  /\ UNCHANGED <<tag, suppressed, layout, asked, hand, returned>>

\* amiibo_nfc_report_state, in a report of a controller with a reader.
Report ==
  /\ Supports(slot) /\ hid.pending /\ hid.left = 0 /\ hid' = Advance(hid)
  /\ UNCHANGED <<tag, suppressed, layout, asked, hand, returned>>

-----------------------------------------------------------------------------
(* The session and its thread.                                             *)

\* The thread finds the port that a tag of the client is for ...
Route ==
  /\ hand = "idle" /\ mapped /\ Supports(slot) /\ hand' = "routed"
  /\ UNCHANGED <<tag, suppressed, hid, layout, asked, returned>>

\* ... presents it under the lock (set_amiibo_data_for_port) ...
Present ==
  /\ hand = "routed" /\ hand' = "presented"
  /\ presence' = "there" /\ kept' \in BOOLEAN /\ extended' = "idle"
  /\ suppressed' = FALSE /\ hid' = Advance(hid)
  /\ UNCHANGED <<layout, asked, returned>>

\* (a dump that is refused leaves no tag, and nobody is told)
PresentBad ==
  /\ hand = "routed" /\ hand' = "idle" /\ presence' = "none" /\ extended' = "idle"
  /\ UNCHANGED <<kept, suppressed, hid, layout, asked, returned>>

\* ... and tells the client.
Announce ==
  /\ hand = "presented" /\ hand' = "idle"
  /\ asked' = Published(FALSE) /\ returned' = (returned /\ asked')
  /\ UNCHANGED <<tag, suppressed, hid, layout>>

\* The session ends, and the next one in its place has been told nothing.
Ends ==
  /\ asked' = FALSE /\ mapped' = FALSE /\ returned' = FALSE
  /\ UNCHANGED <<tag, suppressed, hid, slot, writer, hand>>

Next ==
  \/ Command \/ Unsupported \/ TakenLate
  \/ Reassign \/ Tell \/ Withdraw \/ Expire \/ Elapse \/ Report
  \/ Route \/ Present \/ PresentBad \/ Announce \/ Ends

\* Time passes, and the HID stream forms a report every few milliseconds.
Fairness == WF_vars(Elapse) /\ WF_vars(Report)
Spec == Init /\ [][Next]_vars
FairSpec == Spec /\ Fairness

-----------------------------------------------------------------------------
\* The session plays on the port with a reader, and has been told so.
Plays == slot.ours /\ mapped /\ Supports(slot)

\* The picker of a client that plays is over a tag that is there only until the thread that
\* presented it has told the client, or because the server itself put a kept tag back under it.  And
\* as long as the client keeps its port and its controller, the picker is not closed before a
\* tag was presented, as virtual_controller.cpp:1282 wants.
PickerFollows ==
  /\ [](asked /\ presence = "there" /\ Plays => hand = "presented" \/ returned)
  /\ [][asked /\ ~asked' /\ Plays /\ Plays' /\ slot' = slot
           => hand = "presented" \/ presence = "there" \/ returned]_vars

\* The console waits for the NFC event state to change before it goes on
\* (virtual_controller.cpp:140-144): no event is dropped without a change ...
EventIsSeen == [][hid.pending /\ ~hid'.pending => hid'.state # hid.state]_vars

\* ... and every one that was scheduled comes, unless the console itself puts it off with
\* one command after the other (schedule_amiibo_hid_state_locked sets the time anew).
PutOff == hid.pending /\ hid'.pending /\ hid'.left > hid.left
EventComes == <>[]Supports(slot) /\ <>[][~PutOff]_vars => (hid.pending ~> ~hid.pending)
=============================================================================
