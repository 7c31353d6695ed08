------------------------------ MODULE Feedback ------------------------------
(***************************************************************************)
(* What the server tells a UDP client beside its input (udp_feedback.cpp,  *)
(* the publish functions of app_state.cpp) and what the client makes of it *)
(* (rumble_client.cpp): controller status, port assignment, rumble, the    *)
(* roster of the console's ports and the request to scan an Amiibo.        *)
(*                                                                         *)
(* The flows share nothing but the session, so a behaviour follows one.    *)
(* Datagrams may be lost, and overtake each other.  The n of a request and *)
(* told and lost are history: the order of the events, the value last sent *)
(* in this session and how many copies of the newest request were lost.    *)
(***************************************************************************)
EXTENDS Integers, FiniteSets, Functions

CONSTANTS
  Wrap,        \* size of the request's sequence numbers: 2^16
  MaxAge,      \* no datagram outlives so many events
  MaxEvents,   \* bound: events of a behaviour
  MaxInFlight, \* bound: datagrams on the way
  MaxSessions  \* bound: sessions the server gives the client

VARIABLES
  flow,     \* the flow this behaviour follows
  session,  \* how often the server has begun a session for the client
  server,   \* the session's side of the flow
  net,      \* datagrams on the way
  lost,
  client,   \* the client's side
  slots,    \* RumbleManager::states
  motor,    \* the controllers whose motor runs
  pads      \* controller_for_slot

vars == <<flow, session, server, net, lost, client, slots, motor, pads>>

Flows == {"status", "assignment", "roster", "rumble", "request"}
Values == 0..1
Slots == 0..1
Controllers == 0..1
None == -1

Quiet == [last |-> None, until |-> FALSE]

\* allocate_client_session and start_connection, or a session whose requests are about to
\* wrap.
Init ==
  /\ flow \in Flows /\ session = 1
  /\ \E start \in IF flow = "request" THEN {0, Wrap - 2} ELSE {0} :
       /\ server = [seq |-> start, last |-> 0, value |-> 0, told |-> 0, n |-> 0, copies |-> 0]
       /\ client = [seq |-> start, n |-> 0, view |-> 0]
  /\ net = {} /\ lost = 0
  /\ slots = [s \in Slots |-> Quiet] /\ motor = {} /\ pads = [s \in Slots |-> s]

rumbling == <<slots, motor, pads>>

-----------------------------------------------------------------------------
(* The server.                                                             *)

\* A published value has a new number.
Published(v) == [server EXCEPT !.value = v, !.n = @ + 1, !.seq = @ + 1]

Event(v) ==
  /\ server.n < MaxEvents /\ server' = Published(v)
  /\ UNCHANGED <<flow, session, net, lost, client, rumbling>>

\* publish_controller_status_event, publish_client_assignment_event and refresh_roster_seq:
\* only a change is an event.
PublishStatus == flow = "status" /\ \E v \in Values : v # server.value /\ Event(v)

PublishAssignment == flow = "assignment" /\ \E v \in Values : v # server.value /\ Event(v)

RefreshRoster == flow = "roster" /\ \E v \in Values : v # server.value /\ Event(v)

\* publish_decoded_rumble_event: every event, except silence after silence.
PublishRumble == flow = "rumble" /\ \E v \in Values : (v # 0 \/ server.value # 0) /\ Event(v)

\* Zero marks a server without numbers and is skipped.
Following(seq) == IF (seq + 1) % Wrap = 0 THEN 1 ELSE (seq + 1) % Wrap

Copies == 3

\* publish_amiibo_request; value is amiibo_requested.
Request ==
  /\ flow = "request" /\ server.n < MaxEvents
  /\ \E v \in {0, 1} :
       /\ server.seq = 0 \/ v # server.value
       /\ server' = [server EXCEPT !.value = v, !.n = @ + 1, !.seq = Following(@), !.copies = Copies]
  /\ net' = {p \in net : p.n > server.n - MaxAge} /\ lost' = 0
  /\ UNCHANGED <<flow, session, client, rumbling>>

\* reset_client_session_locked and the next allocate_client_session: the client was silent
\* for the session timeout and goes on with its stream.
Again ==
  /\ flow # "roster" /\ session < MaxSessions /\ session' = session + 1
  /\ server' = [server EXCEPT
       !.seq = IF flow = "request" THEN 0 ELSE @ + 2,
       !.last = IF flow \in {"status", "rumble"} THEN server.seq + 2 ELSE 0,
       !.value = 0, !.told = 0, !.copies = 0]
  /\ net' = {} /\ lost' = 0
  /\ UNCHANGED <<flow, client, rumbling>>

\* A bug the checks must find: the roster is sent when it changes, and only then.
DueChanged == server.seq # server.last

\* flush_feedback_to_udp: a new number is due; the roster is every two seconds, and an
\* assignment when the server's load changes.
Due == server.seq # server.last \/ flow = "roster" \/ (flow = "assignment" /\ server.n > 0)

Packet(copy) == [n |-> server.n, seq |-> server.seq, value |-> server.value, copy |-> copy,
                 slot |-> 0]

Flush ==
  /\ flow # "request" /\ Due /\ Cardinality(net) < MaxInFlight
  /\ server' = [server EXCEPT !.last = server.seq, !.told = server.value]
  /\ \E s \in Slots :
       /\ s # 0 => flow = "rumble"
       /\ net' = net \union {[Packet(0) EXCEPT !.slot = s, !.n = IF flow \in {"roster", "rumble"} THEN 0 ELSE @,
                                               !.seq = 0]}
  /\ UNCHANGED <<flow, session, lost, client, rumbling>>

FlushRequest ==
  /\ flow = "request" /\ server.copies > 0 /\ Cardinality(net) < MaxInFlight
  /\ server' = [server EXCEPT !.copies = @ - 1]
  /\ net' = net \union {Packet(server.copies)}
  /\ UNCHANGED <<flow, session, lost, client, rumbling>>

Lose == \E p \in net :
  /\ net' = net \ {p} /\ lost' = IF flow = "request" /\ p.n = server.n THEN lost + 1 ELSE lost
  /\ UNCHANGED <<flow, session, server, client, rumbling>>

-----------------------------------------------------------------------------
(* The client: pump_udp_replies.                                           *)

\* A bug the checks must find: any other number is a newer one.
NewerIfOther(seq) == seq # client.seq

Newer(seq) == client.seq = 0 \/ (seq - client.seq) % Wrap \in 1..((Wrap \div 2) - 1)

ReceiveRequest ==
  /\ flow = "request"
  /\ \E p \in net :
       /\ net' = net \ {p}
       /\ client' = IF Newer(p.seq) THEN [seq |-> p.seq, n |-> p.n, view |-> p.value] ELSE client
  /\ UNCHANGED <<flow, session, server, lost, rumbling>>

\* The ten seconds of the scan are over, or a figure was chosen or written.
ScanOver ==
  /\ flow = "request" /\ client.view = 1 /\ client' = [client EXCEPT !.view = 0]
  /\ UNCHANGED <<flow, session, server, net, lost, rumbling>>

Shown ==
  /\ \E p \in net : net' = net \ {p} /\ client' = [client EXCEPT !.n = p.n, !.view = p.value]
  /\ UNCHANGED <<flow, session, server, lost, rumbling>>

ReceiveStatus == flow = "status" /\ Shown

\* handle_client_assignment_packet.
ReceiveAssignment == flow = "assignment" /\ Shown

\* handle_roster_packet.
ReceiveRoster == flow = "roster" /\ Shown

\* RumbleManager::set_output: the controller that ran for the slot stops when the slot has
\* another one now.
MotorAfter(s, on) ==
  LET left == IF slots[s].last \notin {None, pads[s]} THEN motor \ {slots[s].last} ELSE motor IN
  IF pads[s] = None THEN left ELSE IF on THEN left \union {pads[s]} ELSE left \ {pads[s]}

Output(s, on) ==
  /\ motor' = MotorAfter(s, on)
  /\ slots' = [slots EXCEPT ![s] = [last |-> pads[s], until |-> on]]

\* RumbleManager::apply_packet: within 100 ms the same values only prolong.
ReceiveRumble ==
  /\ flow = "rumble"
  /\ \E p \in net :
       /\ net' = net \ {p}
       /\ client' = [client EXCEPT !.view = p.value]
       /\ \/ Output(p.slot, p.value # 0)
          \/ /\ p.value # 0 /\ client.view = p.value
             /\ slots' = [slots EXCEPT ![p.slot].until = TRUE] /\ UNCHANGED motor
  /\ UNCHANGED <<flow, session, server, lost, pads>>

\* RumbleManager::update_timeouts.
Timeout ==
  /\ flow = "rumble"
  /\ \E s \in Slots : slots[s].until /\ Output(s, FALSE)
  /\ UNCHANGED <<flow, session, server, net, lost, client, pads>>

\* SDL ends an effect by itself.
EffectOver ==
  /\ \E c \in motor : motor' = motor \ {c}
  /\ UNCHANGED <<flow, session, server, net, lost, client, slots, pads>>

\* The next frame may put other controllers on the slots.
Remap ==
  /\ flow = "rumble"
  /\ pads' \in {f \in [Slots -> Controllers \union {None}] : f[0] # f[1] \/ f[0] = None}
  /\ UNCHANGED <<flow, session, server, net, lost, client, slots, motor>>

Next == \/ PublishStatus \/ PublishAssignment \/ RefreshRoster \/ PublishRumble \/ Request \/ Again \/ Flush \/ FlushRequest \/ Lose \/ ReceiveRequest
        \/ ReceiveStatus \/ ReceiveAssignment \/ ReceiveRoster \/ ScanOver \/ ReceiveRumble \/ Timeout \/ EffectOver \/ Remap

Spec == Init /\ [][Next]_vars

\* The writer's loop and the client's are fair; the network gets the newest value through
\* in the end if it is sent again and again.
Fairness == /\ WF_vars(Flush) /\ WF_vars(FlushRequest) /\ WF_vars(Timeout)
            /\ \A v \in Values : SF_vars(ReceiveRoster /\ client'.view = v)
FairSpec == Spec /\ Fairness

-----------------------------------------------------------------------------
(* Properties.                                                             *)

\* A number recorded as sent is recorded for the value that was sent: a value the client was
\* never told in this session is still due (udp_last_*_seq).
RecordedIsSent ==
  flow # "request" /\ server.seq = server.last => server.told = server.value

\* Three copies of a request are enough for two losses: when none is left on the way, the
\* newest request was shown, while the server keeps the session it began with.
SettledIsShown(first) ==
  flow = "request" /\ first /\ server.n > 0 /\ server.seq # 0 /\ server.copies = 0
    /\ net = {} /\ lost <= 2 => client.n = server.n

\* A motor that runs belongs to a slot that will stop it, whatever controllers the slots had
\* in the meantime.
MotorIsOwned ==
  \A c \in motor : \E s \in Slots : slots[s].last = c /\ slots[s].until

FeedbackInv == RecordedIsSent /\ SettledIsShown(session = 1) /\ MotorIsOwned

\* "Otherwise only a newer event may change the UI" (rumble_client.cpp:145): what is shown
\* never goes back to an earlier request.
ScanForward == [][session = 1 => client'.n >= client.n \/ flow # "request"]_vars

\* The roster needs no answer: whatever is lost, the client ends up with the last one.
RosterTold ==
  \A v \in Values : flow = "roster" => (<>[](server.value = v) => <>[](client.view = v))

\* "Send the same event a few times because this UI control message travels over UDP"
\* (app_state.cpp:726): a client that keeps streaming is shown the newest request.
RequestShown == SettledIsShown(TRUE)
=============================================================================
