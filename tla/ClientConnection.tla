------------------------- MODULE ClientConnection -------------------------
(***************************************************************************)
(* The connection of the desktop client (client/src/stream_runtime.cpp,    *)
(* connection_recovery.hpp): the sender thread that probes the server,     *)
(* streams and reconnects, and the window's thread that starts and stops   *)
(* it.  The flags between them are atomics, so every store another thread  *)
(* could act on is a step of its own.                                      *)
(*                                                                         *)
(* server is what the server would answer at the moment: "ok", a decision, *)
(* or nothing ("silent").  said is history: the decisions this attempt was *)
(* told of.                                                                *)
(***************************************************************************)
EXTENDS Naturals

CONSTANT MaxTurns   \* bound: changes of the server's mind

VARIABLES
  server,      \* what the server answers
  turns,       \* how often it changed
  window,      \* the window's thread: "idle", "join" (to start) or "wait" (to stop)
  running,     \* g_senderRunning
  connected,   \* g_connected
  connecting,  \* g_connecting
  shown,       \* g_connectionState
  sender,      \* the sender thread: where it is
  flags,       \* the decisions stored by replies
  reason,      \* why the stream or the attempt ended
  socket,      \* g_sendSock is open
  said

ui == <<window, server, turns>>
vars == <<ui, running, connected, connecting, shown, sender, flags, reason, socket, said>>

Decisions == {"full", "asleep", "ended", "profile"}

\* g_serverRequestedDisconnect, g_serverProbeFull, g_serverFullDisconnect,
\* g_serverProfileUnsupportedDisconnect and g_serverDisconnectReason.
NoFlags == [requested |-> FALSE, probeFull |-> FALSE, full |-> FALSE, profile |-> FALSE,
            reason |-> "none"]

Init ==
  /\ server \in {"ok", "silent"} /\ turns = 0 /\ window = "idle"
  /\ running = FALSE /\ connected = FALSE /\ connecting = FALSE /\ shown = "Disconnected"
  /\ sender = "none" /\ flags = NoFlags /\ reason = "none" /\ socket = FALSE /\ said = {}

\* The server, the network or another client changes what is answered.
Turn ==
  /\ turns < MaxTurns /\ turns' = turns + 1
  /\ server' \in ({"ok", "silent"} \union Decisions) \ {server}
  /\ UNCHANGED <<window, running, connected, connecting, shown, sender, flags, reason, socket, said>>

-----------------------------------------------------------------------------
(* The window's thread.                                                    *)

\* start_connection, up to the join of a sender that ended by itself.
Start ==
  /\ window = "idle" /\ ~connected /\ ~connecting
  /\ flags' = NoFlags /\ window' = "join"
  /\ running' = FALSE
  /\ UNCHANGED <<server, turns, connected, connecting, shown, sender, reason, socket, said>>

\* A bug the checks must find: the old sender is not waited for.
JoinableAtOnce == TRUE

Joinable == sender = "none"

Joined ==
  /\ window = "join" /\ Joinable
  /\ running' = TRUE /\ connecting' = TRUE /\ shown' = "Connecting"
  /\ sender' = "top" /\ window' = "idle"
  /\ UNCHANGED <<server, turns, connected, flags, reason, socket, said>>

\* stop_connection.
Stop ==
  /\ window = "idle"
  /\ connected' = FALSE /\ connecting' = FALSE /\ shown' = "Disconnected"
  /\ running' = IF sender = "none" THEN running ELSE FALSE
  /\ window' = "wait"
  /\ UNCHANGED <<server, turns, sender, flags, reason, socket, said>>

Stopped ==
  /\ window = "wait" /\ Joinable
  /\ window' = "idle"
  /\ UNCHANGED <<server, turns, running, connected, connecting, shown, sender, flags, reason,
                 socket, said>>

-----------------------------------------------------------------------------
(* The sender thread.                                                      *)

\* apply_server_info_reply; the reply does not say that a profile is unsupported.
Reply(old, answer) ==
  CASE answer = "asleep" -> [old EXCEPT !.reason = "asleep", !.requested = TRUE]
    [] answer = "ended"  -> [old EXCEPT !.reason = "ended", !.requested = TRUE]
    [] answer = "full"   -> [old EXCEPT !.probeFull = TRUE]
    [] OTHER             -> old

\* handle_client_assignment_packet.
Assignment(old, answer) ==
  CASE answer = "full"    -> [old EXCEPT !.full = TRUE, !.requested = TRUE]
    [] answer = "profile" -> [old EXCEPT !.profile = TRUE, !.requested = TRUE]
    [] answer = "ended"   -> [old EXCEPT !.reason = "ended", !.requested = TRUE]
    [] OTHER              -> old

\* An attempt starts with nothing of the one before.
SenderTop ==
  /\ sender = "top"
  /\ IF running THEN flags' = NoFlags /\ sender' = "probe" ELSE sender' = "exit" /\ UNCHANGED flags
  /\ reason' = "none" /\ said' = {}
  /\ UNCHANGED <<ui, running, connected, connecting, shown, socket>>

\* probe_server_sync, and the decision of sender_thread_main.
Ruled(new) == IF new.reason \in {"asleep", "ended"} THEN new.reason
              ELSE IF new.probeFull THEN "full" ELSE "none"

SenderProbe ==
  LET new == Reply(flags, server) IN
  /\ sender = "probe"
  /\ \/ /\ reason' = "unreachable" /\ sender' = "judge" /\ UNCHANGED <<flags, said>>
     \/ /\ server # "silent" /\ flags' = new /\ said' = said \union ({server} \ {"ok"})
        /\ reason' = Ruled(new)
        /\ sender' = CASE Ruled(new) # "none" -> "judge"
                       [] ~running -> "exit"
                       [] OTHER -> "connect"
  /\ UNCHANGED <<ui, running, connected, connecting, shown, socket>>

\* The input device may fail to start.
SenderConnect ==
  /\ sender = "connect"
  /\ \/ reason' = "input" /\ sender' = "judge" /\ UNCHANGED <<connected, connecting, shown>>
     \/ connected' = TRUE /\ connecting' = FALSE /\ shown' = "Connected"
        /\ sender' = "shake" /\ UNCHANGED reason
  /\ UNCHANGED <<ui, running, flags, socket, said>>

\* run_client_stream up to the handshake: one probe on the streaming socket, 150 ms.
SenderShake ==
  LET cleared == [NoFlags EXCEPT !.probeFull = flags.probeFull] IN
  /\ sender = "shake"
  /\ \/ reason' = "unreachable" /\ sender' = "ended" /\ flags' = cleared /\ UNCHANGED <<socket, said>>
     \/ /\ server # "silent" /\ flags' = Reply(cleared, server)
        /\ said' = said \union ({server} \ {"ok"})
        /\ socket' = TRUE /\ sender' = "stream" /\ UNCHANGED reason
  /\ UNCHANGED <<ui, running, connected, connecting, shown>>

\* Why the stream ends when the server asked for it.
StopReason(old) ==
  IF old.profile THEN "profile" ELSE IF old.full THEN "full"
  ELSE IF old.reason = "asleep" THEN "asleep" ELSE "ended"

Leaves(new) == ~running \/ new.requested

\* One turn of the input loop: a frame goes out, what arrived is read, and only a decision
\* of the server or the window's thread ends the loop, never the server's silence.
SenderFrame ==
  /\ sender = "stream"
  /\ \E new \in {flags, Reply(flags, server), Assignment(flags, server)} :
       /\ server = "silent" => new = flags
       /\ flags' = new
       /\ said' = IF new = flags THEN said ELSE said \union {server}
       /\ sender' = IF Leaves(new) THEN "leave" ELSE "stream"
       /\ reason' = IF running /\ new.requested THEN StopReason(new) ELSE reason
  /\ UNCHANGED <<ui, running, connected, connecting, shown, socket>>

\* The disconnect packets, then the socket.
SenderLeave ==
  /\ sender = "leave"
  /\ socket' = FALSE /\ sender' = "ended"
  /\ UNCHANGED <<ui, running, connected, connecting, shown, flags, reason, said>>

\* Back in sender_thread_main: two stores, with the window's thread in between.
SenderEnded ==
  /\ sender = "ended"
  /\ connected' = FALSE /\ sender' = "after"
  /\ UNCHANGED <<ui, running, connecting, shown, flags, reason, socket, said>>

SenderAfter ==
  /\ sender = "after"
  /\ connecting' = TRUE
  /\ IF running THEN /\ reason' = IF reason = "none" THEN "unreachable" ELSE reason
                     /\ sender' = "judge"
     ELSE sender' = "exit" /\ UNCHANGED reason
  /\ UNCHANGED <<ui, running, connected, shown, flags, socket, said>>

\* should_reconnect.
ShouldReconnect(why) == why \in {"timeout", "unreachable", "socket"}

SenderJudge ==
  /\ sender = "judge"
  /\ IF running /\ ShouldReconnect(reason)
     THEN shown' = "Reconnecting" /\ connecting' = TRUE /\ sender' = "backoff"
     ELSE sender' = "exit" /\ UNCHANGED <<shown, connecting>>
  /\ UNCHANGED <<ui, running, connected, flags, reason, socket, said>>

\* sleep_while_running for the delay of reconnect_backoff.
SenderBackoff ==
  /\ sender = "backoff" /\ sender' = "top"
  /\ UNCHANGED <<ui, running, connected, connecting, shown, flags, reason, socket, said>>

SenderExit ==
  /\ sender = "exit"
  /\ connected' = FALSE /\ connecting' = FALSE /\ shown' = "Disconnected"
  /\ sender' = "last"
  /\ UNCHANGED <<ui, running, flags, reason, socket, said>>

SenderLast ==
  /\ sender = "last" /\ running' = FALSE /\ sender' = "none"
  /\ UNCHANGED <<ui, connected, connecting, shown, flags, reason, socket, said>>

Sender == \/ SenderTop \/ SenderProbe \/ SenderConnect \/ SenderShake \/ SenderFrame
          \/ SenderLeave \/ SenderEnded \/ SenderAfter \/ SenderJudge \/ SenderBackoff
          \/ SenderExit \/ SenderLast

Next == Turn \/ Start \/ Joined \/ Stop \/ Stopped \/ Sender

Spec == Init /\ [][Next]_vars

\* The sender is a thread without locks of its own to wait for; a server that answers gets
\* a datagram through in the end.
Fairness == /\ WF_vars(Sender) /\ WF_vars(Joined) /\ WF_vars(Stopped)
            /\ SF_vars(SenderProbe /\ sender' = "connect")
            /\ SF_vars(SenderConnect /\ sender' = "shake")
            /\ SF_vars(SenderShake /\ sender' = "stream")

FairSpec == Spec /\ Fairness

-----------------------------------------------------------------------------
(* Properties.                                                             *)

\* "Explicit server lifecycle decisions are terminal; transport losses are not"
\* (connection_recovery.hpp): who was told of a decision that ended the attempt does not
\* try again by itself, and the reason given is one the server gave in this attempt.
DecisionsAreTerminal ==
  /\ sender = "backoff" => reason = "unreachable"
  /\ reason \in Decisions => reason \in said

\* A decision that reached the stream ends it for good: it never turns into a loss.
ToldIsNotLost == [][sender = "leave" /\ sender' = "ended" /\ running =>
                      reason \in said]_vars

\* When stop_connection returns nothing of the connection is left, whatever the sender was
\* about to store when it was told to stop.
StopIsFinal ==
  [][window = "wait" /\ window' = "idle" =>
       ~socket /\ ~connected /\ ~connecting /\ ~running /\ shown = "Disconnected"]_vars

\* The window's thread never waits for ever for the sender.
WindowReturns == [](window # "idle" => <>(window = "idle"))

\* While the server answers and nobody stops it, a loss ends in a stream again.
LossRecovers ==
  []((running /\ reason = "unreachable" /\ [](server = "ok" /\ window = "idle"))
       => <>(sender = "stream" \/ reason = "input"))
=============================================================================
