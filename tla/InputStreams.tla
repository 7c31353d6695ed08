--------------------------- MODULE InputStreams ---------------------------
(***************************************************************************)
(* Input over a network that loses and reorders datagrams: the controller  *)
(* frames and the Joy-Con mouse packets of one UDP client                  *)
(* (client/src/stream_runtime.cpp, mouse_input.cpp) and what the session   *)
(* makes of them (server/src/main.cpp, app_state.cpp).  A page sends the   *)
(* mouse packets too, over its connection, which loses nothing.            *)
(*                                                                         *)
(* The two streams share nothing but the session, so a behaviour follows   *)
(* one of them.  Movement is counted on one axis, the client's sensitivity *)
(* is one half, and one unit of time is the 4 ms frame of the client.  The *)
(* n of a packet is the order of sending; owed is history: the movement    *)
(* received and neither handed to the console nor discarded by a rule.     *)
(***************************************************************************)
EXTENDS Integers, FiniteSets, FiniteSetsExt, SequencesExt

CONSTANTS
  Window,      \* the 100 packets after which an old number is a new sequence
  Half,        \* half of the mouse's sequence numbers: 2^31
  MaxInFlight, \* bound: datagrams on the way
  MaxFrames,   \* bound: controller frames sent
  MaxPackets,  \* bound: mouse packets sent
  MaxMoved     \* bound: movement between two packets

VARIABLES
  source,      \* ClientSession.source: "udp" or "web"
  stream,      \* the stream this behaviour follows: "pad" or "mouse"
  net,         \* datagrams on the way
  sent,        \* how many were sent
  client,      \* the client's side of the stream
  pad,         \* the session's input stream
  mouse,       \* the session's mouse stream
  owed

vars == <<source, stream, net, sent, client, pad, mouse, owed>>

Rest == [active |-> FALSE, first |-> TRUE, lastSeq |-> 0, n |-> 0, quiet |-> FALSE,
         stamp |-> 0, pending |-> 0, frames |-> 0, left |-> FALSE, feature |-> FALSE]

\* allocate_client_session, and the start of run_client_stream, or a mouse that was used for so
\* long that its numbers are about to wrap.
Init ==
  /\ stream \in {"pad", "mouse"} /\ source \in {"udp", "web"}
  /\ stream = "pad" => source = "udp"
  /\ net = {} /\ sent = 0
  /\ \E start \in IF stream = "mouse" THEN {0, 2 * Half - 2} ELSE {0} :
       /\ client = [seq |-> start, runs |-> 1, input |-> "neutral", present |-> TRUE, alive |-> TRUE,
                    residual |-> 0, flags |-> <<FALSE, FALSE>>, clock |-> 1]
       /\ mouse = IF start = 0 THEN Rest ELSE [Rest EXCEPT !.first = FALSE, !.lastSeq = start - 1]
  /\ pad = [first |-> TRUE, expected |-> 0, n |-> 0, run |-> 1, seq |-> 0, input |-> "neutral",
            seen |-> "never", ignored |-> {}]
  /\ owed = 0

Send(packet) ==
  /\ sent < (IF stream = "pad" THEN MaxFrames ELSE MaxPackets) /\ Cardinality(net) < MaxInFlight
  /\ net' = net \union {packet} /\ sent' = sent + 1

Lose == \E packet \in net :
  /\ source = "udp"
  /\ net' = net \ {packet}
  /\ UNCHANGED <<source, stream, sent, client, pad, mouse, owed>>

-----------------------------------------------------------------------------
(* Controller frames.                                                      *)

\* The player: an absent pad is neutral (ClientFrame::reset).
Player == \E held \in {"neutral", "held"}, present \in BOOLEAN :
  /\ stream = "pad" /\ (present \/ held = "neutral")
  /\ client' = [client EXCEPT !.input = held, !.present = present]
  /\ UNCHANGED <<source, stream, net, sent, pad, mouse, owed>>

\* send_client_frame.
SendFrame ==
  /\ stream = "pad"
  /\ Send([seq |-> client.seq, run |-> client.runs, n |-> sent + 1,
           input |-> client.input, present |-> client.present])
  /\ client' = [client EXCEPT !.seq = @ + 1]
  /\ UNCHANGED <<source, stream, pad, mouse, owed>>

\* The client starts again behind the same address and port: its numbers start at 0.
Restart ==
  /\ stream = "pad" /\ client.runs = 1
  /\ client' = [client EXCEPT !.seq = 0, !.runs = 2]
  /\ UNCHANGED <<source, stream, net, sent, pad, mouse, owed>>

\* A bug the checks must find: any number behind is a new sequence.
SequenceBack(packet) == pad.expected > packet.seq

SequenceJump(packet) == pad.expected > packet.seq /\ pad.expected - packet.seq > Window

Stale(packet) == ~pad.first /\ packet.seq < pad.expected /\ ~SequenceJump(packet)

\* An absent pad is what its packet says until it has been absent long enough.
Played(packet) ==
  IF packet.present \/ pad.seen = "recent" THEN packet.input ELSE "neutral"

ReceiveFrame == \E packet \in net :
  /\ stream = "pad"
  /\ net' = net \ {packet}
  /\ pad' = IF Stale(packet)
            THEN [pad EXCEPT !.ignored = IF packet.n > pad.n THEN @ \union {packet.seq} ELSE @]
            ELSE [first |-> FALSE, expected |-> packet.seq + 1, n |-> packet.n, run |-> packet.run,
                  seq |-> packet.seq, input |-> Played(packet), ignored |-> {},
                  seen |-> IF packet.present THEN "recent" ELSE pad.seen]
  /\ UNCHANGED <<source, stream, sent, client, mouse, owed>>

\* WEB_PAD_ABSENT_RELEASE_US pass without the pad.
PadAbsent ==
  /\ stream = "pad" /\ pad.seen = "recent"
  /\ pad' = [pad EXCEPT !.seen = "old"]
  /\ UNCHANGED <<source, stream, net, sent, client, mouse, owed>>

-----------------------------------------------------------------------------
(* The mouse, at the client.                                               *)

\* llround of a number of halves.
Rounded(halves) == IF halves >= 0 THEN (halves + 1) \div 2 ELSE -((1 - halves) \div 2)

\* One frame of the loop: the movement accumulated since the last one is scaled, and what
\* the rounding leaves counts in the next (mouse_consume_joycon_input); a packet goes out on
\* a change, on movement, and as a keepalive (send_joycon_mouse_update).
Update(active, left, due, moved, frames) ==
  LET scaled == moved + client.residual
      dx     == IF active THEN Rounded(scaled) ELSE 0
  IN
  /\ active \/ ~left
  /\ <<active, left>> # client.flags \/ (active /\ (dx # 0 \/ due))
  /\ Send([seq |-> client.seq, n |-> sent + 1, active |-> active, left |-> left, dx |-> dx,
           ts |-> client.clock + frames])
  /\ client' = [client EXCEPT !.seq = (@ + 1) % (2 * Half), !.flags = <<active, left>>,
                              !.clock = @ + frames,
                              !.residual = IF active THEN scaled - 2 * dx ELSE @]

SendMouse == \E active, left, due \in BOOLEAN, moved \in {-1, MaxMoved}, frames \in 1..2 :
  /\ stream = "mouse" /\ client.alive
  /\ Update(active, left, due, moved, frames)
  /\ UNCHANGED <<source, stream, pad, mouse, owed>>

Die ==
  /\ stream = "mouse" /\ client.alive
  /\ client' = [client EXCEPT !.alive = FALSE]
  /\ UNCHANGED <<source, stream, net, sent, pad, mouse, owed>>

-----------------------------------------------------------------------------
(* The mouse, in the session.                                              *)

\* static_cast<int32_t>(seq - last) > 0
Newer(seq, last) == (seq - last) % (2 * Half) \in 1..(Half - 1)

NewMouse(packet) == mouse.first \/ Newer(packet.seq, mouse.lastSeq)

Clamp(value, low, high) == Max({low, Min({value, high})})

\* Movement is spread over the frames since the packet before.
FramesOf(packet) ==
  IF mouse.stamp # 0 /\ packet.ts > mouse.stamp THEN Clamp(packet.ts - mouse.stamp, 1, 4) ELSE 1

Taken(packet) == source = "udp" /\ NewMouse(packet)

\* update_joycon_mouse_stream, for a datagram and for a page's message.
ReceiveMouse == \E packet \in net :
  /\ stream = "mouse"
  /\ source = "web" => \A other \in net : packet.n <= other.n
  /\ net' = net \ {packet}
  /\ CASE ~Taken(packet) -> UNCHANGED <<mouse, owed>>
       [] Taken(packet) /\ ~packet.active ->
            /\ mouse' = [Rest EXCEPT !.first = FALSE, !.lastSeq = packet.seq, !.n = packet.n,
                                     !.feature = mouse.feature]
            /\ owed' = owed - mouse.pending
       [] Taken(packet) /\ packet.active ->
            /\ mouse' = [active |-> TRUE, first |-> FALSE, lastSeq |-> packet.seq, n |-> packet.n,
                         quiet |-> FALSE, left |-> packet.left, stamp |-> packet.ts,
                         pending |-> mouse.pending + packet.dx, feature |-> mouse.feature,
                         frames |-> IF packet.dx = 0 THEN mouse.frames
                                    ELSE Max({mouse.frames, FramesOf(packet)})]
            /\ owed' = owed + packet.dx
  /\ UNCHANGED <<source, stream, sent, client, pad>>

\* JOYCON_MOUSE_TIMEOUT_US pass without a packet.
Quiet ==
  /\ stream = "mouse" /\ mouse.active /\ ~mouse.quiet
  /\ mouse' = [mouse EXCEPT !.quiet = TRUE]
  /\ UNCHANGED <<source, stream, net, sent, client, pad, owed>>

\* The console switches the mouse feature on or off.
Feature ==
  /\ stream = "mouse"
  /\ mouse' = [mouse EXCEPT !.feature = ~@]
  /\ UNCHANGED <<source, stream, net, sent, client, pad, owed>>

\* C++ division rounds towards zero; a remainder below one frame's share moves by one.
Smoothed(pending, frames) ==
  LET size == Max({pending, -pending}) share == Max({size \div frames, 1})
  IN  IF pending = 0 THEN 0 ELSE IF pending > 0 THEN share ELSE -share

\* What becomes of a stream that timed out.
Silenced == [Rest EXCEPT !.first = mouse.first, !.lastSeq = mouse.lastSeq, !.n = mouse.n,
                         !.feature = mouse.feature]

Remaining(dx) == mouse.pending - dx

\* consume_joycon_mouse_stream, called by the writer.
Consume ==
  LET dx == Smoothed(mouse.pending, Max({mouse.frames, 1})) IN
  /\ stream = "mouse" /\ mouse.active
  /\ \/ /\ mouse.quiet
        /\ mouse' = Silenced /\ owed' = owed - mouse.pending
     \/ /\ ~mouse.quiet /\ ~mouse.feature
        /\ mouse' = [mouse EXCEPT !.pending = 0, !.frames = 0]
        /\ owed' = owed - mouse.pending
     \/ /\ ~mouse.quiet /\ mouse.feature
        /\ mouse' = [mouse EXCEPT !.pending = Remaining(dx), !.frames = Max({@ - 1, 0})]
        /\ owed' = owed - dx
  /\ UNCHANGED <<source, stream, net, sent, client, pad>>

Next == \/ Lose \/ Player \/ SendFrame \/ Restart \/ ReceiveFrame \/ PadAbsent
        \/ SendMouse \/ Die \/ ReceiveMouse \/ Quiet \/ Feature \/ Consume

Spec == Init /\ [][Next]_vars

\* The writer consumes the stream of a port in use at every report, and time passes.
Fairness == WF_vars(Consume) /\ WF_vars(Quiet) /\ WF_vars(ReceiveMouse)

FairSpec == Spec /\ Fairness

-----------------------------------------------------------------------------
(* Properties.                                                             *)

\* An older frame takes the place of a newer one only when its number is more than the
\* window behind, or when the client started again in between (main.cpp, sequence_jump).
OlderNeedsDistance ==
  [][pad'.n < pad.n => pad'.run # pad.run \/ pad.seq - pad'.seq >= Window]_pad

\* A client that started again is not ignored for longer than the window: so many frames
\* sent after the one in force, and no more, are taken for old ones.
SoonHeard == Cardinality(pad.ignored) <= Window

\* Smoothing loses and invents nothing: what was received was handed to the console, is
\* waiting, or was discarded by a rule; and at the client, what is rounded off stays.
MovementKept ==
  /\ mouse.pending = owed
  /\ client.residual \in -1..1

\* Movement that waits has frames left to be played in, so the last of them plays it all.
MovementDrains == mouse.pending # 0 => mouse.frames > 0

\* A late packet of the mouse does not undo a newer one.
MouseForward == [][mouse'.n >= mouse.n]_mouse

\* The numbers of the mouse, compared on their circle, tell the order of sending: a packet is
\* new to the session exactly if it was sent after the last one taken.
NumbersTell == stream = "mouse" => \A packet \in net : NewMouse(packet) <=> packet.n > mouse.n

\* The buttons of a client that died are released.
DeadMouseReleases == [](~client.alive => <>~mouse.left)

\* The mouse packets of a page reach its session (web_server.cpp: "Native Joy-Con 2
\* optical mouse over WS"); the session takes those of a UDP client only.  It does not
\* hold, and no run checks it.
PageMouseTaken == (source = "web" /\ sent > 0) ~> mouse.n > 0
=============================================================================
