----------------------------- MODULE MCNetwork ------------------------------
(***************************************************************************)
(* Bounds for what goes between a client and the server: pads and mice on  *)
(* their way, the connection, macros, and what comes back.  The modules    *)
(* share no variable, so each is checked by itself: a behaviour chooses    *)
(* one part and the others rest.                                           *)
(***************************************************************************)
EXTENDS Integers, FiniteSets, Sequences

CONSTANTS
  sequenceWindow, halfCircle,                           \* InputStreams: the circle has eight numbers
  streamFlight, mostFrames, mostPackets, mostMoved,
  mostTurns,                                            \* ClientConnection
  texts, mostSteps, graceTime,                          \* MacroUpload
  mostRuns, mostUploads, uploadFlight, mostAgain,
  requestCircle,                                        \* Feedback
  mostAge, mostEvents, feedbackFlight, mostSessions

VARIABLES
  part, \* which of them runs
  source, stream, inputNet, sent, controls, input, mouse, owed,
  server, turns, window, running, connected, connecting, shown, sender, flags, reason,
  socket, said,
  uploader, uploadNet, player, upload, macro, started, again,
  flow, session, origin, net, dropped, receiver, slots, motor, playing

streamsVars    == <<source, stream, inputNet, sent, controls, input, mouse, owed>>
connectionVars == <<server, turns, window, running, connected, connecting, shown, sender,
                    flags, reason, socket, said>>
macroVars      == <<uploader, uploadNet, player, upload, macro, started, again>>
feedbackVars   == <<flow, session, origin, net, dropped, receiver, slots, motor, playing>>
vars           == <<part, streamsVars, connectionVars, macroVars, feedbackVars>>

\* Datagrams on the way and numbers are few against the circles of 2^31 and 2^16 they are
\* compared on.
NetworkAssumption ==
  /\ sequenceWindow \in Nat /\ mostMoved \in Int
  /\ halfCircle \in Nat /\ mostPackets \in Nat /\ mostPackets < halfCircle
  /\ requestCircle \in Nat /\ mostEvents \in Nat
  /\ mostEvents + 1 < requestCircle \div 2
  /\ texts \subseteq Seq([input : STRING, n : Nat]) /\ mostSteps \in Nat
ASSUME NetworkAssumption

\* A command, one repeated three times, a loop between two others, a loop too long to be
\* played; they come in one or two datagrams.
C(key, n) == [input |-> key, n |-> n]
Macros == {<<C("A", 1)>>, <<C("A", 1), C("LOOP", 3)>>,
           <<C("WAIT", 1), C("LOOP", 0), C("B", 1)>>, <<C("B", 1), C("LOOP", 9)>>}

Streams == INSTANCE InputStreams WITH
  Window <- sequenceWindow, Half <- halfCircle, MaxInFlight <- streamFlight,
  MaxFrames <- mostFrames, MaxPackets <- mostPackets, MaxMoved <- mostMoved,
  client <- controls, pad <- input, net <- inputNet

Connection == INSTANCE ClientConnection WITH
  MaxTurns <- mostTurns

Macro == INSTANCE MacroUpload WITH
  Texts <- texts, MaxSteps <- mostSteps, Grace <- graceTime, MaxRuns <- mostRuns,
  MaxUploads <- mostUploads, MaxInFlight <- uploadFlight, MaxAgain <- mostAgain,
  session <- player, net <- uploadNet

Back == INSTANCE Feedback WITH
  Wrap <- requestCircle, MaxAge <- mostAge, MaxEvents <- mostEvents,
  MaxInFlight <- feedbackFlight, MaxSessions <- mostSessions,
  server <- origin, client <- receiver, lost <- dropped, pads <- playing

Parts == {"streams", "connection", "macro", "feedback"}

\* A part that rests does so in one of the states it starts in.
Init ==
  /\ part \in Parts
  /\ Streams!Init /\ (part # "streams" => stream = "pad" /\ source = "udp")
  /\ Connection!Init /\ (part # "connection" => server = "ok")
  /\ Macro!Init
  /\ Back!Init /\ (part # "feedback" => flow = "status")

Next ==
  \/ part = "streams" /\ Streams!Next
     /\ UNCHANGED <<part, connectionVars, macroVars, feedbackVars>>
  \/ part = "connection" /\ Connection!Next
     /\ UNCHANGED <<part, streamsVars, macroVars, feedbackVars>>
  \/ part = "macro" /\ Macro!Next
     /\ UNCHANGED <<part, streamsVars, connectionVars, feedbackVars>>
  \/ part = "feedback" /\ Back!Next
     /\ UNCHANGED <<part, streamsVars, connectionVars, macroVars>>

Spec == Init /\ [][Next]_vars

-----------------------------------------------------------------------------
(* What each part promises: its own properties, which say more of the code. *)

\* An older packet overrules a newer one only where numbers cannot tell them apart, a client
\* that starts again is soon heard, and the mouse's movement is neither lost nor invented.
StreamsFollow ==
  /\ [](Streams!SoonHeard /\ Streams!MovementKept /\ Streams!MovementDrains
        /\ Streams!NumbersTell)
  /\ Streams!OlderNeedsDistance /\ Streams!MouseForward

\* What the server decided ends the attempt for good, and after a stop nothing is left.
ConnectionDecides ==
  []Connection!DecisionsAreTerminal /\ Connection!ToldIsNotLost /\ Connection!StopIsFinal

\* A number recorded as sent was sent, a request outlives two losses, a motor is owned by a
\* slot that stops it, and no request is shown after a newer one.
FeedbackArrives == []Back!FeedbackInv /\ Back!ScanForward

\* Macros are whole, play once per upload and play what was written.
MacrosPlay == part = "macro" => Macro!MacroInv

\* The buttons of a client that died are released, a transport that is lost comes back while
\* the server answers, the window never hangs, the client ends up with the last roster, and
\* a macro ends.
NetworkSettles ==
  /\ part = "streams" /\ Streams!Fairness => Streams!DeadMouseReleases
  /\ part = "connection" /\ Connection!Fairness
       => Connection!LossRecovers /\ Connection!WindowReturns
  /\ part = "feedback" /\ Back!Fairness => Back!RosterTold
  /\ part = "macro" /\ Macro!Fairness => Macro!MacroEnds
=============================================================================
