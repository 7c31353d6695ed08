---------------------------- MODULE WebSessions ----------------------------
(***************************************************************************)
(* The session table of Sessions, shared with the WebSocket clients of     *)
(* web_server.cpp.                                                         *)
(*                                                                         *)
(* libwebsockets runs every callback in one thread, one after the other.   *)
(* A connection remembers the slot it was given (SessionData::ws_slot) and *)
(* comes back to it without asking whose it is by now: the source of a     *)
(* session tells a browser from a UDP client, not one browser from         *)
(* another.  A forced release is noticed by the 10 ms timer of the         *)
(* connection, which compares switch2_sleep_seq with the value stamped     *)
(* when the slot was given.                                                *)
(***************************************************************************)
EXTENDS Sessions

VARIABLES
  ws,    \* per connection: SessionData
  web    \* the libwebsockets thread, between two callbacks or inside one

webVars == <<vars, ws, web>>

WebPcs   == {"idle", "allocate", "stamp", "apply", "macro"}
WebKinds == {"input", "macro"}

\* "had" is had_slot; "seq" is assigned_sleep_seq, which nothing reads before had_slot is
\* set.  "full" is close_after_write: the server closes once the refusal is written.
Connection == [open : BOOLEAN, slot : Slots \cup {NoSlot}, had : BOOLEAN,
               seq : Nat, timer : BOOLEAN, full : BOOLEAN]

Disconnected == [open |-> FALSE, slot |-> NoSlot, had |-> FALSE, seq |-> 0,
                 timer |-> FALSE, full |-> FALSE]

WebIdle == [pc |-> "idle", conn |-> NoOne, kind |-> "input"]

WebInit == /\ Init
           /\ ws = [b \in Browsers |-> Disconnected]
           /\ web = WebIdle

\* The session at slot i is a browser's.
LiveWeb(i) == i # NoSlot /\ session[i].active /\ session[i].source = "WebSocket"

\* Seeded fault: the session is ended whatever its source.
ResetAnySource(i) == CloseSlot(i)

\* reset_client_session_if_source(i, WebSocket)
ResetIfWeb(i) ==
  IF session[i].source = "WebSocket" THEN CloseSlot(i) ELSE UNCHANGED <<session, macro>>

\* LWS_CALLBACK_ESTABLISHED
Establish(b) ==
  /\ web.pc = "idle" /\ ~ws[b].open
  /\ ws' = [ws EXCEPT ![b] = [Disconnected EXCEPT !.open = TRUE, !.timer = TRUE]]
  /\ UNCHANGED <<vars, web>>

Goto(pc, b, kind) == web' = [pc |-> pc, conn |-> b, kind |-> kind]

\* LWS_CALLBACK_RECEIVE of a controller report: a slot that is no longer a browser's is
\* forgotten, then the connection is admitted anew or refused.
ReceiveInput(b) ==
  /\ web.pc = "idle" /\ ws[b].open
  /\ \/ /\ LiveWeb(ws[b].slot)
        /\ Goto("apply", b, "input")
        /\ UNCHANGED ws
     \/ /\ ~LiveWeb(ws[b].slot)
        /\ IF ActiveClientCount < Capacity
           THEN /\ ws' = [ws EXCEPT ![b].slot = NoSlot]
                /\ Goto("allocate", b, "input")
           ELSE /\ ws' = [ws EXCEPT ![b].slot = NoSlot, ![b].full = TRUE]
                /\ UNCHANGED web
  /\ UNCHANGED vars

\* A Joy-Con pair in Switch 2 mode: the session ends and the connection is closed.
ReceivePair(b) ==
  /\ Switch2 /\ web.pc = "idle" /\ ws[b].open
  /\ IF LiveWeb(ws[b].slot) THEN ResetIfWeb(ws[b].slot) ELSE UNCHANGED <<session, macro>>
  /\ ws' = [ws EXCEPT ![b].slot = NoSlot, ![b].full = TRUE]
  /\ UNCHANGED <<dormant, up, udp, sweep, sleepSeq, writer, web>>

\* "MACRO_RUN:" or a macro chunk: a connection that has a slot number uses it.
ReceiveWebMacro(b) ==
  /\ web.pc = "idle" /\ ws[b].open
  /\ IF ws[b].slot # NoSlot
     THEN Goto("macro", b, "macro")
     ELSE ActiveClientCount < Capacity /\ Goto("allocate", b, "macro")
  /\ UNCHANGED <<vars, ws>>

WebAllocate ==
  /\ web.pc = "allocate"
  /\ \/ \E i \in Slots :
          /\ FirstAvailable(i)
          /\ session' = [session EXCEPT
               ![i] = NewSession("WebSocket", NoOne, web.kind = "macro")]
          /\ ws' = [ws EXCEPT ![web.conn].slot = i]
          /\ web' = [web EXCEPT !.pc = "stamp"]
     \/ /\ \A i \in Slots : ~Available(i)
        /\ web' = WebIdle
        /\ UNCHANGED <<session, ws>>
  /\ UNCHANGED <<macro, dormant, up, udp, sweep, sleepSeq, writer>>

\* assigned_sleep_seq is read after the slot was given.
WebStamp ==
  /\ web.pc = "stamp"
  /\ ws' = [ws EXCEPT ![web.conn].seq = sleepSeq, ![web.conn].had = TRUE]
  /\ web' = [web EXCEPT !.pc = IF web.kind = "macro" THEN "macro" ELSE "apply"]
  /\ UNCHANGED vars

\* The report is stored without looking at the session again: the slot becomes a
\* browser's active session, whatever it was.
WebApply ==
  LET i == ws[web.conn].slot IN
  /\ web.pc = "apply"
  /\ session' = [session EXCEPT
       ![i] = [Reporting(session[i], web.conn) EXCEPT !.active = TRUE,
                                                      !.source = "WebSocket"]]
  /\ web' = WebIdle
  /\ UNCHANGED <<macro, dormant, up, udp, sweep, sleepSeq, writer, ws>>

\* As StartMacro.
WebStartMacro ==
  /\ web.pc = "macro"
  /\ macro' \in {macro, [macro EXCEPT ![ws[web.conn].slot] = web.conn]}
  /\ web' = WebIdle
  /\ UNCHANGED <<session, dormant, up, udp, sweep, sleepSeq, writer, ws>>

WebStep == WebAllocate \/ WebStamp \/ WebApply \/ WebStartMacro

-----------------------------------------------------------------------------

\* LWS_CALLBACK_TIMER, forced release noticed: the connection is closed.
TimerStale(b) ==
  /\ web.pc = "idle" /\ ws[b].open /\ ws[b].timer
  /\ ws[b].had /\ ws[b].seq # sleepSeq
  /\ IF ws[b].slot # NoSlot THEN ResetIfWeb(ws[b].slot) ELSE UNCHANGED <<session, macro>>
  /\ ws' = [ws EXCEPT ![b] = Disconnected]
  /\ UNCHANGED <<dormant, up, udp, sweep, sleepSeq, writer, web>>

\* LWS_CALLBACK_TIMER, slot no longer a browser's: the slot is forgotten and the
\* callback leaves before the line that arms the timer again.
TimerLost(b) ==
  /\ web.pc = "idle" /\ ws[b].open /\ ws[b].timer
  /\ ~(ws[b].had /\ ws[b].seq # sleepSeq)
  /\ ws[b].slot # NoSlot /\ ~LiveWeb(ws[b].slot)
  /\ ws' = [ws EXCEPT ![b].slot = NoSlot, ![b].timer = FALSE]
  /\ UNCHANGED <<vars, web>>

\* Seeded fault: the slot of a closed connection is left as it is.
HangUpKeepingSession(b) ==
  /\ ws' = [ws EXCEPT ![b] = Disconnected]
  /\ UNCHANGED <<vars, web>>

\* LWS_CALLBACK_CLOSED
HangUp(b) ==
  /\ IF ws[b].slot # NoSlot THEN ResetIfWeb(ws[b].slot) ELSE UNCHANGED <<session, macro>>
  /\ ws' = [ws EXCEPT ![b] = Disconnected]
  /\ UNCHANGED <<dormant, up, udp, sweep, sleepSeq, writer, web>>

\* The page goes away, or the network does.
Closed(b) == web.pc = "idle" /\ ws[b].open /\ HangUp(b)

\* LWS_CALLBACK_SERVER_WRITEABLE after a refusal.
CloseRefused(b) == web.pc = "idle" /\ ws[b].open /\ ws[b].full /\ HangUp(b)

Callback(b) == \/ Establish(b) \/ ReceiveInput(b) \/ ReceivePair(b) \/ ReceiveWebMacro(b)
               \/ TimerStale(b) \/ TimerLost(b) \/ Closed(b)

WebThread == WebStep \/ \E b \in Browsers : Callback(b) \/ CloseRefused(b)

WebNext == \/ Next /\ UNCHANGED <<ws, web>>
           \/ WebThread

(***************************************************************************)
(* The web thread keeps serving libwebsockets: what it has begun it ends,  *)
(* and armed timers and pending refusals are served.  Pages are not forced *)
(* to send or to close.                                                    *)
(***************************************************************************)
WebFairness == /\ WF_webVars(UdpStep /\ UNCHANGED <<ws, web>>)
               /\ WF_webVars(WriterLook /\ UNCHANGED <<ws, web>>)
               /\ \A r \in Releasers : WF_webVars(ReleaseStep(r) /\ UNCHANGED <<ws, web>>)
               /\ \A i \in Slots :
                    /\ WF_webVars(MacroEnds(i) /\ UNCHANGED <<ws, web>>)
                    /\ WF_webVars(SilenceOfDead(i) /\ UNCHANGED <<ws, web>>)
               /\ WF_webVars(WebStep)
               /\ \A b \in Browsers : /\ SF_webVars(TimerStale(b))
                                      /\ SF_webVars(TimerLost(b))
                                      /\ SF_webVars(CloseRefused(b))

WebSpec     == WebInit /\ [][WebNext]_webVars
WebFairSpec == WebSpec /\ WebFairness

-----------------------------------------------------------------------------

\* Types, and a slot number is in range whenever the web thread is about to use it.
WebTypeOK ==
  /\ TypeOK
  /\ ws \in [Browsers -> Connection]
  /\ web \in [pc : WebPcs, conn : Browsers \cup {NoOne}, kind : WebKinds]
  /\ web.pc # "idle" => web.conn \in Browsers
  /\ web.pc \in {"stamp", "apply", "macro"} => ws[web.conn].slot \in Slots

\* A page that has gone leaves no session behind that still plays its last report:
\* ws_slot is forgotten only when the slot has ceased to be a browser's.
ClosedPageLeavesNothing ==
  \A b \in Browsers : ~ws[b].open =>
    \A i \in Slots : session[i].active /\ session[i].source = "WebSocket" =>
      session[i].report # b

\* Both: slot numbers in range, and nothing left behind.
WebInv == WebTypeOK /\ ClosedPageLeavesNothing

\* A browser takes the slot of a UDP client only when that client is past its timeout
\* or its session was released between the check of web_server.cpp's RECEIVE handler
\* and the store that follows it: no close, no timer and no refusal ends it.
WebKeepsUdp ==
  [][\A i \in Slots : \A e \in Endpoints :
       WebThread /\ OwnedByUdp(i, e) /\ ~OwnedByUdp(i, e)' =>
         session[i].idle \/ web.pc = "apply"]_webVars

\* app_state.hpp: a connection whose stamp has become stale is closed, unless it has
\* been given a slot since.  It does not hold, and no run checks it.
StaleConnectionCloses ==
  \A b \in Browsers :
    (ws[b].open /\ ws[b].had /\ ws[b].seq # sleepSeq)
      ~> (~ws[b].open \/ ws[b].seq = sleepSeq)

=============================================================================
