------------------------- MODULE WebSessionsProofs -------------------------
(***************************************************************************)
(* Proofs about WebSessions: the session table when browsers and UDP       *)
(* clients share it, for any number of slots, endpoints, connections and   *)
(* releasing threads.                                                      *)
(*                                                                         *)
(* A connection comes back to its slot without asking whose it is, so      *)
(* LookupStaysTrue no longer holds: the slot the UDP loop remembers may be *)
(* a browser's by now.  What is left of it, UdpKnows, is still enough for  *)
(* two promises made to UDP clients.                                       *)
(***************************************************************************)
EXTENDS WebSessions, SessionsProofs

\* What the UDP loop remembers of the sender: it has no session elsewhere, and the slot
\* is not another UDP client's.
UdpKnows ==
  udp.pc # "idle" =>
    /\ udp.from \in Endpoints
    /\ udp.pc = "allocate" => udp.slot = NoSlot
    /\ \A j \in Slots : OwnedByUdp(j, udp.from) => j = udp.slot
    /\ udp.slot \in Slots /\ session[udp.slot].active /\ session[udp.slot].source = "Udp"
         => session[udp.slot].addr = udp.from

\* A browser's session that plays a page's report is at the slot this page remembers, and
\* the callback that is running is one of an open connection.
WebKnows ==
  /\ \A i \in Slots : \A b \in Browsers :
       session[i].active /\ session[i].source = "WebSocket" /\ session[i].report = b
         => ws[b].open /\ ws[b].slot = i
  /\ web.pc # "idle" => ws[web.conn].open
  /\ web.pc = "allocate" => ws[web.conn].slot = NoSlot

WebIInv == WebTypeOK /\ UdpKnows /\ WebKnows /\ OneSessionPerEndpoint /\ InputFromOwner

-----------------------------------------------------------------------------
(***************************************************************************)
(* What the steps of Sessions do, seen from the web thread.                *)
(***************************************************************************)

\* The step of another thread leaves a slot's session alone, ends it, opens a UDP
\* client's, or lets it go on with a report that is no page's.
LEMMA OthersChange ==
  ASSUME TypeOK, UdpKnows, [Next]_vars, NEW j \in Slots
  PROVE  \/ session'[j] = session[j]
         \/ session'[j] = EmptySession
         \/ /\ udp.pc # "idle" /\ udp'.pc # udp.pc
            /\ udp.slot = j \/ (udp.slot = NoSlot /\ udp'.slot = j)
            /\ \E b \in BOOLEAN : session'[j] = NewSession("Udp", udp.from, b)
         \/ /\ udp.pc # "idle" /\ udp'.pc # udp.pc /\ udp.slot = j
            /\ session'[j] = Reporting(session[j], udp.from)
         \/ \E b \in BOOLEAN : session'[j] = [session[j] EXCEPT !.idle = b]
<1> DEFINE Result == \/ session'[j] = session[j]
         \/ session'[j] = EmptySession
         \/ /\ udp.pc # "idle" /\ udp'.pc # udp.pc
            /\ udp.slot = j \/ (udp.slot = NoSlot /\ udp'.slot = j)
            /\ \E b \in BOOLEAN : session'[j] = NewSession("Udp", udp.from, b)
         \/ /\ udp.pc # "idle" /\ udp'.pc # udp.pc /\ udp.slot = j
            /\ session'[j] = Reporting(session[j], udp.from)
         \/ \E b \in BOOLEAN : session'[j] = [session[j] EXCEPT !.idle = b]
<1> SUFFICES Result
  OBVIOUS
<1>0. session \in [Slots -> Session] /\ udp \in [pc : UdpPcs, kind : PacketKinds,
        from : Endpoints \cup {NoOne}, slot : Slots \cup {NoSlot}]
  BY DEF TypeOK
<1>1. CASE UNCHANGED session
  BY <1>1
<1>2. ASSUME NEW e \in Endpoints, ReceiveMacro(e) PROVE Result
  BY <1>0, <1>1, <1>2 DEF ReceiveMacro, Heard
<1>3. CASE Allocate
  BY <1>0, <1>3 DEF Allocate, UdpKnows
<1>4. CASE Apply
  <2>1. udp.slot \in Slots /\ session[udp.slot].byMacro \in BOOLEAN
    BY <1>0, <1>4 DEF Apply, TypeOK, Session
  <2>2. udp.pc = "apply" /\ udp'.pc = "idle"
    BY <1>4 DEF Apply, UdpIdle
  <2>3. CASE session' = [session EXCEPT
               ![udp.slot] = NewSession("Udp", udp.from, session[udp.slot].byMacro)]
    <3>1. CASE j = udp.slot
      BY <1>0, <2>1, <2>2, <2>3, <3>1
    <3>2. CASE j # udp.slot
      BY <1>0, <2>1, <2>3, <3>2
    <3> QED
      BY <3>1, <3>2
  <2>4. CASE session' = [session EXCEPT ![udp.slot] = Reporting(session[udp.slot], udp.from)]
    BY <1>0, <2>1, <2>2, <2>4
  <2> QED
    BY <1>1, <1>4, <2>3, <2>4 DEF Apply
<1>5. CASE RefusePair \/ DisconnectDrop
  BY <1>0, <1>5 DEF RefusePair, DisconnectDrop, CloseSlot
<1>6. CASE WriterLook \/ \E i \in Slots : Silence(i)
  <2>1. ASSUME NEW i \in Slots, Silence(i) PROVE Result
    BY <1>0, <2>1 DEF Silence
  <2>2. CASE WriterLook
    BY <1>0, <1>1, <2>2 DEF WriterLook
  <2> QED
    BY <1>6, <2>1, <2>2
<1>7. ASSUME NEW r \in Releasers, ReleaseSlot(r) PROVE Result
  BY <1>0, <1>7 DEF ReleaseSlot
<1> HIDE DEF Result
<1> QED
  <2>1. ASSUME NEW e \in Endpoints, ReceiveController(e) \/ ReceiveDisconnect(e)
                                     \/ Crash(e) \/ Return(e)
        PROVE  UNCHANGED session
    BY <2>1 DEF ReceiveController, ReceiveKnown, ReceiveNew, ReceiveDisconnect, Crash, Return
  <2>2. CASE Welcome \/ StartMacro \/ DisconnectForget
    BY <1>1, <2>2 DEF Welcome, StartMacro, DisconnectForget
  <2>3. CASE PortLive \/ \E i \in Slots : MacroEnds(i)
    BY <1>1, <2>3 DEF PortLive, MacroEnds
  <2>4. ASSUME NEW r \in Releasers, BeginRelease(r) \/ ReleaseStopMacros(r) \/ EndRelease(r)
        PROVE  UNCHANGED session
    BY <2>4 DEF BeginRelease, ReleaseStopMacros, EndRelease
  <2>5. CASE UNCHANGED vars
    BY <1>1, <2>5 DEF vars
  <2> QED
    BY <1>1, <1>2, <1>3, <1>4, <1>5, <1>6, <1>7, <2>1, <2>2, <2>3, <2>4, <2>5
       DEF Next, UdpStep, ReleaseStep

\* A slot ended because it is a browser's ends no UDP client's session.
LEMMA ResetIfWebFacts ==
  ASSUME TypeOK, NEW i \in Slots, ResetIfWeb(i)
  PROVE  /\ session' \in [Slots -> Session] /\ macro' \in [Slots -> Clients \cup {NoOne}]
         /\ \A j \in Slots : session'[j] = session[j] \/ session'[j] = EmptySession
         /\ \A j \in Slots : j # i => session'[j] = session[j]
         /\ \A j \in Slots : session[j].source # "WebSocket" => session'[j] = session[j]
         /\ ~(session'[i].active /\ session'[i].source = "WebSocket")
<1>1. EmptySession \in Session
  BY DEF EmptySession, Session, Sources
<1>2. NoOne \in Clients \cup {NoOne}
  OBVIOUS
<1>3. CASE session[i].source = "WebSocket"
  <2>1. session' = [session EXCEPT ![i] = EmptySession] /\ macro' = [macro EXCEPT ![i] = NoOne]
    BY <1>3 DEF ResetIfWeb, CloseSlot
  <2>2. session \in [Slots -> Session] /\ macro \in [Slots -> Clients \cup {NoOne}]
    BY DEF TypeOK
  <2>3. /\ session'[i] = EmptySession
        /\ \A j \in Slots : j # i => session'[j] = session[j]
    BY <2>1, <2>2
  <2> QED
    BY <1>1, <1>2, <1>3, <2>1, <2>2, <2>3 DEF EmptySession
<1>4. CASE session[i].source # "WebSocket"
  BY <1>4 DEF ResetIfWeb, TypeOK
<1> QED
  BY <1>3, <1>4

\* The types of the table are kept by the web thread too.
LEMMA WebTypeInductive == WebTypeOK /\ WebKnows /\ [WebNext]_webVars => WebTypeOK'
<1> SUFFICES ASSUME WebTypeOK, WebKnows, [WebNext]_webVars PROVE WebTypeOK'
  OBVIOUS
<1> USE SlotFacts DEF WebTypeOK, Goto
<1>0. /\ session \in [Slots -> Session] /\ macro \in [Slots -> Clients \cup {NoOne}]
      /\ ws \in [Browsers -> Connection] /\ sleepSeq \in Nat
      /\ web \in [pc : WebPcs, conn : Browsers \cup {NoOne}, kind : WebKinds]
  BY DEF TypeOK
<1>1. \A b \in Browsers : ws[b] \in Connection
  BY <1>0
<1>2. Disconnected \in Connection
  BY DEF Disconnected, Connection
<1>3. WebIdle \in [pc : WebPcs, conn : Browsers \cup {NoOne}, kind : WebKinds]
      /\ WebIdle.pc = "idle"
  BY DEF WebIdle, WebPcs, WebKinds
<1>4. ASSUME UNCHANGED vars PROVE TypeOK'
  BY <1>4 DEF TypeOK, vars
<1>5. ASSUME session' \in [Slots -> Session], macro' \in [Slots -> Clients \cup {NoOne}],
             UNCHANGED <<dormant, up, udp, sweep, sleepSeq, writer>>
      PROVE  TypeOK'
  BY <1>5 DEF TypeOK
<1>6. ASSUME NEW b \in Browsers, NEW c \in Connection, ws' = [ws EXCEPT ![b] = c]
      PROVE  ws' \in [Browsers -> Connection]
  BY <1>0, <1>6
<1>f. ASSUME NEW b \in Browsers,
              ws' = [ws EXCEPT ![b].slot = NoSlot, ![b].full = TRUE]
       PROVE  ws' \in [Browsers -> Connection]
  <2>1. [ws[b] EXCEPT !.slot = NoSlot, !.full = TRUE] \in Connection
    BY <1>1 DEF Connection
  <2>2. ws' = [ws EXCEPT ![b] = [ws[b] EXCEPT !.slot = NoSlot, !.full = TRUE]]
    BY <1>0, <1>1, <1>f DEF Connection
  <2> QED
    BY <1>6, <2>1, <2>2
<1>7. CASE Next /\ UNCHANGED <<ws, web>>
  BY <1>7, TypeInductive
<1>8. ASSUME NEW b \in Browsers, Establish(b) PROVE WebTypeOK'
  BY <1>0, <1>1, <1>4, <1>8 DEF Establish, Connection, Disconnected
<1>9. ASSUME NEW b \in Browsers, ReceiveInput(b) PROVE WebTypeOK'
  <2>1. TypeOK' /\ web.pc = "idle"
    BY <1>4, <1>9 DEF ReceiveInput
  <2>2. CASE LiveWeb(ws[b].slot) /\ Goto("apply", b, "input") /\ UNCHANGED ws
    <3>1. ws[b].slot \in Slots
      BY <1>1, <2>2 DEF LiveWeb, Connection
    <3> QED
      BY <2>1, <2>2, <3>1 DEF WebPcs, WebKinds
  <2>3. CASE ws' = [ws EXCEPT ![b].slot = NoSlot] /\ Goto("allocate", b, "input")
    BY <1>0, <1>1, <2>1, <2>3 DEF Connection, WebPcs, WebKinds
  <2>4. CASE ws' = [ws EXCEPT ![b].slot = NoSlot, ![b].full = TRUE] /\ UNCHANGED web
    BY <1>0, <1>f, <2>1, <2>4
  <2> QED
    BY <1>9, <2>2, <2>3, <2>4 DEF ReceiveInput
<1>10. ASSUME NEW b \in Browsers, ReceivePair(b) PROVE WebTypeOK'
  <2>1. session' \in [Slots -> Session] /\ macro' \in [Slots -> Clients \cup {NoOne}]
    <3>1. CASE LiveWeb(ws[b].slot) /\ ResetIfWeb(ws[b].slot)
      BY <1>1, <3>1, ResetIfWebFacts DEF LiveWeb, Connection
    <3> QED
      BY <1>0, <1>10, <3>1 DEF ReceivePair
  <2>2. TypeOK'
    BY <1>5, <1>10, <2>1 DEF ReceivePair
  <2> QED
    BY <1>0, <1>f, <1>10, <2>2 DEF ReceivePair
<1>11. ASSUME NEW b \in Browsers, ReceiveWebMacro(b) PROVE WebTypeOK'
  <2>1. TypeOK'
    BY <1>4, <1>11 DEF ReceiveWebMacro
  <2>2. ws[b].slot # NoSlot => ws[b].slot \in Slots
    BY <1>1 DEF Connection
  <2> QED
    BY <1>11, <2>1, <2>2 DEF ReceiveWebMacro, WebPcs, WebKinds
<1>12. CASE WebAllocate
  <2>1. web.conn \in Browsers /\ web.pc = "allocate"
    BY <1>12 DEF WebAllocate
  <2>2. CASE web' = WebIdle /\ UNCHANGED <<session, ws>>
    BY <1>0, <1>3, <1>5, <1>12, <2>2 DEF WebAllocate
  <2>3. ASSUME NEW i \in Slots,
               session' = [session EXCEPT
                             ![i] = NewSession("WebSocket", NoOne, web.kind = "macro")],
               ws' = [ws EXCEPT ![web.conn].slot = i], web' = [web EXCEPT !.pc = "stamp"]
        PROVE  WebTypeOK'
    <3>1. \A b \in BOOLEAN : NewSession("WebSocket", NoOne, b) \in Session
      BY DEF NewSession, Session, Sources
    <3>2. session' \in [Slots -> Session]
      BY <1>0, <2>3, <3>1
    <3>3. TypeOK'
      BY <1>0, <1>5, <1>12, <3>2 DEF WebAllocate
    <3>4. [ws[web.conn] EXCEPT !.slot = i] \in Connection
      BY <1>1, <2>1 DEF Connection
    <3>5. ws' \in [Browsers -> Connection] /\ ws'[web.conn].slot = i
      BY <1>0, <1>6, <2>1, <2>3, <3>4 DEF Connection
    <3> QED
      BY <1>0, <2>1, <2>3, <3>3, <3>5 DEF WebPcs
  <2> QED
    BY <1>12, <2>2, <2>3 DEF WebAllocate
<1>13. CASE WebStamp
  <2>1. web.conn \in Browsers /\ web.pc = "stamp" /\ ws[web.conn].slot \in Slots /\ TypeOK'
    BY <1>4, <1>13 DEF WebStamp
  <2>2. ws'[web.conn].slot = ws[web.conn].slot /\ ws' \in [Browsers -> Connection]
    BY <1>0, <1>1, <1>13, <2>1 DEF WebStamp, Connection
  <2> QED
    BY <1>0, <1>13, <2>1, <2>2 DEF WebStamp, WebPcs
<1>14. CASE WebApply
  <2> DEFINE i == ws[web.conn].slot
             new == [Reporting(session[i], web.conn) EXCEPT !.active = TRUE,
                                                            !.source = "WebSocket"]
  <2>1. i \in Slots /\ web.conn \in Browsers
    BY <1>14 DEF WebApply
  <2>2. session[i] \in Session /\ web.conn \in Clients
    BY <1>0, <2>1 DEF Clients
  <2>3. new \in Session
    BY <2>2 DEF Reporting, Session, Sources
  <2>4. session' \in [Slots -> Session]
    BY <1>0, <1>14, <2>1, <2>3 DEF WebApply
  <2> QED
    BY <1>0, <1>3, <1>5, <1>14, <2>4 DEF WebApply
<1>15. CASE WebStartMacro
  BY <1>0, <1>3, <1>5, <1>15 DEF WebStartMacro, Clients
<1>16. ASSUME NEW b \in Browsers, TimerStale(b) \/ Closed(b) \/ CloseRefused(b)
       PROVE  WebTypeOK'
  <2>1. session' \in [Slots -> Session] /\ macro' \in [Slots -> Clients \cup {NoOne}]
    <3>1. CASE ws[b].slot # NoSlot /\ ResetIfWeb(ws[b].slot)
      BY <1>1, <3>1, ResetIfWebFacts DEF Connection
    <3> QED
      BY <1>0, <1>16, <3>1 DEF TimerStale, Closed, CloseRefused, HangUp
  <2>2. TypeOK' /\ web.pc = "idle" /\ UNCHANGED web
    BY <1>5, <1>16, <2>1 DEF TimerStale, Closed, CloseRefused, HangUp
  <2>3. ws' \in [Browsers -> Connection]
    BY <1>2, <1>6, <1>16 DEF TimerStale, Closed, CloseRefused, HangUp
  <2> QED
    BY <2>2, <2>3
<1>17. ASSUME NEW b \in Browsers, TimerLost(b) PROVE WebTypeOK'
  BY <1>0, <1>1, <1>4, <1>17 DEF TimerLost, Connection
<1>18. CASE UNCHANGED webVars
  BY <1>4, <1>18 DEF webVars
<1> QED
  BY <1>7, <1>8, <1>9, <1>10, <1>11, <1>12, <1>13, <1>14, <1>15, <1>16, <1>17, <1>18
     DEF WebNext, WebThread, WebStep, Callback

\* A page's report only ever comes with the page's own slot.
LEMMA WebKnowsInductive ==
  WebTypeOK /\ UdpKnows /\ WebKnows /\ [WebNext]_webVars => WebKnows'
<1> SUFFICES ASSUME WebTypeOK, UdpKnows, WebKnows, [WebNext]_webVars PROVE WebKnows'
  OBVIOUS
<1> DEFINE Plays(i, b) == /\ session[i].active /\ session[i].source = "WebSocket"
                          /\ session[i].report = b
           Here == \A i \in Slots : \A b \in Browsers :
                     Plays(i, b) => ws[b].open /\ ws[b].slot = i
<1> USE SlotFacts
<1>0. /\ TypeOK /\ session \in [Slots -> Session] /\ ws \in [Browsers -> Connection]
      /\ web.pc # "idle" => web.conn \in Browsers
      /\ NoOne \notin Browsers /\ \A e \in Endpoints : e \notin Browsers
      /\ \A b \in Browsers : ws[b].slot # NoSlot => ws[b].slot \in Slots
  BY SessionsAssumption DEF WebTypeOK, TypeOK, Connection
<1>1. Here
  BY DEF WebKnows
<1>2. CASE Next /\ UNCHANGED <<ws, web>>
  <2>1. \A j \in Slots : \A b \in Browsers : Plays(j, b)' => Plays(j, b)
    <3>1. SUFFICES ASSUME NEW j \in Slots, NEW b \in Browsers, Plays(j, b)' PROVE Plays(j, b)
      OBVIOUS
    <3>2. session'[j] # EmptySession /\ \A e, v : session'[j] # NewSession("Udp", e, v)
      BY <3>1 DEF EmptySession, NewSession
    <3>3. session[j] \in Session
      BY <1>0
    <3>4. udp.pc # "idle" => session'[j] # Reporting(session[j], udp.from)
      BY <1>0, <3>1, <3>3 DEF UdpKnows, Reporting, Session
    <3> QED
      <4>1. CASE session'[j] = session[j]
        BY <3>1, <4>1
      <4>2. ASSUME NEW v \in BOOLEAN, session'[j] = [session[j] EXCEPT !.idle = v]
            PROVE  Plays(j, b)
        BY <3>1, <3>3, <4>2 DEF Session
      <4> QED
        BY <1>0, <1>2, <3>2, <3>4, <4>1, <4>2, OthersChange
  <2> QED
    BY <1>1, <1>2, <2>1 DEF WebKnows
<1>3. ASSUME NEW b \in Browsers,
             Establish(b) \/ ReceiveInput(b) \/ ReceiveWebMacro(b) \/ TimerLost(b)
      PROVE  WebKnows'
  <2>1. UNCHANGED session /\ web.pc = "idle"
    BY <1>3 DEF Establish, ReceiveInput, ReceiveWebMacro, TimerLost, vars
  <2>2. \A i \in Slots : Plays(i, b) => ws[b].open /\ ws[b].slot = i /\ LiveWeb(i)
    BY <1>1 DEF LiveWeb
  <2>3. \A c \in Browsers : c # b => ws'[c] = ws[c]
    BY <1>0, <1>3 DEF Establish, ReceiveInput, ReceiveWebMacro, TimerLost
  <2>4. CASE Establish(b)
    BY <1>0, <1>1, <2>1, <2>2, <2>3, <2>4 DEF WebKnows, Establish
  <2>5. CASE ReceiveInput(b)
    <3>1. ws'[b].open /\ (web'.pc = "apply" => UNCHANGED ws)
          /\ (web'.pc = "allocate" => ws'[b].slot = NoSlot)
          /\ (~UNCHANGED ws => ~LiveWeb(ws[b].slot))
          /\ (web'.pc # "idle" => web'.conn = b)
      <4>1. /\ ws[b].open
            /\ \/ web' = [pc |-> "apply", conn |-> b, kind |-> "input"] /\ UNCHANGED ws
               \/ /\ ~LiveWeb(ws[b].slot)
                  /\ \/ /\ web' = [pc |-> "allocate", conn |-> b, kind |-> "input"]
                        /\ ws' = [ws EXCEPT ![b].slot = NoSlot]
                     \/ /\ UNCHANGED web
                        /\ ws' = [ws EXCEPT ![b].slot = NoSlot, ![b].full = TRUE]
        BY <2>5 DEF ReceiveInput, Goto
      <4>2. ws[b] \in Connection
        BY <1>0
      <4>3. CASE web' = [pc |-> "apply", conn |-> b, kind |-> "input"] /\ UNCHANGED ws
        BY <4>1, <4>3
      <4>4. CASE ws' = [ws EXCEPT ![b].slot = NoSlot]
        <5>1. ws'[b] = [ws[b] EXCEPT !.slot = NoSlot]
          BY <1>0, <4>4
        <5>2. ws'[b].open = ws[b].open /\ ws'[b].slot = NoSlot
          BY <4>2, <5>1 DEF Connection
        <5>3. web'.pc = "apply" => UNCHANGED ws
          BY <2>1, <4>1
        <5>4. UNCHANGED ws \/ ~LiveWeb(ws[b].slot)
          BY <4>1
        <5>5. web'.pc # "idle" => web'.conn = b
          BY <2>1, <4>1
        <5> QED
          BY <4>1, <5>2, <5>3, <5>4, <5>5
      <4>5. CASE ws' = [ws EXCEPT ![b].slot = NoSlot, ![b].full = TRUE] /\ UNCHANGED web
        <5>1. ws'[b] = [ws[b] EXCEPT !.slot = NoSlot, !.full = TRUE]
          BY <1>0, <4>5
        <5>2. ws'[b].open = ws[b].open
          BY <4>2, <5>1 DEF Connection
        <5> QED
          BY <2>1, <4>1, <4>5, <5>2
      <4> QED
        BY <4>1, <4>3, <4>4, <4>5
    <3>2. web'.pc \in {"idle", "apply", "allocate"}
      BY <2>1, <2>5 DEF ReceiveInput, Goto
    <3> QED
      BY <1>1, <2>1, <2>2, <2>3, <3>1, <3>2 DEF WebKnows
  <2>6. CASE ReceiveWebMacro(b)
    <3>1. UNCHANGED ws /\ ws[b].open /\ web'.conn = b
          /\ (web'.pc = "allocate" => ws[b].slot = NoSlot)
      BY <2>6 DEF ReceiveWebMacro, Goto
    <3> QED
      BY <1>1, <2>1, <3>1 DEF WebKnows
  <2>7. CASE TimerLost(b)
    <3>1. UNCHANGED web /\ ws'[b].open /\ ~LiveWeb(ws[b].slot)
      BY <1>0, <2>7 DEF TimerLost, Connection
    <3> QED
      BY <1>1, <2>1, <2>2, <2>3, <3>1 DEF WebKnows
  <2> QED
    BY <1>3, <2>4, <2>5, <2>6, <2>7
<1>4. ASSUME NEW b \in Browsers,
             ReceivePair(b) \/ TimerStale(b) \/ Closed(b) \/ CloseRefused(b)
      PROVE  WebKnows'
  <2>1. web.pc = "idle" /\ UNCHANGED web /\ \A c \in Browsers : c # b => ws'[c] = ws[c]
    BY <1>0, <1>4 DEF ReceivePair, TimerStale, Closed, CloseRefused, HangUp
  <2>2. \/ ws[b].slot # NoSlot /\ ResetIfWeb(ws[b].slot)
        \/ UNCHANGED session /\ ~LiveWeb(ws[b].slot)
    BY <1>4 DEF ReceivePair, TimerStale, Closed, CloseRefused, HangUp, LiveWeb
  <2>3. \A j \in Slots : \A c \in Browsers : Plays(j, c)' => Plays(j, c) /\ c # b
    <3>1. CASE ws[b].slot # NoSlot /\ ResetIfWeb(ws[b].slot)
      <4>1. /\ \A j \in Slots : session'[j] = session[j] \/ session'[j] = EmptySession
            /\ ~(session'[ws[b].slot].active /\ session'[ws[b].slot].source = "WebSocket")
        BY <1>0, <3>1, ResetIfWebFacts
      <4> QED
        BY <1>1, <4>1 DEF EmptySession
    <3>2. CASE UNCHANGED session /\ ~LiveWeb(ws[b].slot)
      BY <1>1, <3>2 DEF LiveWeb
    <3> QED
      BY <2>2, <3>1, <3>2
  <2> QED
    BY <1>1, <2>1, <2>3 DEF WebKnows
<1>5. CASE WebAllocate
  <2>1. web.conn \in Browsers /\ ws[web.conn].open /\ ws[web.conn].slot = NoSlot
    BY <1>0, <1>5 DEF WebAllocate, WebKnows
  <2>2. CASE web' = WebIdle /\ UNCHANGED <<session, ws>>
    BY <1>1, <2>2 DEF WebKnows, WebIdle
  <2>3. ASSUME NEW i \in Slots,
               session' = [session EXCEPT
                             ![i] = NewSession("WebSocket", NoOne, web.kind = "macro")],
               ws' = [ws EXCEPT ![web.conn].slot = i], web' = [web EXCEPT !.pc = "stamp"]
        PROVE  WebKnows'
    <3>1. \A j \in Slots : \A c \in Browsers : Plays(j, c)' => Plays(j, c) /\ c # web.conn
      BY <1>0, <1>1, <2>1, <2>3 DEF NewSession
    <3>2. /\ \A c \in Browsers : c # web.conn => ws'[c] = ws[c]
          /\ ws'[web.conn].open
      BY <1>0, <2>1, <2>3 DEF Connection
    <3>3. web'.pc = "stamp" /\ web'.conn = web.conn
      BY <2>3 DEF WebTypeOK
    <3> QED
      BY <1>1, <2>1, <3>1, <3>2, <3>3 DEF WebKnows
  <2> QED
    BY <1>5, <2>2, <2>3 DEF WebAllocate
<1>6. CASE WebStamp
  <2>1. web.conn \in Browsers /\ ws[web.conn].open
    BY <1>0, <1>6 DEF WebStamp, WebKnows
  <2>2. \A b \in Browsers : ws'[b].open = ws[b].open /\ ws'[b].slot = ws[b].slot
    BY <1>0, <1>6 DEF WebStamp, Connection
  <2>3. web'.conn = web.conn /\ web'.pc \in {"macro", "apply"} /\ UNCHANGED session
    BY <1>6 DEF WebStamp, WebTypeOK, vars
  <2> QED
    BY <1>1, <2>1, <2>2, <2>3 DEF WebKnows
<1>7. CASE WebApply
  <2> DEFINE i == ws[web.conn].slot
  <2>1. i \in Slots /\ web.conn \in Browsers /\ ws[web.conn].open
    BY <1>0, <1>7 DEF WebApply, WebTypeOK, WebKnows
  <2>2. /\ session'[i].report = web.conn
        /\ \A j \in Slots : j # i => session'[j] = session[j]
    BY <1>0, <1>7, <2>1 DEF WebApply, Reporting, Session
  <2>3. web' = WebIdle /\ UNCHANGED ws
    BY <1>7 DEF WebApply
  <2> QED
    BY <1>1, <2>1, <2>2, <2>3 DEF WebKnows, WebIdle
<1>8. CASE WebStartMacro
  BY <1>1, <1>8 DEF WebStartMacro, WebKnows, WebIdle
<1>9. CASE UNCHANGED webVars
  BY <1>1, <1>9 DEF webVars, vars, WebKnows
<1> QED
  BY <1>2, <1>3, <1>4, <1>5, <1>6, <1>7, <1>8, <1>9 DEF WebNext, WebThread, WebStep, Callback

-----------------------------------------------------------------------------
(***************************************************************************)
(* What UDP clients may still rely on.                                     *)
(***************************************************************************)

UdpSide == UdpKnows /\ OneSessionPerEndpoint /\ InputFromOwner

\* The threads of Sessions: a UDP client gets a session in the slot the UDP loop has at
\* hand, or in a new one when it had none.
LEMMA OthersKeepUdpSide == TypeOK /\ UdpSide /\ [Next]_vars => UdpSide'
<1> SUFFICES ASSUME TypeOK, UdpSide, [Next]_vars PROVE UdpSide'
  OBVIOUS
<1> USE SlotFacts
<1> DEFINE Given(j, e) == /\ udp.pc # "idle" /\ udp'.pc # udp.pc /\ udp.from = e
                          /\ udp.slot = j \/ (udp.slot = NoSlot /\ udp'.slot = j)
<1>0. \A j \in Slots : session[j] \in Session
  BY DEF TypeOK
<1>1. \A j \in Slots : \A e \in Endpoints :
        OwnedByUdp(j, e)' => OwnedByUdp(j, e) \/ Given(j, e)
  <2>1. SUFFICES ASSUME NEW j \in Slots, NEW e \in Endpoints, OwnedByUdp(j, e)', ~Given(j, e)
                 PROVE  OwnedByUdp(j, e)
    OBVIOUS
  <2>2. session'[j] # EmptySession
    BY <2>1 DEF EmptySession, OwnedByUdp
  <2>3. ASSUME NEW v \in BOOLEAN, session'[j] = NewSession("Udp", udp.from, v)
        PROVE  udp.from = e
    BY <2>1, <2>3 DEF NewSession, OwnedByUdp
  <2>4. CASE session'[j] = Reporting(session[j], udp.from)
    BY <1>0, <2>1, <2>4 DEF Reporting, OwnedByUdp, Session
  <2>5. ASSUME NEW v \in BOOLEAN, session'[j] = [session[j] EXCEPT !.idle = v]
        PROVE  OwnedByUdp(j, e)
    BY <1>0, <2>1, <2>5 DEF OwnedByUdp, Session
  <2>6. CASE session'[j] = session[j]
    BY <2>1, <2>6 DEF OwnedByUdp
  <2> QED
    BY <2>1, <2>2, <2>3, <2>4, <2>5, <2>6, OthersChange DEF UdpSide
<1>2. OneSessionPerEndpoint'
  <2>1. SUFFICES ASSUME NEW i \in Slots, NEW j \in Slots, NEW e \in Endpoints,
                        OwnedByUdp(i, e)', OwnedByUdp(j, e)'
                 PROVE  i = j
    BY DEF OneSessionPerEndpoint
  <2> QED
    BY <1>1, <2>1 DEF UdpSide, UdpKnows, OneSessionPerEndpoint
<1>3. InputFromOwner'
  <2>1. SUFFICES ASSUME NEW j \in Slots, session'[j].active, session'[j].source = "Udp"
                 PROVE  session'[j].report \in {NoOne, session'[j].addr}
    BY DEF InputFromOwner
  <2>2. session[j].active /\ session[j].source = "Udp" =>
          session[j].report \in {NoOne, session[j].addr}
    BY DEF UdpSide, InputFromOwner
  <2>3. session'[j] # EmptySession
    BY <2>1 DEF EmptySession
  <2>4. ASSUME NEW v \in BOOLEAN, session'[j] = NewSession("Udp", udp.from, v)
        PROVE  session'[j].report = NoOne
    BY <2>4 DEF NewSession
  <2>5. CASE udp.pc # "idle" /\ udp.slot = j /\ session'[j] = Reporting(session[j], udp.from)
    BY <1>0, <2>1, <2>5 DEF Reporting, Session, UdpSide, UdpKnows
  <2>6. ASSUME NEW v \in BOOLEAN, session'[j] = [session[j] EXCEPT !.idle = v]
        PROVE  session'[j].report \in {NoOne, session'[j].addr}
    BY <1>0, <2>1, <2>2, <2>6 DEF Session
  <2> QED
    BY <2>1, <2>2, <2>3, <2>4, <2>5, <2>6, OthersChange DEF UdpSide
<1>4. UdpKnows'
  <2>1. CASE UNCHANGED udp
    <3>1. \A j \in Slots : \A e \in Endpoints : OwnedByUdp(j, e)' => OwnedByUdp(j, e)
      BY <1>1, <2>1
    <3>2. ASSUME NEW j \in Slots, session'[j].active, session'[j].source = "Udp"
          PROVE  session[j].active /\ session[j].source = "Udp"
                 /\ session'[j].addr = session[j].addr
      <4>1. session'[j] # EmptySession
        BY <3>2 DEF EmptySession
      <4>2. ASSUME NEW v \in BOOLEAN, session'[j] = [session[j] EXCEPT !.idle = v]
            PROVE  session[j].active /\ session[j].source = "Udp"
                   /\ session'[j].addr = session[j].addr
        BY <1>0, <3>2, <4>2 DEF Session
      <4> QED
        BY <2>1, <3>2, <4>1, <4>2, OthersChange DEF UdpSide
    <3> QED
      BY <2>1, <3>1, <3>2 DEF UdpSide, UdpKnows
  <2>2. CASE udp' = UdpIdle
    BY <2>2 DEF UdpKnows, UdpIdle
  <2>3. ASSUME NEW e \in Endpoints,
               ReceiveController(e) \/ ReceiveMacro(e) \/ ReceiveDisconnect(e)
        PROVE  UdpKnows'
    <3>1. udp.pc = "idle" /\ udp'.from = e /\ (udp'.pc = "allocate" => udp'.slot = NoSlot)
      BY <2>3 DEF ReceiveController, ReceiveKnown, ReceiveNew, ReceiveMacro, ReceiveDisconnect
    <3>2. \A j \in Slots : OwnedByUdp(j, e) => j = udp'.slot
      BY <2>3 DEF ReceiveController, ReceiveKnown, ReceiveNew, ReceiveMacro, ReceiveDisconnect,
             HasSession, UdpSide, OneSessionPerEndpoint
    <3>3. udp'.slot \in Slots => OwnedByUdp(udp'.slot, e)
      BY <2>3 DEF ReceiveController, ReceiveKnown, ReceiveNew, ReceiveMacro, ReceiveDisconnect
    <3>4. \A j \in Slots : session'[j].addr = session[j].addr
      <4>1. CASE UNCHANGED session
        BY <4>1
      <4>2. ASSUME NEW i \in Slots, session' = [session EXCEPT ![i] = Heard(session[i])]
            PROVE  <3>4
        BY <1>0, <4>2 DEF TypeOK, Session, Heard
      <4> QED
        BY <2>3, <4>1, <4>2 DEF ReceiveController, ReceiveKnown, ReceiveNew, ReceiveMacro,
                                ReceiveDisconnect
    <3> QED
      BY <1>1, <3>1, <3>2, <3>3, <3>4 DEF UdpKnows, OwnedByUdp
  <2>4. CASE Allocate
    <3>1. CASE udp' = UdpIdle
      BY <2>2, <3>1
    <3>2. ASSUME NEW i \in Slots,
                 session' = [session EXCEPT ![i] = NewSession("Udp", udp.from, udp.kind = "macro")],
                 udp' = [udp EXCEPT !.pc = IF udp.kind = "macro" THEN "macro" ELSE "welcome",
                                    !.slot = i]
          PROVE  UdpKnows'
      <4>1. udp'.slot = i /\ udp'.from = udp.from /\ udp'.pc # "allocate"
            /\ udp.pc = "allocate"
        BY <2>4, <3>2 DEF TypeOK, Allocate
      <4>2. udp.from \in Endpoints /\ \A j \in Slots : ~OwnedByUdp(j, udp.from)
        BY <4>1 DEF UdpSide, UdpKnows
      <4>3. \A j \in Slots : OwnedByUdp(j, udp.from)' => j = i
        BY <1>1, <4>1, <4>2 DEF UdpSide, UdpKnows
      <4>4. session'[i].addr = udp.from
        BY <3>2 DEF TypeOK, NewSession
      <4> QED
        BY <4>1, <4>2, <4>3, <4>4 DEF UdpKnows
    <3> QED
      BY <2>4, <3>1, <3>2 DEF Allocate
  <2>5. CASE Welcome \/ DisconnectForget
    <3>1. CASE udp' = UdpIdle
      BY <2>2, <3>1
    <3>2. CASE udp'.from = udp.from /\ udp'.slot = udp.slot /\ udp'.pc \in {"apply", "drop"}
      BY <2>5, <3>2 DEF Welcome, DisconnectForget, UdpSide, UdpKnows, OwnedByUdp
    <3> QED
      BY <2>5, <3>1, <3>2 DEF Welcome, DisconnectForget, TypeOK
  <2>6. ASSUME NEW e \in Endpoints, Crash(e) \/ Return(e) PROVE UNCHANGED udp
    BY <2>6 DEF Crash, Return
  <2>7. CASE PortLive \/ WriterLook \/ \E i \in Slots : Silence(i) \/ MacroEnds(i)
    BY <2>1, <2>7 DEF PortLive, WriterLook, Silence, MacroEnds
  <2>8. ASSUME NEW r \in Releasers, BeginRelease(r) \/ ReleaseStep(r) PROVE UNCHANGED udp
    BY <2>8 DEF BeginRelease, ReleaseStep, ReleaseSlot, ReleaseStopMacros, EndRelease
  <2>9. CASE Apply \/ RefusePair \/ StartMacro \/ DisconnectDrop
    BY <2>2, <2>9 DEF Apply, RefusePair, StartMacro, DisconnectDrop
  <2>10. CASE UNCHANGED vars
    BY <2>1, <2>10 DEF vars
  <2> QED
    BY <2>1, <2>3, <2>4, <2>5, <2>6, <2>7, <2>8, <2>9, <2>10 DEF Next, UdpStep
<1> QED
  BY <1>2, <1>3, <1>4 DEF UdpSide

\* A step of the web thread gives no UDP client a session, changes the report of none, and
\* ends one only where WebKeepsUdp allows it.
LEMMA WebThreadFacts ==
  ASSUME WebTypeOK, WebThread, NEW j \in Slots
  PROVE  /\ UNCHANGED udp
         /\ \/ session'[j] = session[j]
            \/ session'[j].source # "Udp"
         /\ \/ session[j].active /\ session[j].source = "Udp" /\ ~session[j].idle
                 => session'[j] = session[j]
            \/ web.pc = "apply"
<1> USE SlotFacts
<1>0. /\ TypeOK /\ session \in [Slots -> Session] /\ session[j] \in Session
      /\ \A b \in Browsers : ws[b] \in Connection
  BY DEF WebTypeOK, TypeOK
<1>1. ASSUME NEW i \in Slots, ResetIfWeb(i)
      PROVE  /\ session[j].source # "WebSocket" => session'[j] = session[j]
             /\ session'[j] = session[j] \/ session'[j] = EmptySession
  BY <1>0, <1>1, ResetIfWebFacts
<1>2. CASE UNCHANGED vars
  BY <1>2 DEF vars
<1>3. ASSUME NEW b \in Browsers,
             ReceivePair(b) \/ TimerStale(b) \/ Closed(b) \/ CloseRefused(b)
      PROVE  /\ UNCHANGED udp
             /\ UNCHANGED session \/ (ws[b].slot \in Slots /\ ResetIfWeb(ws[b].slot))
  <2>1. ws[b].slot # NoSlot => ws[b].slot \in Slots
    BY <1>0 DEF Connection
  <2> QED
    BY <1>3, <2>1 DEF ReceivePair, TimerStale, Closed, CloseRefused, HangUp, LiveWeb
<1>4. CASE WebAllocate
  <2>1. CASE UNCHANGED session
    BY <1>4, <2>1 DEF WebAllocate
  <2>2. ASSUME NEW i \in Slots, FirstAvailable(i),
               session' = [session EXCEPT
                             ![i] = NewSession("WebSocket", NoOne, web.kind = "macro")]
        PROVE  /\ session'[j] = session[j] \/ session'[j].source = "WebSocket"
               /\ session[j].active /\ ~session[j].idle => session'[j] = session[j]
    <3>1. CASE i = j
      BY <1>0, <2>2, <3>1 DEF NewSession, FirstAvailable, Available
    <3>2. CASE i # j
      BY <1>0, <2>2, <3>2
    <3> QED
      BY <3>1, <3>2
  <2> QED
    BY <1>4, <2>1, <2>2 DEF WebAllocate
<1>5. CASE WebApply
  <2>1. ws[web.conn].slot \in Slots /\ web.pc = "apply" /\ UNCHANGED udp
    BY <1>5 DEF WebApply, WebTypeOK
  <2>2. session'[j] = session[j] \/ session'[j].source = "WebSocket"
    BY <1>0, <1>5, <2>1 DEF WebApply, Reporting, Session
  <2> QED
    BY <2>1, <2>2
<1> QED
  <2>1. ASSUME NEW b \in Browsers,
               Establish(b) \/ ReceiveInput(b) \/ ReceiveWebMacro(b) \/ TimerLost(b)
        PROVE  UNCHANGED vars
    BY <2>1 DEF Establish, ReceiveInput, ReceiveWebMacro, TimerLost
  <2>2. CASE WebStamp \/ WebStartMacro
    BY <2>2 DEF WebStamp, WebStartMacro, vars
  <2>3. ASSUME NEW b \in Browsers,
               ReceivePair(b) \/ TimerStale(b) \/ Closed(b) \/ CloseRefused(b)
        PROVE  /\ UNCHANGED udp
               /\ session'[j] = session[j] \/ session'[j] = EmptySession
               /\ session[j].source = "Udp" => session'[j] = session[j]
    BY <1>1, <1>3, <2>3
  <2>4. EmptySession.source # "Udp"
    BY DEF EmptySession
  <2> QED
    BY <1>2, <1>4, <1>5, <2>1, <2>2, <2>3, <2>4 DEF WebThread, WebStep, Callback

\* So what UDP clients rely on is out of the web thread's reach.
LEMMA WebKeepsUdpSide == WebTypeOK /\ UdpSide /\ WebThread => UdpSide'
<1> SUFFICES ASSUME WebTypeOK, UdpSide, WebThread PROVE UdpSide'
  OBVIOUS
<1>1. \A j \in Slots : session'[j] = session[j] \/ session'[j].source # "Udp"
  BY WebThreadFacts
<1>2. UNCHANGED udp
  BY WebThreadFacts, SlotFacts
<1>3. \A j \in Slots : \A e \in Endpoints : OwnedByUdp(j, e)' => OwnedByUdp(j, e)
  BY <1>1 DEF OwnedByUdp
<1>4. OneSessionPerEndpoint' /\ InputFromOwner'
  BY <1>1, <1>3 DEF UdpSide, OneSessionPerEndpoint, InputFromOwner
<1>5. UdpKnows'
  BY <1>1, <1>2, <1>3 DEF UdpSide, UdpKnows
<1> QED
  BY <1>4, <1>5 DEF UdpSide

-----------------------------------------------------------------------------

\* The initial state satisfies the invariant.
LEMMA WebInitInv == WebInit => WebIInv
<1> SUFFICES ASSUME WebInit PROVE WebIInv
  OBVIOUS
<1>1. TypeOK /\ OneSessionPerEndpoint /\ InputFromOwner
  BY InitInv DEF WebInit, IInv, Core
<1>2. udp.pc = "idle" /\ \A i \in Slots : ~session[i].active
  BY DEF WebInit, Init, UdpIdle, EmptySession
<1>3. WebTypeOK
  BY <1>1 DEF WebTypeOK, WebInit, Disconnected, Connection, WebIdle, WebPcs, WebKinds
<1> QED
  BY <1>1, <1>2, <1>3 DEF WebIInv, UdpKnows, WebKnows, WebInit, WebIdle

\* The invariant holds in every reachable state.
LEMMA WebInvariance == WebSpec => []WebIInv
<1>1. WebIInv /\ [WebNext]_webVars => WebIInv'
  <2> SUFFICES ASSUME WebIInv, [WebNext]_webVars PROVE WebIInv'
    OBVIOUS
  <2>1. WebTypeOK' /\ WebKnows'
    BY WebTypeInductive, WebKnowsInductive DEF WebIInv
  <2>2. UdpSide'
    BY OthersKeepUdpSide, WebKeepsUdpSide DEF WebIInv, WebTypeOK, UdpSide, WebNext, webVars
  <2> QED
    BY <2>1, <2>2 DEF WebIInv, UdpSide
<1> QED
  BY <1>1, WebInitInv, PTL DEF WebSpec

\* Slot numbers are in range when the web thread uses them, and a page that has gone
\* leaves no session behind that goes on playing its last report.
THEOREM WebSafe == WebSpec => []WebInv
<1>1. WebIInv => WebInv
  BY DEF WebIInv, WebInv, WebKnows, ClosedPageLeavesNothing
<1> QED
  BY <1>1, WebInvariance, PTL

\* No close, no timer and no refusal of a browser's connection ends the live session of a
\* UDP client.
THEOREM UdpKept == WebSpec => WebKeepsUdp
<1> DEFINE A == \A i \in Slots : \A e \in Endpoints :
                  WebThread /\ OwnedByUdp(i, e) /\ ~OwnedByUdp(i, e)' =>
                    session[i].idle \/ web.pc = "apply"
<1>1. ASSUME WebIInv, [WebNext]_webVars PROVE A
  BY <1>1, WebThreadFacts DEF WebIInv, OwnedByUdp
<1>2. WebIInv /\ [WebNext]_webVars => [A]_webVars
  BY <1>1
<1> QED
  BY <1>2, WebInvariance, PTL DEF WebSpec, WebKeepsUdp

\* Browsers on the same table do not make a UDP client hold two sessions.
THEOREM OneSessionWithWeb == WebSpec => []OneSessionPerEndpoint
<1>1. WebIInv => OneSessionPerEndpoint
  BY DEF WebIInv
<1> QED
  BY <1>1, WebInvariance, PTL

\* Nor do they put words into its mouth: what a UDP session plays comes from its owner,
\* although the slot the UDP loop remembers may have been a browser's in between.
THEOREM OwnerInputWithWeb == WebSpec => []InputFromOwner
<1>1. WebIInv => InputFromOwner
  BY DEF WebIInv
<1> QED
  BY <1>1, WebInvariance, PTL

=============================================================================
