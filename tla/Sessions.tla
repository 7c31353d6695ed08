------------------------------ MODULE Sessions ------------------------------
(***************************************************************************)
(* The table of client sessions of the server (server/src/app_state.cpp)   *)
(* and the threads that change it when only UDP clients are served:        *)
(*                                                                         *)
(*   - the UDP loop of main.cpp, one packet at a time.  It finds the slot  *)
(*     of the sender, lets go of the slot's mutex, and comes back to it    *)
(*     later to apply the packet: udp.pc names where it is in between;     *)
(*   - the USB writer, which drops sessions silent for CLIENT_TIMEOUT, slot *)
(*     by slot on every tick, but only while the port of the console is    *)
(*     live;                                                               *)
(*   - releasers: the threads that run release_switch2_active_session      *)
(*     (Raw Gadget event thread on SUSPEND, any poller of the sleep state, *)
(*     retry exhaustion), which walk the table slot by slot;               *)
(*   - server macros, which end by themselves.                             *)
(*                                                                         *)
(* A step is what one thread does while it holds the mutex of one slot.    *)
(* The network may lose or repeat any packet: receiving one is never       *)
(* forced, and a packet the server refuses (server full, dormant endpoint, *)
(* stale sequence number at the door) changes nothing and is a stuttering  *)
(* step.                                                                   *)
(*                                                                         *)
(* Clients here bring one controller each: the port count, which admission *)
(* also tests (free_virtual_slot_count), then agrees with the client count *)
(* and is left out.                                                        *)
(***************************************************************************)
EXTENDS Naturals, FiniteSets

CONSTANTS
  Endpoints,    \* UDP (address, port) pairs clients send from
  Browsers,     \* WebSocket connections (see WebSessions)
  NoOne,        \* "no client": unused address, neutral report, no macro
  Mortal,       \* bound of the model: the endpoints whose client may die
  Releasers,    \* threads that may run release_switch2_active_session
  MaxClients,   \* MAX_CLIENTS: size of the session and of the dormant table
  Capacity,     \* configured_client_capacity(): 1 in Switch 2 mode
  Switch2,      \* the gadget family is Switch 2 (Joy-Con pairs unsupported)
  MaxReleases,  \* bound of the model: forced releases explored
  Outages       \* bound of the model: the port of the console comes and goes

ASSUME SessionsAssumption ==
  /\ NoOne \notin Endpoints \cup Browsers
  /\ Endpoints \cap Browsers = {}
  /\ Mortal \subseteq Endpoints
  /\ MaxClients \in Nat \ {0}
  /\ Capacity \in 1..MaxClients
  /\ Switch2 \in BOOLEAN
  /\ MaxReleases \in Nat
  /\ Outages \in BOOLEAN

VARIABLES
  session,   \* g_ctx.clients
  macro,     \* per slot: the client whose server macro is running there
  dormant,   \* switch2_dormant_udp_addrs / _valid
  up,        \* the client process behind an endpoint is alive
  udp,       \* the UDP loop between two packets or inside one
  sweep,     \* per releaser: where release_switch2_active_session is
  sleepSeq,  \* switch2_sleep_seq
  writer     \* the slot the USB writer looks at next, NoSlot while its port is not live

vars == <<session, macro, dormant, up, udp, sweep, sleepSeq, writer>>

Slots   == 1..MaxClients
Clients == Endpoints \cup Browsers
NoSlot  == 0

Sources     == {"None", "Udp", "WebSocket"}
PacketKinds == {"input", "reset", "pair", "macro", "disconnect"}
UdpPcs      == {"idle", "allocate", "welcome", "apply", "refuse", "macro", "forget", "drop"}

(***************************************************************************)
(* A session.  "idle" abstracts last_rx_us: the last packet is older than  *)
(* CLIENT_TIMEOUT.  "report" is who produced the report the USB writer     *)
(* will send to the console.  "byMacro" is a history variable: a macro     *)
(* packet opened the session.  Nothing reads the address of a session that *)
(* is over: it is NoOne.                                                   *)
(***************************************************************************)
Session == [active : BOOLEAN, source : Sources, addr : Endpoints \cup {NoOne},
            first : BOOLEAN, idle : BOOLEAN, report : Clients \cup {NoOne},
            byMacro : BOOLEAN]

EmptySession == [active |-> FALSE, source |-> "None", addr |-> NoOne, first |-> TRUE,
                 idle |-> FALSE, report |-> NoOne, byMacro |-> FALSE]

NewSession(source, addr, byMacro) ==
  [active |-> TRUE, source |-> source, addr |-> addr, first |-> TRUE,
   idle |-> FALSE, report |-> NoOne, byMacro |-> byMacro]

OwnedByUdp(i, e) == /\ session[i].active
                    /\ session[i].source = "Udp"
                    /\ session[i].addr = e

\* last_rx_us = now: a packet of the session's client has been seen.
Heard(s) == [s EXCEPT !.idle = FALSE]

\* An input report of client c has been applied.
Reporting(s, c) == [s EXCEPT !.first = FALSE, !.idle = FALSE, !.report = c]

HasSession(e) == \E i \in Slots : OwnedByUdp(i, e)

Dormant(e) == \E i \in Slots : dormant[i] = e

\* active_client_count: sessions past their timeout are no longer counted.
ActiveClientCount == Cardinality({i \in Slots : session[i].active /\ ~session[i].idle})

\* allocate_client_session: a slot below the capacity, unused or timed out.
Available(i) == i <= Capacity /\ (~session[i].active \/ session[i].idle)

FirstAvailable(i) == Available(i) /\ \A j \in Slots : j < i => ~Available(j)

UdpIdle == [pc |-> "idle", kind |-> "input", from |-> NoOne, slot |-> NoSlot]

SweepIdle == [at |-> NoSlot, stopping |-> FALSE, released |-> FALSE]

Init ==
  /\ session  = [i \in Slots |-> EmptySession]
  /\ macro    = [i \in Slots |-> NoOne]
  /\ dormant  = [i \in Slots |-> NoOne]
  /\ up       = [e \in Endpoints |-> TRUE]
  /\ udp      = UdpIdle
  /\ sweep    = [r \in Releasers |-> SweepIdle]
  /\ sleepSeq = 0
  /\ writer = IF Outages THEN NoSlot ELSE 1

-----------------------------------------------------------------------------
(***************************************************************************)
(* The UDP loop.                                                           *)
(*                                                                         *)
(* Finding the sender's slot and the look-ups that follow it (dormancy,    *)
(* counts) are one step: only this thread gives a slot to an endpoint, so  *)
(* they commute with what the other threads do in between.                 *)
(***************************************************************************)

\* A controller packet of an endpoint that has a session.
ReceiveKnown(e, kind) ==
  /\ udp.pc = "idle" /\ up[e]
  /\ \E i \in Slots :
       /\ OwnedByUdp(i, e)
       /\ udp' = [pc |-> IF kind = "pair" THEN "refuse" ELSE "apply",
                  kind |-> kind, from |-> e, slot |-> i]
  /\ UNCHANGED <<session, macro, dormant, up, sweep, sleepSeq, writer>>

\* Seeded fault: the packet is let in without looking the endpoint up.
ReceiveNewUnsearched(e, kind) ==
  /\ udp.pc = "idle" /\ up[e]
  /\ ~Dormant(e) /\ kind # "pair" /\ ActiveClientCount < Capacity
  /\ udp' = [pc |-> "allocate", kind |-> kind, from |-> e, slot |-> NoSlot]
  /\ UNCHANGED <<session, macro, dormant, up, sweep, sleepSeq, writer>>

\* Seeded fault: the dormant table is not consulted.
ReceiveNewDormant(e, kind) ==
  /\ udp.pc = "idle" /\ up[e]
  /\ ~HasSession(e) /\ kind # "pair" /\ ActiveClientCount < Capacity
  /\ udp' = [pc |-> "allocate", kind |-> kind, from |-> e, slot |-> NoSlot]
  /\ UNCHANGED <<session, macro, dormant, up, sweep, sleepSeq, writer>>

\* A controller packet of an endpoint without one: refused while the endpoint is
\* dormant, for a Joy-Con pair in Switch 2 mode and when the server is full.
ReceiveNew(e, kind) ==
  /\ udp.pc = "idle" /\ up[e]
  /\ ~HasSession(e)
  /\ ~Dormant(e)
  /\ kind # "pair"
  /\ ActiveClientCount < Capacity
  /\ udp' = [pc |-> "allocate", kind |-> kind, from |-> e, slot |-> NoSlot]
  /\ UNCHANGED <<session, macro, dormant, up, sweep, sleepSeq, writer>>

ReceiveController(e) ==
  \E kind \in {"input", "reset"} \cup (IF Switch2 THEN {"pair"} ELSE {}) :
    ReceiveKnown(e, kind) \/ ReceiveNew(e, kind)

\* A macro text or a chunk of one: server_macro_client_for_sender keeps the
\* session of a known sender alive, and opens one for an unknown sender.
ReceiveMacro(e) ==
  /\ udp.pc = "idle" /\ up[e]
  /\ \/ \E i \in Slots :
          /\ OwnedByUdp(i, e)
          /\ session' = [session EXCEPT ![i] = Heard(session[i])]
          /\ udp' = [pc |-> "macro", kind |-> "macro", from |-> e, slot |-> i]
     \/ /\ ~HasSession(e)
        /\ ActiveClientCount < Capacity
        /\ udp' = [pc |-> "allocate", kind |-> "macro", from |-> e, slot |-> NoSlot]
        /\ UNCHANGED session
  /\ UNCHANGED <<macro, dormant, up, sweep, sleepSeq, writer>>

ReceiveDisconnect(e) ==
  /\ udp.pc = "idle" /\ up[e]
  /\ \E i \in Slots \cup {NoSlot} :
       /\ IF HasSession(e) THEN i # NoSlot /\ OwnedByUdp(i, e) ELSE i = NoSlot
       /\ udp' = [pc |-> "forget", kind |-> "disconnect", from |-> e, slot |-> i]
  /\ UNCHANGED <<session, macro, dormant, up, sweep, sleepSeq, writer>>

ForgetDormant(e) == [i \in Slots |-> IF dormant[i] = e THEN NoOne ELSE dormant[i]]

\* Seeded fault: the report of the slot's previous owner is not reset.
AllocateKeepingReport ==
  /\ udp.pc = "allocate"
  /\ \E i \in Slots :
       /\ FirstAvailable(i)
       /\ session' = [session EXCEPT
            ![i] = [NewSession("Udp", udp.from, udp.kind = "macro")
                      EXCEPT !.report = session[i].report]]
       /\ udp' = [udp EXCEPT !.pc = IF udp.kind = "macro" THEN "macro" ELSE "welcome",
                             !.slot = i]
  /\ UNCHANGED <<macro, dormant, up, sweep, sleepSeq, writer>>

\* allocate_client_session.
Allocate ==
  /\ udp.pc = "allocate"
  /\ \/ \E i \in Slots :
          /\ FirstAvailable(i)
          /\ session' = [session EXCEPT ![i] = NewSession("Udp", udp.from, udp.kind = "macro")]
          /\ udp' = [udp EXCEPT !.pc = IF udp.kind = "macro" THEN "macro" ELSE "welcome",
                                !.slot = i]
     \/ /\ \A i \in Slots : ~Available(i)
        /\ udp' = UdpIdle
        /\ UNCHANGED session
  /\ UNCHANGED <<macro, dormant, up, sweep, sleepSeq, writer>>

\* The controller path, which let the endpoint in because it was not dormant, still
\* clears its entry: a release since then has put it there.
Welcome ==
  /\ udp.pc = "welcome"
  /\ dormant' = ForgetDormant(udp.from)
  /\ udp' = [udp EXCEPT !.pc = "apply"]
  /\ UNCHANGED <<session, macro, up, sweep, sleepSeq, writer>>

\* "Apply packet": the slot is only required to be active.  A packet with an old
\* sequence number is dropped; which numbers are old is the subject of PacketOrder.
ApplyDrops(i) ==
  \/ ~session[i].active
  \/ ~session[i].first /\ udp.kind = "input"

Apply ==
  LET i == udp.slot IN
  /\ udp.pc = "apply"
  /\ udp' = UdpIdle
  /\ \/ ApplyDrops(i) /\ UNCHANGED session
     \/ /\ session[i].active
        /\ udp.kind = "reset"
        /\ session' = [session EXCEPT
             ![i] = NewSession("Udp", udp.from, session[i].byMacro)]
     \/ /\ session[i].active
        /\ udp.kind = "input"
        /\ session' = [session EXCEPT ![i] = Reporting(session[i], udp.from)]
  /\ UNCHANGED <<macro, dormant, up, sweep, sleepSeq, writer>>

\* reset_client_session: the slot is reset whoever holds it by now.  The code stops
\* the macros just after it has let go of the slot's mutex; one step here, because the
\* thread that closes the slot is the only one that starts macros.
CloseSlot(i) ==
  /\ session' = [session EXCEPT ![i] = EmptySession]
  /\ macro' = [macro EXCEPT ![i] = NoOne]

\* A Joy-Con pair from a known client in Switch 2 mode ends its session.
RefusePair ==
  /\ udp.pc = "refuse"
  /\ CloseSlot(udp.slot)
  /\ udp' = UdpIdle
  /\ UNCHANGED <<dormant, up, sweep, sleepSeq, writer>>

\* server_macro_start does not look at the session any more.  A text that does not
\* parse, or a chunk that is not the last one, starts nothing.
StartMacro ==
  /\ udp.pc = "macro"
  /\ macro' \in {macro, [macro EXCEPT ![udp.slot] = udp.from]}
  /\ udp' = UdpIdle
  /\ UNCHANGED <<session, dormant, up, sweep, sleepSeq, writer>>

\* Seeded fault: "cidx >= 0" is not tested.
DisconnectForgetUntested ==
  /\ udp.pc = "forget"
  /\ dormant' = ForgetDormant(udp.from)
  /\ udp' = [udp EXCEPT !.pc = "drop"]
  /\ UNCHANGED <<session, macro, up, sweep, sleepSeq, writer>>

\* FLAG_DISCONNECT, first half: the endpoint may come back.
DisconnectForget ==
  /\ udp.pc = "forget"
  /\ dormant' = ForgetDormant(udp.from)
  /\ udp' = IF udp.slot = NoSlot THEN UdpIdle ELSE [udp EXCEPT !.pc = "drop"]
  /\ UNCHANGED <<session, macro, up, sweep, sleepSeq, writer>>

\* Seeded fault: the macros of the slot go on.
DisconnectDropKeepingMacro ==
  /\ udp.pc = "drop"
  /\ session' = [session EXCEPT ![udp.slot] = EmptySession]
  /\ udp' = UdpIdle
  /\ UNCHANGED <<macro, dormant, up, sweep, sleepSeq, writer>>

\* FLAG_DISCONNECT, second half: reset_client_session on the slot found earlier.
DisconnectDrop ==
  /\ udp.pc = "drop"
  /\ CloseSlot(udp.slot)
  /\ udp' = UdpIdle
  /\ UNCHANGED <<dormant, up, sweep, sleepSeq, writer>>

UdpStep == \/ Allocate \/ Welcome \/ Apply \/ RefusePair \/ StartMacro
           \/ DisconnectForget \/ DisconnectDrop

-----------------------------------------------------------------------------
(***************************************************************************)
(* The USB writer, the macros and the passing of time.                     *)
(***************************************************************************)

\* CLIENT_TIMEOUT passes without a packet for slot i.
Silence(i) ==
  /\ session[i].active /\ ~session[i].idle
  /\ session' = [session EXCEPT ![i].idle = TRUE]
  /\ UNCHANGED <<macro, dormant, up, udp, sweep, sleepSeq, writer>>

\* Seeded fault: only sessions that have sent a report time out.
TimedOutReporting(i) ==
  session[i].active /\ session[i].idle /\ macro[i] = NoOne /\ session[i].report # NoOne

\* A silent session is over unless a macro runs.
TimedOut(i) == session[i].active /\ session[i].idle /\ macro[i] = NoOne

\* The port of the console opens, is configured or comes back: the inner loop begins.
PortLive ==
  /\ writer = NoSlot /\ writer' = 1
  /\ UNCHANGED <<session, macro, dormant, up, udp, sweep, sleepSeq>>

\* The snapshot loop, one slot after the other; having looked at all of them the writer
\* goes on with the next tick, or leaves the inner loop because the port is gone.
WriterLook ==
  LET i == writer IN
  /\ i \in Slots
  /\ session' = IF TimedOut(i) THEN [session EXCEPT ![i] = EmptySession] ELSE session
  /\ writer' \in IF i < MaxClients THEN {i + 1} ELSE IF Outages THEN {1, NoSlot} ELSE {1}
  /\ UNCHANGED <<macro, dormant, up, udp, sweep, sleepSeq>>

\* server_macro_running / server_macro_apply: the last step of the macro is over.
MacroEnds(i) ==
  /\ macro[i] # NoOne
  /\ macro' = [macro EXCEPT ![i] = NoOne]
  /\ UNCHANGED <<session, dormant, up, udp, sweep, sleepSeq, writer>>

-----------------------------------------------------------------------------
(***************************************************************************)
(* release_switch2_active_session: one slot after the other, each under    *)
(* its mutex; the macros of a released slot are stopped after the mutex    *)
(* has been let go.                                                        *)
(***************************************************************************)

BeginRelease(r) ==
  /\ sweep[r].at = NoSlot
  /\ sleepSeq < MaxReleases
  /\ sweep' = [sweep EXCEPT ![r] = [at |-> 1, stopping |-> FALSE, released |-> FALSE]]
  /\ UNCHANGED <<session, macro, dormant, up, udp, sleepSeq, writer>>

\* Seeded fault: the dormant table is indexed by client slot.
DormantEntryOfSlot(j, i, e) == j = i

\* Entry j of the dormant table takes e, the endpoint of slot i: the first entry that
\* is free or already e's, else entry i, whatever it holds.
DormantEntry(j, i, e) ==
  LET usable == {k \in Slots : dormant[k] \in {NoOne, e}}
  IN  \/ j \in usable /\ \A k \in usable : j <= k
      \/ j = i /\ usable = {}

NextSlot(r) == [sweep[r] EXCEPT !.at = @ + 1, !.stopping = FALSE]

ReleaseSlot(r) ==
  LET i == sweep[r].at
      e == session[i].addr
  IN
  /\ i \in Slots /\ ~sweep[r].stopping
  /\ \/ /\ ~session[i].active
        /\ sweep' = [sweep EXCEPT ![r] = NextSlot(r)]
        /\ UNCHANGED <<session, dormant>>
     \/ /\ session[i].active
        /\ session' = [session EXCEPT ![i] = EmptySession]
        /\ IF session[i].source = "Udp"
           THEN \E j \in Slots : /\ DormantEntry(j, i, e)
                                 /\ dormant' = [dormant EXCEPT ![j] = e]
           ELSE UNCHANGED dormant
        /\ sweep' = [sweep EXCEPT ![r] = [at |-> i, stopping |-> TRUE, released |-> TRUE]]
  /\ UNCHANGED <<macro, up, udp, sleepSeq, writer>>

ReleaseStopMacros(r) ==
  LET i == sweep[r].at IN
  /\ i \in Slots /\ sweep[r].stopping
  /\ macro' = [macro EXCEPT ![i] = NoOne]
  /\ sweep' = [sweep EXCEPT ![r] = NextSlot(r)]
  /\ UNCHANGED <<session, dormant, up, udp, sleepSeq, writer>>

EndRelease(r) ==
  /\ sweep[r].at = MaxClients + 1
  /\ sleepSeq' = IF sweep[r].released THEN sleepSeq + 1 ELSE sleepSeq
  /\ sweep' = [sweep EXCEPT ![r] = SweepIdle]
  /\ UNCHANGED <<session, macro, dormant, up, udp, writer>>

ReleaseStep(r) == ReleaseSlot(r) \/ ReleaseStopMacros(r) \/ EndRelease(r)

-----------------------------------------------------------------------------
(***************************************************************************)
(* The clients: a process dies without a word, and may come back on the    *)
(* same port.                                                              *)
(***************************************************************************)

Crash(e) ==
  /\ e \in Mortal /\ up[e]
  /\ up' = [up EXCEPT ![e] = FALSE]
  /\ UNCHANGED <<session, macro, dormant, udp, sweep, sleepSeq, writer>>

Return(e) ==
  /\ ~up[e]
  /\ up' = [up EXCEPT ![e] = TRUE]
  /\ UNCHANGED <<session, macro, dormant, udp, sweep, sleepSeq, writer>>

Next ==
  \/ \E e \in Endpoints : \/ ReceiveController(e) \/ ReceiveMacro(e)
                          \/ ReceiveDisconnect(e)
                          \/ Crash(e) \/ Return(e)
  \/ UdpStep
  \/ PortLive \/ WriterLook
  \/ \E i \in Slots : Silence(i) \/ MacroEnds(i)
  \/ \E r \in Releasers : BeginRelease(r) \/ ReleaseStep(r)

\* A packet of a dead client is never followed by another one: its silence is
\* certain.  The silence of a live client is not.
SilenceOfDead(i) ==
  /\ session[i].source = "Udp" /\ session[i].addr \in Endpoints
  /\ ~up[session[i].addr]
  /\ Silence(i)

(***************************************************************************)
(* The UDP thread and the releasers never stop, nor does the writer once   *)
(* it is in its inner loop; macros have a finite length and time passes.   *)
(* Nothing forces a client to send, the network to deliver, or the console *)
(* to keep its port or to take it up again.                                *)
(***************************************************************************)
Fairness ==
  /\ WF_vars(UdpStep) /\ WF_vars(WriterLook)
  /\ \A r \in Releasers : WF_vars(ReleaseStep(r))
  /\ \A i \in Slots : WF_vars(MacroEnds(i)) /\ WF_vars(SilenceOfDead(i))

Spec     == Init /\ [][Next]_vars
FairSpec == Spec /\ Fairness

-----------------------------------------------------------------------------
(***************************************************************************)
(* What must hold.                                                         *)
(***************************************************************************)

\* Every variable keeps its type, and a slot number used as an index is in range.
TypeOK ==
  /\ session  \in [Slots -> Session]
  /\ macro    \in [Slots -> Clients \cup {NoOne}]
  /\ dormant  \in [Slots -> Endpoints \cup {NoOne}]
  /\ up       \in [Endpoints -> BOOLEAN]
  /\ udp      \in [pc : UdpPcs, kind : PacketKinds, from : Endpoints \cup {NoOne},
                   slot : Slots \cup {NoSlot}]
  /\ udp.pc \in {"welcome", "apply", "refuse", "macro", "drop"} => udp.slot \in Slots
  /\ sweep    \in [Releasers -> [at : 0..(MaxClients + 1), stopping : BOOLEAN,
                                 released : BOOLEAN]]
  /\ sleepSeq \in Nat
  /\ writer   \in Slots \cup {NoSlot}

\* One endpoint never holds two sessions: main.cpp looks an endpoint up in one
\* step and opens a session for it in a later one, and stops at the first match.
OneSessionPerEndpoint ==
  \A i, j \in Slots : \A e \in Endpoints :
    OwnedByUdp(i, e) /\ OwnedByUdp(j, e) => i = j

\* What the UDP loop found out about the sender at the door is still true when it
\* acts on it, whatever the other threads did in between: the slot it remembers is
\* the sender's or nobody's, the sender has no other one, and an endpoint about to be
\* let in by the controller path is not dormant.
LookupStaysTrue ==
  udp.pc # "idle" =>
    /\ udp.from \in Endpoints
    /\ \A j \in Slots : OwnedByUdp(j, udp.from) => j = udp.slot
    /\ udp.slot \in Slots /\ session[udp.slot].active => OwnedByUdp(udp.slot, udp.from)
    /\ udp.pc = "allocate" /\ udp.kind # "macro" => ~Dormant(udp.from)

\* The report the writer plays to the console for a UDP session was sent by the
\* endpoint that holds the session, although "Apply packet" trusts a slot number
\* found before the mutex was released.
InputFromOwner ==
  \A i \in Slots :
    session[i].active /\ session[i].source = "Udp" =>
      session[i].report \in {NoOne, session[i].addr}

\* An endpoint blocked by a forced release gets a session back only through a macro
\* packet: the controller path of main.cpp never lets one in.
DormantOnlyByMacro ==
  \A i \in Slots : \A e \in Endpoints :
    OwnedByUdp(i, e) /\ Dormant(e) => session[i].byMacro

\* An endpoint stops being blocked in three cases only: its own FLAG_DISCONNECT, the
\* end of an admission that was under way when it was released, or the loss of its
\* entry when the table of MAX_CLIENTS entries is full.
DormantLeavesOnEdge ==
  [][\A e \in Endpoints :
       Dormant(e) /\ ~Dormant(e)' =>
         \/ udp.pc \in {"forget", "welcome"} /\ udp.from = e
         \/ \A i \in Slots : dormant[i] # NoOne]_vars

\* Handling a FLAG_DISCONNECT leaves the sender without a session and stops the
\* macro of the slot it held, whatever was released meanwhile.
DisconnectDone(e) == udp.kind = "disconnect" /\ udp.from = e /\ udp'.pc = "idle"

DisconnectFrees ==
  [][\A e \in Endpoints : \A i \in Slots \cup {NoSlot} :
       DisconnectDone(e) /\ udp.slot = i =>
         /\ ~HasSession(e)'
         /\ i # NoSlot => macro'[i] = NoOne]_vars

\* A client that dies without FLAG_DISCONNECT does not keep its slot for ever, even if it
\* left a macro running, as long as the console keeps the port or comes back to it again
\* and again: only the writer's inner loop looks at CLIENT_TIMEOUT, but it cannot be left
\* before it has looked at every slot.
CrashedClientFreed ==
  []<>(writer # NoSlot) =>
    \A e \in Endpoints : ~up[e] ~> (up[e] \/ ~HasSession(e))

\* CLIENT_TIMEOUT alone does not free it: while the port is not live nobody looks.  It does
\* not hold, and no run checks it.
CrashedClientFreedAlways ==
  \A e \in Endpoints : ~up[e] ~> (up[e] \/ ~HasSession(e))

\* What app_state.hpp says of dormant endpoints: their packets open no session until
\* they send FLAG_DISCONNECT.  It does not hold (DormantOnlyByMacro), and no run checks it.
DormantIsBlocked == \A e \in Endpoints : Dormant(e) => ~HasSession(e)

=============================================================================
