---------------------------- MODULE FamilyChange ----------------------------
(***************************************************************************)
(* A client asks for another controller family: over UDP, served by main's *)
(* loop (main.cpp), or from a page, served by the web thread               *)
(* (web_server.cpp).  The server restarts only if no other client plays.   *)
(* The thread looks at one slot after the other, each under its mutex,     *)
(* then answers and stops the server; meanwhile the other thread lets      *)
(* clients in and sessions end.  How sessions come and go is said by       *)
(* Sessions and WebSessions, what a restart does by ServerLifecycle.       *)
(*                                                                         *)
(* A request over UDP comes from a socket of its own, so the session of    *)
(* the requester is known by its host.  A page goes by ws_slot.            *)
(***************************************************************************)
EXTENDS Naturals

CONSTANTS
  MaxClients,  \* MAX_CLIENTS
  Hosts,       \* addresses of UDP clients
  Pages,       \* WebSocket connections
  Nobody       \* plays on a free slot; no host, no page

VARIABLES
  session,     \* g_ctx.clients: who plays, and whether past CLIENT_TIMEOUT
  remembered,  \* ws_slot of each page
  scan,        \* per thread: the request in hand and the slot it looks at next
  running,     \* g_ctx.running
  steady       \* history: the sessions heard of when the scan began that played on since

vars == <<session, remembered, scan, running, steady>>

Slots   == 1..MaxClients
NoSlot  == 0
Threads == {"udp", "web"}
Clients(t) == IF t = "udp" THEN Hosts ELSE Pages

Free    == [by |-> Nobody, quiet |-> FALSE]
Idle(t) == scan[t].at = 0
NoScan  == [by |-> Nobody, at |-> 0]

TypeOK ==
  /\ session \in [Slots -> [by : Hosts \cup Pages \cup {Nobody}, quiet : BOOLEAN]]
  /\ remembered \in [Pages -> Slots \cup {NoSlot}]
  /\ scan \in [Threads -> [by : Hosts \cup Pages \cup {Nobody}, at : 0..(MaxClients + 1)]]
  /\ running \in BOOLEAN
  /\ steady \in [Threads -> SUBSET Slots]

Init ==
  /\ session = [i \in Slots |-> Free] /\ remembered = [p \in Pages |-> NoSlot]
  /\ scan = [t \in Threads |-> NoScan] /\ running = TRUE
  /\ steady = [t \in Threads |-> {}]

-----------------------------------------------------------------------------
(* The sessions.                                                           *)

Plays(i) == session[i].by # Nobody /\ ~session[i].quiet

Becomes(i, s) ==
  /\ session' = [session EXCEPT ![i] = s]
  /\ steady' = [t \in Threads |-> {j \in steady[t] : j # i \/ (s.by = session[i].by /\ ~s.quiet)}]

\* A packet of a UDP client: its session is found, or one is opened on a slot where nobody
\* plays.  main's loop serves nobody while it handles a request.
PlayUdp(h, i) ==
  /\ Idle("udp") /\ running
  /\ session[i].by = h \/ ~Plays(i)
  /\ Becomes(i, [by |-> h, quiet |-> FALSE])
  /\ UNCHANGED <<remembered, scan, running>>

\* A packet of a page: it is stored in the slot the page remembers, which may have changed
\* hands since the thread looked, or a session is opened on one where nobody plays.
PlayWeb(p, i) ==
  /\ Idle("web")
  /\ remembered[p] = i \/ (remembered[p] = NoSlot /\ ~Plays(i))
  /\ Becomes(i, [by |-> p, quiet |-> FALSE])
  /\ remembered' = [remembered EXCEPT ![p] = i]
  /\ UNCHANGED <<scan, running>>

\* The page is closed, or finds that its session has ended.
Forget(p) ==
  /\ Idle("web") /\ remembered[p] # NoSlot
  /\ remembered' = [remembered EXCEPT ![p] = NoSlot]
  /\ UNCHANGED <<session, scan, running, steady>>

\* CLIENT_TIMEOUT passes without a packet.
Silence(i) ==
  /\ Plays(i)
  /\ Becomes(i, [session[i] EXCEPT !.quiet = TRUE])
  /\ UNCHANGED <<remembered, scan, running>>

\* A session is released, disconnected, or past its timeout.
End(i) ==
  /\ session[i].by # Nobody
  /\ Becomes(i, Free)
  /\ UNCHANGED <<remembered, scan, running>>

-----------------------------------------------------------------------------
(* The request.                                                            *)

\* main's loop takes no packet once the server stops, the web thread does until it is joined.
Ask(t, c) ==
  /\ Idle(t) /\ (t = "udp" => running)
  /\ scan' = [scan EXCEPT ![t] = [by |-> c, at |-> 1]]
  /\ steady' = [steady EXCEPT ![t] = {i \in Slots : Plays(i)}]
  /\ UNCHANGED <<session, remembered, running>>

\* The slots that do not count against the requester.
Exempt(t, i) ==
  IF t = "udp" THEN session[i].by = scan[t].by ELSE remembered[scan[t].by] = i

Blocks(t, i) == session[i].by # Nobody /\ ~Exempt(t, i)

\* A bug the checks must find: the scan ends at the first slot that is free.
LookToFirstFree(t) ==
  LET i == scan[t].at IN
  /\ i \in Slots
  /\ \/ /\ Blocks(t, i)
        /\ scan' = [scan EXCEPT ![t] = NoScan]
     \/ /\ Blocks(t, i) => session[i].quiet
        /\ scan' = [scan EXCEPT ![t].at = IF session[i].by = Nobody THEN MaxClients + 1 ELSE i + 1]
  /\ UNCHANGED <<session, remembered, running, steady>>

\* The next slot: SERVER_FULL, or on to the next (the web thread counts all of them before
\* it says so).  Timeouts are as of the start of the scan: a session that is quiet by now may
\* not have been then.
Look(t) ==
  LET i == scan[t].at IN
  /\ i \in Slots
  /\ \/ /\ Blocks(t, i)
        /\ scan' = [scan EXCEPT ![t] = NoScan]
     \/ /\ Blocks(t, i) => session[i].quiet
        /\ scan' = [scan EXCEPT ![t].at = i + 1]
  /\ UNCHANGED <<session, remembered, running, steady>>

\* RESTARTING, and the server stops; or UNCHANGED, for the family it has already.
Reply(t) ==
  /\ scan[t].at = MaxClients + 1
  /\ scan' = [scan EXCEPT ![t] = NoScan]
  /\ running' \in {running, FALSE}
  /\ UNCHANGED <<session, remembered, steady>>

\* main joins its threads and executes the program again.
Restart ==
  /\ ~running /\ \A t \in Threads : Idle(t)
  /\ session' = [i \in Slots |-> Free] /\ remembered' = [p \in Pages |-> NoSlot]
  /\ running' = TRUE /\ steady' = [t \in Threads |-> {}]
  /\ UNCHANGED scan

Next ==
  \/ \E i \in Slots : \/ \E h \in Hosts : PlayUdp(h, i)
                        \/ \E p \in Pages : PlayWeb(p, i)
                        \/ Silence(i) \/ End(i)
  \/ \E p \in Pages : Forget(p)
  \/ \E t \in Threads : (\E c \in Clients(t) : Ask(t, c)) \/ Look(t) \/ Reply(t)
  \/ Restart

Spec == Init /\ [][Next]_vars

-----------------------------------------------------------------------------
(* Properties.                                                             *)

Promises(t) == scan[t].at = MaxClients + 1 /\ scan'[t].at = 0 /\ ~running'

\* Changing the family mid-session would disrupt everyone but the lone requester
\* (protocol.hpp:51-53): no client is promised a restart over another that was playing when it
\* asked and played on until it was answered, whoever came, went or changed slots meanwhile.
\* (But over the one that took the slot which the asking page takes for its own.)
SteadyAreSafe ==
  [][\A t \in Threads : Promises(t) => \A i \in steady[t] : Exempt(t, i)]_vars

\* That the exemption is the requester's own session.  It does not hold, and no run checks it:
\* ws_slot is not looked up before it is used, and may be another client's slot by now.
OnlyTheRequesterIsExempt ==
  [][\A t \in Threads : Promises(t) => \A i \in steady[t] : session[i].by = scan[t].by]_vars

\* That nobody else plays when the restart is promised.  It does not hold, and no run checks
\* it: while main's thread looks at the slots the web thread lets clients in, and the other way
\* round, on slots that have been looked at.
NobodyElsePlays ==
  [][\A t \in Threads : Promises(t) =>
       \A i \in Slots : Plays(i) => Exempt(t, i)]_vars
=============================================================================
