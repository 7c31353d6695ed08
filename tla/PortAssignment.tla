--------------------------- MODULE PortAssignment ---------------------------
(***************************************************************************)
(* Which pad of which client plays on which port of the console, with a    *)
(* Switch 1 or Hori gadget (with a Switch 2 gadget there is one client,    *)
(* one pad and one port).                                                  *)
(*                                                                         *)
(*   - Admitters are the threads that open sessions: the UDP loop          *)
(*     (main.cpp) and libwebsockets (web_server.cpp).  They count the      *)
(*     ports that are free and come back to the table later.               *)
(*   - The USB writer copies the sessions, lays the ports out anew         *)
(*     (reconcile_hw_slots) and tells each session its ports, one session  *)
(*     after the other.  It does so on every tick while its port is live;  *)
(*     a tick that finds that the console must read another identity ends  *)
(*     with the layout made and nobody told.                               *)
(*   - Server macros drive pads, shown or not, until they end.  A pad that *)
(*     only a macro drives gets a port; nobody counts it before it has it. *)
(*                                                                         *)
(* The copy is one step although it locks one slot after the other: a mix  *)
(* of sessions copied at different times is also a table the sessions can  *)
(* be in at once, as reports show any pads they like.  Every client here   *)
(* says which of its pads are there (uses_pad_presence).                   *)
(*                                                                         *)
(* Ports, clients and pads are numbered from 0 as in the code.             *)
(***************************************************************************)
EXTENDS Integers, FiniteSets, FiniteSetsExt

CONSTANTS
  MaxClients,  \* MAX_CLIENTS
  NPads,       \* pads of a report
  NPorts,      \* configured_virtual_port_count()
  Shown,       \* bound of the model: the sets of pads reports show
  MacroPads,   \* bound of the model: the clients and pads macros are started for
  Udp,         \* the UDP loop
  Admitters,   \* the threads that open sessions: the UDP loop, the web thread
  Nobody       \* owner of a port nobody plays on; no thread

ASSUME PortAssumption ==
  /\ MaxClients \in Nat \ {0} /\ NPads \in Nat \ {0} /\ NPorts \in Nat \ {0}
  /\ Udp \in Admitters /\ Nobody \notin Admitters
  /\ Shown \subseteq [0..(NPads - 1) -> {"absent", "idlePair", "single", "pair"}]
  /\ MacroPads \subseteq (0..(MaxClients - 1)) \X (0..(NPads - 1))

VARIABLES
  client,  \* g_ctx.clients: what port assignment reads of a session
  macros,  \* g_ctx.server_macros: the pads of each slot a macro drives
  told,    \* client_assignment: the ports a session has been told
  hw,      \* hw_slots of the writer
  writer,  \* where the writer is in its tick, and its copy of the sessions
  admit    \* where each admitter is with the packet in hand

vars == <<client, macros, told, hw, writer, admit>>

Clients == 0..(MaxClients - 1)
Pads    == 0..(NPads - 1)
Ports   == 0..(NPorts - 1)
None    == -1

\* What a report says of a pad: absent, absent but configured as a pair of Joy-Con, one
\* controller, or a pair.
Kinds   == {"absent", "idlePair", "single", "pair"}
Layouts == [Pads -> Kinds]

NoPads == [s \in Pads |-> "absent"]

\* "by" is the thread that serves the session (InputSource).
\* "quiet": the last packet is older than CLIENT_TIMEOUT.
Session == [active : BOOLEAN, quiet : BOOLEAN, by : Admitters \cup {Nobody}, pads : Layouts]

NoSession == [active |-> FALSE, quiet |-> FALSE, by |-> Nobody, pads |-> NoPads]

\* A pad in hand is a client and a pad number; "half" is pair_member, pair_right.
Owner == [client : Clients, pad : Pads, half : {"whole", "left", "right"}]

ASSUME NobodyAssumption == Nobody \notin Owner

(***************************************************************************)
(* Requests.  A session that shows no pad asks for what its first one is   *)
(* configured as; so does, of the layout, a pad a macro drives.            *)
(***************************************************************************)

Absent(kind) == kind \in {"absent", "idlePair"}

Configured(kind) == IF kind \in {"idlePair", "pair"} THEN "pair" ELSE "single"

Effective(pads) ==
  IF \E s \in Pads : ~Absent(pads[s]) THEN pads
  ELSE [NoPads EXCEPT ![0] = Configured(pads[0])]

\* The pads of a session as the layout sees them.
Driven(pads, by) == [s \in Pads |-> IF s \in by THEN Configured(pads[s]) ELSE pads[s]]
Playing == [c \in Clients |-> [client[c] EXCEPT !.pads = Driven(client[c].pads, macros[c])]]

Size(kind) == CASE kind = "pair" -> 2 [] kind = "single" -> 1 [] Absent(kind) -> 0

\* requested_virtual_slots_for_report: what a report asks for, a session's or a newcomer's.
Demand(pads) == SumFunction([s \in Pads |-> Size(Effective(pads)[s])])

\* Every pad, in the order in which reconcile_hw_slots goes through them.
Turns == MaxClients * NPads
InOrder == [n \in 1..Turns |-> [client |-> (n - 1) \div NPads, pad |-> (n - 1) % NPads]]

Wants(table, r, kind) ==
  table[r.client].active /\ Effective(table[r.client].pads)[r.pad] = kind

(***************************************************************************)
(* reconcile_hw_slots: "old" is the layout of the last tick, "new" the one *)
(* being made.                                                             *)
(***************************************************************************)

EmptyLayout == [h \in Ports |-> Nobody]

Owned(r, half) == [client |-> r.client, pad |-> r.pad, half |-> half]

\* The lowest element of the first set that has one.
Preferred(choices) ==
  LET full == {k \in DOMAIN choices : choices[k] # {}}
  IN  IF full = {} THEN None ELSE Min(choices[Min(full)])

\* pair_base_free, for the bases that are considered.
FreeBases(new) ==
  {b \in Ports : b % 2 = 0 /\ b + 1 \in Ports /\ new[b] = Nobody /\ new[b + 1] = Nobody}

\* Seeded fault: a pair is not given another group than its pad's own.
PlacePairAtHome(old, new, r) ==
  LET held == {b \in FreeBases(new) : old[b] = Owned(r, "left") /\ old[b + 1] = Owned(r, "right")}
      base == Preferred(<<held, FreeBases(new) \cap {2 * r.pad}>>)
  IN  IF base = None THEN new
      ELSE [new EXCEPT ![base] = Owned(r, "left"), ![base + 1] = Owned(r, "right")]

PlacePair(old, new, r) ==
  LET held == {b \in FreeBases(new) : old[b] = Owned(r, "left") /\ old[b + 1] = Owned(r, "right")}
      base == Preferred(<<held, FreeBases(new) \cap {2 * r.pad}, FreeBases(new)>>)
  IN  IF base = None THEN new
      ELSE [new EXCEPT ![base] = Owned(r, "left"), ![base + 1] = Owned(r, "right")]

\* Seeded fault: the port held so far is not looked up.
PlaceSingleAnew(old, new, r) ==
  LET free == {h \in Ports : new[h] = Nobody}
      port == Preferred(<<free \cap {r.pad}, free>>)
  IN  IF port = None THEN new ELSE [new EXCEPT ![port] = Owned(r, "whole")]

PlaceSingle(old, new, r) ==
  LET free == {h \in Ports : new[h] = Nobody}
      held == {h \in free : old[h] = Owned(r, "whole")}
      port == Preferred(<<held, free \cap {r.pad}, free>>)
  IN  IF port = None THEN new ELSE [new EXCEPT ![port] = Owned(r, "whole")]

\* A pad's turn, when the requests of one kind are placed.
Turn(kind, old, table, new, r) ==
  IF ~Wants(table, r, kind) THEN new
  ELSE IF kind = "pair" THEN PlacePair(old, new, r) ELSE PlaceSingle(old, new, r)

\* The loop over the requests of one kind.
Placed(kind, old, table, start) ==
  LET placed[n \in 0..Turns] ==
        IF n = 0 THEN start ELSE Turn(kind, old, table, placed[n - 1], InOrder[n])
  IN  placed[Turns]

\* Pairs first, then singles.
Reconcile(old, table) ==
  Placed("single", old, table, Placed("pair", old, table, EmptyLayout))

PortsOf(layout, c) == {h \in Ports : layout[h] # Nobody /\ layout[h].client = c}

-----------------------------------------------------------------------------

\* at = 0: between two ticks; at = Untold: between two ticks, the last of which told nobody;
\* at = c + 1: about to tell client c.
Untold == -1
WriterIdle == [at |-> 0, copied |-> {}]
WriterCut  == [at |-> Untold, copied |-> {}]
AdmitIdle  == [pc |-> "idle", pads |-> NoPads, slot |-> None]

Init == /\ client = [c \in Clients |-> NoSession]
        /\ macros = [c \in Clients |-> {}]
        /\ told = [c \in Clients |-> {}]
        /\ hw = EmptyLayout
        /\ writer = WriterIdle
        /\ admit = [t \in Admitters |-> AdmitIdle]

(***************************************************************************)
(* Admission.                                                              *)
(***************************************************************************)

\* Sessions past their timeout are not counted any more.
Counted(c) == client[c].active /\ ~client[c].quiet

\* Seeded fault: only the ports of the layout in force are counted.
UsedOfLayout == SumFunction([c \in Clients |-> IF Counted(c) THEN Cardinality(told[c]) ELSE 0])

\* active_requested_virtual_slots, before it is clamped
Used == SumFunction(
          [c \in Clients |-> IF Counted(c)
                              THEN Max({Cardinality(told[c]), Demand(client[c].pads)})
                              ELSE 0])

\* free_virtual_slot_count
FreePorts == IF Used >= NPorts THEN 0 ELSE NPorts - Used

\* The first packet of a new client is let in.
LetIn(t, pads) ==
  /\ admit[t].pc = "idle"
  /\ Cardinality({c \in Clients : Counted(c)}) < MaxClients
  /\ Demand(pads) <= FreePorts
  /\ admit' = [admit EXCEPT ![t] = [pc |-> "allocate", pads |-> pads, slot |-> None]]
  /\ UNCHANGED <<macros, client, told, hw, writer>>

\* Seeded fault: the assignment of the slot's last session is left in place.
AllocateKeepingAssignment(t) ==
  /\ admit[t].pc = "allocate"
  /\ LET free == {c \in Clients : ~Counted(c)}
     IN  \/ /\ free # {}
            /\ client' = [client EXCEPT ![Min(free)] =
                            [active |-> TRUE, quiet |-> FALSE, by |-> t, pads |-> NoPads]]
            /\ admit' = [admit EXCEPT ![t].pc = "store", ![t].slot = Min(free)]
         \/ /\ free = {}
            /\ admit' = [admit EXCEPT ![t] = AdmitIdle]
            /\ UNCHANGED client
  /\ UNCHANGED <<macros, told, hw, writer>>

\* allocate_client_session
Allocate(t) ==
  /\ admit[t].pc = "allocate"
  /\ LET free == {c \in Clients : ~Counted(c)}
     IN  \/ /\ free # {}
            /\ client' = [client EXCEPT ![Min(free)] =
                            [active |-> TRUE, quiet |-> FALSE, by |-> t, pads |-> NoPads]]
            /\ told' = [told EXCEPT ![Min(free)] = {}]
            /\ admit' = [admit EXCEPT ![t].pc = "store", ![t].slot = Min(free)]
         \/ /\ free = {}
            /\ admit' = [admit EXCEPT ![t] = AdmitIdle]
            /\ UNCHANGED <<client, told>>
  /\ UNCHANGED <<macros, hw, writer>>

\* The report of the packet is stored.  The UDP loop drops it if the session has been
\* released meanwhile, the web thread makes the session active again.
Store(t) ==
  LET c == admit[t].slot IN
  /\ admit[t].pc = "store"
  /\ client' = IF client[c].active \/ t # Udp
               THEN [client EXCEPT ![c].active = TRUE, ![c].by = IF t = Udp THEN @ ELSE t,
                                   ![c].quiet = FALSE, ![c].pads = admit[t].pads]
               ELSE client
  /\ admit' = [admit EXCEPT ![t] = AdmitIdle]
  /\ UNCHANGED <<macros, told, hw, writer>>

\* A later packet of a client: no port is counted for the pads it shows.
Report(t, c, pads) ==
  /\ admit[t].pc = "idle"
  /\ client[c].active /\ client[c].by = t
  /\ client' = [client EXCEPT ![c].pads = pads, ![c].quiet = FALSE]
  /\ UNCHANGED <<macros, told, hw, writer, admit>>

\* FLAG_RESET from a UDP client: the session goes on and forgets its ports.  (In the
\* packet that opens a session it leaves what LetIn(t, NoPads) leaves.)
Reset(c) ==
  /\ admit[Udp].pc = "idle"
  /\ client[c].active /\ client[c].by = Udp
  /\ client' = [client EXCEPT ![c].pads = NoPads, ![c].quiet = FALSE]
  /\ told' = [told EXCEPT ![c] = {}]
  /\ UNCHANGED <<macros, hw, writer, admit>>

\* CLIENT_TIMEOUT passes without a packet.
Silence(c) ==
  /\ client[c].active /\ ~client[c].quiet
  /\ client' = [client EXCEPT ![c].quiet = TRUE]
  /\ UNCHANGED <<macros, told, hw, writer, admit>>

\* A session is reset, its macros stopped: disconnect, closed page or forced release.
End(c) ==
  /\ client[c].active
  /\ client' = [client EXCEPT ![c] = NoSession]
  /\ macros' = [macros EXCEPT ![c] = {}]
  /\ told' = [told EXCEPT ![c] = {}]
  /\ UNCHANGED <<hw, writer, admit>>

\* server_macro_start for a sender, whose session is heard of; it may be over by now, or another
\* one's.  The pad of a macro sent in one piece counts as shown until the next report.  (A
\* sender without a session is let in first, as with no pads.)
StartMacro(t, c, s) ==
  /\ admit[t].pc = "idle"
  /\ \E shows \in BOOLEAN :
       client' = IF client[c].active
                 THEN [client EXCEPT ![c].quiet = @ /\ client[c].by # t,
                                     ![c].pads[s] = IF shows THEN Configured(@) ELSE @]
                 ELSE client
  /\ macros' = [macros EXCEPT ![c] = @ \cup {s}]
  /\ UNCHANGED <<told, hw, writer, admit>>

\* Its last step is over.
MacroEnds(c, s) ==
  /\ s \in macros[c] /\ macros' = [macros EXCEPT ![c] = @ \ {s}]
  /\ UNCHANGED <<client, told, hw, writer, admit>>

-----------------------------------------------------------------------------
(***************************************************************************)
(* The writer's tick: the sessions are copied, silent ones without a macro *)
(* dropped, the ports laid out (hw is the writer's own), and the sessions  *)
(* told.                                                                   *)
(***************************************************************************)

Dropped == {c \in Clients : client[c].active /\ client[c].quiet /\ macros[c] = {}}

LayOut ==
  /\ writer.at \in {Untold, 0}
  /\ client' = [c \in Clients |-> IF c \in Dropped THEN NoSession ELSE client[c]]
  /\ UNCHANGED <<macros, told, admit>>
  /\ hw' = Reconcile(hw, Playing')
  /\ writer' = [at |-> 1, copied |-> {c \in Clients : client'[c].active}]

\* publish_client_assignment_event, for a session that was active when it was copied:
\* the slot may hold another one by now.
Tell ==
  LET c == writer.at - 1 IN
  /\ c \in Clients
  /\ told' = IF c \in writer.copied /\ client[c].active
             THEN [told EXCEPT ![c] = PortsOf(hw, c)] ELSE told
  /\ writer' = IF c + 1 \in Clients THEN [writer EXCEPT !.at = @ + 1] ELSE WriterIdle
  /\ UNCHANGED <<client, macros, hw, admit>>

\* The gadget is set up anew for another identity, before anybody is told: the writer leaves
\* its inner loop, and the layout stays.
CutShort ==
  /\ writer.at = 1 /\ writer' = WriterCut
  /\ UNCHANGED <<client, macros, told, hw, admit>>

Next ==
  \/ \E t \in Admitters :
       \/ \E pads \in Shown : LetIn(t, pads) \/ \E c \in Clients : Report(t, c, pads)
       \/ Allocate(t) \/ Store(t)
       \/ \E m \in MacroPads : StartMacro(t, m[1], m[2])
  \/ \E c \in Clients : \/ Reset(c) \/ Silence(c) \/ End(c)
                         \/ \E s \in Pads : MacroEnds(c, s)
  \/ LayOut \/ Tell \/ CutShort

Spec == Init /\ [][Next]_vars

-----------------------------------------------------------------------------

\* The ports the sessions of a table ask for.
TotalDemand(table) ==
  SumFunction([c \in Clients |-> IF table[c].active THEN Demand(table[c].pads) ELSE 0])

\* Types.  The halves of a pair are on the two ports of a group, left before right, and
\* belong to one pad.
TypeOK ==
  /\ client \in [Clients -> Session]
  /\ macros \in [Clients -> SUBSET Pads]
  /\ told \in [Clients -> SUBSET Ports]
  /\ hw \in [Ports -> Owner \cup {Nobody}]
  /\ writer \in [at : Untold..MaxClients, copied : SUBSET Clients]
  /\ admit \in [Admitters -> [pc : {"idle", "allocate", "store"}, pads : Layouts,
                              slot : Clients \cup {None}]]
  /\ \A h \in Ports : hw[h] # Nobody /\ hw[h].half = "left" =>
       h % 2 = 0 /\ hw[h + 1] = [hw[h] EXCEPT !.half = "right"]
  /\ \A h \in Ports : hw[h] # Nobody /\ hw[h].half = "right" =>
       h % 2 = 1 /\ hw[h - 1] = [hw[h] EXCEPT !.half = "left"]

LaysOut == writer.at # 1 /\ writer'.at = 1

\* Whenever the sessions ask for no more ports than there are, every one of their pads,
\* shown or driven by a macro, gets its port, a pair two of one group: no layout kept from
\* before is so scattered that a pair finds no group, or a single no port.
EverybodyPlays ==
  [][LaysOut /\ TotalDemand(Playing') <= NPorts =>
       \A c \in Clients : \A s \in Pads :
         client'[c].active =>
           Cardinality({h \in Ports : hw'[h] # Nobody /\ hw'[h].client = c /\ hw'[h].pad = s})
             = Size(Effective(Playing'[c].pads)[s])]_vars

Before(r, q) == \/ r.client < q.client
                \/ r.client = q.client /\ r.pad < q.pad

\* A pad that goes on asking for a single controller loses its port only to a pair, or
\* to a pad that comes before it: no newcomer behind it moves it on the console.
LosesOnlyToThoseBefore ==
  [][\A h \in Ports :
       LaysOut /\ hw[h] # Nobody /\ hw[h].half = "whole" /\ hw'[h] # hw[h]
         /\ Wants(Playing', hw[h], "single") =>
           /\ hw'[h] # Nobody
           /\ hw'[h].half = "whole" => Before(hw'[h], hw[h])]_vars

\* After a tick that was not cut short a UDP session has been told exactly the ports its slot
\* plays on, or nothing yet, although the writer tells it under another mutex hold than the one
\* it was copied under, the slot may have changed hands in between, and ticks cut short before
\* may have changed the layout and told nobody.
ToldWhatIsLaidOut ==
  writer.at = 0 => \A c \in Clients :
    client[c].active /\ client[c].by = Udp => told[c] \in {{}, PortsOf(hw, c)}

\* Both: every port number is a port, and what was told is what is laid out.
PortsInv == TypeOK /\ ToldWhatIsLaidOut

\* A client is admitted only if the pads it shows and those the sessions heard of lately show
\* fit the ports (active_requested_virtual_slots: "Reserve for the larger of the committed
\* layout and the current request so another client cannot be admitted into those
\* pending ports"), macros or not.
HeardDemand(table) ==
  SumFunction([c \in Clients |-> IF table[c].active /\ ~table[c].quiet
                                  THEN Demand(table[c].pads) ELSE 0])

AdmittedFit ==
  [][\A t \in Admitters :
       admit[t].pc = "store" /\ admit'[t].pc = "idle" /\ client'[admit[t].slot].active
         => HeardDemand(client') <= NPorts]_vars

\* That the pads which only a macro drives fit as well.  It does not hold, and no run checks
\* it: such a pad is not in the request that is counted, and its port is in the committed
\* layout only once the session has been told.
AdmittedFitPlaying ==
  [][\A t \in Admitters :
       admit[t].pc = "store" /\ admit'[t].pc = "idle" /\ client'[admit[t].slot].active
         => HeardDemand(Playing') <= NPorts]_vars

=============================================================================
