------------------------------- MODULE Sleep -------------------------------
(***************************************************************************)
(* How the server learns that the console sleeps and wakes it: the         *)
(* lifecycle flags of server/src/app_state.cpp (Switch 2 gadget, a wake    *)
(* configuration loaded) and the wake advertisement of gadget_wakeup.cpp.  *)
(*                                                                         *)
(* The flags are atomics of their own that the USB event thread, the       *)
(* writer, the pollers and the client threads read and write without a     *)
(* lock: each store is a step.  Times are ages in ticks.                   *)
(***************************************************************************)
EXTENDS Naturals

CONSTANTS
  Pollers,   \* threads that call poll_switch2_sleep_state
  Confirm,   \* SWITCH2_USB_SLEEP_CONFIRM_US, in ticks
  Grace,     \* SWITCH2_WAKE_CLIENT_GRACE_US
  Cooldown   \* SWITCH2_WAKE_ADV_COOLDOWN_US

\* The thread of the new client is none of those that poll.
ASSUME SleepAssumption == {Confirm, Grace, Cooldown} \subseteq Nat /\ "client" \notin Pollers

VARIABLES
  console,   \* what the console does: absent, configured, suspended, gone
  output,    \* an output report of the console is queued
  seen,      \* switch2_usb_lifecycle_seen
  suspended, \* switch2_usb_host_suspended
  inactive,  \* age of switch2_usb_inactive_since_us, Never for 0
  confirmed, \* switch2_sleep_confirmed
  session,   \* the client's session: none, or connected before or since inactive_since
  burst,     \* switch2_wake_adv_running
  lastAdv,   \* age of switch2_last_wake_adv_us, Never for 0
  radio,     \* the advertising thread runs
  live,      \* s2_live of the writer
  mark,      \* the event thread and the writer: the flag they store next
  writer,    \* where the writer is: its outer or inner loop, or with a report in its hands
  poller,    \* where a poller is
  client,    \* where the thread of the new client is: one comes in a behaviour
  owed,      \* history: a client came in the debounce, and nobody has tried the radio for it
  undone     \* history: the writer took back what the last SUSPEND or DISCONNECT stored, or a
             \* poller is still storing what it decided before

flags   == <<seen, suspended, inactive, confirmed>>
radios == <<burst, lastAdv, radio>>
threads == <<live, mark, writer, poller, client>>
history == <<owed, undone>>
vars    == <<console, output, flags, session, radios, threads, history>>

None    == "none"
Never   == Confirm + Grace + 2  \* no time, as no age is this large: the code's 0
Callers == Pollers \cup {"client"}
Off     == console \in {"suspended", "gone"}
IsLive  == console \in {"configured", "suspended"}

\* switch2_wake_recent
WakeRecent == burst \/ (lastAdv # Never /\ lastAdv <= Grace)

Init ==
  /\ console = "absent" /\ output = FALSE
  /\ seen = FALSE /\ suspended = FALSE /\ inactive = Never /\ confirmed = FALSE
  /\ session = None
  /\ burst = FALSE /\ lastAdv = Never /\ radio = FALSE
  /\ live = FALSE /\ mark = [t \in {"event", "writer"} |-> None] /\ writer = "outer"
  /\ poller = [p \in Pollers |-> "idle"] /\ client = "away"
  /\ owed = FALSE /\ undone = FALSE

-----------------------------------------------------------------------------
(* mark_switch2_usb_host_resumed, mark_switch2_usb_activity and            *)
(* mark_switch2_usb_host_disconnected, store by store.                     *)

Older(age, top) == IF age < top THEN age + 1 ELSE age

\* The stores that say the console is awake (the last two in one step: a poller that comes
\* between them comes before or after both).
MarkAwake(t) ==
  \/ /\ mark[t] = "awake" /\ suspended' = FALSE /\ mark' = [mark EXCEPT ![t] = "active"]
     /\ UNCHANGED <<inactive, confirmed>>
  \/ /\ mark[t] = "active" /\ inactive' = Never /\ confirmed' = FALSE
     /\ mark' = [mark EXCEPT ![t] = None] /\ UNCHANGED suspended

\* The two stores that start the debounce.
MarkDisconnected(t) ==
  \/ /\ mark[t] = "disconnect" /\ suspended' = seen
     /\ mark' = [mark EXCEPT ![t] = IF seen THEN "since" ELSE None]
     /\ UNCHANGED <<inactive, session>>
  \/ /\ mark[t] = "since" /\ mark' = [mark EXCEPT ![t] = None]
     /\ IF inactive = Never
        THEN inactive' = 0 /\ session' = IF session = None THEN None ELSE "before"
        ELSE UNCHANGED <<inactive, session>>
     /\ UNCHANGED suspended

MarkStep(t) ==
  /\ \/ MarkAwake(t) /\ UNCHANGED session
     \/ MarkDisconnected(t) /\ UNCHANGED confirmed
  /\ IF t = "writer" /\ mark[t] \in {"awake", "active"} /\ Off
     THEN undone' = TRUE /\ owed' = FALSE ELSE UNCHANGED history
  /\ UNCHANGED <<console, output, seen, radios, live, writer, poller, client>>

-----------------------------------------------------------------------------
(* The console, as the event thread handles it.                            *)

EventIdle   == mark["event"] = None
Deciding(p) == poller[p] \in {"confirm", "scan", "release", "client_waiting"}

\* SET_CONFIGURATION(1) and RESUME
HostActive ==
  /\ EventIdle /\ console # "configured"
  /\ output' = IF console = "suspended" THEN output ELSE FALSE
  /\ console' = "configured" /\ seen' = TRUE /\ mark' = [mark EXCEPT !["event"] = "awake"]
  /\ owed' = FALSE /\ undone' = FALSE
  /\ UNCHANGED <<suspended, inactive, confirmed, session, radios, live, writer, poller, client>>

\* SUSPEND releases the sessions at once; DISCONNECT and RESET empty the queues.
HostInactive ==
  /\ EventIdle /\ mark' = [mark EXCEPT !["event"] = "disconnect"]
  /\ \/ /\ console = "configured" /\ console' = "suspended" /\ session' = None
        /\ UNCHANGED output
     \/ /\ console \in {"configured", "suspended"} /\ console' = "gone" /\ output' = FALSE
        /\ UNCHANGED session
  /\ undone' = \E p \in Pollers : Deciding(p)
  /\ UNCHANGED <<flags, radios, live, writer, poller, client, owed>>

HostOutput ==
  /\ console = "configured" /\ output' = TRUE
  /\ UNCHANGED <<console, flags, session, radios, threads, history>>

-----------------------------------------------------------------------------
(* The writer.                                                             *)

\* Seeded fault: what the writer did before: an endpoint that is not live clears everything.
WriterSeesLossClearing ==
  /\ writer = "outer" /\ mark["writer"] = None /\ ~IsLive
  /\ seen' = FALSE /\ suspended' = FALSE /\ inactive' = Never /\ confirmed' = FALSE
  /\ live' = FALSE
  /\ UNCHANGED <<console, output, session, radios, mark, writer, poller, client,
                 history>>

\* The outer loop: the port is not live.
WriterSeesLoss ==
  /\ writer = "outer" /\ mark["writer"] = None /\ ~IsLive /\ live
  /\ live' = FALSE /\ mark' = [mark EXCEPT !["writer"] = "disconnect"]
  /\ UNCHANGED <<console, output, flags, session, radios, writer, poller, client,
                 history>>

\* The outer loop: the port went live.
WriterSeesLive ==
  /\ writer = "outer" /\ mark["writer"] = None /\ IsLive
  /\ writer' = "inner" /\ live' = TRUE
  /\ IF live THEN UNCHANGED <<seen, mark>>
             ELSE seen' = TRUE /\ mark' = [mark EXCEPT !["writer"] = "awake"]
  /\ UNCHANGED <<console, output, suspended, inactive, confirmed, session, radios, poller, client,
                 history>>
               
\* The inner loop: a queued output report is taken ...
WriterTakes ==
  /\ writer = "inner" /\ mark["writer"] = None /\ output
  /\ writer' = "holding" /\ output' = FALSE
  /\ UNCHANGED <<console, flags, session, radios, live, mark, poller, client,
                 history>>

\* ... and counts as activity of the console, whatever happened since it was sent.
WriterActivity ==
  /\ writer = "holding" /\ writer' = "inner"
  /\ mark' = [mark EXCEPT !["writer"] = IF seen THEN "awake" ELSE None]
  /\ UNCHANGED <<console, output, flags, session, radios, live, poller, client,
                 history>>

\* The transport fails: wait and start over.
WriterFails ==
  /\ writer = "inner" /\ mark["writer"] = None
  /\ writer' = "outer" /\ mark' = [mark EXCEPT !["writer"] = "disconnect"]
  /\ UNCHANGED <<console, output, flags, session, radios, live, poller, client,
                 history>>

\* service_switch2_reenumeration: clear_switch2_usb_activity, and a new gadget.
Restart ==
  /\ writer \in {"outer", "inner"} /\ mark["writer"] = None /\ EventIdle
  /\ console' = "absent" /\ output' = FALSE /\ live' = FALSE /\ writer' = "outer"
  /\ seen' = FALSE /\ suspended' = FALSE /\ inactive' = Never /\ confirmed' = FALSE
  /\ owed' = FALSE /\ undone' = FALSE
  /\ UNCHANGED <<session, radios, mark, poller, client>>

-----------------------------------------------------------------------------
(* poll_switch2_sleep_state and confirm_switch2_sleep.                     *)

Poll(p) ==
  /\ poller[p] = "idle"
  /\ seen /\ suspended /\ inactive # Never /\ inactive > Confirm /\ ~WakeRecent
  /\ poller' = [poller EXCEPT ![p] = "confirm"]
  /\ UNCHANGED <<console, output, flags, session, radios, live, mark, writer, client,
                 history>>
               
\* The exchange: one poller confirms.
ConfirmSleep(p) ==
  /\ poller[p] = "confirm" /\ confirmed' = TRUE
  /\ poller' = [poller EXCEPT ![p] = IF confirmed THEN "idle" ELSE "scan"]
  /\ UNCHANGED <<console, output, seen, suspended, inactive, session, radios, live, mark, writer,
                 client, history>>

\* Seeded fault: the confirmed sleep releases whatever session there is, the newcomer's too.
ScanNobody(p) ==
  /\ poller[p] = "scan" /\ poller' = [poller EXCEPT ![p] = "release"]
  /\ UNCHANGED <<console, output, flags, session, radios, live, mark, writer, client, history>>

\* Is there a client that came after the console went quiet?
Scan(p) ==
  /\ poller[p] = "scan"
  /\ poller' = [poller EXCEPT ![p] = IF inactive # Never /\ session = "since"
                                    THEN "client_waiting" ELSE "release"]
  /\ UNCHANGED <<console, output, flags, session, radios, live, mark, writer, client, history>>

\* release_switch2_active_session("Switch sleep confirmed", true)
ReleaseAsleep(p) ==
  /\ poller[p] \in {"release", "client_waiting"} /\ confirmed' = TRUE /\ session' = None
  /\ poller' = [poller EXCEPT ![p] = IF poller[p] = "client_waiting" THEN "advert" ELSE "idle"]
  /\ UNCHANGED <<console, output, seen, suspended, inactive, radios, live, mark, writer, client,
                 history>>
               
-----------------------------------------------------------------------------
(* maybe_send_switch2_wake_advert, called by a poller or for a new client. *)

At(t, place) == IF t = "client" THEN client = place ELSE poller[t] = place
Goto(t, place) ==
  IF t = "client" THEN client' = place /\ UNCHANGED poller
                  ELSE poller' = [poller EXCEPT ![t] = place] /\ UNCHANGED client

\* switch2_usb_host_recently_active
RecentlyActive ==
  IF seen THEN \/ ~suspended
               \/ ~confirmed /\ (inactive = Never \/ inactive <= Confirm)
          ELSE FALSE

AdvertAsk(t) ==
  /\ At(t, "advert")
  /\ Goto(t, IF RecentlyActive THEN "idle" ELSE "take")
  /\ UNCHANGED <<console, output, flags, session, radios, live, mark, writer, history>>

\* switch2_wake_adv_running.exchange(true)
AdvertTake(t) ==
  /\ At(t, "take")
  /\ burst' = TRUE
  /\ IF burst THEN Goto(t, "idle") /\ owed' = FALSE ELSE Goto(t, "launch") /\ UNCHANGED owed
  /\ UNCHANGED <<console, output, flags, session, lastAdv, radio, live, mark, writer, undone>>

\* The cooldown, and the advertising thread.
AdvertLaunch(t) ==
  /\ At(t, "launch") /\ owed' = FALSE /\ Goto(t, "idle")
  /\ IF lastAdv # Never /\ lastAdv < Cooldown
     THEN burst' = FALSE /\ UNCHANGED <<lastAdv, radio>>
     ELSE lastAdv' = 0 /\ radio' = TRUE /\ UNCHANGED burst
  /\ UNCHANGED <<console, output, flags, session, live, mark, writer, undone>>

\* switch2_wake_adv_worker ends, early when the radio fails.
AdvertEnds ==
  /\ radio /\ radio' = FALSE /\ burst' = FALSE
  /\ UNCHANGED <<console, output, flags, session, lastAdv, threads, history>>

-----------------------------------------------------------------------------
(* Clients and time.                                                       *)

Connect ==
  /\ client = "away" /\ client' = "advert"
  /\ session' = IF inactive # Never THEN "since" ELSE "before"
  /\ owed' = (owed \/ (Off /\ seen /\ suspended /\ inactive # Never /\ ~undone))
  /\ UNCHANGED <<console, output, flags, radios, live, mark, writer, poller, undone>>

Leave ==
  /\ session # None /\ client = "idle" /\ session' = None /\ owed' = FALSE
  /\ UNCHANGED <<console, output, flags, radios, threads, undone>>

\* Every thread finishes a straight line in less than a tick.
Tick ==
  /\ \A p \in Pollers : ~Deciding(p)
  /\ \A t \in Callers : ~At(t, "take") /\ ~At(t, "launch")
  /\ inactive' = Older(inactive, Confirm + 1) /\ lastAdv' = Older(lastAdv, Grace + 1)
  /\ UNCHANGED <<console, output, seen, suspended, confirmed, session, burst, radio, threads,
                 history>>

PollerStep(p) == Poll(p) \/ ConfirmSleep(p) \/ Scan(p) \/ ReleaseAsleep(p)
CallerStep(t) == AdvertAsk(t) \/ AdvertTake(t) \/ AdvertLaunch(t)
WriterStep    == WriterSeesLoss \/ WriterSeesLive \/ WriterTakes \/ WriterActivity
Host          == HostActive \/ HostInactive \/ HostOutput

Next ==
  \/ Host \/ WriterStep \/ WriterFails \/ Restart \/ AdvertEnds \/ Connect \/ Leave \/ Tick
  \/ \E t \in {"event", "writer"} : MarkStep(t)
  \/ \E p \in Pollers : PollerStep(p)
  \/ \E t \in Callers : CallerStep(t)

Spec == Init /\ [][Next]_vars

\* Threads run and time passes; the console and the clients owe nothing.
Fairness ==
  /\ WF_vars(Tick) /\ WF_vars(AdvertEnds) /\ WF_vars(WriterStep)
  /\ \A t \in {"event", "writer"} : WF_vars(MarkStep(t))
  /\ \A p \in Pollers : WF_vars(PollerStep(p))
  /\ \A t \in Callers : WF_vars(CallerStep(t))
FairSpec == Spec /\ Fairness

-----------------------------------------------------------------------------
(* Properties.                                                             *)

\* Who carries the wake of a client that came in the debounce: its own thread, or a poller
\* that found its session.
Carriers == {"client_waiting", "advert", "take", "launch"}

\* switch2_wake_adv_running is set from the exchange that takes it to the end of the radio,
\* whichever of the callers took it and whether the cooldown refuses it or not: two threads
\* that ask at once start one burst, and a burst that is not started blocks no later one.
OneBurst ==
  /\ burst <=> radio \/ \E t \in Callers : At(t, "launch")
  /\ \A t \in Callers : At(t, "launch") => ~radio /\ \A u \in Callers : At(u, "launch") => u = t

\* A client that came while the console was off is not forgotten before its wake was tried:
\* its thread or a poller is on the way to the radio, or its session is there to be found by
\* the poller that will confirm the sleep, or by the one that has and looks for it now.
NewcomerRemembered ==
  owed => \/ client \in {"advert", "take", "launch"}
          \/ \E p \in Pollers : poller[p] \in Carriers
          \/ /\ session = "since" /\ seen /\ suspended /\ inactive # Never
             /\ (~confirmed \/ \E p \in Pollers : poller[p] = "scan")

SleepInv == OneBurst /\ NewcomerRemembered

\* A console that went away for good is found asleep by some poller, whatever the writer and the
\* event thread store over each other, unless the writer's stores come after the last event or
\* clients keep waking it.
SleepIsSeen == <>[](Off /\ ~undone /\ ~radio) => <>[]confirmed

\* What the comment at the DISCONNECT event promises: every disconnect is fed into the debounced
\* sleep path.  A report taken before it and counted after it takes it back: it does not hold,
\* and no run checks it.
DisconnectIsSeen == <>[]Off => <>confirmed

\* A console that plays and sends output over a working transport is not held for asleep by a
\* poller that decided earlier.
AwakeIsSeen ==
  <>[](console = "configured" /\ writer # "outer") /\ []<>output => <>[]~confirmed

\* A client that came while the console was off has its wake tried, by its own thread or by the
\* poller that confirms the sleep, even when its session is released in between (unless the
\* console comes back or the writer's late stores take the debounce back).
NewcomerWakes == owed ~> ~owed
=============================================================================
