---------------------------- MODULE Enumeration ----------------------------
(***************************************************************************)
(* The recovery of the Switch 2 gadget (server/src/s2_enumeration.cpp).    *)
(*                                                                         *)
(* Every flag of that file is an atomic of its own and no lock covers two  *)
(* of them.  Three kinds of threads run its functions:                     *)
(*                                                                         *)
(*   - Event, the Raw Gadget event thread: bus events, SET_CONFIGURATION   *)
(*     and the failures it meets (s2_rawgadget.cpp).  It is a new thread   *)
(*     each time the gadget is set up and is joined when it is torn down;  *)
(*   - Writer, the USB writer: it answers the console's vendor commands,   *)
(*     drops silent clients, and is the only one to restart the gadget     *)
(*     (writers.cpp, service_switch2_reenumeration);                       *)
(*   - Clients, the threads that open and close client sessions.           *)
(*                                                                         *)
(* pc[t] is where thread t is inside one of these functions.  When it is a *)
(* member of States, t has passed the tests of the function it is in and   *)
(* is about to call transition_to with that state.  A step is one access   *)
(* to shared state; an access that commutes with every other thread's      *)
(* accesses is merged with its neighbour.                                  *)
(***************************************************************************)
EXTENDS Naturals

CONSTANTS Event, Writer, Clients,
          MaxRetries   \* SWITCH2_MAX_ENUMERATION_RETRIES

ASSUME EnumerationAssumption ==
  /\ Event # Writer
  /\ Event \notin Clients /\ Writer \notin Clients
  /\ MaxRetries \in Nat \ {0}

VARIABLES
  state,      \* g_state
  failures,   \* g_failures
  requested,  \* g_recovery_requested
  running,    \* g_recovery_running
  automatic,  \* g_automatic_recovery_enabled
  gadget,     \* g_rg: what the Raw Gadget back end is able to do
  session,    \* the one client session of Switch 2 mode is active
  restarts,   \* history: restarts since the failures were last forgotten
  pc          \* where each thread is

counters == <<failures, restarts>>
vars == <<state, failures, requested, running, automatic, gadget, session, restarts, pc>>

Threads == {Event, Writer} \cup Clients

States == {"WaitingForHost", "UsbConfigured", "NativeHandshake", "Streaming", "Recovering"}

\* "up": its threads run; "failed": they run, the endpoints do not work (S2GadgetState
\* Failed); "dead": the event thread has given up as well; "down": torn down.
GadgetStates == {"up", "failed", "dead", "down"}

RequestPcs == {"claim", "count", "cancel", "disable", "rest", "release", "released",
               "forget"}
EventPcs   == {"endpoints"} \cup RequestPcs
WriterPcs  == {"take", "stop", "join", "rebuild", "audio", "undo", "abandon", "refail",
               "request", "validated", "reenable", "dropped"} \cup RequestPcs
ClientPcs  == {"connected", "enable", "dropped"}

Init ==
  /\ state = "WaitingForHost" /\ failures = 0
  /\ requested = FALSE /\ running = FALSE /\ automatic = TRUE
  /\ gadget = "up" /\ session = FALSE /\ restarts = 0
  /\ pc = [t \in Threads |-> "idle"]

Goto(t, label) == pc' = [pc EXCEPT ![t] = label]

\* The test at the head of every function that reports progress.
Suppressed == requested \/ running

\* transition_to
Transition(t) ==
  /\ pc[t] \in States
  /\ state' = pc[t]
  /\ Goto(t, IF t = Event /\ pc[t] = "UsbConfigured" THEN "endpoints" ELSE "idle")
  /\ UNCHANGED <<counters, requested, running, automatic, gadget, session>>

\* g_failures.store(0)
ForgetFailures == failures' = 0 /\ restarts' = 0

-----------------------------------------------------------------------------
(***************************************************************************)
(* request_switch2_reenumeration, run by Event and Writer.                 *)
(***************************************************************************)

\* Where a caller goes on: a request is dropped while recovery is switched off, and
\* taken for a duplicate while a restart is running.
Requesting == IF automatic /\ ~running THEN "claim" ELSE "idle"

\* The compare-exchange: of two callers one goes on.
Claim(t) ==
  /\ pc[t] = "claim"
  /\ requested' = TRUE
  /\ Goto(t, IF requested THEN "idle" ELSE "count")
  /\ UNCHANGED <<state, counters, running, automatic, gadget, session>>

\* Seeded fault: one failure too many is allowed.
CountLate(t) ==
  /\ pc[t] = "count"
  /\ failures' = failures + 1
  /\ Goto(t, IF failures + 1 > MaxRetries THEN "cancel" ELSE "Recovering")
  /\ UNCHANGED <<state, restarts, requested, running, automatic, gadget, session>>

Count(t) ==
  /\ pc[t] = "count"
  /\ failures' = failures + 1
  /\ Goto(t, IF failures + 1 >= MaxRetries THEN "cancel" ELSE "Recovering")
  /\ UNCHANGED <<state, restarts, requested, running, automatic, gadget, session>>

Cancel(t) ==
  /\ pc[t] = "cancel"
  /\ requested' = FALSE
  /\ Goto(t, "disable")
  /\ UNCHANGED <<state, counters, running, automatic, gadget, session>>

Disable(t) ==
  /\ pc[t] = "disable"
  /\ automatic' = FALSE
  /\ Goto(t, "rest")
  /\ UNCHANGED <<state, counters, requested, running, gadget, session>>

Rest(t) ==
  /\ pc[t] = "rest"
  /\ state' = "WaitingForHost"
  /\ Goto(t, "release")
  /\ UNCHANGED <<counters, requested, running, automatic, gadget, session>>

\* A client thread holds the slot's mutex while it allocates the session.
SlotLocked == \E c \in Clients : pc[c] \in {"connected", "enable"}

\* release_switch2_active_session
Release(t) ==
  /\ pc[t] = "release" /\ ~SlotLocked
  /\ session' = FALSE
  /\ Goto(t, IF session THEN "released" ELSE "forget")
  /\ UNCHANGED <<state, counters, requested, running, automatic, gadget>>

\* switch2_enumeration_client_disconnected, then the store at the end of the request.
Released(t) ==
  /\ pc[t] \in {"released", "forget"}
  /\ ForgetFailures
  /\ Goto(t, IF pc[t] = "released" THEN "forget" ELSE "idle")
  /\ UNCHANGED <<state, requested, running, automatic, gadget, session>>

RequestStep(t) == \/ Claim(t) \/ Count(t) \/ Cancel(t) \/ Disable(t) \/ Rest(t)
                  \/ Release(t) \/ Released(t)

-----------------------------------------------------------------------------
(***************************************************************************)
(* The event thread.  Once teardown has stopped its loop it finishes the   *)
(* event at hand and takes no other.                                       *)
(***************************************************************************)

EventReady == /\ pc[Event] = "idle" /\ gadget \in {"up", "failed"}
              /\ pc[Writer] \notin {"join", "undo"}

\* CONNECT, RESET, DISCONNECT or SET_CONFIGURATION(0)
BusReset ==
  /\ EventReady /\ ~Suppressed
  /\ Goto(Event, "WaitingForHost")
  /\ UNCHANGED <<state, counters, requested, running, automatic, gadget, session>>

\* SET_CONFIGURATION(1)
SetConfiguration ==
  /\ EventReady
  /\ Goto(Event, IF Suppressed THEN "endpoints" ELSE "UsbConfigured")
  /\ UNCHANGED <<state, counters, requested, running, automatic, gadget, session>>

\* enable_all_endpoints and what follows; the exchange of the state in
\* switch2_enumeration_native_handshake comes later.
EnableEndpoints ==
  /\ pc[Event] = "endpoints"
  /\ \/ /\ gadget' = "up"
        /\ Goto(Event, IF ~Suppressed /\ state = "UsbConfigured" THEN "NativeHandshake"
                                                                 ELSE "idle")
     \/ /\ gadget' = "failed"
        /\ Goto(Event, Requesting)
  /\ UNCHANGED <<state, counters, requested, running, automatic, session>>

\* A malformed or truncated mandatory request.
BadRequest ==
  /\ EventReady
  /\ Goto(Event, Requesting)
  /\ UNCHANGED <<state, counters, requested, running, automatic, gadget, session>>

\* USB_RAW_IOCTL_EVENT_FETCH fails: the thread asks for a recovery and ends.
FetchFails ==
  /\ EventReady
  /\ gadget' = "dead"
  /\ Goto(Event, Requesting)
  /\ UNCHANGED <<state, counters, requested, running, automatic, session>>

\* USB_RAW_EVENT_SUSPEND with wake configured: the session is released.
Suspend ==
  /\ EventReady /\ ~SlotLocked /\ session
  /\ session' = FALSE
  /\ Goto(Event, "forget")
  /\ UNCHANGED <<state, counters, requested, running, automatic, gadget>>

EventStep == EnableEndpoints \/ Transition(Event) \/ RequestStep(Event)

-----------------------------------------------------------------------------
(***************************************************************************)
(* The writer: service_switch2_reenumeration first.                        *)
(***************************************************************************)

\* A pending request is seen and g_recovery_running is set.
Service ==
  /\ pc[Writer] = "idle" /\ requested
  /\ running' = TRUE
  /\ Goto(Writer, "take")
  /\ UNCHANGED <<state, counters, requested, automatic, gadget, session>>

\* The request is consumed, unless its owner has taken it back.
Take ==
  /\ pc[Writer] = "take"
  /\ requested' = FALSE
  /\ running' = requested
  /\ restarts' = IF requested THEN restarts + 1 ELSE restarts
  /\ Goto(Writer, IF requested THEN "stop" ELSE "idle")
  /\ UNCHANGED <<state, failures, automatic, gadget, session>>

\* The writer's inner loop leaves a gadget whose event thread has ended at the end of the
\* iteration only, and does not ask whether its endpoints work.
WriterReady == pc[Writer] = "idle" /\ gadget # "down"

\* The identity of the controller has changed: the gadget is rebuilt without a request.
ChangeIdentity ==
  /\ WriterReady
  /\ Goto(Writer, "stop")
  /\ UNCHANGED <<state, counters, requested, running, automatic, gadget, session>>

\* s2_rawgadget_teardown: io_running is cleared ...
StopLoop ==
  /\ pc[Writer] = "stop"
  /\ Goto(Writer, "join")
  /\ UNCHANGED <<state, counters, requested, running, automatic, gadget, session>>

\* Seeded fault: the workers are not joined.
JoinNobody ==
  /\ pc[Writer] = "join"
  /\ gadget' = "down"
  /\ Goto(Writer, "rebuild")
  /\ UNCHANGED <<state, counters, requested, running, automatic, session>>

\* ... and the workers are joined.
Join ==
  /\ pc[Writer] = "join" /\ pc[Event] = "idle"
  /\ gadget' = "down"
  /\ Goto(Writer, "rebuild")
  /\ UNCHANGED <<state, counters, requested, running, automatic, session>>

\* s2_rawgadget_setup: a new event thread is started; or a step fails, before or after
\* switch2_enumeration_gadget_started.
Rebuild ==
  /\ pc[Writer] = "rebuild"
  /\ \/ /\ state' = "WaitingForHost"
        /\ gadget' = "up"
        /\ Goto(Writer, "audio")
     \/ /\ state' \in {state, "WaitingForHost"}
        /\ Goto(Writer, IF running THEN "abandon" ELSE "idle")
        /\ UNCHANGED gadget
  /\ UNCHANGED <<counters, requested, running, automatic, session>>

\* s2_uac1_audio_start, which tears the gadget down again when it fails.  Then
\* g_recovery_running is cleared and, on success, gadget_started is called once more.
StartAudio ==
  /\ pc[Writer] = "audio"
  /\ \/ /\ running' = FALSE
        /\ Goto(Writer, IF running THEN "WaitingForHost" ELSE "idle")
     \/ /\ Goto(Writer, "undo")
        /\ UNCHANGED running
  /\ UNCHANGED <<state, counters, requested, automatic, gadget, session>>

UndoSetup ==
  /\ pc[Writer] = "undo" /\ pc[Event] = "idle"
  /\ gadget' = "down"
  /\ Goto(Writer, IF running THEN "abandon" ELSE "idle")
  /\ UNCHANGED <<state, counters, requested, running, automatic, session>>

\* The restart has failed: g_recovery_running is cleared, the state set, and the failure
\* requests the next restart.
Abandon ==
  /\ pc[Writer] = "abandon"
  /\ running' = FALSE
  /\ Goto(Writer, "refail")
  /\ UNCHANGED <<state, counters, requested, automatic, gadget, session>>

\* Seeded fault: the state is left as it is when the restart has failed.
RefailKeepingState ==
  /\ pc[Writer] = "refail"
  /\ Goto(Writer, "request")
  /\ UNCHANGED <<state, counters, requested, running, automatic, gadget, session>>

Refail ==
  /\ pc[Writer] = "refail"
  /\ state' = "WaitingForHost"
  /\ Goto(Writer, "request")
  /\ UNCHANGED <<counters, requested, running, automatic, gadget, session>>

RequestAgain ==
  /\ pc[Writer] = "request"
  /\ Goto(Writer, Requesting)
  /\ UNCHANGED <<state, counters, requested, running, automatic, gadget, session>>

\* A malformed streaming command, or a handshake reply that cannot be queued.
BadCommand ==
  /\ WriterReady
  /\ Goto(Writer, Requesting)
  /\ UNCHANGED <<state, counters, requested, running, automatic, gadget, session>>

\* Any vendor command: switch2_enumeration_native_handshake.
Handshake ==
  /\ WriterReady /\ ~Suppressed /\ state = "UsbConfigured"
  /\ Goto(Writer, "NativeHandshake")
  /\ UNCHANGED <<state, counters, requested, running, automatic, gadget, session>>

\* Command 0x03/0x0A: switch2_enumeration_streaming_validated.
StreamingCommand ==
  /\ WriterReady /\ ~Suppressed
  /\ Goto(Writer, "validated")
  /\ UNCHANGED <<state, counters, requested, running, automatic, gadget, session>>

Validated ==
  /\ pc[Writer] = "validated"
  /\ ForgetFailures
  /\ Goto(Writer, "reenable")
  /\ UNCHANGED <<state, requested, running, automatic, gadget, session>>

Reenable ==
  /\ pc[Writer] = "reenable"
  /\ automatic' = TRUE
  /\ Goto(Writer, "Streaming")
  /\ UNCHANGED <<state, counters, requested, running, gadget, session>>

WriterStep == \/ Take \/ StopLoop \/ Join \/ Rebuild \/ StartAudio \/ UndoSetup
              \/ Abandon \/ Refail \/ RequestAgain \/ Validated \/ Reenable
              \/ Transition(Writer) \/ RequestStep(Writer)

-----------------------------------------------------------------------------
(***************************************************************************)
(* Client sessions.                                                        *)
(***************************************************************************)

\* allocate_client_session, under the slot's mutex: a free slot, or one whose client is
\* past its timeout.
Allocate(c) ==
  /\ pc[c] = "idle" /\ ~SlotLocked
  /\ session' = TRUE
  /\ Goto(c, "connected")
  /\ UNCHANGED <<state, counters, requested, running, automatic, gadget>>

\* switch2_enumeration_client_connected
Connected(c) ==
  /\ pc[c] = "connected"
  /\ ForgetFailures
  /\ Goto(c, "enable")
  /\ UNCHANGED <<state, requested, running, automatic, gadget, session>>

\* Seeded fault: a new client does not switch recovery on again.
EnableNothing(c) ==
  /\ pc[c] = "enable"
  /\ Goto(c, "idle")
  /\ UNCHANGED <<state, counters, requested, running, automatic, gadget, session>>

EnableRecovery(c) ==
  /\ pc[c] = "enable"
  /\ automatic' = TRUE
  /\ Goto(c, "idle")
  /\ UNCHANGED <<state, counters, requested, running, gadget, session>>

\* The session ends: reset_client_session, or the writer's timeout.
EndSession(t) ==
  /\ pc[t] = "idle" /\ t # Event /\ ~SlotLocked /\ session
  /\ session' = FALSE
  /\ Goto(t, "dropped")
  /\ UNCHANGED <<state, counters, requested, running, automatic, gadget>>

\* switch2_enumeration_client_disconnected
Disconnected(t) ==
  /\ pc[t] = "dropped"
  /\ ForgetFailures
  /\ Goto(t, "idle")
  /\ UNCHANGED <<state, requested, running, automatic, gadget, session>>

ClientStep(c) == Connected(c) \/ EnableRecovery(c) \/ Disconnected(c)

Next ==
  \/ BusReset \/ SetConfiguration \/ BadRequest \/ FetchFails \/ Suspend \/ EventStep
  \/ Service \/ ChangeIdentity \/ BadCommand \/ Handshake \/ StreamingCommand
  \/ WriterStep \/ EndSession(Writer) \/ Disconnected(Writer)
  \/ \E c \in Clients : Allocate(c) \/ EndSession(c) \/ ClientStep(c)

(***************************************************************************)
(* No thread stops inside a function, and one that waits for the slot's    *)
(* mutex gets it in the end.  The writer's loop comes back to              *)
(* service_switch2_reenumeration whatever else an iteration does.  Nothing *)
(* forces the host, the console or a client to act.                        *)
(***************************************************************************)
Fairness ==
  /\ WF_vars(EventStep)
  /\ WF_vars(WriterStep \/ Disconnected(Writer))
  /\ SF_vars(Service)
  /\ \A t \in {Event, Writer} : SF_vars(Release(t))
  /\ \A c \in Clients : WF_vars(ClientStep(c))

Spec     == Init /\ [][Next]_vars
FairSpec == Spec /\ Fairness

-----------------------------------------------------------------------------

\* Every variable keeps its type, and each thread stays inside its own functions.  The
\* counter of failures stays in range: one above the limit when both threads that ask
\* for recovery meet it.
TypeOK ==
  /\ state \in States
  /\ failures \in 0..(MaxRetries + 1) /\ restarts \in Nat
  /\ requested \in BOOLEAN /\ running \in BOOLEAN /\ automatic \in BOOLEAN
  /\ session \in BOOLEAN
  /\ gadget \in GadgetStates
  /\ pc \in [Threads -> {"idle"} \cup States \cup EventPcs \cup WriterPcs \cup ClientPcs]
  /\ pc[Event] \in {"idle"} \cup States \cup EventPcs
  /\ pc[Writer] \in {"idle"} \cup States \cup WriterPcs
  /\ \A c \in Clients : pc[c] \in {"idle"} \cup ClientPcs

\* The state "recovering" always has somebody who will end it: a request the writer has
\* yet to take, or a restart under way.  The request and the state are two atomics, set
\* by one thread and taken by another; what keeps them together is that the writer
\* joins the event thread before it rebuilds the gadget.
RecoveringHasWork ==
  state = "Recovering" =>
    requested \/ running \/ pc[Writer] \in {"WaitingForHost", "refail"}

\* A session that outlives the exhaustion of the retries has automatic recovery:
\* whoever switches it off releases every session afterwards, and whoever opens one
\* switches it on afterwards, in whatever order the two meet.
SurvivorCanRecover ==
  session /\ ~automatic =>
    \/ SlotLocked
    \/ \E t \in {Event, Writer} : pc[t] \in {"rest", "release"}

\* Between two moments the failures are forgotten (a client comes or goes, a stream is
\* validated, the retries are exhausted) the gadget is restarted at most
\* SWITCH2_MAX_ENUMERATION_RETRIES times, and once more for a request that was already
\* pending at the first: a claim is counted one step after it can be taken.
RestartsBounded == restarts <= MaxRetries + 1

\* Both bounds on the counters that several threads reset and count up, with the types.
CountsBounded == TypeOK /\ RestartsBounded

\* "Recovering" does not last, whatever the two threads do and however often the
\* restart fails.
RecoveringEnds == state = "Recovering" ~> state # "Recovering"

\* s2_enumeration.hpp: a failure is recorded, or is a duplicate of one the writer has
\* yet to serve.  So a gadget whose event thread has failed and ended is rebuilt, unless
\* recovery is switched off.
DeadGadgetRecovers == gadget = "dead" ~> gadget # "dead" \/ ~automatic

\* s2_enumeration.cpp: after exhaustion "automatic recovery remains disabled" until a
\* client connects.  So no pending request is taken while it is.  It does not hold, and no
\* run checks it.
NoRestartWhileDisabled == [][restarts' > restarts => automatic]_vars

=============================================================================
