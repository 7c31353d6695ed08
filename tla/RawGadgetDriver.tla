--------------------------- MODULE RawGadgetDriver ---------------------------
(***************************************************************************)
(* The Raw Gadget driver the server embeds (server/kernel/raw_gadget.c),   *)
(* with the two threads of the server that use it: Control, which fetches  *)
(* events and answers on endpoint 0, and Worker, which reads or writes a   *)
(* data endpoint; and with the USB device controller, which calls back.    *)
(*                                                                         *)
(* A step is what the driver does under dev->lock, or one callback.  The   *)
(* two places that let go of the lock in the middle, usb_ep_disable and    *)
(* the wait for a transfer, are two steps.  What the server does with an   *)
(* event is s2_rawgadget.cpp's (handle_control, raw_ep_disable).           *)
(***************************************************************************)
EXTENDS Naturals, Sequences, FiniteSets

CONSTANTS
  QueueSize,  \* RAW_EVENT_QUEUE_SIZE
  MaxEvents   \* bound: what the controller reports

VARIABLES
  state,     \* dev->state
  bound,     \* dev->gadget, set by gadget_bind for good
  refs,      \* dev->count: who holds a reference
  freed,     \* dev_free has run
  queue,     \* dev->queue
  pending,   \* ep0_in_pending, ep0_out_pending: the set of those that are true
  ep0,       \* the transfer of endpoint 0: "none", "queued" (ep0_urb_queued) or "done"
  ep,        \* the data endpoint: state, disabling, urb_queued
  transfer,  \* the data endpoint's request at the controller: "none", "queued", "done"
  control, worker, \* where the threads are
  events,    \* history: how many events there were
  refused    \* history: the answer to the control request read last was refused

endpoint == <<ep, transfer>>
threads  == <<control, worker>>
life     == <<state, bound, refs, freed>>
vars == <<life, queue, pending, ep0, endpoint, threads, events, refused>>

States == {"OPENED", "INITIALIZED", "REGISTERING", "RUNNING", "CLOSED", "FAILED"}
Disabled == [enabled |-> FALSE, disabling |-> FALSE, urb |-> FALSE]

TypeOK ==
  /\ state \in States /\ bound \in BOOLEAN /\ freed \in BOOLEAN /\ refused \in BOOLEAN
  /\ refs \subseteq {"open", "run", "bind"}
  /\ Len(queue) <= QueueSize
  /\ pending \subseteq {"in", "out"}
  /\ ep0 \in {"none", "queued", "done"} /\ transfer \in {"none", "queued", "done"}
  /\ ep \in [enabled : BOOLEAN, disabling : BOOLEAN, urb : BOOLEAN]
  /\ control \in {"init", "run", "registered", "fetch", "in", "out", "stall", "wait", "enable",
                  "disable", "disabling", "exited"}
  /\ worker \in {"idle", "wait", "exited"}

Init ==
  /\ state = "OPENED" /\ bound = FALSE /\ refs = {"open"} /\ freed = FALSE
  /\ queue = <<>> /\ pending = {} /\ ep0 = "none" /\ ep = Disabled /\ transfer = "none"
  /\ control = "init" /\ worker = "idle" /\ events = 0 /\ refused = FALSE

\* Every ioctl but INIT and RUN starts with these two tests.
Usable == state = "RUNNING" /\ bound

-----------------------------------------------------------------------------
(* Starting.                                                               *)

\* raw_ioctl_init
IoctlInit ==
  /\ control = "init" /\ state = "OPENED"
  /\ state' = "INITIALIZED" /\ control' = "run"
  /\ UNCHANGED <<bound, refs, freed, queue, pending, ep0, endpoint, worker, events, refused>>

\* raw_ioctl_run, up to the registration ...
IoctlRun ==
  /\ control = "run" /\ state = "INITIALIZED"
  /\ state' = "REGISTERING" /\ control' = "registered"
  /\ UNCHANGED <<bound, refs, freed, queue, pending, ep0, endpoint, worker, events, refused>>

\* ... during which the controller binds the driver (gadget_bind), and after it.
GadgetBind ==
  /\ state = "REGISTERING" /\ ~bound
  /\ bound' = TRUE /\ refs' = refs \cup {"bind"}
  /\ queue' = Append(queue, "connect")
  /\ UNCHANGED <<state, freed, pending, ep0, endpoint, threads, events, refused>>
Registered ==
  /\ control = "registered"
  /\ \/ bound /\ state' = "RUNNING" /\ refs' = refs \cup {"run"} /\ control' = "fetch"
     \/ ~bound /\ state' = "FAILED" /\ control' = "exited" /\ UNCHANGED refs
  /\ UNCHANGED <<bound, freed, queue, pending, ep0, endpoint, worker, events, refused>>

-----------------------------------------------------------------------------
(* The controller's callbacks.                                             *)

\* raw_queue_event: an event that finds the queue full fails the device.
QueueEvent(event) ==
  IF Len(queue) < QueueSize THEN queue' = Append(queue, event) /\ UNCHANGED state
                            ELSE state' = "FAILED" /\ UNCHANGED queue

\* gadget_setup: one request at a time; a request for no data is an out request to the
\* driver whatever its direction.
GadgetSetup ==
  /\ "bind" \in refs /\ events < MaxEvents
  /\ state = "RUNNING" /\ pending = {}
  /\ \E request \in {"in", "out", "inNoData"} :
       /\ pending' = IF request = "in" THEN {"in"} ELSE {"out"}
       /\ QueueEvent(request)
  /\ events' = events + 1
  /\ UNCHANGED <<bound, refs, freed, ep0, endpoint, threads, refused>>

\* gadget_reset, gadget_disconnect, gadget_suspend, gadget_resume
GadgetEvent ==
  /\ "bind" \in refs /\ events < MaxEvents
  /\ \E event \in {"reset", "suspend"} : QueueEvent(event)
  /\ events' = events + 1
  /\ UNCHANGED <<bound, refs, freed, pending, ep0, endpoint, threads, refused>>

\* gadget_ep0_complete, also for a request that is dequeued.
Ep0Complete ==
  /\ ep0 = "queued" /\ ep0' = "done"
  /\ pending' = pending \ {IF "in" \in pending THEN "in" ELSE "out"}
  /\ UNCHANGED <<life, queue, endpoint, threads, events, refused>>

\* gadget_ep_complete
EpComplete ==
  /\ transfer = "queued" /\ transfer' = "done"
  /\ UNCHANGED <<life, queue, pending, ep0, ep, threads, events, refused>>

Controller == GadgetBind \/ GadgetSetup \/ GadgetEvent \/ Ep0Complete \/ EpComplete

-----------------------------------------------------------------------------
(* The control thread.                                                     *)

\* What the server does with an event: answer it, stall, enable or disable the endpoint.  A
\* request for no data is answered with data where it is an in request to the server, and some
\* class requests are answered in one direction whichever they ask for.
Handler(event) ==
  CASE event \in {"in", "out", "inNoData"} -> {"in", "out", "stall"}
    [] event = "reset"                     -> {"disable"}
    [] OTHER                               -> {"fetch"}

\* raw_ioctl_event_fetch; the server gives up when it fails.
EventFetch ==
  /\ control = "fetch"
  /\ IF ~Usable THEN control' = "exited" /\ UNCHANGED <<queue, refused>>
     ELSE /\ queue # <<>> /\ queue' = Tail(queue)
          /\ control' \in Handler(Head(queue))
          /\ refused' = (refused /\ Head(queue) \notin {"in", "out", "inNoData"})
  /\ UNCHANGED <<life, pending, ep0, endpoint, worker, events>>

\* raw_process_ep0_io: refused for an answer in the other direction, and when usb_ep_queue
\* fails.  The server does not look at the result, and the request stays pending.
Ep0Io ==
  /\ control \in {"in", "out"}
  /\ \/ /\ Usable /\ ep0 = "none" /\ control \in pending
        /\ ep0' = "queued" /\ control' = "wait" /\ UNCHANGED refused
     \/ control' = "fetch" /\ refused' = TRUE /\ UNCHANGED ep0
  /\ UNCHANGED <<life, queue, pending, endpoint, worker, events>>

\* ... after the transfer, or its dequeueing.  An acknowledged SET_CONFIGURATION enables
\* the endpoint.
Ep0Done ==
  /\ control = "wait" /\ ep0 = "done"
  /\ ep0' = "none" /\ control' \in {"fetch", "enable"}
  /\ UNCHANGED <<life, queue, pending, endpoint, worker, events, refused>>

\* Seeded fault: a stall leaves the request pending.
Ep0StallKeeping ==
  /\ control = "stall" /\ control' = "fetch"
  /\ UNCHANGED <<life, queue, pending, ep0, endpoint, worker, events, refused>>

\* raw_ioctl_ep0_stall
Ep0Stall ==
  /\ control = "stall"
  /\ pending' = IF Usable /\ ep0 = "none" THEN pending \ {IF "in" \in pending THEN "in" ELSE "out"}
                ELSE pending
  /\ control' = "fetch"
  /\ UNCHANGED <<life, queue, ep0, endpoint, worker, events, refused>>

\* raw_ioctl_ep_enable
EpEnable ==
  /\ control = "enable"
  /\ ep' = IF Usable /\ ~ep.enabled THEN [ep EXCEPT !.enabled = TRUE] ELSE ep
  /\ control' = "fetch"
  /\ UNCHANGED <<life, queue, pending, ep0, transfer, worker, events, refused>>

\* Seeded fault: an endpoint is disabled although a request is queued.
EpDisableInUse ==
  /\ control = "disable"
  /\ ep' = IF Usable /\ ep.enabled THEN [ep EXCEPT !.disabling = TRUE] ELSE ep
  /\ control' = IF Usable /\ ep.enabled THEN "disabling" ELSE "fetch"
  /\ UNCHANGED <<life, queue, pending, ep0, transfer, worker, events, refused>>

\* raw_ioctl_ep_disable, first half: refused while a request is queued.  The server
\* interrupts the worker and tries again, a bounded number of times.
EpDisable ==
  /\ control = "disable"
  /\ \/ /\ Usable /\ ep.enabled /\ ~ep.urb
        /\ ep' = [ep EXCEPT !.disabling = TRUE] /\ control' = "disabling"
     \/ /\ ~Usable \/ ~ep.enabled \/ ep.urb
        /\ control' = "fetch" /\ UNCHANGED ep
  /\ UNCHANGED <<life, queue, pending, ep0, transfer, worker, events, refused>>

\* ... second half: usb_ep_disable is done, the request is freed.
EpDisabled ==
  /\ control = "disabling"
  /\ ep' = [ep EXCEPT !.enabled = FALSE, !.disabling = FALSE] /\ control' = "fetch"
  /\ UNCHANGED <<life, queue, pending, ep0, transfer, worker, events, refused>>

Control ==
  \/ IoctlInit \/ IoctlRun \/ Registered
  \/ EventFetch \/ Ep0Io \/ Ep0Done \/ Ep0Stall
  \/ EpEnable \/ EpDisable \/ EpDisabled

-----------------------------------------------------------------------------
(* The worker, and closing the file.                                       *)

\* raw_process_ep_io
EpIo ==
  /\ worker = "idle" /\ control \notin {"init", "run", "registered"}
  /\ Usable /\ ep.enabled /\ ~ep.disabling /\ ~ep.urb
  /\ ep' = [ep EXCEPT !.urb = TRUE] /\ transfer' = "queued" /\ worker' = "wait"
  /\ UNCHANGED <<life, queue, pending, ep0, control, events, refused>>

\* ... after the transfer, or its dequeueing.
EpIoDone ==
  /\ worker = "wait" /\ transfer = "done"
  /\ ep' = [ep EXCEPT !.urb = FALSE] /\ transfer' = "none" /\ worker' = "idle"
  /\ UNCHANGED <<life, queue, pending, ep0, control, events, refused>>

InIoctl == control \in {"in", "out", "stall", "wait", "enable", "disable", "disabling",
                        "init", "run", "registered"}
           \/ worker = "wait"

\* raw_release runs when the last ioctl has returned.  Unregistering unbinds; dev_free
\* disables what is enabled when the last reference goes.
Release ==
  /\ ~InIoctl /\ state # "CLOSED"
  /\ state' = "CLOSED"
  /\ refs' = IF "run" \in refs THEN refs \ {"open", "run", "bind"} ELSE refs \ {"open"}
  /\ freed' = (refs' = {})
  /\ ep' = IF refs' = {} THEN Disabled ELSE ep
  /\ control' = "exited" /\ worker' = "exited"
  /\ UNCHANGED <<bound, queue, pending, ep0, transfer, events, refused>>

Next == Controller \/ Control \/ EpIo \/ EpIoDone \/ Release
Spec == Init /\ [][Next]_vars

\* The threads run on and the controller completes or dequeues what is queued.
Fairness == WF_vars(Control) /\ WF_vars(Ep0Complete) /\ WF_vars(EpComplete) /\ WF_vars(EpIoDone)
FairSpec == Spec /\ Fairness

-----------------------------------------------------------------------------
\* The controller never works on a request whose endpoint is disabled, or about to be, and
\* whose memory is freed with it.
RequestOutlivesTransfer ==
  transfer = "queued" => ep.enabled /\ ~ep.disabling /\ ~freed

\* The device is freed once nothing refers to it, and not before: "Matches kref_get()".
FreedLast == freed <=> refs = {}

\* WARN_ON(in && dev->ep0_out_pending) and its twin: a request never waits in both
\* directions, so that neither warning fires.
OneDirection == Cardinality(pending) <= 1

\* Endpoint 0 comes free: a request that the console made is answered or stalled, so that
\* the next one is not refused as pending; unless the ioctl that answers it is refused.
ControlAnswered ==
  pending # {} ~> (pending = {} \/ state # "RUNNING" \/ refused)

\* Not so in the code, which leaves the request pending after a refused answer: endpoint 0
\* then takes no request for as long as the device is open.
ControlAlwaysAnswered ==
  pending # {} ~> (pending = {} \/ state # "RUNNING")
=============================================================================
