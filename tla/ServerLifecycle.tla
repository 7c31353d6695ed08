-------------------------- MODULE ServerLifecycle --------------------------
(***************************************************************************)
(* The life of a server process and of the USB gadget it leaves in         *)
(* configfs (server/src/main.cpp, gadget_wakeup.cpp): the setup of the     *)
(* gadget step by step, the writer thread that repairs it, the requests to *)
(* change the controller family, the shutdown with its re-exec, and a      *)
(* process that dies at any point.  configfs outlives the process; the     *)
(* descriptor of /dev/raw-gadget does not.  A step of a setup may fail.    *)
(*                                                                         *)
(* told is history: the families this process promised to restart as.      *)
(***************************************************************************)
EXTENDS Naturals

CONSTANTS
  Ports,       \* HID_PORT_COUNT
  MaxFailures, \* bound: steps of a setup that fail
  MaxStarts    \* bound: processes, re-execs included

VARIABLES
  family,   \* usb_controller_family of the process
  main,     \* main: where it is
  writer,   \* usb_writer_thread: where it is
  at,       \* the step of the setup or the teardown under way, "no" if none
  dir,      \* the gadget's directory exists
  attrs,    \* the family whose attributes it has
  linked,   \* functions created and linked into the configuration
  bound,    \* the gadget is bound to the UDC
  nodes,    \* /dev/hidg* can be opened
  raw,      \* /dev/raw-gadget is open and running
  running,  \* g_ctx.running
  pending,  \* pending_restart_family, "none" without a request over UDP
  target,   \* family_change_target, "none" without family_change_requested
  told, failures, starts

configfs == <<dir, attrs, linked, bound>>
requests == <<running, pending, target, told>>
vars == <<family, main, writer, at, configfs, nodes, raw, requests, failures, starts>>

Families == {"s1", "hori", "s2"}
Legacy == family # "s2"

Init ==
  /\ family \in Families /\ main = "none" /\ writer = "none" /\ at = "no"
  /\ dir = FALSE /\ attrs = "none" /\ linked = 0 /\ bound = FALSE /\ nodes = FALSE /\ raw = FALSE
  /\ running = TRUE /\ pending = "none" /\ target = "none" /\ told = {}
  /\ failures = 0 /\ starts = 0

\* A process with a fresh address space; setup is forced at startup.
Fresh(f) ==
  /\ starts < MaxStarts /\ starts' = starts + 1
  /\ family' = f /\ main' = "setup" /\ writer' = "none" /\ at' = IF f = "s2" THEN "unbind" ELSE "look"
  /\ running' = TRUE /\ pending' = "none" /\ target' = "none" /\ told' = {}

Start ==
  /\ main \in {"none", "exited"}
  /\ \E f \in Families : Fresh(f)
  /\ UNCHANGED <<configfs, nodes, raw, failures>>

-----------------------------------------------------------------------------
(* setup_gadget_builtin.  at names the step that comes next; "ready" and   *)
(* "refused" are its two returns.                                          *)

Working == main = "setup" \/ writer = "setup"

Unless(next) ==
  \/ at' = next /\ UNCHANGED failures
  \/ at' = "refused" /\ failures < MaxFailures /\ failures' = failures + 1

\* Forced, or the nodes are not ready: what is there is taken down first.
Look ==
  /\ Working /\ at = "look" /\ at' = IF dir THEN "unlink" ELSE "make"
  /\ UNCHANGED <<family, main, writer, configfs, nodes, raw, requests, failures, starts>>

\* teardown_gadget.  Its write of an empty string to UDC writes nothing: it is the removal of
\* the first link that unbinds the gadget.
Unlink ==
  /\ at = "unlink" /\ at' = "remove"
  /\ linked' = 0 /\ bound' = (bound /\ linked = 0) /\ nodes' = (nodes /\ linked = 0)
  /\ UNCHANGED <<family, main, writer, dir, attrs, raw, requests, failures, starts>>

Remove ==
  /\ at = "remove" /\ at' = IF main = "teardown" THEN "down" ELSE "make"
  /\ dir' = FALSE /\ attrs' = "none"
  /\ UNCHANGED <<family, main, writer, linked, bound, nodes, raw, requests, failures, starts>>

\* The directory, then the attributes of the family.
Make ==
  /\ Working /\ at = "make" /\ Unless("link")
  /\ dir' = TRUE /\ attrs' = IF at' = "link" THEN family ELSE attrs
  /\ UNCHANGED <<family, main, writer, linked, bound, nodes, raw, requests, starts>>

\* create_hid_function, once for every port.
Link ==
  /\ Working /\ at = "link" /\ linked < Ports /\ Unless("link")
  /\ linked' = IF at' = "link" THEN linked + 1 ELSE linked
  /\ UNCHANGED <<family, main, writer, dir, attrs, bound, nodes, raw, requests, starts>>

Complete == linked = Ports

Bind ==
  /\ Working /\ at = "link" /\ Complete /\ Unless("nodes")
  /\ bound' = (at' = "nodes")
  /\ UNCHANGED <<family, main, writer, dir, attrs, linked, nodes, raw, requests, starts>>

\* Two seconds for the nodes to appear.
Await ==
  /\ Working /\ at = "nodes"
  /\ IF nodes THEN at' = "ready" /\ UNCHANGED failures
     ELSE IF bound THEN at' = "refused" /\ failures < MaxFailures /\ failures' = failures + 1
     ELSE at' = "refused" /\ UNCHANGED failures
  /\ UNCHANGED <<family, main, writer, configfs, nodes, raw, requests, starts>>

NodesAppear ==
  /\ bound /\ ~nodes /\ nodes' = TRUE
  /\ UNCHANGED <<family, main, writer, at, configfs, raw, requests, failures, starts>>

\* udc_unbind_configfs_gadget; a gadget that is not bound may refuse to be unbound.
Unbind ==
  /\ main = "setup" /\ at = "unbind"
  /\ \/ at' = "raw" /\ bound' = FALSE /\ nodes' = FALSE /\ UNCHANGED failures
     \/ at' = "refused" /\ dir /\ ~bound /\ UNCHANGED <<bound, nodes, failures>>
  /\ UNCHANGED <<family, main, writer, dir, attrs, linked, raw, requests, starts>>

\* s2_rawgadget_setup and s2_uac1_audio_start; the latter undoes the former when it fails.
RunRaw ==
  /\ main = "setup" /\ at = "raw" /\ Unless("ready") /\ raw' = (at' = "ready")
  /\ UNCHANGED <<family, main, writer, configfs, nodes, requests, starts>>

-----------------------------------------------------------------------------
(* The process.                                                            *)

\* main after its setup: a failure returns from main at once.
SetUp ==
  /\ main = "setup" /\ at \in {"ready", "refused"} /\ at' = "no"
  /\ main' = IF at = "ready" THEN "sockets" ELSE "exited"
  /\ UNCHANGED <<family, writer, configfs, nodes, raw, requests, failures, starts>>

\* The sockets may be taken: main returns.  The signals are handled by now.
Sockets ==
  /\ main = "sockets"
  /\ \/ main' = "run" /\ writer' = "open" /\ UNCHANGED <<raw, failures>>
     \/ /\ failures < MaxFailures /\ failures' = failures + 1
        /\ main' = "exited" /\ raw' = FALSE /\ UNCHANGED writer
  /\ UNCHANGED <<family, at, configfs, nodes, requests, starts>>

\* A bug the checks must find: a gadget that was set up once is not set up again.
RepairsFresh == FALSE

\* gadget_setup_attempted: the setup of the start was the attempt, so the next is forced.
Repairs == TRUE

\* usb_writer_thread opens the nodes, or has the gadget set up again.
WriterOpen ==
  /\ writer = "open" /\ running
  /\ IF nodes \/ ~Legacy THEN writer' = "live" /\ at' = at
     ELSE writer' = "setup" /\ at' = IF Repairs THEN "look" ELSE "refused"
  /\ UNCHANGED <<family, main, configfs, nodes, raw, requests, failures, starts>>

\* The console must read another identity.
WriterRebuilds ==
  /\ writer = "live" /\ running /\ Legacy /\ nodes
  /\ writer' = "setup" /\ at' = "look"
  /\ UNCHANGED <<family, main, configfs, nodes, raw, requests, failures, starts>>

\* A report cannot be written.
WriterFails ==
  /\ writer = "live" /\ running /\ Legacy /\ ~nodes
  /\ writer' = "open"
  /\ UNCHANGED <<family, main, at, configfs, nodes, raw, requests, failures, starts>>

WriterSetUp ==
  /\ writer = "setup" /\ at \in {"ready", "refused"} /\ at' = "no" /\ writer' = "open"
  /\ UNCHANGED <<family, main, configfs, nodes, raw, requests, failures, starts>>

WriterEnds ==
  /\ writer \in {"open", "live"} /\ ~running /\ writer' = "ended"
  /\ UNCHANGED <<family, main, at, configfs, nodes, raw, requests, failures, starts>>

\* The family is another one, and no other client was found in any slot: FamilyChange says
\* what that means.  The clients are not part of this module, so a request may be refused.
Accepts(f) == f # family

\* A request over UDP: main's loop takes it while the server runs ...
RequestUdp ==
  /\ main = "run" /\ running /\ main' = "request"
  /\ UNCHANGED <<family, writer, at, configfs, nodes, raw, requests, failures, starts>>

\* ... and answers it when it has looked at the clients, stopped or not by now.
AnswerUdp ==
  /\ main = "request" /\ main' = "run"
  /\ \/ /\ \E f \in Families : Accepts(f) /\ pending' = f /\ told' = told \union {f}
        /\ running' = FALSE
     \/ UNCHANGED <<pending, told, running>>
  /\ UNCHANGED <<family, writer, at, configfs, nodes, raw, target, failures, starts>>

\* The request of a page, handled by the web thread until main has joined it.
RequestWeb ==
  /\ main \in {"run", "request", "stop"}
  /\ \E f \in Families : Accepts(f) /\ target' = f /\ told' = told \union {f}
  /\ running' = FALSE
  /\ UNCHANGED <<family, main, writer, at, configfs, nodes, raw, pending, failures, starts>>

\* SIGINT and SIGTERM.
Signal ==
  /\ main \in {"sockets", "run", "request"} /\ running /\ running' = FALSE
  /\ UNCHANGED <<family, main, writer, at, configfs, nodes, raw, pending, target, told,
                 failures, starts>>

Leave ==
  /\ main = "run" /\ ~running /\ main' = "stop"
  /\ UNCHANGED <<family, writer, at, configfs, nodes, raw, requests, failures, starts>>

Join ==
  /\ main = "stop" /\ writer = "ended"
  /\ main' = "teardown" /\ raw' = FALSE
  /\ at' = IF raw \/ ~dir THEN "down" ELSE "unlink"
  /\ UNCHANGED <<family, writer, configfs, nodes, requests, failures, starts>>

Exit ==
  /\ main' = "exited" /\ at' = "no" /\ writer' = "none"
  /\ UNCHANGED <<family, running, pending, target, told, starts>>

\* The request over UDP goes before that of a page; execv may fail.
Restart ==
  /\ main = "teardown" /\ at = "down"
  /\ \/ pending # "none" /\ Fresh(pending) /\ UNCHANGED failures
     \/ pending = "none" /\ target # "none" /\ Fresh(target) /\ UNCHANGED failures
     \/ pending = "none" /\ target = "none" /\ Exit /\ UNCHANGED failures
     \/ (failures < MaxFailures \/ starts = MaxStarts) /\ Exit /\ failures' = MaxFailures
  /\ UNCHANGED <<configfs, nodes, raw>>

\* Killed, or a fatal signal, whose handler unbinds the gadget once it is installed.
Die ==
  /\ main \notin {"none", "exited"} /\ failures < MaxFailures /\ failures' = failures + 1
  /\ main' = "none" /\ writer' = "none" /\ at' = "no" /\ raw' = FALSE
  /\ \/ UNCHANGED <<bound, nodes>>
     \/ main # "setup" /\ bound' = FALSE /\ nodes' = FALSE
  /\ UNCHANGED <<family, dir, attrs, linked, requests, starts>>

\* Somebody else unbinds the gadget.
Unplugged ==
  /\ bound /\ main \in {"run", "request"} /\ failures < MaxFailures /\ failures' = failures + 1
  /\ bound' = FALSE /\ nodes' = FALSE
  /\ UNCHANGED <<family, main, writer, at, dir, attrs, linked, raw, requests, starts>>

Build == Look \/ Unlink \/ Remove \/ Make \/ Link \/ Bind \/ Await \/ Unbind \/ RunRaw
Main == SetUp \/ Sockets \/ AnswerUdp \/ Leave \/ Join \/ Restart
Writer == WriterOpen \/ WriterFails \/ WriterSetUp \/ WriterEnds

Next == \/ Start \/ Build \/ Main \/ Writer \/ NodesAppear \/ WriterRebuilds
        \/ RequestUdp \/ RequestWeb \/ Signal \/ Die \/ Unplugged

Spec == Init /\ [][Next]_vars

\* Threads that are not waiting run; the kernel shows the nodes of a bound gadget in time.
Fairness == WF_vars(Build) /\ WF_vars(Main) /\ WF_vars(Writer) /\ WF_vars(NodesAppear)
FairSpec == Spec /\ Fairness

-----------------------------------------------------------------------------
(* Properties.                                                             *)

\* What the console can see is whole: a bound gadget has every function and the attributes of
\* one family, whichever process died or failed on the way.
BoundIsWhole == bound => dir /\ linked = Ports /\ attrs \in Families

\* The raw gadget never starts while configfs holds the controller.
UdcIsFree == (at = "raw" \/ raw) => ~bound

\* A gadget is taken down by nobody while its writer may still be setting it up.
OneBuilder == main = "teardown" => writer = "ended"

\* The three together.
LifecycleInv == BoundIsWhole /\ UdcIsFree /\ OneBuilder

\* A running legacy server brings its gadget back, whatever took it away.
GadgetComesBack ==
  (main \in {"run", "request"} /\ running /\ Legacy)
    ~> (nodes \/ ~running \/ main \notin {"run", "request"})

\* A stop ends the process or starts the next one.
StopEnds == ~running ~> (running \/ main \in {"none", "exited"})

\* Both.
LifecycleProgress == GadgetComesBack /\ StopEnds

\* "The server ... releases the UDC on exit" (docs/building-from-source.md:38).  It
\* does not hold, and no run checks it.
ReleasedOnExit == main = "exited" => ~bound /\ ~raw

\* "accepted; server is restarting its USB gadget with the new identity" (protocol.hpp:97):
\* every client that was told so gets the identity it asked for.  It does not hold, and no
\* run checks it.
RestartsAsTheyWereTold ==
  [][main = "teardown" /\ main' = "setup" => told = {family'}]_vars
=============================================================================
