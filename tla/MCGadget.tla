------------------------------ MODULE MCGadget ------------------------------
(***************************************************************************)
(* Bounds for the parts that stand between the server and the console:     *)
(* the USB gadget, its queues, the raw_gadget kernel module under it, and  *)
(* the Bluetooth adapter that wakes the console up.  The modules share no  *)
(* variable, so each is checked by itself: a behaviour chooses one part    *)
(* and the others rest.                                                    *)
(***************************************************************************)
EXTENDS Naturals, FiniteSets

CONSTANTS
  required, maxFiles,                                      \* of UsbGadget
  commands, start, queueLimit, maxAttempts, maxGeneration, maxReceived, maxReports,
                                                           \* of GadgetQueues
  queueSize, maxEvents,                                    \* of RawGadgetDriver
  names, maxFaults, maxRuns                                \* of WakeAdapter

\* SET_CONFIGURATION opens endpoints other than the two of audio, a queue has room, and the
\* adapter may have the name it rests with, and none is not a name.
ASSUME GadgetAssumption ==
  /\ required \cap {"audioOut", "audioIn"} = {} /\ maxFiles \in Nat
  /\ queueLimit \in Nat \ {0} /\ queueSize \in Nat \ {0} /\ maxGeneration \in Nat /\ maxReports \in Nat
  /\ "hci0" \in names /\ "none" \notin names

VARIABLES
  part, \* which of them runs
  gstate, fd, files, io, handle, alt, halted, wake, revived, pump, owner,
  traffic, generation, configured, link, event, outQueue, replies, reports, streaming,
  reader, writer, sender, received, written, gaveUp, lastReport,
  state, bound, refs, freed, rawQueue, pending, ep0, ep, transfer, control, rawWorker,
  events, refused,
  adapter, bluez, store, saved, proc, at, hci, orig, worker, local, left, wakeFaults, runs

usbVars    == <<gstate, fd, files, io, handle, alt, halted, wake, revived, pump, owner>>
queuesVars == <<traffic, generation, configured, link, event, outQueue, replies, reports,
                streaming, reader, writer, sender, received, written, gaveUp, lastReport>>
driverVars == <<state, bound, refs, freed, rawQueue, pending, ep0, ep, transfer, control,
                rawWorker, events, refused>>
wakeVars   == <<adapter, bluez, store, saved, proc, at, hci, orig, worker, local, left,
                wakeFaults, runs>>
vars       == <<part, usbVars, queuesVars, driverVars, wakeVars>>

\* The gadget is set up twice, so that a handle may outlive its file.
Usb == INSTANCE UsbGadget WITH
  Required <- required, MaxFiles <- maxFiles

\* Two bus resets, so that a queue may outlive a connection, and a retry of a command.
Queues == INSTANCE GadgetQueues WITH
  Commands <- commands, Start <- start, QueueLimit <- queueLimit, MaxAttempts <- maxAttempts,
  MaxGeneration <- maxGeneration, MaxReceived <- maxReceived, MaxReports <- maxReports

\* The event queue overflows, and the device is opened, run and closed.
Driver == INSTANCE RawGadgetDriver WITH
  QueueSize <- queueSize, MaxEvents <- maxEvents, queue <- rawQueue, worker <- rawWorker

\* The wizard and the server, or either twice; two of a renamed adapter, a command that fails
\* and a process that is killed.
Wake == INSTANCE WakeAdapter WITH
  Names <- names, MaxFaults <- maxFaults, MaxRuns <- maxRuns, faults <- wakeFaults

Parts == {"usb", "queues", "driver", "wake"}

\* A part that rests does so in one of the states it starts in.
Init ==
  /\ part \in Parts
  /\ Usb!Init
  /\ Queues!Init /\ (part # "queues" => traffic = "vendor")
  /\ Driver!Init
  /\ Wake!Init
  /\ (part # "wake" => adapter.name = "hci0" /\ adapter.mac = "own" /\ store = {}
                       /\ saved = Wake!NoConfig)

Next ==
  \/ part = "usb" /\ Usb!Next
     /\ UNCHANGED <<part, queuesVars, driverVars, wakeVars>>
  \/ part = "queues" /\ Queues!Next
     /\ UNCHANGED <<part, usbVars, driverVars, wakeVars>>
  \/ part = "driver" /\ Driver!Next
     /\ UNCHANGED <<part, usbVars, queuesVars, wakeVars>>
  \/ part = "wake" /\ Wake!Next
     /\ UNCHANGED <<part, usbVars, queuesVars, driverVars>>

Spec == Init /\ [][Next]_vars

-----------------------------------------------------------------------------
(* What each part promises: its own properties, which say more of the code. *)

\* No endpoint handle outlives the file it belongs to, a configuration is told and reports
\* are streamed only when the endpoints are open, and no halt outlives its endpoint.
UsbSafe == Usb!TypeOK /\ Usb!RequiredFresh /\ Usb!ReadyHasEndpoints /\ Usb!HaltedIsOpen

\* Nothing queued for one USB connection reaches the next but what a worker had in hand;
\* no retry is answered twice, and no older report follows a newer one.
QueuesSafe == /\ Queues!OnlyInHandCrosses /\ Queues!StreamingAskedFor
              /\ Queues!AnsweredOnce /\ Queues!ReportsInOrder

\* The kernel module frees a request only when the controller is done with it, and itself
\* only when nothing refers to it; endpoint 0 never waits in both directions.
DriverSafe == /\ Driver!TypeOK /\ Driver!RequestOutlivesTransfer
              /\ Driver!FreedLast /\ Driver!OneDirection

\* The Bluetooth adapter is given back as it was, and beacons only in a burst.
WakeInv == Wake!WakeInv

\* A vendor command that waits for the writer is answered, and a control request does not
\* keep endpoint 0 for ever but where the answer to it is refused.
CommandsAnswered ==
  /\ part = "queues" /\ Queues!Fairness => Queues!CommandsAnswered
  /\ part = "driver" /\ Driver!Fairness => Driver!ControlAnswered

\* A teardown of the gadget ends, whatever the event thread was doing; a wizard that borrows
\* the adapter ends, and so does a burst of the beacon.
TeardownEnds ==
  /\ part = "usb" /\ Usb!Fairness => Usb!TeardownEnds
  /\ part = "wake" /\ Wake!Fairness => Wake!WakeEnds
=============================================================================
