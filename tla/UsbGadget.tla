----------------------------- MODULE UsbGadget -----------------------------
(***************************************************************************)
(* The USB side of the Switch 2 gadget (server/src/s2_rawgadget.cpp): the  *)
(* event thread that answers the console's control requests, and the       *)
(* thread that sets the gadget up and tears it down (Owner: the USB writer *)
(* or main).  The two share the file descriptor, the endpoint handles and  *)
(* the gadget's state, each an atomic of its own.                          *)
(*                                                                         *)
(* A handle is the number of the opened file it belongs to, 0 for none: a  *)
(* handle of an earlier file must not be used with a later one.  A request *)
(* is one step of the event thread, except that it is cut after each ioctl *)
(* whose result is stored later.  The data queues are GadgetQueues.        *)
(***************************************************************************)
EXTENDS Naturals

CONSTANTS
  Required,  \* the endpoints of SET_CONFIGURATION: HID and vendor, in and out
  MaxFiles   \* bound: how often /dev/raw-gadget is opened

VARIABLES
  gstate,  \* g_rg.state
  fd,      \* g_rg.fd: the file that is open, 0 for none
  files,   \* how many files were opened
  io,      \* io_running
  handle,  \* hid_in_h .. as_in_h
  alt,     \* as_out_alt, as_in_alt
  halted,  \* halted_endpoints
  wake,    \* remote_wakeup
  revived, \* history: SET_INTERFACE was accepted in Resetting or Failed
  pump,    \* where the event thread is
  owner    \* where the owner is

vars == <<gstate, fd, files, io, handle, alt, halted, wake, revived, pump, owner>>
settings == <<halted, wake>>

Audio     == {"audioOut", "audioIn"}
Endpoints == Required \cup Audio

\* S2GadgetState in its order: the code compares states by it.
Order == <<"Stopped", "DeviceInitialized", "Connected", "Addressed", "Configured", "HidReady",
           "AudioPlaybackActive", "AudioCaptureActive", "Resetting", "Failed">>
Rank(s) == CHOOSE n \in DOMAIN Order : Order[n] = s
AtLeastReady(s) == Rank(s) >= Rank("HidReady")

\* s2_rawgadget_io_ready
IoReady == AtLeastReady(gstate) /\ Rank(gstate) < Rank("Resetting")

\* s2_rawgadget_nodes_ready
NodesReady == fd # 0 /\ io /\ pump # "exited" /\ gstate \notin {"Stopped", "Failed"}

\* The answers to GET_CONFIGURATION and, of an endpoint, to GET_STATUS.
ConfigurationTold == IF Rank(gstate) >= Rank("Configured") /\ Rank(gstate) < Rank("Resetting")
                     THEN 1 ELSE 0
HaltTold(e) == e \in halted

NoHandles == [e \in Endpoints |-> 0]
NoAlts    == [e \in Audio |-> 0]

TypeOK ==
  /\ gstate \in {Order[n] : n \in DOMAIN Order}
  /\ fd \in 0..files /\ files \in 0..MaxFiles
  /\ io \in BOOLEAN /\ wake \in BOOLEAN /\ revived \in BOOLEAN
  /\ handle \in [Endpoints -> 0..MaxFiles]
  /\ alt \in [Audio -> {0, 1}] /\ halted \subseteq Endpoints
  /\ pump \in {"check", "fetch", "enable", "configure", "exited"}
              \cup Audio
  /\ owner \in {"idle", "disable", "close", "clear", "join", "open"}

Init ==
  /\ gstate = "Stopped" /\ fd = 0 /\ files = 0 /\ io = FALSE
  /\ handle = NoHandles /\ alt = NoAlts /\ halted = {} /\ wake = FALSE
  /\ revived = FALSE /\ pump = "exited" /\ owner = "idle"

-----------------------------------------------------------------------------
(* Endpoints.                                                              *)

\* raw_ep_disable on the handles of E.  A worker that does not leave its ioctl within 50
\* attempts keeps the endpoint and its handle; without a file the handle is dropped.
Without(E, before) ==
  {[e \in Endpoints |-> IF e \in E \ busy THEN 0 ELSE before[e]] :
     busy \in IF fd = 0 THEN {{}} ELSE SUBSET E}

\* disable_all_endpoints
DisableAll == handle' \in Without(Endpoints, handle) /\ alt' = NoAlts

\* What enable_all_endpoints stores: E of the required endpoints were opened.  The handles
\* are stored one by one; a file closed between two of them leaves one missing.
Opened(E, before) ==
  [e \in Endpoints |-> IF e \in E THEN fd ELSE IF e \in Required THEN 0 ELSE before[e]]

\* Seeded fault: with some of its endpoints the gadget is taken for ready.
EnableAllAnyway ==
  /\ pump = "enable"
  /\ \E E \in SUBSET Required, kept \in Without(Endpoints, handle) :
       /\ E # {} => fd # 0
       /\ handle' = Opened(E, kept)
       /\ IF E = Required THEN pump' = "configure" /\ UNCHANGED gstate
                          ELSE pump' = "check" /\ gstate' = "HidReady"
  /\ alt' = NoAlts
  /\ UNCHANGED <<fd, files, io, settings, revived, owner>>

\* enable_all_endpoints in SET_CONFIGURATION(1)
EnableAll ==
  /\ pump = "enable"
  /\ \E E \in SUBSET Required, kept \in Without(Endpoints, handle) :
       /\ E # {} => fd # 0
       /\ IF E = Required
          THEN handle' = Opened(E, kept) /\ pump' = "configure" /\ UNCHANGED gstate
          ELSE handle' \in Without(Endpoints, Opened(E, kept)) /\ pump' = "check"
               /\ gstate' = "Failed"
  /\ alt' = NoAlts
  /\ UNCHANGED <<fd, files, io, settings, revived, owner>>

\* USB_RAW_IOCTL_CONFIGURE
Configure ==
  /\ pump = "configure"
  /\ \/ /\ fd # 0 /\ gstate' = "HidReady"
        /\ UNCHANGED <<handle, alt>>
     \/ /\ DisableAll /\ gstate' = "Failed"
  /\ pump' = "check" /\ UNCHANGED <<fd, files, io, settings, revived, owner>>

-----------------------------------------------------------------------------
(* The console's events, handled by the event thread between two fetches.  *)

Handling == pump = "fetch" /\ fd # 0 /\ io

ForgetSettings == halted' = {} /\ wake' = FALSE

\* reset_connection_state
ResetConnection(s) == gstate' = s /\ DisableAll /\ ForgetSettings

\* CONNECT, SET_ADDRESS
StateEvent ==
  /\ Handling /\ \E s \in {"Connected", "Addressed"} : gstate' = s
  /\ pump' = "check" /\ UNCHANGED <<fd, files, io, handle, alt, settings, revived, owner>>

\* RESET, DISCONNECT, SET_CONFIGURATION(0)
ResetEvent ==
  /\ Handling
  /\ \E s \in {"Resetting", "DeviceInitialized", "Addressed"} : ResetConnection(s)
  /\ revived' = FALSE
  /\ pump' = "check" /\ UNCHANGED <<fd, files, io, owner>>

\* SET_CONFIGURATION(1) up to the endpoints; an acknowledgement that fails asks for a
\* re-enumeration and changes nothing.  remote_wakeup is kept here.
SetConfiguration ==
  /\ Handling
  /\ gstate' = "Configured" /\ halted' = {} /\ revived' = FALSE
  /\ pump' = "enable" /\ UNCHANGED <<fd, files, io, handle, alt, wake, owner>>

\* publish_audio_state
AudioState(a) == IF a["audioIn"] # 0 THEN "AudioCaptureActive"
                 ELSE IF a["audioOut"] # 0 THEN "AudioPlaybackActive" ELSE "HidReady"

\* SET_INTERFACE is refused below HidReady only: Resetting and Failed rank above.
InterfaceAccepted == AtLeastReady(gstate)
Revive == revived' = (revived \/ gstate \in {"Resetting", "Failed"})

\* transition_audio_alt to 0: the handle of an endpoint that stays busy is kept.
AudioOff(e) ==
  /\ Handling /\ InterfaceAccepted
  /\ alt' = [alt EXCEPT ![e] = 0]
  /\ handle' \in Without({e}, handle)
  /\ gstate' = AudioState(alt') /\ Revive
  /\ pump' = "check" /\ UNCHANGED <<fd, files, io, settings, owner>>

\* transition_audio_alt to 1 with a handle still there: it is used again.
AudioAgain(e) ==
  /\ Handling /\ InterfaceAccepted /\ handle[e] # 0
  /\ alt' = [alt EXCEPT ![e] = 1]
  /\ gstate' = AudioState(alt') /\ Revive
  /\ pump' = "check" /\ UNCHANGED <<fd, files, io, handle, settings, owner>>

\* ... without one: the endpoint is enabled, its handle stored by a later step.  If it
\* fails the state is published again.
AudioOn(e) ==
  /\ Handling /\ InterfaceAccepted /\ handle[e] = 0
  /\ Revive
  /\ \/ pump' = e /\ UNCHANGED gstate
     \/ pump' = "check" /\ gstate' = AudioState(alt)
  /\ UNCHANGED <<fd, files, io, handle, alt, settings, owner>>

\* The event thread runs for one file only, the last one opened.
StoreAudio(e) ==
  /\ pump = e
  /\ handle' = [handle EXCEPT ![e] = files]
  /\ alt' = [alt EXCEPT ![e] = 1]
  /\ gstate' = AudioState(alt')
  /\ pump' = "check" /\ UNCHANGED <<fd, files, io, settings, revived, owner>>

\* SET_FEATURE and CLEAR_FEATURE.  The kernel does not halt an isochronous endpoint
\* (raw_gadget.c, raw_ioctl_ep_set_clear_halt_wedge).
SetFeature ==
  /\ Handling
  /\ \/ \E e \in {r \in Required : handle[r] # 0} :
          /\ halted' \in {halted \cup {e}, halted \ {e}}
          /\ UNCHANGED wake
     \/ wake' \in BOOLEAN /\ UNCHANGED halted
  /\ pump' = "check" /\ UNCHANGED <<gstate, fd, files, io, handle, alt, revived, owner>>

\* Seeded fault: the thread goes back to its fetch without a look at io_running.
CheckNothing ==
  /\ pump = "check" /\ pump' = "fetch"
  /\ UNCHANGED <<gstate, fd, files, io, handle, alt, settings, revived, owner>>

\* event_pump_loop: the loop's test; a fetch interrupted by a signal goes back to it.
CheckRunning ==
  /\ pump = "check"
  /\ pump' = IF io THEN "fetch" ELSE "exited"
  /\ UNCHANGED <<gstate, fd, files, io, handle, alt, settings, revived, owner>>
Interrupted ==
  /\ pump = "fetch" /\ ~io
  /\ pump' = "check"
  /\ UNCHANGED <<gstate, fd, files, io, handle, alt, settings, revived, owner>>

\* A fetch that fails, for a closed file or in the driver, ends the thread.
FetchFails ==
  /\ pump = "fetch"
  /\ gstate' = "Failed" /\ io' = FALSE /\ DisableAll
  /\ pump' = "exited" /\ UNCHANGED <<fd, files, settings, revived, owner>>

Pump ==
  \/ CheckRunning \/ Interrupted \/ FetchFails
  \/ EnableAll \/ Configure
  \/ \E e \in Audio : StoreAudio(e)

Console ==
  \/ StateEvent \/ ResetEvent \/ SetConfiguration \/ SetFeature
  \/ \E e \in Audio : AudioOff(e) \/ AudioAgain(e) \/ AudioOn(e)

-----------------------------------------------------------------------------
(* s2_rawgadget_teardown and s2_rawgadget_setup.                           *)

\* s2_rawgadget_setup: what is there is torn down first, unless it is good enough.
StartSetup ==
  /\ owner = "idle" /\ files < MaxFiles
  /\ IF fd # 0 \/ io THEN owner' = "disable" /\ io' = FALSE
                     ELSE owner' = "open" /\ UNCHANGED io
  /\ UNCHANGED <<gstate, fd, files, handle, alt, settings, revived, pump>>

StartTeardown ==
  /\ owner = "idle" /\ fd # 0
  /\ io' = FALSE /\ owner' = "disable"
  /\ UNCHANGED <<gstate, fd, files, handle, alt, settings, revived, pump>>

TeardownDisable ==
  /\ owner = "disable" /\ DisableAll /\ owner' = "close"
  /\ UNCHANGED <<gstate, fd, files, io, settings, revived, pump>>

TeardownClose ==
  /\ owner = "close" /\ fd' = 0 /\ owner' = "clear"
  /\ UNCHANGED <<gstate, files, io, handle, alt, settings, revived, pump>>

\* clear_endpoint_handles
ClearHandles ==
  /\ owner = "clear" /\ handle' = NoHandles /\ owner' = "join"
  /\ UNCHANGED <<gstate, fd, files, io, alt, settings, revived, pump>>

\* join_rawgadget_workers and the rest of the teardown.
TeardownEnd ==
  /\ owner = "join" /\ pump = "exited"
  /\ gstate' = "Stopped" /\ alt' = NoAlts
  /\ owner' \in {"idle", "open"}
  /\ UNCHANGED <<fd, files, io, handle, settings, revived, pump>>

\* Opening the device and starting the threads, or failing at a step that leaves the
\* file closed.  The handles are not touched.
Open ==
  /\ owner = "open" /\ files < MaxFiles
  /\ files' = files + 1
  /\ \/ /\ fd' = files' /\ gstate' = "DeviceInitialized" /\ io' = TRUE /\ pump' = "check"
        /\ alt' = NoAlts /\ ForgetSettings
     \/ UNCHANGED <<fd, gstate, io, pump, alt, settings>>
  /\ owner' = "idle" /\ revived' = FALSE /\ UNCHANGED handle

OpenFails ==
  /\ owner = "open" /\ owner' = "idle"
  /\ UNCHANGED <<gstate, fd, files, io, handle, alt, settings, revived, pump>>

Owner ==
  \/ StartSetup \/ StartTeardown
  \/ TeardownDisable \/ TeardownClose \/ ClearHandles \/ TeardownEnd
  \/ Open \/ OpenFails

Next == Pump \/ Console \/ Owner
Spec == Init /\ [][Next]_vars

\* The threads run; what the console sends and when the owner starts is up to them.
Fairness ==
  /\ WF_vars(Pump)
  /\ WF_vars(TeardownDisable \/ TeardownClose \/ ClearHandles \/ TeardownEnd)
FairSpec == Spec /\ Fairness

-----------------------------------------------------------------------------
TearingDown == owner \in {"disable", "close", "clear", "join"}

\* While the gadget runs, no handle of a required endpoint belongs to a file opened
\* earlier, whichever of the failing branches the event thread took when the gadget was
\* torn down (clear_endpoint_handles).
RequiredFresh == io => \A e \in Required : handle[e] \in {0, fd}

\* The same of every endpoint: "Never carry those integer handles into the next Raw
\* Gadget file descriptor."  It does not hold of the audio ones, and no run checks it.
NoStaleHandle == io => \A e \in Endpoints : handle[e] \in {0, fd}

\* The writer streams reports (io_ready), and the console is told of a configuration, only
\* when the required endpoints are there, between two events and unless a SET_INTERFACE
\* was accepted in Resetting or Failed, which publishes HidReady.
ReadyHasEndpoints ==
  (IoReady \/ ConfigurationTold = 1) /\ io /\ ~revived /\ pump \in {"check", "fetch"}
    => \A e \in Required : handle[e] # 0

\* The console is never told of a halt of an endpoint that is gone: after a reset and a new
\* SET_CONFIGURATION the endpoints are not halted, and neither does GET_STATUS say so.
HaltedIsOpen == io => \A e \in Required : HaltTold(e) => handle[e] # 0

\* A teardown ends: the event thread is never left in a fetch, whatever the file was
\* closed in the middle of.
TeardownEnds == TearingDown ~> ~TearingDown
=============================================================================
