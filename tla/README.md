# NS-PC-Control: specification and verification

NS-PC-Control makes a Raspberry Pi look like game controllers to a console. A
server (`server/`) emulates the controllers over USB; clients (a Qt/SDL desktop
program, browsers, phones, Bluetooth pads) send it controller reports over UDP or
WebSocket. This directory holds TLA+ models of the parts of the server and of the
desktop client that decide something over time (threads that meet, datagrams that get
lost, processes that die), what TLC checks about them on small instances, and what
TLAPS proves about them for every value of the constants: every invariant and every
action property that a run checks.

Paths below are relative to the repository root without `src/`, e.g.
`server/src/main.cpp` is the file of that name in the repository.

## 1. The system

### Threads

| thread | code | what it changes |
|---|---|---|
| UDP loop | `server/src/main.cpp` | admits, feeds and drops UDP sessions; starts macros; confirms sleep |
| libwebsockets | `server/src/web_server.cpp` | the same for pages; one callback at a time |
| USB writer | `server/src/writers.cpp` | drops silent sessions, assigns ports, plays reports, restarts the gadget |
| Raw Gadget event thread, six endpoint threads | `server/src/s2_rawgadget.cpp` | bus events, control requests, queues |
| UDP feedback | `server/src/udp_feedback.cpp` | sends rumble, status, assignments |
| statistics, Bluetooth | `writers.cpp`, `bluetooth_*.cpp` | poll the sleep state; Bluetooth sessions |
| main | `server/src/main.cpp` | sets the gadget up, stops, starts the process again in another family |
| wake advertisement | `server/src/gadget_wakeup.cpp` | borrows the Bluetooth adapter for a burst |
| client: sender, window, rumble receiver | `client/src/stream_runtime.cpp`, `main_window.cpp`, `rumble_client.cpp` | probe, stream, reconnect; start and stop; feedback |

They share `g_ctx` (`server/include/app_state.hpp`): one mutex per client slot,
further mutexes for the dormant table and the macros, and many independent atomics.
No lock covers two slots, or a slot and an atomic: everything in section 3 is about
that.

### Components

| component | state | operations | hard behaviour | what makes it correct | here |
|---|---|---|---|---|---|
| sessions over UDP | `clients[4]`, `switch2_dormant_udp_*`, macro runtimes, `switch2_sleep_seq` | packet of a known / new sender, macro, disconnect, timeout, forced release | slot number used after the mutex was let go; release in the middle of a packet; table of dormant endpoints full | one session per endpoint; a report is its owner's; a blocked endpoint stays blocked until it disconnects; a dead client's slot is freed | `Sessions` |
| sessions over WebSocket | `SessionData` of each connection | established, report, macro, pair, timer, closed, writeable | slot number kept across callbacks; one-shot timers | no page ends somebody else's session; none leaves its own behind; stale connections close | `WebSessions` |
| enumeration recovery | seven atomics of `s2_enumeration.cpp`, the gadget | request, service, progress reports, client connected / disconnected | lock-free flags, two requesters, restart joined with its requester | recovery ends; restarts are bounded; sessions can recover; no failure is lost | `Enumeration` |
| port assignment | `hw_slots`, `client_assignment` | `reconcile_hw_slots`, `free_virtual_slot_count` | displacement by pairs and by earlier clients; scattered ports; ports promised twice; a session told its ports after its slot changed hands | what fits is served; no newcomer moves a pad; what a session is told is what it plays on; no more is promised than there is | `PortAssignment` |
| sleep and wake | times and flags of the USB host, atomics each | mark activity / resumed / disconnected, poll, confirm, wake | decision on times read before a resume; stores of three threads overtaking each other | a console that went away is found asleep, one that plays is not, a client that came in between has its wake-up tried | `Sleep` |
| USB gadget life | descriptor, endpoint handles, state of `s2_rawgadget.cpp` | control requests, configuration, audio alternates, reset, teardown | teardown while the event thread is in an ioctl; handles of an earlier file; enabling half the endpoints | handles are the open file's; configured means that the endpoints are there; a teardown ends | `UsbGadget` |
| Raw Gadget queues | HID and vendor queues, `generation` | push, poll, submit, send, retry, clear | entries of an old connection, bounded queues, repeated commands | only what a worker has in hand crosses a reset; a command that waits is answered, once | `GadgetQueues` |
| raw_gadget kernel module | device and endpoint states, endpoint 0, event queue, references | ioctls, callbacks of the controller, release | a callback during a disable or a release; overflow of the queue | requests outlive their transfers; the device is freed last; endpoint 0 comes free | `RawGadgetDriver` |
| vendor commands | assembler, `NativeState`, calibration file | fragment, command, save | split commands, too long ones, pauses, resets; failures while saving | commands come out whole, in order and once; the file is a whole record | `VendorCommands` |
| amiibo | NFC session of a port, library files, HID event state | NFC commands, select, upload, save, expire | retries and abandoned writes; a failing library; a client presenting over all of it | an image is of one write; what was written is saved before the tag goes; the picker follows the tag | `Nfc`, `TagPresence`, `NfcPort` |
| server start, modes, exit | configfs, process, `pending_restart_family` | set-up, repair, request, teardown, re-exec | failure or kill between any two steps; two requests; sessions that come and go while the slots are looked at | a visible gadget is whole; one owner of the controller; no restart over a client that plays throughout; the gadget comes back | `ServerLifecycle`, `FamilyChange` |
| Bluetooth wake adapter | the adapter, BlueZ, the saved configuration | set-up wizard, server start, burst, stop | failing command, kill, adapter renamed | the adapter is given back as it was; a wizard and a burst end | `WakeAdapter` |
| packet order, mouse | `expected_seq`, mouse accumulators | accept, reset, accumulate, consume | jump rule, wrap, late packets, a client that starts again | newer input wins; a new client is heard; no movement is lost or invented | `InputStreams` |
| macro upload and playback | upload slot, `server_macros` | datagram, chunk, start, check, stop | chunks lost, repeated and mixed with those of another upload | what plays is one upload, whole, and ends | `MacroUpload` |
| feedback | numbers per session and flow | publish, send, receive | loss, reordering, reset of a session | the last value reaches the client; a motor is stopped by who started it | `Feedback` |
| client connection | flags and thread of `stream_runtime.cpp` | start, stop, probe, stream, retry | stop and start again while the old thread runs; decisions among losses | decisions are final, losses are retried, a stop is a stop | `ClientConnection` |
| client frame | settings, gamepads, release filters, names | build a frame, tell the names | gamepads come and go, settings change between two looks | each pad of a frame is who the names say; no release later than the grace | `ClientFrame` |
| macro hotkeys | key caches, hotkey list, mouse mode, dialogs | press, poll, edit, import, save | windows that take the keys; edits while a key is down; mouse buttons that read as up | one start per press, with the exceptions of section 2 | `MacroKeys` |
| rate limiting, Bluetooth controllers, report formats, motion, audio, user interfaces, web and mobile applications | | | | data layout, I/O and presentation | not modelled |

### Interactions

* The UDP loop and the web thread open sessions (`allocate_client_session`), which
  tells the enumeration that a client has come (`switch2_enumeration_client_connected`).
* The enumeration, when its retries are exhausted, the event thread on USB suspend,
  and every poller of the sleep state run `release_switch2_active_session`, which ends
  all sessions, blocks UDP endpoints and increments `switch2_sleep_seq`.
* Pages notice the increment in their 10 ms timer and close; UDP endpoints are blocked
  until they send `FLAG_DISCONNECT`.
* The writer reads every session each tick, and is the only thread that restarts the
  gadget; a restart joins the event thread.
* The event thread (`UsbGadget`) clears the queues (`GadgetQueues`) and stands on the
  driver (`RawGadgetDriver`): one of its ioctls is several steps there.
* The queue of vendor commands ends in `VendorCommands`; the amiibo commands among them
  are `Nfc`. What `Nfc` does to the presence of a tag is `TagPresence`, and `NfcPort`
  takes that as what any command may do.
* The sleep of `Sleep` ends in the forced release of `Sessions`; its advertisement is
  one step there and a thread of `WakeAdapter`.
* A client's frames (`ClientFrame`) go out under the numbers of `InputStreams`, its
  hotkeys (`MacroKeys`) start the uploads of `MacroUpload`.

## 2. Modules

| module | models | composed with |
|---|---|---|
| `Sessions` | session table, UDP loop, writer timeout, macros, forced release, client processes | |
| `WebSessions` | EXTENDS `Sessions`: the libwebsockets thread on the same table | `Sessions` |
| `Enumeration` | `s2_enumeration.cpp` with the event thread, the writer and the client threads | |
| `PortAssignment` | `reconcile_hw_slots`, the port count of admission, the publication of assignments | |
| `Sleep` | the lifecycle flags, pollers, writer, event thread, the client that wakes | |
| `UsbGadget` | the event thread and the set-up and teardown of `s2_rawgadget.cpp` | |
| `GadgetQueues` | the queues and workers of `s2_rawgadget.cpp` with the writer | |
| `RawGadgetDriver` | `raw_gadget.c` with two of its users and the controller | |
| `VendorCommands` | `s2_vendor_rx.hpp` and the commands of `switch2_native.cpp` that change state | |
| `TagPresence` | abstract: a tag is there, taken away once, gone | |
| `Nfc` | the NFC session of `s2_nfc_codec.cpp`, its persistence and selection | implements `TagPresence` |
| `NfcPort` | HID event state and picker of `virtual_controller.cpp`, with the writer's layout, assignments and withdrawal | on what `TagPresence` allows |
| `ServerLifecycle` | processes, configfs, requests to change the family and what they lead to | |
| `FamilyChange` | the look at the other clients that a request waits for, in two threads | |
| `WakeAdapter` | the Bluetooth adapter, the wizard, a server and its bursts | |
| `InputStreams` | controller frames and mouse packets from client to session | |
| `MacroUpload` | upload, expansion and playback of a macro | |
| `Feedback` | status, assignment, rumble, roster and amiibo requests to a client | |
| `ClientConnection` | sender thread, window and server's answers | |
| `ClientFrame` | the send loop's frame and the names | |
| `MacroKeys` | key and mouse button caches, hotkeys, and the dialogs of macros, bindings and settings | |
| `MCSessions`, `MCWebSessions`, `MCEnumeration`, `MCPorts` | one module each for TLC, with the symmetry sets | |
| `MCGadget`, `MCServer`, `MCNetwork`, `MCEnds` | several modules each for TLC | see below |
| `SessionsProofs`, `WebSessionsProofs`, `EnumerationProofs`, `PortProofs` | theorems about the module of that name | |
| `GadgetProofs`, `ServerProofs`, `NetworkProofs`, `EndsProofs` | theorems about the parts of `MCGadget`, `MCServer`, `MCNetwork`, `MCEnds` | |

### How several modules share a run

The modules of `MCGadget` (`UsbGadget`, `GadgetQueues`, `RawGadgetDriver`,
`WakeAdapter`), `MCServer` (`Sleep`, `ServerLifecycle`, `FamilyChange`), `MCNetwork` (`InputStreams`,
`ClientConnection`, `MacroUpload`, `Feedback`) and `MCEnds` (`VendorCommands`, `Nfc`,
`NfcPort`, `MacroKeys`, `ClientFrame`) have no variable in common. A behaviour of such a
run chooses one of them in the variable `part`; the others stay in one of their initial
states. The state space is therefore the sum of the parts', not their product, and a
property of one part means what it means in the module alone: an invariant holds of the
resting parts because it holds initially, and a liveness property is stated as
`part = "x" /\ X!Fairness => X!Liveness`. The sizes and bounds of these modules are
CONSTANTS that the `.cfg` files give values to, so the theorems about a run's
specification hold for every value of them. The properties that the runs list
are the conjunctions of what each module promises, and are commented where they are
defined; the named parts, which say more of the code, are at the end of each module.

### Sessions

`session[i]` is `g_ctx.clients[i]`. `last_rx_us` is abstracted to `idle` ("older than
`CLIENT_TIMEOUT`"), the report to the client it came from. `dormant` is the table
`switch2_dormant_udp_addrs`, `macro[i]` the client whose server macro runs on slot `i`,
`sweep[r]` the place of releaser `r` inside `release_switch2_active_session`, and `udp`
the packet in hand and where the UDP loop is with it. A step is what a thread does
under one slot's mutex. Hence a controller packet is up to four steps (find and
decide, allocate, clear the dormant entry, apply), a disconnect is three (find, forget,
reset), and a release two per slot (reset, stop macros) plus the increment of the
sequence number at the end.

`byMacro` is a history variable. `up` says which client processes are alive; it is
there for the liveness property. A refused packet changes nothing and has no action.
Clients bring one pad each, for which the port count that admission also tests agrees
with the client count (`PortAssignment` has clients of several pads). The slot's macros are
stopped in the step that closes the slot (the code stops them just after the mutex), which no UDP-only interleaving can tell
apart because the closing thread is the only one that starts macros on it; with pages
on the same table it is an abstraction.

`writer` is the slot whose timeout the writer is about to look at, or none while it is out of
its inner loop (`WriterLook`, `PortLive`). Nobody else looks at `CLIENT_TIMEOUT`, so a dead
client keeps its slot as long as the console leaves the port unconfigured. `Outages` says
whether the port comes and goes; where it does not, the writer is in the loop throughout, which
for the safety properties is the case with more behaviours.

Bluetooth sessions are not modelled.

### WebSessions

`ws[b]` is the `SessionData` of a connection and `web` the place of the one
libwebsockets thread inside a callback. The callbacks are the actions. The slot number
of a connection is forgotten only where the code writes -1, and a session's `source`
tells a page from a UDP client but not one page from another, as in
`reset_client_session_if_source`. `timer` says whether `lws_set_timer_usecs` is
pending, `full` is `close_after_write`.

### Enumeration

`state`, `failures`, `requested`, `running`, `automatic` are the atomics of
`s2_enumeration.cpp` (the two `_logged` flags only choose what is printed). `pc[t]` is
where thread `t` is; a member of `States` means that it has passed the tests of the
function it is in and is about to call `transition_to` with that state. A step is one
access to shared state; the tests at the head of a function are one step with its first
access where they commute with the accesses of the others. `gadget` is what Raw Gadget
can do: `"failed"` is `S2GadgetState::Failed` with the threads running, `"dead"` when
the event thread has ended too, `"down"` after a teardown. `Join` waits for the event
thread, as `join_rawgadget_workers` does: this is what makes `RecoveringHasWork` true.
`restarts` is a history variable.

The writer's inner loop tests the transport at the end of an iteration only:
`WriterReady` therefore lets it handle a command or rebuild for a new identity while
the gadget has failed. For a gadget whose event thread has ended this allows more
iterations than the one the code can be in.

### PortAssignment

`client[c]` is what port assignment reads of a session: its report as a function from
pads to `Kinds`, and `quiet` for "past `CLIENT_TIMEOUT`". `told[c]` is the union of the
`console_port_mask`s of `client_assignment`, `hw` is `hw_slots`. `Reconcile` is
`reconcile_hw_slots` for Switch 1 and Hori gadgets: `Placed[n]` is the layout after `n`
turns, a turn being a pad that asks for a pair or, when all of those have had theirs, one
that asks for a single port, both in the order of the code. `admit[t]` is where an
admitting thread is between counting the ports, allocating the session and storing the
report. The writer's tick is one step that copies the sessions and lays the ports out, and one per session
that is told. `CutShort` is a tick that ends in between because the console must read another
identity: `hw` is the new layout and nobody has been told it (`Untold`). `macros[c]` are the
pads of `c` that a server macro drives; the layout gives them ports whether they are shown or
not (`Playing`), and `Used`, which admission goes by, sees only those shown or told. A Switch 2
gadget has one client, one pad and one port, and is left out; so are the drains and neutral
bursts of a port that changes hands.

### UsbGadget, GadgetQueues, RawGadgetDriver

Three levels of one thread. In `UsbGadget` a handle is the number of the opened file it
belongs to, and a control request is one step, cut after each ioctl whose result is
stored later. `GadgetQueues` has the generation as one atomic and each queue under a
mutex of its own; `traffic` chooses which of the pairs of endpoints a behaviour uses,
since they share only the generation. The connection an entry really belongs to is kept
as history (`conn`), next to the generation the code stamped it with. `RawGadgetDriver`
lets go of `dev->lock` where the driver does, so a callback of the controller can come
between the two halves of a disable or of a transfer. The answer to a control request may go
the wrong way or fail to be queued; the server does not look at the result, and the request
stays pending (`refused`).

### Sleep

Each store of an atomic is a step; times are ages in ticks, capped where the code only
compares them. One new client comes per behaviour. Two atomics that a function stores in
a straight line without a test between them are one step only where no other thread's
decision depends on their order; a poll shorter than a tick does not see time pass.
`undone` marks the behaviours in which a report taken before a suspend is counted after
it; `SleepIsSeen` excludes them.

### ServerLifecycle, FamilyChange, WakeAdapter

What outlives a process is state of the system: the directory, attributes, functions and
binding in configfs; the adapter's address and the saved configuration. A kill is an
action at every step. A set-up of the gadget is a step per thing it creates, each of
which may fail. Commands to the adapter go to a name and are without effect when the
adapter has another. Some faults leave the adapter changed whatever the code does: the
process is killed, the adapter disappears or gets another name while it is borrowed. The
history variable `left` marks them, and is cleared by a wizard that completes with the
adapter where it expects it; `WakeInv` promises something where `left` is `FALSE`.

A request to change the family is granted if nobody else plays. `ServerLifecycle` has what
follows a grant (`Accepts` leaves the clients open); `FamilyChange` has the look, slot by slot
as `other_active_clients_exist` and the web callback take the mutexes, then the answer and the
stop, with clients that open, keep, change and lose sessions between any two of these. A
session is who plays it and whether it is `quiet`, past `CLIENT_TIMEOUT`; as the code compares with
the time of the request, `Look` may still count a session that has become quiet since. A page may
store in the slot it remembers whoever has it by now, as `WebSessions` shows that it
may. `steady` is history: the sessions heard of when the thread began to look and heard of ever since.

### VendorCommands, Nfc, NfcPort

Vendor bytes come in units, a header of two and a command of up to four, so that a
fragment can end anywhere in both. In `Nfc` a staged chunk is `"new"`, or `"old"` once
another write has begun; of an image the model keeps whether a commit mixed the two. The
library may fail to save. `TagIsTaken` is the refinement: under the mapping given in
`Nfc`, every behaviour is one of `TagPresence`.

In `NfcPort` a command does one of three things to the tag: `Stays`, `Taken` (by the end of a
read or a write, or by a deadline that lapsed, which a scan or any later command notices) or
`Returned` (a kept tag is put back by the end of a read, `s2_nfc_codec.cpp:1014-1017`). `slot`
is the writer's layout and `mapped` what the session was told of it, which is older after a
tick that was cut short (`writers.cpp:505-525`); a request of the picker goes by what was
told. A controller without a reader closes the picker twice: at its own commands (`Unsupported`)
and when the writer tells the ports (`Withdraw`). `returned` is history: a tag was put back
under an open picker, which the server does not close. `hid.left` counts the time until an
event is due, and every command that schedules one begins it anew.

### InputStreams, MacroUpload, Feedback, ClientConnection

`net` is a bag or set of datagrams that may be lost, overtake each other and, for
macros, come twice. Numbers that wrap keep the code's comparisons on a smaller circle: the
2^32 of the mouse is 8, the 2^16 of requests is 12, each more than twice what is sent; a
behaviour starts at 0, or so near the end of the circle that it wraps. The numbers of
controller frames do not wrap: 2^32 of them are half a year. The window of 100 frames is 2.
A text of a macro is a sequence of commands, one per chunk. In `ClientConnection` `server` is what the server would answer at the moment,
and every store another thread could act on is a step.

### ClientFrame, MacroKeys

A report is the set of what is pressed in it. A frame is one tick, the grace of a release
two. The names are built by another function from another look at the gamepads: that the
two agree is `FrameInv`, that the server learns them is `NamesAreTold`. `MacroKeys`
assumes that the user is slower than the sender's poll: the window of the macros is closed
one poll after an edit at the earliest.

A button of the mouse can be a hotkey (`dialogs.cpp:885-890`) and reads as up unless mouse
mode is active, which it never is while a window is open (`input_settings.cpp:151-156` and
418): `Deaf`. A press that started a macro or chose a hotkey is `"used"`, and it is `"lost"`
once the code has forgotten it while it lasts. That happens in two ways: a poll finds a
button up because it is deaf; and a save of the settings takes the buttons' hotkeys away,
clears what was noted of all keys (`clear_mouse_button_inputs`) and closes the last window
before a poll. There is a third gap: the button for the macros clears what was noted
(`load_macro_entries`) before the constructor of their window suspends the keyboard
(`main_window.cpp:102-103`), and a poll in between (`loading`) starts what is held again.
`OncePerPress` is about every other poll and press; `EveryPressOnce`, which has none of these
exceptions, does not hold.

## 3. Runs

| run | result | what it shows |
|---|---|---|
| `sessions` | holds | 3 endpoints, 2 slots, 2 dormant entries, 2 releases; 3.4 M states. Types and slot numbers; no endpoint has two sessions; what the UDP loop looked up stays true; a report is its owner's; a dormant endpoint gets a session only by a macro; leaves the table only by disconnect, by an admission under way or when it is full; a disconnect leaves neither session nor macro. |
| `sessions_live` | holds | Switch 2 mode, 2 endpoints, 1 slot: the slot of a client that dies is freed, though the console takes the port down and configures it again, as long as it does not leave it down for ever. |
| `web_sessions` | holds | 2 pages, 1 UDP endpoint, 1 slot, 1 release; 2.9 M states. A slot number is never -1 when it is used; a page that has gone leaves no session of its own; web callbacks leave UDP sessions alone, except one that is past its timeout or one that got the slot between the check of a report and its store. |
| `enumeration` | holds | event thread, writer, 2 client threads, limit 3; 237 k states. Recovering always has a request or a restart to end it, and ends; a session that outlives exhaustion can recover; at most limit + 1 restarts between two resets of the counter. |
| `ports` | holds | 2 UDP clients of 2 pads on 4 ports, macros on one pad; 1.1 M states. Whenever what the sessions ask for and their macros drive fits, every pad gets its port and every pair two of one group; a single loses its port only to a pair or an earlier pad; after a tick that was not cut short a session knows the ports its slot plays on, or none; nobody is admitted into ports that the pads others show have asked for. |
| `gadget` | holds | 144 k states. `UsbSafe`: handles, readiness and halts of the gadget. `QueuesSafe`, `CommandsAnswered`: nothing queued for a connection reaches the next but what a worker had in hand; no retry is answered twice and no command that waits is forgotten. `DriverSafe`: requests, references and endpoint 0 of the kernel module, which comes free again unless an answer is refused (`CommandsAnswered`). `WakeInv`: the adapter is given back. `TeardownEnds`: a teardown of the gadget ends whatever the event thread was doing, and so does what borrows the adapter. |
| `server` | holds | 319 k states. `SleepInv`: two threads that ask for the radio start one burst; a client that came while the console was off is remembered until its wake was tried. `SleepSeen`: sleep is found, play is not taken for sleep, a newcomer wakes the console. `LifecycleSafe`, `LifecycleProgress`: what the console sees is a whole gadget, no client is promised a restart over another that played when it asked and until it was answered (but for the one in a slot that a page takes for its own), the gadget comes back and a stop ends. |
| `network` | holds | 391 k states. `StreamsFollow`: newer input wins, a client that starts again is heard, movement is kept. `ConnectionDecides`: decisions end the attempt, a stop leaves nothing. `FeedbackArrives`: what was recorded as sent was sent, a request outlives two losses, a motor is stopped by who started it. `MacrosPlay`: one upload, whole, once. `NetworkSettles`: a dead client's mouse buttons are released, losses are retried, the last roster arrives, a macro ends. |
| `ends` | holds | 879 k states. `VendorInv`: commands whole, in order, once; the calibration file is a record. `NfcSafe`, `TagIsTaken`: an image of one write, saved before the tag goes, and the refinement of `TagPresence`. `PickerFollowsTag`: the picker of a client that plays stands over a tag only until the thread that presented it says so, or when the server put the tag back; it is not closed before a tag was presented while the client keeps its port; no NFC event is dropped, and each comes if the console stops putting it off and the controller keeps its reader. `FrameInv`, `NamesAreTold`: frames and names agree, and the names arrive. `OncePerPress`: a press of a hotkey starts its macro, and once, but for the presses that are lost. |
| `dead_gadget` | violated | A failure of the rebuilt gadget reported while `g_recovery_running` is set is dropped as a duplicate of a request already consumed; nothing restarts the gadget, against `s2_enumeration.hpp:27-28`. |
| `own_file` | violated | The id of a file is chosen before its tag is presented, and an upload of the client's own tag does not clear it: what the console writes to one tag is stored in the file of another, against `amiibo_library.hpp:34`. |
| `request_shown` | violated | A reset of the session numbers amiibo requests from 1 again while the client keeps the last number: newer requests are dropped as older ones, against `rumble_client.cpp:145`. |

### Other claims that do not hold

Each of these is stated as an operator at the end of its module and is violated there
under the constants of the module's run; no run repeats it.

| operator | what the code does |
|---|---|
| `Sessions!DormantIsBlocked` | A macro packet opens a session for a blocked endpoint (`app_state.cpp:996-1006`), against `app_state.hpp:225-226`. `DormantOnlyByMacro`, which holds, says that nothing else does. |
| `Sessions!CrashedClientFreedAlways` | `CLIENT_TIMEOUT` is looked at in the writer's inner loop only (`writers.cpp:457-476`): while the console leaves the port unconfigured a dead client keeps its slot. |
| `WebSessions!StaleConnectionCloses` | A timer between the release of the slot and the increment of `switch2_sleep_seq` is not armed again (`web_server.cpp:797`), against `app_state.hpp:222-224`. |
| `Enumeration!NoRestartWhileDisabled` | A request that passed the test of `g_automatic_recovery_enabled` (`s2_enumeration.cpp:107`) before the retries were exhausted is served while recovery is off, against `s2_enumeration.cpp:154-156`. |
| `PortAssignment!AdmittedFit` with `Admitters <- UdpAndWeb` (`MCPorts`) | With the web thread admitting too, ports counted for a newcomer are asked for by another session first, against `app_state.cpp:538-541`. |
| `PortAssignment!AdmittedFitPlaying` | A pad that only a macro drives gets a port (`writers.cpp:298-301`) and is not counted for a newcomer (`app_state.cpp:525-546`). |
| `RawGadgetDriver!ControlAlwaysAnswered` | A control request whose answer cannot be queued, or goes the wrong way (`s2_rawgadget.cpp:992-1016`), stays pending (`raw_gadget.c:728-734`), and later ones are refused (350). |
| `Sleep!DisconnectIsSeen` | A report taken from its queue before a disconnect counts as activity after it (`writers.cpp:800` and `872`). |
| `UsbGadget!NoStaleHandle` | The handle of an audio endpoint enabled during the teardown survives it (`s2_rawgadget.cpp:637-643`), against the comment at 1646-1648. |
| `VendorCommands!MouseInDefaultMask` | A reset of the port takes the mouse out of the default mask, against `switch2_native.cpp:366-368`. |
| `Nfc!StaysAway` | A read that completes after the tag was taken away puts it back (`s2_nfc_codec.cpp:1014-1017`), against 941-942. |
| `Nfc!OneWrite` | The coverage of an NTAG215 write is not cleared between two writes (`s2_nfc_codec.cpp:211-213`). |
| `InputStreams!PageMouseTaken` | Sessions take mouse packets of UDP clients only (`app_state.cpp:1166`), against `web_server.cpp:398-400`. |
| `ServerLifecycle!ReleasedOnExit` | A legacy gadget stays bound after some exits, against `docs/building-from-source.md:38`. |
| `ServerLifecycle!RestartsAsTheyWereTold` | Of two requests one is told a restart it does not get, against `protocol.hpp:97`. |
| `MacroKeys!EveryPressOnce` | The press of a button of the mouse that chose a hotkey, or is held while a window closes, starts the macro (`input_settings.cpp:418`); a press of any key does so again when it is held over a save of the settings that takes the buttons' hotkeys away (`input_settings.cpp:362-380`), or over a poll between `load_macro_entries` and the window (`main_window.cpp:102-103`). |
| `FamilyChange!OnlyTheRequesterIsExempt` | The page's slot number is used without looking whose the slot is (`web_server.cpp:502`): a page whose session was released does not count the client that has the slot now, against `web_server.cpp:481-484`. |
| `FamilyChange!NobodyElsePlays` | A client that the other thread lets in on a slot already looked at is not counted (`app_state.cpp:369-383`), against `protocol.hpp:51-53`. |

### Bounds, and why they are enough

* Three endpoints for two slots and two dormant entries: the server is full, the
  dormant table is full, and an endpoint is evicted. Nothing in the code compares more
  than two endpoints. Endpoints are symmetric where no liveness is checked.
* `MaxReleases` (2, or 1 where there are pages) bounds forced releases, the only
  unbounded counter; two let an endpoint be released, come back and be released again.
* One releaser: two simultaneous releases differ from one by the order in which slots
  are reset; the proofs hold for any set of releasers.
* Two pages and one slot: the slot is taken over by another page, or by a UDP client,
  between two callbacks of the first. One release is enough to make a stamp stale.
* Two clients of two pads on the four ports, macros on a pad of one of them: together they
  ask for up to six, so admission refuses; pads 0 and 1 prefer different ports and different
  groups, so kept singles scatter. `Shown` has a layout that asks for a pair and one that asks
  for a single; a new session asks for a single on its first pad, and with the macro the pair
  plays beside the second one.
* `Outages`: in `sessions_live` the port goes at any turn of the writer and comes back or not.
* The retry limit is the code's. Two client threads let a session be opened while
  another one ends.
* `gadget`: the gadget is set up twice, so that a handle can outlive its file; three
  generations, so that an entry can outlive two connections; queues of two, so that they
  overflow; a retry of each command; five events for a driver queue of two; two names of
  the adapter, two runs and two faults, so that one hits what another left behind.
* `server`: one poller (two differ by who confirms first, and the confirmation is a
  compare-exchange), a tick for each of the three times; two ports, two failing steps and
  three processes, so that what the first leaves behind meets a repair and a re-exec; two slots,
  two hosts and two pages, so that one may come, go or move while the other's slot is looked at.
* `network`: the circles of numbers given in section 2; three packets of the mouse, or six
  frames, two on the way;
  three changes of the server's mind; four texts with a loop that fits and one that does
  not, two uploads, a second run of the client, a datagram that comes twice; two
  sessions and three events.
* `ends`: two vendor commands and two interruptions; two tags in two chunks and one
  failure; eight event states, as in the code, and a delay of two, so that an event is put off
  on its way; a key of the keyboard and a button of the mouse, one down at a time, and two
  macros, so that a save takes the hotkey of one from under a press of the other; three
  gamepads of which two may be pairs, five settings, two changes and one lost datagram.
* Seeded faults (the definitions so commented, "a bug the checks must find" in some) are
  plausible errors in the definition that follows them. No specification uses them;
  putting one in place of the definition makes a property fail, which shows what the
  property is able to detect.

### Fairness

Weak fairness is assumed of every thread that is inside a function, since each runs an
endless loop that does not wait for input in the middle of a packet, a release or a
request. The writer is fair in `Sessions` only once it is in its inner loop; nothing makes
the console take the port up. Strong fairness of `Release` and of the start of `Service` stands for a mutex
that is released again and again and for a writer loop that always comes back to its
head. `SilenceOfDead` is weakly fair because time passes and a dead process sends
nothing; the silence of a live client is not forced. `MacroEnds`: macros are finite.
Timers that are armed and refusals that are pending are strongly fair because the
libwebsockets thread serves them between other callbacks. No fairness is assumed of
clients, pages, the network, the host or the console.

The other modules define `Fairness` themselves. Threads of the program are weakly fair:
each runs a loop whose waits are bounded or ended by another thread that is modelled
(the event thread by the signal of the teardown, workers by the closing of endpoints).
Time passes. Strong fairness stands for repetition: a roster that is sent again and again
arrives in the end, a server that answers gets a datagram through in the end, a wizard
that listens hears the console or gives up after 180 attempts. In `NamesAreTold` only the
send loop is fair; in `NfcPort`, time and the reports, which the HID stream forms every few
milliseconds. A command sets the time of an event anew (`schedule_amiibo_hid_state_locked`),
so that an event comes is said only of a console that stops doing so. The console, the user, the network's losses, failing commands, kills
and the reset of sessions are never forced to happen or to stop, except by their bounds.

## 4. Proofs

A theorem about a module, or about the part of a run's module, holds for every value of the
CONSTANTS that satisfies the assumptions below; the runs evaluate them on their instances.
Where modules share a run, the bounds in the actions (how often something fails, how many
packets, restarts, uploads) are constants like the others: the theorems hold whatever
they are.

| assumption | what it asks |
|---|---|
| `SessionsAssumption`, `EnumerationAssumption`, `NobodyAssumption` | model values differ; sizes are positive |
| `PortAssumption` | a positive number of slots, pads and ports; the UDP loop is among the admitting threads |
| `GadgetAssumption` | the endpoints of a configuration are not those of audio; a queue has room; `hci0` is a name |
| `LifecycleAssumption` | a gadget has a HID function |
| `FamilyAssumption` | hosts and pages differ, and nobody is one of them |
| `SleepAssumption` | the times are natural numbers; the thread of the new client does not poll |
| `FrameAssumption` | slots are numbered from 0, where the keyboard's pad is; a grace of a tick at least |
| `AmiiboAssumption` | the two kinds of amiibo differ; there is more than one event state; the delay is a number |
| `VendorAssumption` | a command may be longer than a header, and a header than nothing |
| `HotkeyAssumption` | a bound on the macros of the list |
| `NetworkAssumption` | fewer mouse packets than half their circle, and fewer requests than half of theirs by two; texts are sequences of commands, their steps have a bound |

The condition on circles is what the code relies on when it compares numbers that wrap,
with 2^31 and 2^15 in the place of a few. One theorem has a hypothesis of its own:
`AdmitTheorem` asks that the UDP loop be the only thread that admits, which is what the
run checks. With the web thread too its conclusion is false (section 3).

### Along which argument

A safety property is seldom inductive. Each proof module names the conjuncts that make it
so, has a lemma for each action or helper that disturbs them, and ends in the theorem.

`SessionsProofs`: `IInv == TypeOK /\ Core`. `Core` adds to the safety properties the
shape of inactive slots (no address, source `None`): without it a released slot could still
look like the sender's. `LookupStaysTrue` is what makes the rest inductive: between two
steps of the UDP loop the other threads only take sessions away, so "the slot remembered is
the sender's or nobody's, and the sender has no other" is kept by all of them, and with it
`Allocate` gives no second session and `Apply` stores no foreign report.

`WebSessionsProofs`, on the same table with pages: `LookupStaysTrue` is false here, as the
slot the UDP loop remembers may be a page's by now. `UdpKnows` is what is left of it (the
sender has no session elsewhere, and the slot is not another UDP client's), and `WebKnows`
its counterpart for the web thread: a session that plays a page's report is at the slot that
this page remembers. The two keep `OneSessionPerEndpoint` and `InputFromOwner`, and give
`WebInv` and `WebKeepsUdp`.

`EnumerationProofs`: `IInv` has a part per concern. `FailureCount` bounds the counter
by what the two requesters have claimed and not yet counted; `Accounts` pays each
restart with a count, which gives `CountsBounded`; `Recovery` says who owns
`requested` and `running` at each label and that the event thread is out of the
functions when the gadget is rebuilt (`Joined`), which gives `RecoveringHasWork`;
`SurvivorCanRecover` is inductive with the mutex of the slot.

`PortProofs`: `ToldSoFar` says what the writer has told by the time it is half-way through
the sessions, and that a session it did not copy was opened since and has been told nothing;
with the layout being well formed this is `PortsInv`. It promises nothing between a tick that was cut short
and the next one that is not. `LosesOnlyToThoseBefore` is about
`Reconcile` alone and is shown by induction on its turns. `Placed` is a recursive function,
so the proof shows that such a function exists and is unique up to the last turn
(`RunsExist`, `PlacedIsARun`) and inducts by the least counterexample (`Least`, `Climbs`).
What the sessions ask for is a sum over clients and pads, and the other two properties
compare such sums. `SumCounts` shows that a sum of this kind is the size of a disjoint union, so
that `Asked`, the set of the pads' halves, stands for the demand and no arithmetic is left.
`EverybodyPlays`: after any number of turns the ports that are taken belong to what the
pads that had their turn asked for (`Upto`), each to one, so while fewer are taken than asked for a port is free
(`RoomLeft`); and in the turns of the pairs, which come first, what is taken comes in groups of
two, so a whole group is free (`GroupLeft`), with an odd last port too. `PhaseFills`
goes along the turns and `ReconcileServes` collects both phases. `AdmittedFit`: until the
newcomer's pads are stored they fit beside what the others ask for (`Reserved`). `UsedCovers`
gives that at the count; afterwards no other session asks for more, because the
thread that stores reports is the one that admits, and the newcomer adds what was counted for it (`AsksGrows`). `ReservedStep` has a
case per action. Macros drive pads and may not add to what a session shows, except the pad of
a macro sent in one piece; no newcomer is under way then.

`GadgetProofs`, a part each:
* `UsbIInv`: `OwnerLeaves` says that the owner has closed the file and cleared the required
  handles where it may set the gadget up again, `PumpKnows` what the event thread may rely on
  between two ioctls, `ReadyOpen` in which states the console was told of a configuration.
* `QueuesIInv`: every item has a number. `InOrder` says that the numbers fall along the
  stages an item goes through, from the reader by the queues to the sender, which gives
  `AnsweredOnce` and `ReportsInOrder`; `Origin` that each is of a transfer that was received;
  `Stamped` relates the generation of an item to the connection it is of, at every label.
* `WakeIInv`: `Borrowed` says at each place of the wizard what it has changed and not yet
  put back, `Beacon` who may be advertising.
* `DriverIInv`: `TransferWaits` says who has a transfer at the controller and that its
  endpoint cannot be disabled meanwhile, `DeviceHeld` which references exist in which state,
  `QueueFits` why the event queue keeps its bound although the bind does not look.

`ServerProofs`, a part each:
* `LifecycleIInv`: `Staged` says what exists of the gadget before the step that binds it and
  that what changes its parts finds it unbound; `RawAlone` and `OneBuilder` that a process
  that has Raw Gadget open is the only one at work.
* `ChangeIInv`: `SteadyPlay` says that who played throughout still does, and `BehindIsExempt`
  that of those on the slots already looked at none counts against the request; when all
  have been looked at that is what `SteadyAreSafe` asks.
* `SleepIInv`: `OneConfirms` says that, unless a late store has taken the debounce back, one
  poller at a time is between confirming the sleep and waking for whom it found, and that the
  sleep stays confirmed meanwhile: a second one would release the session the first has
  found nobody in. `Remembered` is `NewcomerRemembered` with what a thread needs to be let
  through by `switch2_usb_host_recently_active`. `OneBurst` is inductive as it stands.

`NetworkProofs`, a part each:
* `ConnectionIInv`: `RecordsAreSaid` relates what the sender recorded, at each label where
  it still counts, to what the server said; `NothingLeft` is what a stopped sender leaves.
* The input streams: `PadIInv` counts the frames of each run of the client and keeps what was
  ignored within the window behind; `MovementIInv` accounts for the movement; `MouseIInv`
  places every number on its circle, so that the code's comparison is the order of sending.
* The feedback: `Recorded` and `MotorsOwned` for values and motors, and for requests the
  places on the circle and `LossCounted`: as long as the newest is not shown, each copy sent
  is on the way or counted as lost. `HalfTells` and `Modulo` are the arithmetic.
* The macros: of `UploadIInv`, `Collected` and `Distinct` say that a slot holds chunks of one
  number, and that of one run of the client one upload has that number. For `StartedOnce`,
  `Counted` says that no more chunks of an upload are there twice (on the way and held, or
  either of them after it started) than were delivered again, so what starts again has had each of
  its chunks delivered again. `Apart` tells the datagrams of an upload apart. `Played`
  is about the parser alone: `Runs` goes along the commands of a text, where the steps so
  far are the text before unrolled and the start of the block is where the last loop ended
  (`AlongCommand`, `AlongLoop`), and `ParseUnrolls` is its end.

`EndsProofs`, a part each:
* The frame: `FrameAgrees` shows of two functions of the client, `build_frame` and the
  one for the names, that they see the same pads; `Kept` is the inductive part, "what a
  filter still keeps and the time since the press make a grace at most".
* The amiibo: `AmiiboIInv` has the shape of the tag and what a save in flight means
  (`Saving`). `Follows` says what a command may make of a tag, with a lemma per command; from
  it come `NfcSafe` and, in `PresenceTheorem`, the refinement: the initial states map to an
  initial state of `TagPresence`, and every step to a step of it or a stutter.
* The picker: `Suppression` (scans are suppressed while an extended update is awaited, and
  under an open picker only in the window in which the client is about to be told, or when a
  tag was put back), `Withdrawn` (a session without a port has its picker open only until the
  writer's tick withdraws it), and the lemma `Moves` about the circle of event states.
* The hotkeys: `PollsFacts` says in sets what a poll makes of a list of any length, in
  whatever order its entries come and however often a key is in it; from then on a press
  is followed key by key (`UsedIsNoted`, `UpIsNoted`, `DueIsKnown`). An edit forgets what was
  noted (`RebuiltStep`), a window that opens or closes does not (`KeyboardStep`).
* The vendor commands: `Agree` says that what the assembler holds is the opening of a command,
  what is still on the wire the rest of it and at most one other, and what is due those of the
  two it does not skip. One unit moves that place by one (`FeedAlong`), and so does a
  fragment of any length (`AgreeFed`). `Holds`, which bounds the buffer, needs no agreement and is
  kept by garbage too.

### What the proofs changed

Some attempts failed for a reason in the model or in a property, and changed it:
* `BeaconInBurst` and `WakeEnds` were false for an adapter that is renamed under a burst:
  the server stops advertising by the old name, and the beacon stays on under the new one.
  One fault in a run was not enough to show it next to the others; `left` marks it now, and
  the run has two faults.
* `AnsweredOnce` counted replies by command, which bounds them and does not say which
  transfer each answers. Items have a number now, and the property says that every reply
  is that of a transfer and that they go out in order.
* That the code's comparison of mouse numbers is the order of sending (`NumbersTell`) was
  used by the proofs of other properties and stated by none; the mice of the run start
  near the wrap too.
* `LookupStaysTrue` does not hold with pages on the same table; `UdpKnows` does.
* The layout of ports, the feeding of a fragment, the poll over a list of macros and the
  parser of their texts were computed by folds with an operator for an argument, which the
  provers cannot expand. They are recursive functions of the number of turns now, and numbers
  of ports are sums over functions.
* `StartedOnce` said that only a macro of one datagram starts again, which is true because
  of the run's one repetition. It says now that a macro that starts again has had as many
  datagrams delivered again as its text has commands.
* `NewcomerWakes`, a liveness property, was all that was said of a client that comes while the
  console sleeps. The proof of what it rests on is `SleepInv`.

### What is only model-checked

Liveness, which is beyond the prover: `CrashedClientFreed`, `RecoveringEnds`, `TeardownEnds`,
`CommandsAnswered`, `SleepSeen`, `LifecycleProgress`, `NetworkSettles`, `NamesAreTold`, and
of `PickerFollowsTag` what it says of an end (its safety is `PickerTheorem` and
`EventTheorem`). Every invariant and every action property of a passing run is the
statement of a theorem.

## 5. What could come next

* An abstract specification of sessions (each endpoint: out, playing, blocked),
  implemented by `Sessions`.
* The audio rings, which share the generation counter of the queues.

## 6. Not modelled

* Rate limiting (`rate_allow`): a packet it refuses is a lost packet to the modules here.
* Bluetooth controllers: BlueZ D-Bus and joydev I/O; their effect on a session is that
  of a page.
* Report layouts, SPI data, motion conversion, NFC cryptography and dump formats, the
  amiibo catalogue, the spelling of the macro language: data without shared state.
* Audio: a lossy, timing-driven pipeline whose correctness is one of rates.
* The user interfaces (but for the macro dialogs and the connect button), the web
  application and the mobile applications.
* The sleep detection of the legacy families by gaps in what the console sends, the port
  runtime behind an assignment (drain, neutral bursts), discovery, UPnP and options.

Authentication is taken as done: a packet of a model is one whose tag has been verified.
