---------------------------- MODULE WakeAdapter ----------------------------
(***************************************************************************)
(* The Bluetooth adapter that wakes a sleeping Switch 2                    *)
(* (server/src/gadget_wakeup.cpp): the wizard of --wake, which takes the   *)
(* adapter away from BlueZ and gives it back, the start of a server, the   *)
(* detached thread that advertises a burst, and the stop.  A command sent  *)
(* to a name the adapter does not have is without effect.  The wizard may  *)
(* be killed at any step, and the server's process ends with its thread.   *)
(*                                                                         *)
(* left is history: since the wizard last completed with the adapter there *)
(* a process died, a wizard gave up, or a burst ended under a name that    *)
(* the adapter no longer had.                                              *)
(***************************************************************************)
EXTENDS Naturals

CONSTANTS
  Names,     \* names the adapter may have: hci0, hci1
  MaxFaults, \* bound: commands that fail, adapters that are renamed, kills
  MaxRuns    \* bound: processes

VARIABLES
  adapter,  \* its name ("none" while it is away), settings, address, advertising and scan
  bluez,    \* bluetoothd runs
  store,    \* addresses bluetoothd keeps pairings for
  saved,    \* the configuration file: the adapter's name and its original address
  proc,     \* "none", "wizard", "server" or "stopping"
  at,       \* the step of the wizard or the server's main thread
  hci,      \* switch2_wake_hci_dev
  orig,     \* g_switch2_wake_original_bt_mac, "none" if empty
  worker,   \* switch2_wake_adv_worker: its step, "idle" if there is none
  local,    \* its own copy of the name
  left, faults, runs

ours == <<hci, orig>>
thread == <<worker, local>>
bounds == <<faults, runs>>
vars == <<adapter, bluez, store, saved, proc, at, ours, thread, left, bounds>>

NoConfig == [hci |-> "none", orig |-> "none"]

\* The adapter may still have the address of the Joy-Con, from an earlier version.
Init ==
  /\ \E n \in Names, a \in {"own", "joycon"} :
       adapter = [name |-> n, up |-> TRUE, bredr |-> TRUE, adv |-> FALSE, scan |-> FALSE, mac |-> a]
  /\ bluez = TRUE /\ store \in {{}, {"own"}, {"own", "other"}}
  /\ saved \in {NoConfig, [hci |-> adapter.name, orig |-> "own"]}
  /\ proc = "none" /\ at = "no" /\ hci = "none" /\ orig = "none"
  /\ worker = "idle" /\ local = "none" /\ left = FALSE /\ faults = 0 /\ runs = 0

\* The adapter after commands that set what f gives, sent to the name n.
Told(n, f) == IF adapter.name = n THEN [x \in DOMAIN adapter |-> IF x \in DOMAIN f THEN f[x] ELSE adapter[x]]
              ELSE adapter
Fault == faults < MaxFaults /\ faults' = faults + 1

\* wait_for_hci_ready: the name once the adapter is there, its own if it has gone.
Seen(n) == IF adapter.name = "none" THEN n ELSE adapter.name

-----------------------------------------------------------------------------
(* The adapter comes back after its driver restarted, maybe renamed;       *)
(* bluetoothd powers an adapter that appears.                              *)

Reappear ==
  /\ adapter.name = "none"
  /\ \E n \in Names :
       /\ adapter' = [adapter EXCEPT !.name = n, !.up = bluez \/ adapter.up]
       /\ IF n = Seen(hci) THEN UNCHANGED faults ELSE Fault
  /\ UNCHANGED <<bluez, store, saved, proc, at, ours, thread, left, runs>>

\* A stick that is plugged in anew.
Replug ==
  /\ adapter.name # "none" /\ proc = "server" /\ Fault
  /\ adapter' = [adapter EXCEPT !.name = "none", !.bredr = TRUE, !.adv = FALSE, !.scan = FALSE]
  /\ UNCHANGED <<bluez, store, saved, proc, at, ours, thread, left, runs>>

-----------------------------------------------------------------------------
(* run_switch2_wakeup_setup.                                               *)

\* The pairings tell the adapter's own address; any directory may be the first.
StartWizard ==
  /\ proc = "none" /\ runs < MaxRuns /\ runs' = runs + 1
  /\ proc' = "wizard" /\ at' = "reset" /\ adapter.name # "none" /\ hci' = adapter.name
  /\ orig' \in IF store = {} THEN {adapter.mac} ELSE store
  /\ UNCHANGED <<adapter, bluez, store, saved, thread, left, faults>>

\* reset_wake_bt_stack: the driver restarts, which puts the controller's settings back.
Reset ==
  /\ at = "reset" /\ at' = "wait" /\ bluez' = FALSE
  /\ adapter' = [Told(hci, [up |-> FALSE]) EXCEPT
                   !.name = "none", !.bredr = TRUE, !.adv = FALSE, !.scan = FALSE]
  /\ UNCHANGED <<store, saved, proc, ours, thread, left, bounds>>

\* wait_for_hci_ready by name; without an adapter there is nothing to capture with.
Wait ==
  /\ at = "wait"
  /\ \/ adapter.name # "none" /\ at' = "prepare" /\ UNCHANGED <<left, faults>>
     \/ adapter.name = "none" /\ at' = "restore" /\ left' = TRUE /\ Fault
  /\ hci' = Seen(hci)
  /\ UNCHANGED <<adapter, bluez, store, saved, proc, orig, thread, runs>>

\* prepare_wake_capture_adapter.
Prepare ==
  /\ at = "prepare" /\ at' = "listen"
  /\ adapter' = Told(hci, [up |-> TRUE, bredr |-> FALSE, adv |-> FALSE, scan |-> FALSE])
  /\ UNCHANGED <<bluez, store, saved, proc, ours, thread, left, bounds>>

\* capture_switch2_wake_advert: one second of scanning, then the log is read.
Listen ==
  /\ at = "listen" /\ at' = "heard" /\ adapter' = Told(hci, [scan |-> TRUE])
  /\ UNCHANGED <<bluez, store, saved, proc, ours, thread, left, bounds>>

\* Nothing yet; captured; timed out or cancelled.
Heard ==
  /\ at = "heard" /\ at' \in {"listen", "save", "restore"}
  /\ adapter' = Told(hci, [scan |-> FALSE])
  /\ UNCHANGED <<bluez, store, saved, proc, ours, thread, left, bounds>>

Save ==
  /\ at = "save" /\ at' = "restore"
  /\ \/ saved' = [hci |-> hci, orig |-> orig] /\ UNCHANGED faults
     \/ Fault /\ saved' \in {saved, NoConfig}
  /\ UNCHANGED <<adapter, bluez, store, proc, ours, thread, left, runs>>

\* A bug the checks must find: what the capture switched off stays off.
RestoredLe == [up |-> FALSE, adv |-> FALSE, mac |-> orig]

Restored == [up |-> FALSE, adv |-> FALSE, bredr |-> TRUE, mac |-> orig]

\* restore_bluetooth_controller_state, with bluetoothd stopped, then started again.
Restore ==
  /\ at = "restore" /\ at' = "bluez" /\ bluez' = FALSE /\ adapter' = Told(hci, Restored)
  /\ UNCHANGED <<store, saved, proc, ours, thread, left, bounds>>

RestartBluez ==
  /\ at = "bluez" /\ bluez' = TRUE /\ adapter' = Told(hci, [up |-> TRUE])
  /\ at' = IF proc = "wizard" THEN "done" ELSE "run"
  /\ UNCHANGED <<store, saved, proc, ours, thread, left, bounds>>

WizardEnds ==
  /\ at = "done" /\ at' = "no" /\ proc' = "none" /\ left' = (left /\ adapter.name # hci)
  /\ UNCHANGED <<adapter, bluez, store, saved, ours, thread, bounds>>

-----------------------------------------------------------------------------
(* A server: its start, its wake bursts, its stop.                         *)

\* load_switch2_wakeup_config, before the adapter is looked for.
StartServer ==
  /\ proc = "none" /\ runs < MaxRuns /\ saved # NoConfig /\ runs' = runs + 1
  /\ proc' = "server" /\ at' \in {"bluetooth", "wake"} /\ hci' = saved.hci /\ orig' = saved.orig
  /\ UNCHANGED <<adapter, bluez, store, saved, thread, left, faults>>

\* enter_bluetooth_runtime_mode (--bt): the heavy restore only for a borrowed address.
EnterBluetooth ==
  /\ at = "bluetooth"
  /\ IF adapter.name = hci /\ adapter.mac = "joycon"
     THEN at' = "restore" /\ UNCHANGED <<adapter, bluez>>
     ELSE at' = "run" /\ bluez' = TRUE /\ adapter' = Told(hci, [up |-> TRUE])
  /\ UNCHANGED <<store, saved, proc, ours, thread, left, bounds>>

\* enter_switch2_wake_runtime_mode: the adapter only has to be there.
EnterWake ==
  /\ at = "wake" /\ at' = "run" /\ hci' = Seen(hci) /\ adapter' = Told(Seen(hci), [up |-> TRUE])
  /\ UNCHANGED <<bluez, store, saved, proc, orig, thread, left, bounds>>

\* maybe_send_switch2_wake_advert starts a thread, one at a time.
Advertise ==
  /\ at = "run" /\ worker = "idle" /\ worker' = "find" /\ local' = hci
  /\ UNCHANGED <<adapter, bluez, store, saved, proc, at, ours, left, bounds>>

\* start_wake_raw_advertising: each command may fail, and ends the attempt.
WorkerFind ==
  /\ worker = "find" /\ local' = Seen(local)
  /\ worker' = IF adapter.name = "none" THEN "clean" ELSE "set"
  /\ adapter' = Told(Seen(local), [up |-> TRUE, adv |-> FALSE, scan |-> FALSE])
  /\ UNCHANGED <<bluez, store, saved, proc, at, ours, left, bounds>>

WorkerSet ==
  /\ worker = "set"
  /\ \/ worker' = "enable" /\ UNCHANGED faults
     \/ worker' = "clean" /\ Fault
  /\ UNCHANGED <<adapter, bluez, store, saved, proc, at, ours, local, left, runs>>

\* The command may take effect and yet be reported as failed: it has a time limit.
WorkerEnable ==
  /\ worker = "enable" /\ adapter' = Told(local, [adv |-> TRUE])
  /\ \/ worker' = "burst" /\ UNCHANGED faults
     \/ worker' = "clean" /\ Fault
  /\ UNCHANGED <<bluez, store, saved, proc, at, ours, local, left, runs>>

\* The burst is over, or the server stops.
WorkerBurst ==
  /\ worker = "burst" /\ worker' = "clean" /\ adapter' = Told(local, [adv |-> FALSE])
  /\ UNCHANGED <<bluez, store, saved, proc, at, ours, local, left, bounds>>

\* A bug the checks must find: an attempt that failed is not cleaned up.
CleanedNot == adapter

Cleaned == Told(hci, [adv |-> FALSE])

\* send_switch2_wake_advert_once disables advertising again, by the name it was given: the
\* name under which start_wake_raw_advertising found the adapter is its own.
WorkerClean ==
  /\ worker = "clean" /\ worker' = "idle" /\ adapter' = Cleaned
  /\ left' = (left \/ adapter.name \notin {hci, "none"})
  /\ UNCHANGED <<bluez, store, saved, proc, at, ours, local, bounds>>

Stop ==
  /\ at = "run" /\ at' = "stop" /\ proc' = "stopping"
  /\ UNCHANGED <<adapter, bluez, store, saved, ours, thread, left, bounds>>

\* restore_wake_bt_state waits half a second at most for the burst to end.
QuietDown ==
  /\ at = "stop" /\ at' = "quiet" /\ adapter' = Told(hci, [adv |-> FALSE])
  /\ IF worker = "idle" THEN UNCHANGED faults ELSE Fault
  /\ UNCHANGED <<bluez, store, saved, proc, ours, thread, left, runs>>

\* The process takes its thread with it.
End ==
  /\ at = "quiet" /\ proc' = "none" /\ at' = "no" /\ worker' = "idle"
  /\ left' = (left \/ worker # "idle")
  /\ UNCHANGED <<adapter, bluez, store, saved, ours, local, bounds>>

Kill ==
  /\ proc # "none" /\ Fault /\ proc' = "none" /\ at' = "no" /\ worker' = "idle" /\ left' = TRUE
  /\ UNCHANGED <<adapter, bluez, store, saved, ours, local, runs>>

Wizard == Reset \/ Wait \/ Prepare \/ Listen \/ Heard \/ Save \/ WizardEnds
Main == Restore \/ RestartBluez \/ EnterBluetooth \/ EnterWake \/ QuietDown \/ End
Worker == WorkerFind \/ WorkerSet \/ WorkerEnable \/ WorkerBurst \/ WorkerClean

Next == \/ StartWizard \/ StartServer \/ Wizard \/ Main \/ Advertise \/ Worker
        \/ Stop \/ Reappear \/ Replug \/ Kill

Spec == Init /\ [][Next]_vars

\* Every thread goes on, a driver that restarts finds its adapter, and a wizard that listens
\* is answered or gives up (180 attempts).
Fairness == /\ WF_vars(Wizard) /\ WF_vars(Main) /\ WF_vars(Worker) /\ WF_vars(Reappear)
            /\ SF_vars(Heard /\ at' # "listen")
FairSpec == Spec /\ Fairness

-----------------------------------------------------------------------------
(* Properties.                                                             *)

\* However the wizard ends, and whatever a process before it left behind, the adapter it
\* commands is given back: classic Bluetooth on, neither advertising nor scanning, with its
\* own address unless bluetoothd keeps pairings of another adapter.
GivenBack ==
  at = "done" /\ adapter.name = hci =>
    /\ adapter.up /\ adapter.bredr /\ ~adapter.adv /\ ~adapter.scan /\ bluez
    /\ store = {"own"} /\ ~left => adapter.mac = "own"

\* While a server runs, the beacon is on the air only for a burst: an attempt that failed
\* half-way leaves none behind, unless the adapter has another name than the server knows.
BeaconInBurst == adapter.adv /\ proc # "none" /\ ~left => worker \in {"burst", "clean"}

\* Both.
WakeInv == GivenBack /\ BeaconInBurst

\* A wizard ends, and a burst ends, unless it ends under a name the adapter no longer has.
WakeEnds ==
  /\ proc = "wizard" ~> proc # "wizard"
  /\ adapter.adv /\ proc = "server" /\ ~left ~> ~adapter.adv \/ left \/ proc # "server"
=============================================================================
