------------------------------- MODULE MCEnds -------------------------------
(***************************************************************************)
(* Bounds for the two ends of the system: what the console asks of the     *)
(* controller it sees, vendor commands and amiibo; and what the client     *)
(* makes of gamepads and keys.  The modules share no variable, so each is  *)
(* checked by itself: a behaviour chooses one part and the others rest.    *)
(***************************************************************************)
EXTENDS ClientFrame

CONSTANTS
  headSize, maxCommand, packetSize, maxSent, maxBreaks, \* of VendorCommands
  ntags, v3s, dump, chunks, maxTags, maxFaults, \* of Nfc
  eventStates, delay,                           \* of NfcPort
  letters, clicks, maxMacros, maxHeld           \* of MacroKeys

\* An amiibo is of one kind, a client's own dump is of an NTAG215, and None is no amiibo, no
\* name of a mode, a chunk or a kind, and no result; a change of the event state is seen.
ASSUME AmiiboAssumption ==
  /\ v3s \cap (ntags \cup {dump}) = {} /\ None \notin ntags \cup v3s \cup {dump}
  /\ None \notin {"v3", "ntag", "write", "clear", "update", "new", "old"} /\ None \notin BOOLEAN
  /\ eventStates \in Nat /\ eventStates > 1 /\ delay \in Nat

\* A command may be more than a header.
ASSUME VendorAssumption ==
  /\ headSize \in Nat \ {0} /\ maxCommand \in Nat /\ maxCommand > headSize
  /\ packetSize \in Nat

ASSUME HotkeyAssumption == maxMacros \in Nat

VARIABLES
  part, \* which of them runs
  wire, bytes, expected, discard, fresh, queue, port, pid, cal, disk, restart, synced, due,
  missed, asked, bitTold, sent, breaks,
  tag, save, hand, lib, selected, recent, unsaved, tags, faults,
  presence, defers, extended, suppressed, hid, slot, mapped, writer, open, presenter, returned,
  native, press, focus, pressed, cache, mice, bindings, entries, down, loading, windows, poll,
  edited

vendorVars == <<wire, bytes, expected, discard, fresh, queue, port, pid, cal, disk, restart,
                synced, due, missed, asked, bitTold, sent, breaks>>
amiiboVars == <<tag, save, hand, lib, selected, recent, unsaved, tags, faults>>
pickerVars == <<presence, defers, extended, suppressed, hid, slot, mapped, writer, open,
                presenter, returned>>
keysVars   == <<native, press, focus, pressed, cache, mice, bindings, entries, down, loading,
                windows, poll, edited>>
MCvars     == <<part, vendorVars, amiiboVars, pickerVars, keysVars, vars>>

\* Headers, commands and packets of any size.
Vendor == INSTANCE VendorCommands WITH
  HeadSize <- headSize, MaxCommand <- maxCommand, Packet <- packetSize, MaxSent <- maxSent,
  MaxBreaks <- maxBreaks, told <- bitTold

\* The amiibo of the library, by kind, and a dump of the client's own.
Amiibo == INSTANCE Nfc WITH
  Ntags <- ntags, V3s <- v3s, Dump <- dump, Chunks <- chunks, MaxTags <- maxTags,
  MaxFaults <- maxFaults

Picker == INSTANCE NfcPort WITH
  EventStates <- eventStates, Delay <- delay, kept <- defers, asked <- open, hand <- presenter

\* The keys that can be hotkeys.
Hotkeys == INSTANCE MacroKeys WITH
  Keys <- letters, Buttons <- clicks, MaxEntries <- maxMacros, MaxHeld <- maxHeld, mouse <- mice

\* Three gamepads of which two may be pairs, one button, and settings of either console.
Mode(s2, type, pointer, sideways) ==
  [s2 |-> s2, type |-> type, mouse |-> pointer, horizontal |-> sideways]
FiveModes == {Mode(FALSE, "pro", FALSE, FALSE), Mode(FALSE, "pair", TRUE, FALSE),
              Mode(FALSE, "left", FALSE, TRUE), Mode(TRUE, "pro", FALSE, FALSE),
              Mode(TRUE, "left", TRUE, TRUE)}
Buttons == [a \in {"X"} |-> "X"]

Parts == {"vendor", "amiibo", "picker", "keys", "frame"}

\* A part that rests does so in one of the states it starts in.
MCInit ==
  /\ part \in Parts
  /\ Vendor!Init
  /\ Amiibo!Init
  /\ Picker!Init
  /\ Hotkeys!Init /\ (part # "keys" => native /\ mice = "on" /\ bindings = {})
  /\ Init
  /\ (part # "frame" => mode = Mode(TRUE, "pro", FALSE, FALSE) /\ keyboard = "off"
                        /\ pads = [s \in {0, 1, 2} |-> {}])

MCNext ==
  \/ part = "vendor" /\ Vendor!Next
     /\ UNCHANGED <<part, amiiboVars, pickerVars, keysVars, vars>>
  \/ part = "amiibo" /\ Amiibo!Next
     /\ UNCHANGED <<part, vendorVars, pickerVars, keysVars, vars>>
  \/ part = "picker" /\ Picker!Next
     /\ UNCHANGED <<part, vendorVars, amiiboVars, keysVars, vars>>
  \/ part = "keys" /\ Hotkeys!Next
     /\ UNCHANGED <<part, vendorVars, amiiboVars, pickerVars, vars>>
  \/ part = "frame" /\ Next
     /\ UNCHANGED <<part, vendorVars, amiiboVars, pickerVars, keysVars>>

MCSpec == MCInit /\ [][MCNext]_MCvars

-----------------------------------------------------------------------------
(* What each part promises: its own properties, which say more of the code. *)

\* Vendor commands are dispatched whole, in order and once, only what was asked for is on,
\* and the calibration file is never half a record.
VendorInv == Vendor!VendorInv

\* A figure-v3 tag never holds chunks of two writes, and a tag that was written to leaves
\* the reader only when the library has stored the write.
NfcSafe == []Amiibo!WholeImage /\ Amiibo!EjectedIsSaved

\* The amiibo lies on the reader as the abstract TagPresence says.
TagIsTaken == Amiibo!TagIsTaken

\* The picker of a client that plays is not open over a tag that was presented, nor closed
\* before one was, and every NFC event that is due reaches the console as a change of state.
PickerFollowsTag ==
  /\ Picker!PickerFollows /\ Picker!EventIsSeen
  /\ part = "picker" /\ Picker!Fairness => Picker!EventComes

\* A press of a hotkey starts its macro, and once, unless it is lost.
OncePerPress == Hotkeys!OncePerPress /\ Hotkeys!HotkeyHeard

\* The server learns whose input each pad of the frames is, while they are built.
NamesAreTold == WF_vars(part = "frame" /\ (Build \/ Tell)) => NamesTold
=============================================================================
