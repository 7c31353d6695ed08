----------------------------- MODULE MacroKeys -----------------------------
(***************************************************************************)
(* The hotkeys of the desktop client's macros: what the program knows of   *)
(* the keyboard (client/src/input_settings.cpp, qt_helpers.cpp), the poll  *)
(* of the sender thread that starts a macro when its hotkey goes down      *)
(* (client/src/macro_client.cpp) and the windows in which macros, key      *)
(* bindings and the mouse mode are edited (client/src/dialogs.cpp).        *)
(*                                                                         *)
(* Macros are known by their place in the list; their texts are always     *)
(* valid, and their file holds what was saved.  A button of the mouse is a *)
(* key that is up for the program unless mouse mode is active.  While a    *)
(* window is open the keyboard is suspended.  "modal" is the window of the *)
(* bindings or that of the settings, which take all the program's input.   *)
(* The user is slower than the sender's poll: the window of the macros is  *)
(* closed one poll after an edit at the earliest; a save closes a modal    *)
(* one at once.  The upload of a macro that starts is MacroUpload's.       *)
(***************************************************************************)
EXTENDS Integers, FiniteSets, SequencesExt

CONSTANTS
  Keys,       \* keys
  Buttons,    \* those that are buttons of the mouse (is_mouse_button_name)
  None,       \* no hotkey, no macro
  MaxEntries, \* bound: macros
  MaxHeld     \* bound: keys pressed at a time

VARIABLES
  native,   \* the platform tells the state of every key (mouse_input_query_key_state)
  press,    \* what became of the present press of a key, see Presses
  focus,    \* the application is active
  pressed,  \* g_pressedKeys
  cache,    \* g_kbStateCache
  mouse,    \* g_mouseModeEnabled: "off", or "on" if the keyboard mode is on, else "idle"
  bindings, \* the keys of g_keyBindings
  entries,  \* the hotkeys of g_macro_entries
  down,     \* the keys that are true in g_macro_hotkey_down
  loading,  \* the macros were read again for their window, which is not open yet
  windows,  \* the open windows: g_keyboardMouseInputSuspendDepth is their number
  poll,     \* the sender thread's poll is between its two steps
  edited    \* a hotkey was edited since the last poll

keyboard == <<press, focus, pressed>>
macros == <<entries, down>>
dialogs == <<loading, windows>>
vars == <<native, keyboard, cache, mouse, bindings, macros, dialogs, poll, edited>>

\* "due": pressed since the last poll, the program being free to hear it;
\* "used": it started a macro or chose a hotkey; "lost": so it did, and the program forgot it;
\* "held": any other press; "released": since the last poll, no key being pressed twice
\* between polls.
Presses == {"up", "due", "used", "lost", "held", "released"}

held == {k \in Keys : press[k] \in {"due", "used", "lost", "held"}}

\* The presses that the program need not hear any more.
Excused == [k \in Keys |-> IF press[k] = "due" THEN "held" ELSE press[k]]

Suspended == windows # {}

\* mouse_mode_active fails: a saved mouse mode excludes that of a Joy-Con.
Deaf(k) == k \in Buttons /\ (mouse # "on" \/ Suspended)

Hotkeys == {entries[i] : i \in DOMAIN entries} \ {None}

(***************************************************************************)
(* The keyboard.                                                           *)
(***************************************************************************)
\* The event filter of the application: set_key_pressed, and
\* clear_pressed_key_cache when the application is left.
Press(k) ==
  /\ press[k] = "up" /\ Cardinality({l \in Keys : press[l] # "up"}) < MaxHeld
  /\ press' = [press EXCEPT ![k] = IF focus /\ ~Suspended THEN "due" ELSE "held"]
  /\ pressed' = IF focus THEN pressed \union {k} ELSE pressed
  /\ UNCHANGED <<native, focus, cache, mouse, bindings, macros, dialogs, poll, edited>>

Release(k) ==
  /\ k \in held
  /\ press' = [press EXCEPT ![k] = "released"]
  /\ pressed' = IF focus THEN pressed \ {k} ELSE pressed
  /\ UNCHANGED <<native, focus, cache, mouse, bindings, macros, dialogs, poll, edited>>

Leave ==
  /\ focus
  /\ focus' = FALSE /\ pressed' = {} /\ press' = Excused
  /\ UNCHANGED <<native, cache, mouse, bindings, macros, dialogs, poll, edited>>

Return ==
  /\ ~focus /\ focus' = TRUE
  /\ UNCHANGED <<native, press, pressed, cache, mouse, bindings, macros, dialogs, poll, edited>>

\* mouse_input_query_key_state, or the events of the focused window.
Known(k) == IF native THEN k \in held ELSE k \in pressed

\* key_is_down.
KeyIsDown(k) ==
  /\ ~Deaf(k)
  /\ IF ~native /\ cache[k] # "none" THEN cache[k] = "down" ELSE Known(k)

(***************************************************************************)
(* The poll of run_client_stream, every 10 ms.                             *)
(***************************************************************************)
\* update_keyboard_state_cache: the keys that are bound to buttons.  Where the platform tells
\* their state the cache is never read, and is left out.
PollCache ==
  /\ ~poll /\ poll' = TRUE
  /\ cache' = [k \in Keys |-> IF native \/ k \notin bindings THEN cache[k]
                             ELSE IF Known(k) /\ ~Deaf(k) THEN "down" ELSE "up"]
  /\ UNCHANGED <<native, keyboard, mouse, bindings, macros, dialogs, edited>>

\* A bug the checks must find: while a window is open nothing is noted.
PolledIgnoring(state, k) ==
  IF k = None \/ k \in bindings \/ Suspended THEN state
  ELSE [down |-> IF KeyIsDown(k) THEN state.down \union {k} ELSE state.down \ {k},
        run |-> state.run \union (IF KeyIsDown(k) /\ k \notin state.down THEN {k} ELSE {})]

\* One macro of the list: a hotkey that is also a button's is passed over.
Polled(state, k) ==
  IF k = None \/ k \in bindings THEN state
  ELSE [down |-> IF KeyIsDown(k) THEN state.down \union {k} ELSE state.down \ {k},
        run |-> state.run \union
                  (IF ~Suspended /\ KeyIsDown(k) /\ k \notin state.down THEN {k} ELSE {})]

\* The list from its first macro to its last.
Polls ==
  LET after[i \in 0..Len(entries)] ==
        IF i = 0 THEN [down |-> down, run |-> {}] ELSE Polled(after[i - 1], entries[i])
  IN after[Len(entries)]

\* poll_macro_entry_hotkeys, and start_macro_text for what it found.
PollKeys ==
  /\ poll /\ poll' = FALSE
  /\ down' = Polls.down
  /\ press' = [k \in Keys |-> CASE press[k] = "released" -> "up"
                                [] k \in held /\ k \in Polls.run -> "used"
                                [] press[k] = "used" /\ Deaf(k) -> "lost"
                                [] OTHER -> Excused[k]]
  /\ edited' = FALSE
  /\ UNCHANGED <<native, focus, pressed, cache, mouse, bindings, entries, dialogs>>

(***************************************************************************)
(* The windows.                                                            *)
(***************************************************************************)
\* rebuild_macro_hotkey_state.
Rebuilt == down' = {} /\ edited' = TRUE

\* The button for the macros reads them again (load_macro_entries), then builds their window.
Load ==
  /\ windows = {} /\ ~loading /\ loading' = TRUE
  /\ Rebuilt
  /\ UNCHANGED <<native, keyboard, cache, mouse, bindings, entries, windows, poll>>

\* suspend_keyboard_mouse_input.
Open(w) ==
  /\ w \notin windows /\ windows \subseteq {"macros"}
  /\ loading = (w = "macros") /\ loading' = FALSE
  /\ windows' = windows \union {w}
  /\ pressed' = IF Suspended THEN pressed ELSE {}
  /\ press' = Excused
  /\ UNCHANGED <<native, focus, cache, mouse, bindings, macros, poll, edited>>

\* resume_keyboard_mouse_input.
Resumed(w) ==
  /\ w \in windows /\ windows \subseteq {"macros", w} /\ (edited => w = "modal")
  /\ windows' = windows \ {w}
  /\ pressed' = IF windows = {w} THEN {} ELSE pressed
  /\ UNCHANGED loading

\* What a save of the settings made the program forget stays forgotten.
Close(w) ==
  /\ Resumed(w)
  /\ press' = [k \in Keys |-> IF press[k] = "used" /\ edited /\ windows = {w} THEN "lost" ELSE press[k]]
  /\ UNCHANGED <<native, focus, cache, mouse, bindings, macros, poll, edited>>

\* macro_hotkey_conflicts and macro_entry_hotkey_conflicts.
Conflicts(k, i) == k \in bindings \/ \E j \in DOMAIN entries \ {i} : entries[j] = k

\* applyCapturedMacroHotkey: the key that goes down becomes the hotkey of the
\* macro that listens; Escape clears it.
SetHotkey(i, k) ==
  /\ windows = {"macros"} /\ focus
  /\ k # None => k \in held /\ ~Conflicts(k, i)
  /\ k \in Buttons => mouse # "off"
  /\ entries' = [entries EXCEPT ![i] = k]
  /\ press' = IF k = None THEN press ELSE [press EXCEPT ![k] = "used"]
  /\ Rebuilt
  /\ UNCHANGED <<native, focus, pressed, cache, mouse, bindings, dialogs, poll>>

\* upsert_macro_entry, for an imported macro: its hotkey is given up when
\* another macro or a button has it.
Upsert(k) ==
  /\ windows = {"macros"} /\ Len(entries) < MaxEntries
  /\ entries' = Append(entries, IF Conflicts(k, 0) THEN None ELSE k)
  /\ Rebuilt
  /\ UNCHANGED <<native, keyboard, cache, mouse, bindings, dialogs, poll>>

\* toggleRecord: a recorded macro has no hotkey.
Record == Upsert(None)

Delete(i) ==
  /\ windows = {"macros"}
  /\ entries' = RemoveAt(entries, i)
  /\ Rebuilt
  /\ UNCHANGED <<native, keyboard, cache, mouse, bindings, dialogs, poll>>

\* importMacros: a list takes the place of the macros; its hotkeys are compared
\* with the bindings, and not with one another.
Import(list) ==
  /\ windows = {"macros"}
  /\ entries' = [i \in DOMAIN list |-> IF list[i] \in bindings THEN None ELSE list[i]]
  /\ Rebuilt
  /\ UNCHANGED <<native, keyboard, cache, mouse, bindings, dialogs, poll>>

\* Save in the window of the bindings, with no key down.
SaveBindings(keys) ==
  /\ bindings' = keys
  /\ \A k \in Keys : press[k] = "up"
  /\ Resumed("modal")
  /\ UNCHANGED <<native, press, focus, cache, mouse, macros, poll, edited>>

\* saveSettings: the box of the mouse mode cannot be changed while the keyboard mode is off.
\* Without any mouse mode the buttons are taken out (clear_mouse_button_inputs); with that of
\* a Joy-Con they stay.
SaveSettings(mode) ==
  /\ "modal" \in windows
  /\ IF mouse = "idle" THEN mode = "idle" ELSE mode \in {"on", "off", "joycon"}
  /\ mouse' = IF mode = "joycon" THEN "off" ELSE mode
  /\ \/ /\ mode = "off"
        /\ bindings' = bindings \ Buttons
        /\ entries' = [i \in DOMAIN entries |-> IF entries[i] \in Buttons THEN None ELSE entries[i]]
        /\ IF entries' = entries THEN UNCHANGED <<down, edited>> ELSE Rebuilt
     \/ mode # "off" /\ UNCHANGED <<bindings, macros, edited>>
  /\ UNCHANGED <<native, keyboard, cache, dialogs, poll>>

\* The box of the keyboard mode in the main window, with a mouse mode that is saved.
KeyboardMode ==
  /\ windows \subseteq {"macros"} /\ mouse # "off"
  /\ mouse' \in {"idle", "on"} \ {mouse}
  /\ UNCHANGED <<native, keyboard, cache, bindings, macros, dialogs, poll, edited>>

Init ==
  /\ native \in BOOLEAN
  /\ press = [k \in Keys |-> "up"] /\ focus = TRUE /\ pressed = {}
  /\ cache = [k \in Keys |-> "none"]
  /\ mouse \in {"off", "idle", "on"} /\ bindings \in SUBSET Keys
  /\ entries = <<>> /\ down = {} /\ loading = FALSE /\ windows = {}
  /\ poll = FALSE /\ edited = FALSE

\* The window opens at once, so nothing else of the user comes before.
Next ==
  \/ PollCache \/ PollKeys \/ Load
  \/ \E w \in {"macros", "modal"} : Open(w) \/ Close(w)
  \/ /\ ~loading
     /\ \/ \E k \in Keys : Press(k) \/ Release(k)
        \/ Leave \/ Return \/ KeyboardMode
        \/ \E i \in DOMAIN entries :
             Delete(i) \/ \E k \in Keys \union {None} : SetHotkey(i, k)
        \/ Record \/ \E k \in Keys : Upsert(k)
        \/ \E k \in Keys : Import([i \in 1..MaxEntries |-> k])
        \/ \E keys \in SUBSET Keys : SaveBindings(keys)
        \/ \E mode \in {"off", "idle", "on", "joycon"} : SaveSettings(mode)

Spec == Init /\ [][Next]_vars

(***************************************************************************)
(* Properties.                                                             *)
(***************************************************************************)
\* What key_is_down says of a key that is no button's is what is known of it.
\* It is not for a key that was a button's once: g_kbStateCache keeps its last
\* state, which goes before the events where the platform has no probe.
Heard(k) == k \notin bindings /\ (native \/ cache[k] = "none")

\* A press starts a macro once, however long it lasts and whatever windows are opened, edited
\* and closed meanwhile, and the press that chose a hotkey starts nothing (the state noted
\* while the keyboard is suspended).  It is not for a press that is lost: that of a button
\* which a poll found up because mouse mode was not active, and one that is held while the
\* settings take a button's hotkey away; nor for a poll between Load and the window.
OncePerPress ==
  [][poll /\ ~poll' /\ ~loading =>
       \A k \in Polls.run \cap held : Heard(k) => press[k] # "used"]_vars

\* A press that the program is free to hear starts the macro of its hotkey at
\* the next poll.
HotkeyHeard ==
  [][poll /\ ~poll' => \A k \in Hotkeys : Heard(k) /\ ~Deaf(k) /\ press[k] = "due" => k \in Polls.run]_vars

\* What the code does not do: key_is_down calls a button up while a window is open, and
\* load_macro_entries and clear_mouse_button_inputs forget what was down before a poll can
\* note it again.
EveryPressOnce ==
  [][poll /\ ~poll' => \A k \in Polls.run \cap held : Heard(k) => press[k] \notin {"used", "lost"}]_vars
=============================================================================
