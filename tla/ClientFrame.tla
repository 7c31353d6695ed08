---------------------------- MODULE ClientFrame ----------------------------
(***************************************************************************)
(* The input frame of the desktop client (client/src/stream_runtime.cpp):  *)
(* every 4 ms the sender thread puts together, from the gamepads, the      *)
(* keyboard and the mouse, the reports of the four pads it plays, and      *)
(* tells the server, by another path and from another look at the          *)
(* gamepads, whose input each pad is.                                      *)
(*                                                                         *)
(* A report is the set of what is pressed in it, a stick pushed one way    *)
(* and a direction of the hat being pressed like a button.  Gamepads come, *)
(* go and are pressed at any time; one frame takes one tick.               *)
(***************************************************************************)
EXTENDS Integers, FiniteSets, FiniteSetsExt, Functions

CONSTANTS
  Slots,     \* 0 .. 3 in the code
  Half,      \* the slots with a gamepad when each stands for a pair of Joy-Cons
  Gyro,      \* the gamepads with motion sensors
  Modes,     \* settings: [s2, mouse, horizontal : BOOLEAN, type : {"pro", "left", "pair"}]
  ButtonSets, \* what may be pressed on a gamepad
  Keys,      \* what the keys that are down stand for
  Pushes,    \* where the mouse may push a stick
  Bindings,  \* g_controllerBindings: from what a report has to what is pressed
  None,      \* no controller
  Grace,     \* SDL_DIGITAL_RELEASE_GRACE_US, in frames
  Resend,    \* the names are told again after so many frames
  MaxLost,   \* bound: datagrams lost
  MaxChanges \* bound: what the user does

\* Slot 0 is there however many gamepads are looked at, and a mode has the settings it shows.
ASSUME FrameAssumption ==
  /\ Slots \subseteq Nat /\ None \notin Slots /\ Half \subseteq Slots /\ 0 \in Half
  /\ Grace \in Nat \ {0}
  /\ Modes \subseteq [s2 : BOOLEAN, mouse : BOOLEAN, horizontal : BOOLEAN,
                      type : {"pro", "left", "pair"}]

VARIABLES
  mode,     \* the settings of a connection
  keyboard, \* g_keyboardMode
  pads,     \* what is pressed on each gamepad, or Out (g_sdlInput)
  filters,  \* DigitalReleaseFilter: how long each press is kept
  frame,    \* ClientFrame of the last round
  told,     \* last_names
  wait,     \* frames until they are told again
  heard,    \* the names that reached the server
  phase,    \* what the sender thread does next
  lost,     \* datagrams lost
  changes,  \* what the user did
  age       \* history: frames since something was pressed on each gamepad

devices == <<mode, keyboard, pads>>
names == <<told, wait, heard, lost>>
vars == <<devices, filters, frame, names, phase, changes, age>>

Out == {"out"}
Connected == {i \in Slots : pads[i] # Out}

\* joycon_pair_mode: fewer gamepads are looked at.
Sources == IF mode.type = "pair" THEN Half ELSE Slots

MouseMode == mode.mouse /\ keyboard # "off"

(***************************************************************************)
(* What becomes of a report.                                               *)
(***************************************************************************)
\* apply_controller_bindings: the saved bindings, then the two shortcuts; not
\* in the horizontal mode.
Shortcut(rep, both, one) == IF both \subseteq rep THEN (rep \ both) \union {one} ELSE rep

Mapped(rep) ==
  IF mode.horizontal THEN rep
  ELSE LET mapped == {a \in DOMAIN Bindings : Bindings[a] \in rep}
       IN  Shortcut(Shortcut(mapped, {"LSTICK", "RSTICK"}, "HOME"), {"MINUS", "PLUS"}, "CAPTURE")

\* A bug the checks must find: what is kept is kept for another grace.
FilterRearmed(f, rep) == [a \in rep \union {b \in DOMAIN f : f[b] > 1} |-> Grace]

\* DigitalReleaseFilter::apply: what was released lately is still pressed.
Filter(f, rep) ==
  [a \in rep \union {b \in DOMAIN f : f[b] > 1} |-> IF a \in rep THEN Grace ELSE f[a] - 1]

NoFilter == [a \in {} |-> 0]

\* A quarter of a turn, clockwise: the hat, the sticks, the diamond of buttons.
Clockwise ==
  [DPAD_UP |-> "DPAD_RIGHT", DPAD_RIGHT |-> "DPAD_DOWN", DPAD_DOWN |-> "DPAD_LEFT", DPAD_LEFT |-> "DPAD_UP",
   LSTICK_UP |-> "LSTICK_RIGHT", LSTICK_RIGHT |-> "LSTICK_DOWN",
   LSTICK_DOWN |-> "LSTICK_LEFT", LSTICK_LEFT |-> "LSTICK_UP",
   X |-> "A", A |-> "B", B |-> "Y", Y |-> "X",
   L |-> "SL", ZL |-> "SL", R |-> "SR", ZR |-> "SR"]

\* apply_joycon_horizontal_transform of a left Joy-Con; other types are not
\* turned (a right one turns the other way).
Turned(rep) ==
  IF mode.horizontal /\ mode.type = "left"
  THEN {IF a \in DOMAIN Clockwise THEN Clockwise[a] ELSE a : a \in rep}
  ELSE rep

Hat == {"DPAD_UP", "DPAD_DOWN", "DPAD_LEFT", "DPAD_RIGHT"}
LeftX == {"LSTICK_LEFT", "LSTICK_RIGHT"}
LeftY == {"LSTICK_UP", "LSTICK_DOWN"}
RightX == {"RSTICK_LEFT", "RSTICK_RIGHT"}
RightY == {"RSTICK_UP", "RSTICK_DOWN"}

\* apply_keyboard_to_report: the hat or the axis of a stick that keys drive is
\* taken from the gamepad; opposite keys of an axis drive nothing.
Keyed(rep, keys) ==
  LET still == {g \in {LeftX, LeftY, RightX, RightY} : g \subseteq keys}
      driven == {g \in {Hat, LeftX, LeftY, RightX, RightY} \ still : g \cap keys # {}}
  IN  (rep \ UNION driven) \union (keys \ UNION still)

\* mouse_apply_right_stick: an axis that is driven already stays; a left
\* Joy-Con has the left stick only.
Pushed(rep, push) ==
  LET x == IF mode.type = "left" THEN LeftX ELSE RightX
      y == IF mode.type = "left" THEN LeftY ELSE RightY
  IN  rep \union UNION {push \cap g : g \in {h \in {x, y} : h \cap rep = {}}}

(***************************************************************************)
(* The frame.                                                              *)
(***************************************************************************)
Empty == [by |-> None, keys |-> FALSE, gyro |-> FALSE, here |-> FALSE, rep |-> {}]

\* A pad that a gamepad plays; its filter has the report already.
Played(i, f) == [by |-> i, keys |-> FALSE, gyro |-> i \in Gyro, here |-> TRUE, rep |-> DOMAIN f]

\* A pad to which the keyboard, and the mouse in its mode, add something.
WithKeys(pad, keys, push) ==
  [pad EXCEPT !.keys = TRUE, !.here = TRUE, !.rep = Pushed(Keyed(@, keys), push)]

First(S) == IF S = {} THEN None ELSE Min(S)

\* The gamepads whose reports are used, and where the sender puts them.  The
\* native mode has one pad only, which the keyboard takes over alone.
Used == IF mode.s2 THEN (IF keyboard = "single" THEN {} ELSE {i \in Connected : \A j \in Connected : i <= j})
        ELSE Connected \cap Sources

\* A gamepad that gives way to the keyboard takes the first free place.
Moved == IF mode.s2 \/ keyboard # "single" \/ 0 \notin Connected THEN None
         ELSE First({i \in Sources : i # 0 /\ i \notin Connected})

\* build_client_frame, with the filters as they are after it.
FrameOf(f, keys, push) ==
  LET from == [s \in Slots |->
                 CASE mode.s2 -> IF s = 0 THEN First(Used) ELSE None
                   [] ~mode.s2 /\ s = 0 /\ keyboard = "single" -> None
                   [] ~mode.s2 /\ s = Moved -> 0
                   [] OTHER -> IF s \in Used THEN s ELSE None]
      pad == [s \in Slots |-> IF from[s] = None THEN Empty ELSE Played(from[s], f[from[s]])]
      keyed == IF keyboard = "off" THEN pad ELSE [pad EXCEPT ![0] = WithKeys(@, keys, push)]
  IN  IF mode.s2 /\ keyboard = "single" THEN keyed
      ELSE [s \in Slots |-> [keyed[s] EXCEPT !.rep = Turned(@)]]

\* The filters of gamepads that are not used are reset, except while the
\* keyboard takes the native mode over.
FiltersAfter ==
  [i \in Slots |-> IF i \in Used THEN Filter(filters[i], Mapped(pads[i]))
                   ELSE IF mode.s2 /\ keyboard = "single"
                   THEN Filter(filters[i], {}) ELSE NoFilter]

\* One frame.  Where the speed of the mouse, its smoothing and its wheel push the
\* stick is any of Pushes.
Build ==
  /\ phase = "build" /\ phase' = "tell"
  /\ filters' = FiltersAfter
  /\ \E keys \in Keys, push \in IF MouseMode THEN Pushes ELSE {{}} :
       frame' = FrameOf(filters', keys, push)
  /\ age' = [i \in Slots |-> IF pads[i] \notin {Out, {}} THEN 0
                             ELSE IF age[i] < Grace THEN age[i] + 1 ELSE age[i]]
  /\ UNCHANGED <<devices, names, changes>>

(***************************************************************************)
(* The names.                                                              *)
(***************************************************************************)
NoName == [by |-> None, keys |-> FALSE, gyro |-> FALSE, here |-> FALSE]
Name(i, keys) == [by |-> i, keys |-> keys, gyro |-> i \in Gyro, here |-> TRUE]
KeyboardName == [NoName EXCEPT !.keys = TRUE, !.here = TRUE]

\* build_local_roster_entries.
NamesOf ==
  LET shifted == First({i \in Sources \ {0} : i \notin Connected})
      source == First(Connected)
      first(i) == IF i = None THEN (IF keyboard = "off" THEN NoName ELSE KeyboardName)
                  ELSE Name(i, keyboard # "off")
  IN  [s \in Slots |->
         CASE s = 0 /\ keyboard = "single" -> KeyboardName
           [] s = 0 /\ keyboard # "single" -> first(IF mode.s2 THEN source ELSE First(Connected \cap {0}))
           [] s # 0 /\ (mode.s2 \/ s \notin Sources) -> NoName
           [] s # 0 /\ ~mode.s2 /\ s \in Sources ->
                IF keyboard = "single" /\ 0 \in Connected /\ s = shifted THEN Name(0, FALSE)
                ELSE IF s \in Connected THEN Name(s, FALSE) ELSE NoName]

\* A bug the checks must find: what was told once is not told again.
DueChanged == NamesOf # told

\* send_client_names_if_changed.
Due == NamesOf # told \/ wait = 0

Tell ==
  /\ phase = "tell" /\ phase' = "build"
  /\ IF Due
     THEN /\ told' = NamesOf /\ wait' = Resend
          /\ \/ heard' = NamesOf /\ UNCHANGED lost
             \/ lost < MaxLost /\ lost' = lost + 1 /\ UNCHANGED heard
     ELSE wait' = (IF wait > 0 THEN wait - 1 ELSE 0) /\ UNCHANGED <<told, heard, lost>>
  /\ UNCHANGED <<devices, filters, frame, changes, age>>

(***************************************************************************)
(* The user.                                                               *)
(***************************************************************************)
Handle(i) ==
  /\ \E p \in ButtonSets \union {Out} :
       pads[i] # p /\ (Out \in {pads[i], p} => {} \in {pads[i], p}) /\ pads' = [pads EXCEPT ![i] = p]
  /\ UNCHANGED <<mode, keyboard>>

SetKeyboard(k) ==
  /\ keyboard # k /\ keyboard' = k
  /\ UNCHANGED <<mode, pads>>

Act ==
  /\ changes < MaxChanges /\ changes' = changes + 1
  /\ \/ \E i \in Slots : Handle(i)
     \/ \E k \in {"off", "single", "override"} : SetKeyboard(k)
  /\ UNCHANGED <<filters, frame, names, phase, age>>

Init ==
  /\ mode \in Modes
  /\ keyboard \in {"off", "single", "override"}
  /\ pads \in [Slots -> {Out, {}}]
  /\ filters = [i \in Slots |-> NoFilter]
  /\ frame = [s \in Slots |-> Empty]
  /\ told = [s \in Slots |-> NoName] /\ heard = told /\ wait = 0
  /\ phase = "build" /\ lost = 0 /\ changes = 0
  /\ age = [i \in Slots |-> Grace]

Next == Build \/ Tell \/ Act

Spec == Init /\ [][Next]_vars

\* The sender thread never stops between two rounds.
Fairness == WF_vars(Build \/ Tell)
FairSpec == Spec /\ Fairness

(***************************************************************************)
(* Properties.                                                             *)
(***************************************************************************)
Describes(name, pad) == [by |-> pad.by, keys |-> pad.keys, gyro |-> pad.gyro, here |-> pad.here] = name

\* The two algorithms agree: for the same gamepads and settings the names tell
\* whose input is in each pad of the frame, and whether it has motion.
NamesAgree == \A s \in Slots : Describes(NamesOf[s], FrameOf(filters, {}, {})[s])

\* What a frame holds was pressed on the gamepad that plays the pad within the
\* grace, whatever was plugged, pulled and switched since, unless keys add it.
NothingStuck ==
  \A s \in Slots : LET pad == frame[s] IN
    pad.rep # {} => pad.keys \/ (pad.by # None /\ age[pad.by] < Grace)

\* No gamepad plays two pads.
OnePadEach ==
  \A s, t \in Slots : frame[s].by # None /\ frame[s].by = frame[t].by => s = t

FrameInv == NamesAgree /\ NothingStuck /\ OnePadEach

\* Once nothing is plugged, pulled or switched any more, the server knows whose
\* input each pad of the frames is, although datagrams are lost.
NamesTold == <>[](\A s \in Slots : Describes(heard[s], frame[s]))
=============================================================================
