----------------------------- MODULE EndsProofs -----------------------------
(***************************************************************************)
(* Proofs about the two ends of the system: what the client makes of       *)
(* gamepads, keyboard and mouse, for any number of pads and any bindings;  *)
(* the amiibo on the reader, as the console and as the client sees it, for *)
(* any amiibo, any chunks and any number of event states; the hotkeys of   *)
(* macros, for any keys and any list; and the vendor commands of the       *)
(* console, for any sizes and any fragments.                               *)
(***************************************************************************)
EXTENDS MCEnds, SequenceTheorems, NaturalsInduction, WellFoundedInduction, TLAPS

-----------------------------------------------------------------------------
(***************************************************************************)
(* The client's frame.  That the names agree with the frame is a fact      *)
(* about two algorithms that look at the same gamepads.  That nothing is   *)
(* stuck rests on the filters: what a filter still keeps and the time that *)
(* passed since something was pressed make a grace together, at most.      *)
(***************************************************************************)

Settings == mode \in Modes /\ keyboard \in {"off", "single", "override"}

Kept ==
  \A i \in Slots :
    /\ age[i] \in Nat
    /\ \A b \in DOMAIN filters[i] : /\ filters[i][b] \in Nat \ {0}
                                    /\ filters[i][b] + age[i] <= Grace

FrameIInv == Settings /\ Kept /\ NothingStuck /\ OnePadEach

\* Which gamepad plays a pad of the frame.
Player(s) ==
  IF mode.s2 THEN (IF s = 0 THEN First(Used) ELSE None)
  ELSE IF s = 0 /\ keyboard = "single" THEN None
  ELSE IF s = Moved THEN 0
  ELSE IF s \in Used THEN s ELSE None

\* A set of numbers that is not empty has a least one.
LEMMA Least ==
  ASSUME NEW S \in SUBSET Nat, S # {}
  PROVE  \E x \in S : \A y \in S : x <= y
<1>1. IsWellFoundedOn(OpToRel(<, Nat), Nat)
  BY NatLessThanWellFounded
<1>2. PICK x \in S : \A y \in S : <<y, x>> \notin OpToRel(<, Nat)
  BY <1>1, WFMin
<1>3. \A y \in S : ~(y < x)
  BY <1>2 DEF OpToRel
<1> QED
  BY <1>3

\* Induction up to a number, with a set for the statement.
LEMMA Climbs ==
  ASSUME NEW K \in Nat, NEW S, 0 \in S,
         \A n \in 1..K : n - 1 \in S => n \in S
  PROVE  \A n \in 0..K : n \in S
<1> DEFINE Bad == {n \in 0..K : n \notin S}
<1> SUFFICES ASSUME Bad # {} PROVE FALSE
  OBVIOUS
<1>1. PICK n \in Bad : \A m \in Bad : n <= m
  <2>1. Bad \in SUBSET Nat
    OBVIOUS
  <2> HIDE DEF Bad
  <2> QED
    BY <2>1, Least
<1>2. n \in 1..K /\ n - 1 \in 0..K
  BY <1>1
<1>3. n - 1 \notin Bad
  BY <1>1, <1>2
<1> QED
  BY <1>1, <1>2, <1>3

LEMMA FirstFacts ==
  ASSUME NEW S \in SUBSET Slots
  PROVE  /\ S = {} => First(S) = None
         /\ S # {} => First(S) \in S /\ \A y \in S : First(S) <= y
<1>1. S # {} => Min(S) \in S /\ \A y \in S : Min(S) <= y
  BY Least, FrameAssumption DEF Min, FrameAssumption
<1> QED
  BY <1>1 DEF First

\* The gamepad that gives way to the keyboard goes to another pad, which nobody plays.
LEMMA MovedFacts ==
  ASSUME Settings
  PROVE  /\ Moved # 0
         /\ Moved # None => /\ Moved \in Slots \ {0} /\ Moved \notin Connected
                            /\ ~mode.s2 /\ keyboard = "single" /\ 0 \in Connected
<1>1. Sources \subseteq Slots
  BY FrameAssumption DEF Sources, FrameAssumption
<1> DEFINE free == {i \in Sources : i # 0 /\ i \notin Connected}
<1>2. free \subseteq Slots
  BY <1>1
<1>3. First(free) = None \/ First(free) \in free
  BY <1>2, FirstFacts
<1>4. mode.s2 \in BOOLEAN
  BY FrameAssumption DEF FrameAssumption, Settings
<1> QED
  BY <1>1, <1>3, <1>4, FrameAssumption DEF Moved, FrameAssumption

\* What the places of a frame show of who plays it.
LEMMA FrameFields ==
  ASSUME Settings, NEW f, NEW keys, NEW push, NEW s \in Slots
  PROVE  LET pad == FrameOf(f, keys, push)[s]
             keyed == s = 0 /\ keyboard # "off"
         IN  /\ pad.by = Player(s) /\ pad.keys = keyed
             /\ pad.gyro = (Player(s) # None /\ Player(s) \in Gyro)
             /\ pad.here = (Player(s) # None \/ keyed)
             /\ ~keyed /\ Player(s) = None => pad.rep = {}
             /\ ~keyed /\ Player(s) # None => pad.rep \in {DOMAIN f[Player(s)], Turned(DOMAIN f[Player(s)])}
<1> DEFINE from == [t \in Slots |->
                      CASE mode.s2 -> IF t = 0 THEN First(Used) ELSE None
                        [] ~mode.s2 /\ t = 0 /\ keyboard = "single" -> None
                        [] ~mode.s2 /\ t = Moved -> 0
                        [] OTHER -> IF t \in Used THEN t ELSE None]
           pad == [t \in Slots |-> IF from[t] = None THEN Empty ELSE Played(from[t], f[from[t]])]
           with == IF keyboard = "off" THEN pad ELSE [pad EXCEPT ![0] = WithKeys(@, keys, push)]
           keyed == s = 0 /\ keyboard # "off"
<1>0. mode.s2 \in BOOLEAN /\ 0 \in Slots
  BY FrameAssumption DEF Settings, FrameAssumption
<1>1. FrameOf(f, keys, push) = IF mode.s2 /\ keyboard = "single" THEN with
                               ELSE [t \in Slots |-> [with[t] EXCEPT !.rep = Turned(@)]]
  BY DEF FrameOf
<1>2. from[s] = Player(s)
  <2>1. CASE mode.s2
    BY <2>1 DEF Player
  <2>2. CASE ~mode.s2 /\ s = 0 /\ keyboard = "single"
    BY <2>2, MovedFacts DEF Player
  <2>3. CASE ~mode.s2 /\ ~(s = 0 /\ keyboard = "single") /\ s = Moved
    <3>1. Player(s) = 0
      BY <2>3 DEF Player
    <3>2. from[s] = 0
      BY <2>3
    <3> QED
      BY <3>1, <3>2
  <2>4. CASE ~mode.s2 /\ ~(s = 0 /\ keyboard = "single") /\ s # Moved
    BY <2>4 DEF Player
  <2> QED
    BY <2>1, <2>2, <2>3, <2>4
<1> HIDE DEF from
<1>3. pad[s] = IF Player(s) = None THEN Empty ELSE Played(Player(s), f[Player(s)])
  BY <1>2
<1>4. with[s] = IF keyed THEN WithKeys(pad[s], keys, push) ELSE pad[s]
  BY <1>0
<1> HIDE DEF pad, with
<1>5. pad[s] \in [by : {Player(s)}, keys : {FALSE}, gyro : BOOLEAN, here : BOOLEAN,
                  rep : {{}, DOMAIN f[Player(s)]}]
  BY <1>3 DEF Empty, Played
<1>6. /\ pad[s].gyro = (Player(s) # None /\ Player(s) \in Gyro) /\ pad[s].here = (Player(s) # None)
      /\ pad[s].rep = IF Player(s) = None THEN {} ELSE DOMAIN f[Player(s)]
  <2>1. CASE Player(s) = None
    <3>1. pad[s].gyro = FALSE /\ pad[s].here = FALSE /\ pad[s].rep = {}
      BY <1>3, <2>1 DEF Empty
    <3> QED
      BY <2>1, <3>1
  <2>2. CASE Player(s) # None
    <3>1. /\ pad[s].gyro = (Player(s) \in Gyro) /\ pad[s].here = TRUE
          /\ pad[s].rep = DOMAIN f[Player(s)]
      BY <1>3, <2>2 DEF Played
    <3>2. (Player(s) # None) = TRUE /\ (Player(s) # None /\ Player(s) \in Gyro) = (Player(s) \in Gyro)
      BY <2>2
    <3> QED
      BY <2>2, <3>1, <3>2
  <2> QED
    BY <2>1, <2>2
<1>7. /\ DOMAIN with[s] = {"by", "keys", "gyro", "here", "rep"}
      /\ with[s].by = Player(s) /\ with[s].keys = keyed /\ with[s].gyro = pad[s].gyro
      /\ with[s].here = (pad[s].here \/ keyed) /\ (~keyed => with[s].rep = pad[s].rep)
  <2>1. CASE keyed
    BY <1>4, <1>5, <2>1 DEF WithKeys
  <2>2. CASE ~keyed
    BY <1>4, <1>5, <2>2
  <2> QED
    BY <2>1, <2>2
<1>8. Turned({}) = {}
  BY DEF Turned
<1> DEFINE whole == FrameOf(f, keys, push)[s]
<1>9. /\ whole.by = with[s].by /\ whole.keys = with[s].keys /\ whole.gyro = with[s].gyro
      /\ whole.here = with[s].here /\ whole.rep \in {with[s].rep, Turned(with[s].rep)}
  <2>1. CASE mode.s2 /\ keyboard = "single"
    BY <1>1, <2>1
  <2>2. CASE ~(mode.s2 /\ keyboard = "single")
    <3>1. whole = [with[s] EXCEPT !.rep = Turned(@)]
      BY <1>1, <2>2
    <3> QED
      BY <1>7, <3>1
  <2> QED
    BY <2>1, <2>2
<1> HIDE DEF whole
<1>10. LET keyedHere == s = 0 /\ keyboard # "off"
       IN  /\ whole.by = Player(s) /\ whole.keys = keyedHere
           /\ whole.gyro = (Player(s) # None /\ Player(s) \in Gyro)
           /\ whole.here = (Player(s) # None \/ keyedHere)
           /\ ~keyedHere /\ Player(s) = None => whole.rep = {}
           /\ ~keyedHere /\ Player(s) # None =>
                whole.rep \in {DOMAIN f[Player(s)], Turned(DOMAIN f[Player(s)])}
  BY <1>6, <1>7, <1>8, <1>9
<1> QED
  BY <1>10 DEF whole

\* The first gamepad of the native mode is the one both algorithms take.
LEMMA UsedFirst ==
  ASSUME Settings, mode.s2, keyboard # "single"
  PROVE  First(Used) = First(Connected)
<1>1. Used = {i \in Connected : \A j \in Connected : i <= j} /\ Connected \subseteq Slots
  BY DEF Used, Connected
<1>2. CASE Connected = {}
  BY <1>1, <1>2
<1>3. CASE Connected # {}
  <2>1. First(Connected) \in Connected /\ \A y \in Connected : First(Connected) <= y
    BY <1>1, <1>3, FirstFacts
  <2>2. First(Connected) \in Used
    BY <1>1, <2>1
  <2>3. First(Used) \in Used
    BY <1>1, <2>2, FirstFacts
  <2>4. First(Used) <= First(Connected) /\ First(Connected) <= First(Used)
    BY <1>1, <2>1, <2>3
  <2>5. First(Used) \in Nat /\ First(Connected) \in Nat
    BY <1>1, <2>1, <2>3, FrameAssumption DEF FrameAssumption
  <2> QED
    BY <2>4, <2>5
<1> QED
  BY <1>2, <1>3

\* The names of who plays the pads.
LEMMA NamesFields ==
  ASSUME Settings, NEW s \in Slots
  PROVE  LET keyed == s = 0 /\ keyboard # "off"
         IN  NamesOf[s] = [by |-> Player(s), keys |-> keyed,
                           gyro |-> Player(s) # None /\ Player(s) \in Gyro,
                           here |-> Player(s) # None \/ keyed]
<1> DEFINE keyed == s = 0 /\ keyboard # "off"
           shifted == First({i \in Sources \ {0} : i \notin Connected})
           source == First(Connected)
           first(i) == IF i = None THEN (IF keyboard = "off" THEN NoName ELSE KeyboardName)
                       ELSE Name(i, keyboard # "off")
           zero == first(IF mode.s2 THEN source ELSE First(Connected \cap {0}))
           other == IF keyboard = "single" /\ 0 \in Connected /\ s = shifted THEN Name(0, FALSE)
                    ELSE IF s \in Connected THEN Name(s, FALSE) ELSE NoName
           ofPlayer == IF Player(s) = None THEN (IF keyed THEN KeyboardName ELSE NoName)
                       ELSE Name(Player(s), keyed)
<1>0. mode.s2 \in BOOLEAN /\ 0 \in Sources /\ Sources \subseteq Slots /\ 0 \in Slots /\ None \notin Slots
  BY FrameAssumption DEF Settings, FrameAssumption, Sources
<1>1. NamesOf[s] = IF s = 0 THEN (IF keyboard = "single" THEN KeyboardName ELSE zero)
                   ELSE IF mode.s2 \/ s \notin Sources THEN NoName ELSE other
  BY <1>0 DEF NamesOf
<1>2. ofPlayer = [by |-> Player(s), keys |-> keyed,
                  gyro |-> Player(s) # None /\ Player(s) \in Gyro,
                  here |-> Player(s) # None \/ keyed]
  <2> DEFINE moves == Player(s) # None /\ Player(s) \in Gyro
             is == Player(s) # None \/ keyed
  <2>1. CASE Player(s) = None /\ keyed
    <3>1. moves = FALSE /\ is = TRUE /\ keyed = TRUE
      BY <2>1
    <3>2. ofPlayer = [by |-> Player(s), keys |-> TRUE, gyro |-> FALSE, here |-> TRUE]
      BY <2>1 DEF NoName, KeyboardName
    <3> HIDE DEF moves, is, keyed, ofPlayer
    <3>3. ofPlayer = [by |-> Player(s), keys |-> keyed, gyro |-> moves, here |-> is]
      BY <3>1, <3>2
    <3> QED
      BY <3>3 DEF moves, is
  <2>2. CASE Player(s) = None /\ ~keyed
    <3>1. moves = FALSE /\ is = FALSE /\ keyed = FALSE
      BY <2>2
    <3>2. ofPlayer = [by |-> Player(s), keys |-> FALSE, gyro |-> FALSE, here |-> FALSE]
      BY <2>2 DEF NoName
    <3> HIDE DEF moves, is, keyed, ofPlayer
    <3>3. ofPlayer = [by |-> Player(s), keys |-> keyed, gyro |-> moves, here |-> is]
      BY <3>1, <3>2
    <3> QED
      BY <3>3 DEF moves, is
  <2>3. CASE Player(s) # None
    <3>1. moves = (Player(s) \in Gyro) /\ is = TRUE
      BY <2>3
    <3>2. ofPlayer = [by |-> Player(s), keys |-> keyed, gyro |-> Player(s) \in Gyro, here |-> TRUE]
      BY <2>3 DEF Name
    <3> HIDE DEF moves, is, ofPlayer
    <3>3. ofPlayer = [by |-> Player(s), keys |-> keyed, gyro |-> moves, here |-> is]
      BY <3>1, <3>2
    <3> QED
      BY <3>3 DEF moves, is
  <2> QED
    BY <2>1, <2>2, <2>3
<1>3. CASE s = 0 /\ keyboard = "single"
  <2>1. Player(s) = None
    BY <1>0, <1>3, FirstFacts DEF Player, Used
  <2> QED
    BY <1>1, <1>2, <1>3, <2>1
<1>4. CASE s = 0 /\ keyboard # "single" /\ mode.s2
  <2>1. Player(s) = source
    BY <1>4, UsedFirst DEF Player
  <2> QED
    BY <1>1, <1>2, <1>4, <2>1
<1>5. CASE s = 0 /\ keyboard # "single" /\ ~mode.s2
  <2>1. Player(s) = IF 0 \in Connected THEN 0 ELSE None
    BY <1>0, <1>5, MovedFacts DEF Player, Used
  <2>2. First(Connected \cap {0}) = IF 0 \in Connected THEN 0 ELSE None
    BY <1>0, FirstFacts
  <2> QED
    BY <1>0, <1>1, <1>2, <1>5, <2>1, <2>2
<1>6. CASE s # 0 /\ (mode.s2 \/ s \notin Sources)
  <2>1. Player(s) = None
    <3>1. CASE mode.s2
      BY <1>6, <3>1 DEF Player
    <3>2. CASE ~mode.s2 /\ s \notin Sources
      <4>1. Moved = None \/ Moved \in Sources
        BY <1>0, FirstFacts DEF Moved
      <4> QED
        BY <1>0, <1>6, <3>2, <4>1 DEF Player, Used
    <3> QED
      BY <1>6, <3>1, <3>2
  <2> QED
    BY <1>1, <1>2, <1>6, <2>1
<1>7. CASE s # 0 /\ ~mode.s2 /\ s \in Sources
  <2>1. Moved = IF keyboard = "single" /\ 0 \in Connected THEN shifted ELSE None
    <3>1. {i \in Sources \ {0} : i \notin Connected} = {i \in Sources : i # 0 /\ i \notin Connected}
      OBVIOUS
    <3> QED
      BY <1>7, <3>1 DEF Moved
  <2>2. Player(s) = IF keyboard = "single" /\ 0 \in Connected /\ s = shifted THEN 0
                    ELSE IF s \in Connected THEN s ELSE None
    BY <1>0, <1>7, <2>1 DEF Player, Used
  <2>3. other = ofPlayer
    BY <1>0, <1>7, <2>2
  <2> QED
    BY <1>1, <1>2, <1>7, <2>3
<1> QED
  BY <1>3, <1>4, <1>5, <1>6, <1>7

LEMMA FrameAgrees == Settings => NamesAgree
<1> SUFFICES ASSUME Settings, NEW s \in Slots
             PROVE  Describes(NamesOf[s], FrameOf(filters, {}, {})[s])
  BY DEF NamesAgree
<1> QED
  BY FrameFields, NamesFields DEF Describes

\* No gamepad plays two pads, and a gamepad that plays one has a filter.
LEMMA PlayerFacts ==
  ASSUME Settings
  PROVE  /\ \A s \in Slots : Player(s) \in Slots \cup {None}
         /\ \A s, t \in Slots : Player(s) # None /\ Player(s) = Player(t) => s = t
<1>1. 0 \in Slots /\ None \notin Slots /\ Used \subseteq Slots
  BY FrameAssumption DEF FrameAssumption, Used, Connected
<1>2. \A s \in Slots : Player(s) \in Slots \cup {None}
  BY <1>1, FirstFacts DEF Player
<1>3. ASSUME NEW s \in Slots, NEW t \in Slots, Player(s) # None, Player(s) = Player(t)
      PROVE  s = t
  <2>1. CASE mode.s2
    BY <1>3, <2>1 DEF Player
  <2>2. CASE ~mode.s2
    BY <1>1, <1>3, <2>2, MovedFacts DEF Player
  <2> QED
    BY <2>1, <2>2
<1> QED
  BY <1>2, <1>3

\* What a filter keeps is pressed now, or was kept before and is kept one frame less.
LEMMA FilterFacts ==
  ASSUME NEW f, NEW rep, NEW b \in DOMAIN Filter(f, rep)
  PROVE  \/ b \in rep /\ Filter(f, rep)[b] = Grace
         \/ b \notin rep /\ b \in DOMAIN f /\ f[b] > 1 /\ Filter(f, rep)[b] = f[b] - 1
  BY DEF Filter

LEMMA MappedFacts == Mapped({}) = {}
<1>1. \A both, one : both # {} => Shortcut({}, both, one) = {}
  BY DEF Shortcut
<1>2. {a \in DOMAIN Bindings : Bindings[a] \in {}} = {}
  OBVIOUS
<1> QED
  BY <1>1, <1>2 DEF Mapped

\* A frame keeps what the filters keep: no longer than a grace after the last press.
LEMMA KeptStep == Settings /\ Kept /\ Build => Kept'
<1> SUFFICES ASSUME Settings, Kept, Build, NEW i \in Slots
             PROVE  /\ age'[i] \in Nat
                    /\ \A b \in DOMAIN filters'[i] : /\ filters'[i][b] \in Nat \ {0}
                                                     /\ filters'[i][b] + age'[i] <= Grace
  BY DEF Kept
<1> USE FrameAssumption DEF FrameAssumption
<1>1. /\ age[i] \in Nat
      /\ \A b \in DOMAIN filters[i] : filters[i][b] \in Nat \ {0} /\ filters[i][b] + age[i] <= Grace
  BY DEF Kept
<1>2. age'[i] = IF pads[i] \notin {Out, {}} THEN 0 ELSE IF age[i] < Grace THEN age[i] + 1 ELSE age[i]
  BY DEF Build
<1>3. filters'[i] = IF i \in Used THEN Filter(filters[i], Mapped(pads[i]))
                    ELSE IF mode.s2 /\ keyboard = "single" THEN Filter(filters[i], {}) ELSE NoFilter
  BY DEF Build, FiltersAfter
<1>4. ASSUME NEW rep, rep # {} => pads[i] \notin {Out, {}}, filters'[i] = Filter(filters[i], rep),
             NEW b \in DOMAIN filters'[i]
      PROVE  filters'[i][b] \in Nat \ {0} /\ filters'[i][b] + age'[i] <= Grace
  <2>1. CASE b \in rep /\ filters'[i][b] = Grace
    BY <1>2, <1>4, <2>1
  <2>2. CASE b \notin rep /\ b \in DOMAIN filters[i] /\ filters[i][b] > 1 /\ filters'[i][b] = filters[i][b] - 1
    BY <1>1, <1>2, <1>4, <2>2
  <2> QED
    BY <1>4, <2>1, <2>2, FilterFacts
<1>5. CASE i \in Used
  <2>1. pads[i] # Out
    BY <1>5 DEF Used, Connected
  <2>2. Mapped(pads[i]) # {} => pads[i] \notin {Out, {}}
    BY <2>1, MappedFacts
  <2> QED
    BY <1>1, <1>2, <1>3, <1>4, <1>5, <2>2
<1>6. CASE i \notin Used /\ mode.s2 /\ keyboard = "single"
  BY <1>1, <1>2, <1>3, <1>4, <1>6
<1>7. CASE i \notin Used /\ ~(mode.s2 /\ keyboard = "single")
  BY <1>1, <1>2, <1>3, <1>7 DEF NoFilter
<1> QED
  BY <1>5, <1>6, <1>7

LEMMA FrameStep == FrameIInv /\ [Next]_vars => FrameIInv'
<1> SUFFICES ASSUME FrameIInv, [Next]_vars
             PROVE  FrameIInv'
  OBVIOUS
<1> USE FrameAssumption DEF FrameAssumption, FrameIInv, devices, names
<1>1. CASE Build
  <2>1. Settings' /\ Kept'
    BY <1>1, KeptStep DEF Settings, Build
  <2>2. PICK keys, push : frame' = FrameOf(filters', keys, push)
    BY <1>1 DEF Build
  <2>3. \A s \in Slots : frame'[s].by = Player(s)
    BY <2>2, FrameFields
  <2>4. OnePadEach'
    <3>1. \A s, t \in Slots : Player(s) # None /\ Player(s) = Player(t) => s = t
      BY PlayerFacts
    <3> SUFFICES ASSUME NEW s \in Slots, NEW t \in Slots,
                        frame'[s].by # None, frame'[s].by = frame'[t].by
                 PROVE  s = t
      BY DEF OnePadEach
    <3>2. frame'[s].by = Player(s) /\ frame'[t].by = Player(t)
      BY <2>3
    <3> QED
      BY <3>1, <3>2
  <2>5. ASSUME NEW s \in Slots, frame'[s].rep # {}, ~frame'[s].keys
        PROVE  frame'[s].by # None /\ age'[frame'[s].by] < Grace
    <3>1. ~(s = 0 /\ keyboard # "off")
      BY <2>2, <2>5, FrameFields
    <3>2. Player(s) # None /\ DOMAIN filters'[Player(s)] # {}
      BY <2>2, <2>5, <3>1, FrameFields DEF Turned
    <3>3. Player(s) \in Slots
      BY <3>2, PlayerFacts
    <3>4. PICK b \in DOMAIN filters'[Player(s)] : TRUE
      BY <3>2
    <3>5. /\ age'[Player(s)] \in Nat /\ filters'[Player(s)][b] \in Nat \ {0}
          /\ filters'[Player(s)][b] + age'[Player(s)] <= Grace
      BY <2>1, <3>3, <3>4 DEF Kept
    <3>6. age'[Player(s)] < Grace
      BY <3>5
    <3> QED
      BY <2>3, <3>2, <3>6
  <2> QED
    BY <2>1, <2>4, <2>5 DEF NothingStuck
<1>2. CASE Tell
  BY <1>2 DEF Tell, Settings, Kept, NothingStuck, OnePadEach
<1>3. CASE Act
  <2>1. Settings'
    BY <1>3 DEF Act, Handle, SetKeyboard, Settings
  <2> QED
    BY <1>3, <2>1 DEF Act, Kept, NothingStuck, OnePadEach
<1>4. CASE UNCHANGED vars
  BY <1>4 DEF vars, Settings, Kept, NothingStuck, OnePadEach
<1> QED
  BY <1>1, <1>2, <1>3, <1>4 DEF Next

LEMMA FrameInit == Init => FrameIInv
<1> SUFFICES ASSUME Init
             PROVE  FrameIInv
  OBVIOUS
<1>1. \A i \in Slots : filters[i] = [a \in {} |-> 0] /\ age[i] = Grace /\ frame[i].rep = {} /\ frame[i].by = None
  BY DEF Init, NoFilter, Empty
<1> QED
  BY <1>1, FrameAssumption
  DEF Init, FrameAssumption, FrameIInv, Settings, Kept, NothingStuck, OnePadEach

\* FrameInv: whatever is plugged, pulled, pressed and switched, the names tell whose input is in
\* each pad, nothing is pressed longer than a grace after it was released, and no gamepad plays
\* two pads.
THEOREM FrameTheorem == MCSpec => []FrameInv
<1>1. MCInit => FrameIInv
  BY FrameInit DEF MCInit
<1>2. FrameIInv /\ [MCNext]_MCvars => FrameIInv'
  <2>1. FrameIInv /\ UNCHANGED vars => FrameIInv'
    BY FrameStep
  <2> QED
    BY <2>1, FrameStep DEF MCNext, MCvars
<1>3. FrameIInv => FrameInv
  BY FrameAgrees DEF FrameIInv, FrameInv
<1> QED
  BY <1>1, <1>2, <1>3, PTL DEF MCSpec

-----------------------------------------------------------------------------
(***************************************************************************)
(* The amiibo of one port.  What the console may do to a tag is a record   *)
(* to record operator for each command; Follows is what each of them keeps *)
(* of a tag, and composes when a deadline passed before the command.       *)
(***************************************************************************)

TagFields == {"kind", "id", "torn", "modified", "status", "op", "read", "defer", "command",
              "mode", "phase", "stage", "committed", "persisted", "waiting", "ejected"}

Shaped(r) ==
  /\ r = [x \in TagFields |-> r[x]] /\ DOMAIN r.stage = chunks
  /\ r.kind \in {None, "v3", "ntag"}

\* A figure-v3 tag that takes chunks has none of an earlier write.
OneWriteOnly(r) ==
  r.kind = "v3" =>
    /\ ~r.torn
    /\ r.op /\ r.status = "active" /\ r.mode # None => \A c \in chunks : r.stage[c] \in {None, "new"}
    /\ r.status = "written" => r.mode = None

\* A tag that was taken away holds no committed write; an NTAG that holds one or was taken away
\* has no operation running.
TakenIsClean(r) ==
  /\ r.ejected => ~r.committed
  /\ r.kind = "ntag" => /\ r.committed \/ r.ejected => ~r.op
                        /\ r.status # "extended"
  /\ r.kind = None => r.status = "scan" /\ ~r.committed /\ ~r.ejected

GoodTag(r) == Shaped(r) /\ OneWriteOnly(r) /\ TakenIsClean(r)

\* The writer's copy is of what the library has not stored, until it has.
Saving ==
  /\ tag.committed /\ tag.persisted => ~unsaved
  /\ save # None =>
       /\ DOMAIN save = {"id", "mark", "result"} /\ save.result \in {None, TRUE, FALSE}
       /\ save.result = TRUE => ~unsaved
       /\ save.result # None => save.mark
       /\ tag.kind = "ntag" /\ save.mark => ~tag.op

AmiiboIInv == GoodTag(tag) /\ Saving

\* What a command may make of a tag.
Follows(r, q) ==
  /\ GoodTag(q)
  /\ q.kind = r.kind /\ q.defer = r.defer
  /\ r.ejected /\ ~q.ejected => r.defer
  /\ q.ejected /\ r.committed /\ r.phase # "await" => r.persisted
  /\ q.committed /\ q.persisted => r.committed /\ r.persisted


LEMMA SameTag ==
  ASSUME NEW r, GoodTag(r), r.kind # None
  PROVE  Follows(r, r)
  BY AmiiboAssumption
  DEF AmiiboAssumption, GoodTag, Shaped, TagFields, OneWriteOnly, TakenIsClean, Follows

LEMMA LapsedTag ==
  ASSUME NEW r, GoodTag(r), r.kind # None
  PROVE  Follows(r, Amiibo!Lapsed(r))
<1> DEFINE q == [r EXCEPT !.phase = IF @ = "await" THEN "idle" ELSE @]
           e == Amiibo!Ejected(q)
<1>1. Shaped(q) /\ \A x \in TagFields \ {"phase"} : q[x] = r[x]
  BY DEF GoodTag, Shaped, TagFields
<1>2. /\ Shaped(e) /\ e.ejected = TRUE /\ e.committed = FALSE /\ e.status = "gone"
      /\ \A x \in TagFields \ {"ejected", "committed", "status"} : e[x] = q[x]
  <2> HIDE DEF q
  <2> QED
    BY <1>1 DEF Amiibo!Ejected, Shaped, TagFields
<1>3. Amiibo!Lapsed(r) = IF q = r \/ r.op \/ r.ejected THEN q ELSE e
  BY DEF Amiibo!Lapsed
<1>4. q = r \/ r.phase = "await"
  <2>1. CASE r.phase # "await"
    <3>1. q = [r EXCEPT !.phase = r.phase]
      BY <2>1
    <3> QED
      BY <3>1 DEF GoodTag, Shaped
  <2> QED
    BY <2>1
<1> HIDE DEF q, e
<1>5. CASE q = r \/ r.op \/ r.ejected
  <2>1. Follows(r, q)
    BY <1>1 DEF GoodTag, TagFields, OneWriteOnly, TakenIsClean, Follows
  <2> QED
    BY <1>3, <1>5, <2>1
<1>6. CASE ~(q = r \/ r.op \/ r.ejected)
  <2>1. Follows(r, e)
    BY <1>1, <1>2, <1>4, <1>6 DEF GoodTag, TagFields, OneWriteOnly, TakenIsClean, Follows
  <2> QED
    BY <1>3, <1>6, <2>1
<1> QED
  BY <1>5, <1>6

LEMMA ScannedTag ==
  ASSUME NEW r, GoodTag(r), r.kind # None
  PROVE  Follows(r, Amiibo!Scanned(r))
<1> USE AmiiboAssumption DEF AmiiboAssumption
<1> DEFINE q == IF r.phase = "await" THEN Amiibo!Ejected([r EXCEPT !.phase = "idle"]) ELSE r
           p == [(IF q.mode = None THEN q ELSE Amiibo!Unstaged(q)) EXCEPT
                   !.op = FALSE, !.read = FALSE, !.mode = None]
           last == IF q.committed \/ (q.kind = "v3" /\ q.ejected) THEN p ELSE [p EXCEPT !.status = "scan"]
<1>0. Amiibo!Scanned(r) = last
  BY DEF Amiibo!Scanned
<1>1. /\ Shaped(q) /\ q.kind = r.kind /\ q.torn = r.torn /\ q.defer = r.defer
      /\ q.persisted = r.persisted /\ q.mode = r.mode
      /\ r.phase # "await" => q = r
      /\ r.phase = "await" => q.ejected = TRUE /\ q.committed = FALSE /\ q.status = "gone"
  BY DEF GoodTag, Shaped, TagFields, Amiibo!Ejected
<1> HIDE DEF q
<1>2. /\ Shaped(p) /\ p.kind = q.kind /\ p.torn = q.torn /\ p.defer = q.defer
      /\ p.persisted = q.persisted /\ p.mode = None /\ p.op = FALSE
      /\ p.ejected = q.ejected /\ p.committed = q.committed /\ p.status = q.status
  BY <1>1 DEF Shaped, TagFields, Amiibo!Unstaged, Amiibo!Empty
<1> HIDE DEF p
<1>3. /\ Shaped(last) /\ last.kind = p.kind /\ last.torn = p.torn /\ last.defer = p.defer
      /\ last.persisted = p.persisted /\ last.mode = None /\ last.op = FALSE
      /\ last.ejected = p.ejected /\ last.committed = p.committed /\ last.status \in {p.status, "scan"}
  BY <1>2 DEF Shaped, TagFields
<1> HIDE DEF last
<1> QED
  BY <1>0, <1>1, <1>2, <1>3 DEF GoodTag, OneWriteOnly, TakenIsClean, Follows

LEMMA LeftTag ==
  ASSUME NEW r, GoodTag(r), r.kind # None
  PROVE  Follows(r, Amiibo!Left(r))
<1> USE AmiiboAssumption DEF AmiiboAssumption
<1> DEFINE l == Amiibo!Left(r)
           q == [r EXCEPT !.op = FALSE, !.command = FALSE, !.mode = None, !.read = FALSE]
<1>1. /\ Shaped(q) /\ q.kind = r.kind /\ q.torn = r.torn /\ q.defer = r.defer
      /\ q.persisted = r.persisted /\ q.mode = None /\ q.op = FALSE
      /\ q.ejected = r.ejected /\ q.committed = r.committed /\ q.status = r.status
  BY DEF GoodTag, Shaped, TagFields
<1>2. CASE r.committed /\ r.phase = "await"
  <2> DEFINE t == [q EXCEPT !.committed = FALSE, !.ejected = FALSE, !.status = "scan"]
  <2>1. l = t
    BY <1>2 DEF Amiibo!Left
  <2> HIDE DEF q
  <2>2. /\ Shaped(t) /\ t.kind = q.kind /\ t.torn = q.torn /\ t.defer = q.defer /\ t.mode = q.mode
        /\ t.op = q.op /\ t.ejected = FALSE /\ t.committed = FALSE /\ t.status = "scan"
    BY <1>1 DEF Shaped, TagFields
  <2> HIDE DEF t
  <2> QED
    BY <1>1, <1>2, <2>1, <2>2 DEF GoodTag, OneWriteOnly, TakenIsClean, Follows
<1>3. CASE r.committed /\ r.phase # "await"
  <2> DEFINE t == Amiibo!Gone(q)
  <2>1. l = t
    BY <1>3 DEF Amiibo!Left
  <2> HIDE DEF q
  <2>2. /\ Shaped(t) /\ t.kind = q.kind /\ t.torn = q.torn /\ t.defer = q.defer /\ t.mode = q.mode
        /\ t.op = q.op /\ t.persisted = q.persisted
        /\ q.persisted => t.ejected = TRUE /\ t.committed = FALSE /\ t.status = "gone"
        /\ ~q.persisted => t.ejected = q.ejected /\ t.committed = q.committed /\ t.status = q.status
    BY <1>1 DEF Shaped, TagFields, Amiibo!Gone, Amiibo!Ejected
  <2> HIDE DEF t
  <2> QED
    BY <1>1, <1>3, <2>1, <2>2 DEF GoodTag, OneWriteOnly, TakenIsClean, Follows
<1>4. CASE ~r.committed
  <2> DEFINE removed(e) == [q EXCEPT !.ejected = e, !.status = IF e THEN "gone" ELSE "scan"]
  <2>1. PICK e : l = removed(e) /\ e \in {~r.defer, r.ejected}
    BY <1>4 DEF Amiibo!Left
  <2> DEFINE t == removed(e)
  <2> HIDE DEF q
  <2>2. /\ Shaped(t) /\ t.kind = q.kind /\ t.torn = q.torn /\ t.defer = q.defer /\ t.mode = q.mode
        /\ t.op = q.op /\ t.ejected = e /\ t.committed = q.committed /\ t.status \in {"gone", "scan"}
    BY <1>1 DEF Shaped, TagFields
  <2>3. l = t
    BY <2>1
  <2> HIDE DEF t, removed
  <2> QED
    BY <1>1, <1>4, <2>1, <2>2, <2>3 DEF GoodTag, OneWriteOnly, TakenIsClean, Follows
<1> QED
  BY <1>2, <1>3, <1>4

LEMMA FetchedTag ==
  ASSUME NEW r, GoodTag(r), r.kind # None
  PROVE  Follows(r, Amiibo!FetchedLast(r))
  BY AmiiboAssumption
  DEF AmiiboAssumption, GoodTag, Shaped, TagFields, OneWriteOnly, TakenIsClean, Follows, Amiibo!FetchedLast

LEMMA NtagStagedTag ==
  ASSUME NEW r, GoodTag(r), r.kind = "ntag", NEW c \in chunks
  PROVE  Follows(r, Amiibo!NtagStaged(r, c))
  BY AmiiboAssumption
  DEF AmiiboAssumption, GoodTag, Shaped, TagFields, OneWriteOnly, TakenIsClean, Follows, Amiibo!NtagStaged, Amiibo!Unstaged, Amiibo!Empty

LEMMA V3StagedTag ==
  ASSUME NEW r, GoodTag(r), r.kind = "v3", NEW c \in chunks, NEW head \in Amiibo!Heads
  PROVE  Follows(r, Amiibo!V3Staged(r, c, head))
<1> USE AmiiboAssumption DEF AmiiboAssumption
<1> DEFINE device == r.mode = None /\ c = 1 /\ r.op /\ r.status = "device" /\ r.read /\ head = "write"
           again == ~r.op /\ r.committed /\ r.status = "written" /\ c = 1 /\ head \in {"clear", "update"}
           q == IF device THEN [r EXCEPT !.status = "active"]
                ELSE IF again THEN [r EXCEPT !.op = TRUE, !.status = "active", !.committed = FALSE] ELSE r
           opens == q.mode = None /\ c = 1 /\ q.op /\ q.status = "active" /\ head # None
           p == IF opens THEN Amiibo!Opened(q, head) ELSE q
           taken == IF p.op /\ p.mode # None /\ p.status = "active" THEN [p EXCEPT !.stage[c] = "new"]
                    ELSE Amiibo!Refused(p)
<1>0. Amiibo!V3Staged(r, c, head) = IF r.ejected THEN Amiibo!Refused(r) ELSE taken
  BY DEF Amiibo!V3Staged
<1> DEFINE Keeps(a, b) == /\ Shaped(b) /\ b.kind = "v3" /\ ~b.torn /\ b.defer = r.defer
                          /\ b.ejected = r.ejected /\ b.persisted = r.persisted
                          /\ b.committed => a.committed
           New(a) == a.op /\ a.status = "active" /\ a.mode # None =>
                       \A d \in chunks : a.stage[d] \in {None, "new"}
<1>1. CASE r.ejected
  BY <1>0, <1>1 DEF Amiibo!Refused, GoodTag, Shaped, TagFields, OneWriteOnly, TakenIsClean, Follows
<1>2. CASE ~r.ejected
  <2>1. Keeps(r, q) /\ New(q) /\ (q.status = "written" => q.mode = None)
    <3>1. CASE device
      BY <3>1 DEF GoodTag, Shaped, TagFields, OneWriteOnly
    <3>2. CASE ~device /\ again
      BY <3>2 DEF GoodTag, Shaped, TagFields, OneWriteOnly
    <3>3. CASE ~device /\ ~again
      BY <3>3 DEF GoodTag, Shaped, OneWriteOnly
    <3> QED
      BY <3>1, <3>2, <3>3
  <2> HIDE DEF q
  <2>2. Keeps(q, p) /\ New(p) /\ (p.status = "written" => p.mode = None)
    <3>1. CASE opens
      <4>1. /\ Shaped(p) /\ p.kind = q.kind /\ p.torn = q.torn /\ p.defer = q.defer
            /\ p.ejected = q.ejected /\ p.persisted = q.persisted /\ p.status = "active"
            /\ p.committed => q.committed
            /\ \A d \in chunks : p.stage[d] = None
        BY <2>1, <3>1 DEF Amiibo!Opened, Amiibo!Unstaged, Amiibo!Empty, Shaped, TagFields
      <4> QED
        BY <2>1, <4>1
    <3>2. CASE ~opens
      BY <2>1, <3>2
    <3> QED
      BY <3>1, <3>2
  <2> HIDE DEF p
  <2>3. Keeps(p, taken) /\ New(taken) /\ (taken.status = "written" => taken.mode = None)
    <3>1. CASE p.op /\ p.mode # None /\ p.status = "active"
      <4>1. /\ Shaped(taken) /\ taken.kind = p.kind /\ taken.torn = p.torn /\ taken.defer = p.defer
            /\ taken.ejected = p.ejected /\ taken.persisted = p.persisted /\ taken.status = "active"
            /\ taken.committed = p.committed
            /\ \A d \in chunks : taken.stage[d] = IF d = c THEN "new" ELSE p.stage[d]
        BY <2>2, <3>1 DEF Shaped, TagFields
      <4> HIDE DEF taken
      <4> QED
        BY <2>2, <3>1, <4>1
    <3>2. CASE ~(p.op /\ p.mode # None /\ p.status = "active")
      BY <2>2, <3>2 DEF Shaped, TagFields, Amiibo!Refused
    <3> QED
      BY <3>1, <3>2
  <2> HIDE DEF taken
  <2> QED
    BY <1>0, <1>2, <2>1, <2>2, <2>3 DEF GoodTag, Shaped, OneWriteOnly, TakenIsClean, Follows
<1> QED
  BY <1>1, <1>2

LEMMA SectorTag ==
  ASSUME NEW r, GoodTag(r), r.kind = "v3", NEW good \in BOOLEAN
  PROVE  Follows(r, Amiibo!SectorRead(r, good))
  BY AmiiboAssumption
  DEF AmiiboAssumption, GoodTag, Shaped, TagFields, OneWriteOnly, TakenIsClean, Follows, Amiibo!SectorRead, Amiibo!Refused

LEMMA DeviceTag ==
  ASSUME NEW r, GoodTag(r), r.kind = "v3"
  PROVE  Follows(r, Amiibo!DeviceRun(r))
  BY AmiiboAssumption
  DEF AmiiboAssumption, GoodTag, Shaped, TagFields, OneWriteOnly, TakenIsClean, Follows, Amiibo!DeviceRun

LEMMA CommittedTag ==
  ASSUME NEW r, GoodTag(r), r.kind # None, NEW good \in BOOLEAN
  PROVE  Follows(r, Amiibo!Committed(r, good))
<1> USE AmiiboAssumption DEF AmiiboAssumption
<1> DEFINE q == Amiibo!Committed(r, good)
<1>1. CASE r.mode = "write" /\ r.op /\ good /\ Amiibo!Covered(r)
                  /\ (r.kind = "v3" => ~r.ejected /\ r.status = "active")
  <2>1. r.kind = "v3" => Amiibo!Applied(r).torn = FALSE
    <3>1. r.kind = "v3" => \A c \in chunks : r.stage[c] = "new"
      BY <1>1 DEF GoodTag, OneWriteOnly, Amiibo!Covered
    <3>2. Amiibo!Applied(r).torn = \E c, d \in chunks : r.stage[c] # r.stage[d]
      BY DEF Amiibo!Applied, GoodTag, Shaped, TagFields
    <3> QED
      BY <3>1, <3>2
  <2>2. /\ Shaped(q) /\ q.kind = r.kind /\ q.defer = r.defer /\ q.torn = Amiibo!Applied(r).torn
        /\ q.status = "written" /\ q.committed = TRUE /\ q.persisted = FALSE
        /\ q.op = FALSE /\ q.mode = None /\ q.ejected = r.ejected
    <3> DEFINE a == Amiibo!Applied(r)
    <3>1. Shaped(a) /\ a.kind = r.kind /\ a.defer = r.defer /\ a.ejected = r.ejected
      BY DEF Amiibo!Applied, GoodTag, Shaped, TagFields
    <3>2. q = [a EXCEPT !.status = "written", !.committed = TRUE, !.persisted = FALSE,
                        !.waiting = FALSE, !.op = FALSE, !.mode = None]
      BY <1>1 DEF Amiibo!Committed
    <3> HIDE DEF a, q
    <3> QED
      BY <3>1, <3>2 DEF Shaped, TagFields, a
  <2>3. ~r.ejected
    BY <1>1 DEF GoodTag, TakenIsClean, Shaped
  <2> HIDE DEF q
  <2>4. OneWriteOnly(q)
    BY <2>1, <2>2 DEF OneWriteOnly
  <2>5. TakenIsClean(q)
    BY <2>2, <2>3 DEF GoodTag, Shaped, TakenIsClean
  <2> QED
    BY <2>2, <2>4, <2>5 DEF GoodTag, TakenIsClean, Follows, q
<1>2. CASE ~(r.mode = "write" /\ r.op /\ good /\ Amiibo!Covered(r)
                     /\ (r.kind = "v3" => ~r.ejected /\ r.status = "active"))
  BY <1>2 DEF Amiibo!Committed, Amiibo!Refused, GoodTag, Shaped, TagFields, OneWriteOnly,
              TakenIsClean, Follows
<1> QED
  BY <1>1, <1>2

LEMMA SectorCommittedTag ==
  ASSUME NEW r, GoodTag(r), r.kind = "v3", NEW good \in BOOLEAN
  PROVE  Follows(r, Amiibo!SectorCommitted(r, good))
<1> USE AmiiboAssumption DEF AmiiboAssumption
<1> DEFINE q == Amiibo!SectorCommitted(r, good)
<1>1. CASE r.mode \in {"clear", "update"} /\ r.op /\ r.status = "active" /\ ~r.ejected
                  /\ good /\ Amiibo!Covered(r)
  <2>1. r.kind = "v3" => Amiibo!Applied(r).torn = FALSE
    <3>1. r.kind = "v3" => \A c \in chunks : r.stage[c] = "new"
      BY <1>1 DEF GoodTag, OneWriteOnly, Amiibo!Covered
    <3>2. Amiibo!Applied(r).torn = \E c, d \in chunks : r.stage[c] # r.stage[d]
      BY DEF Amiibo!Applied, GoodTag, Shaped, TagFields
    <3> QED
      BY <3>1, <3>2
  <2>2. /\ Shaped(q) /\ q.kind = r.kind /\ q.defer = r.defer /\ q.torn = Amiibo!Applied(r).torn
        /\ q.status = "extended" /\ q.op = FALSE /\ q.mode = None
        /\ q.committed = FALSE /\ q.persisted = r.persisted /\ q.ejected = r.ejected
    BY <1>1, ZenonT(40) DEF Amiibo!SectorCommitted, Amiibo!Applied, GoodTag, Shaped, TagFields
  <2> HIDE DEF q
  <2>4. OneWriteOnly(q)
    BY <2>1, <2>2 DEF OneWriteOnly
  <2>5. TakenIsClean(q)
    BY <2>2 DEF GoodTag, Shaped, TakenIsClean
  <2> QED
    BY <2>2, <2>4, <2>5 DEF GoodTag, TakenIsClean, Follows, q
<1>2. CASE ~(r.mode \in {"clear", "update"} /\ r.op /\ r.status = "active" /\ ~r.ejected
                     /\ good /\ Amiibo!Covered(r))
  BY <1>2 DEF Amiibo!SectorCommitted, Amiibo!Refused, GoodTag, Shaped, TagFields, OneWriteOnly,
              TakenIsClean, Follows
<1> QED
  BY <1>1, <1>2

\* A deadline that passed before the command.
LEMMA AfterDeadline ==
  ASSUME NEW r, GoodTag(r), r.kind # None, NEW now \in {r, Amiibo!Lapsed(r)}, NEW q, Follows(now, q)
  PROVE  Follows(r, q)
<1>1. r.phase # "await" => Amiibo!Lapsed(r) = r
  <2>1. r.phase # "await" => [r EXCEPT !.phase = IF @ = "await" THEN "idle" ELSE @] = r
    BY DEF GoodTag, Shaped, TagFields
  <2> QED
    BY <2>1 DEF Amiibo!Lapsed
<1>2. Follows(r, now)
  BY SameTag, LapsedTag
<1> QED
  BY <1>1, <1>2 DEF Follows

\* What a step does to the tag on the reader: a command keeps it, takes it away or, if it was
\* kept for a write, puts it back; it is presented, or cleared.
OnReader ==
  /\ \/ /\ tag'.kind = tag.kind /\ tag'.defer = tag.defer /\ tags' = tags
        /\ tag.ejected /\ ~tag'.ejected => tag.defer
     \/ tag'.kind # None /\ ~tag'.ejected /\ tag'.defer \in BOOLEAN /\ tags' = tags + 1
     \/ tag.kind # None /\ tag'.kind = None /\ ~tag'.defer /\ tags' = tags
  /\ tag.committed /\ tag.phase # "await" /\ tag'.ejected => ~unsaved'

\* What the answer to any command preserves.
LEMMA Answered ==
  ASSUME AmiiboIInv, Amiibo!Ready, NEW sub, NEW q, Amiibo!Answer(sub, q),
         tag.kind # None => Follows(tag, q),
         tag.kind # None /\ sub = "commit" /\ q.status = "written" => q.committed /\ ~q.persisted,
         tag.kind # None /\ sub = "sector commit" /\ q.status = "extended" => ~q.committed /\ ~q.ejected
  PROVE  AmiiboIInv' /\ OnReader
<1> USE AmiiboAssumption DEF AmiiboAssumption
<1> DEFINE r == Amiibo!Stepped(sub, q)
           old == IF tag.kind = None THEN tag ELSE q
<1>1. Follows(tag, old)
  BY DEF AmiiboIInv, GoodTag, Follows, TakenIsClean
<1>2. /\ DOMAIN r = TagFields /\ r = [x \in TagFields |-> r[x]]
      /\ \A x \in TagFields \ {"modified"} : r[x] = old[x]
  <2>1. old = [x \in TagFields |-> old[x]]
    BY <1>1 DEF Follows, GoodTag, Shaped
  <2>2. CASE tag.kind = None
    BY <2>1, <2>2 DEF Amiibo!Stepped
  <2>3. CASE tag.kind # None
    BY <2>1, <2>3 DEF Amiibo!Stepped, TagFields
  <2> QED
    BY <2>2, <2>3
<1>3. tag' = [r EXCEPT !.modified = FALSE]
  BY DEF Amiibo!Answer
<1>4. /\ save' = [id |-> r.id, mark |-> r.committed, result |-> None] \/ save' = None
      /\ unsaved' = (unsaved \/ (sub = "commit" /\ r.status = "written")
                             \/ (sub = "sector commit" /\ r.status = "extended"))
      /\ tags' = tags
  BY DEF Amiibo!Answer, Amiibo!counts
<1> HIDE DEF r
<1>5. /\ tag' = [x \in TagFields |-> tag'[x]]
      /\ \A x \in TagFields \ {"modified"} : tag'[x] = old[x]
  BY <1>2, <1>3
<1>6. /\ tag'.kind = old.kind /\ tag'.torn = old.torn /\ tag'.status = old.status
      /\ tag'.op = old.op /\ tag'.defer = old.defer /\ tag'.mode = old.mode
      /\ tag'.stage = old.stage /\ tag'.committed = old.committed
      /\ tag'.persisted = old.persisted /\ tag'.ejected = old.ejected
      /\ r.committed = old.committed /\ r.status = old.status
  BY <1>2, <1>5 DEF TagFields
<1>7. GoodTag(tag')
  BY <1>1, <1>5, <1>6 DEF Follows, GoodTag, Shaped, OneWriteOnly, TakenIsClean
<1>8. /\ sub = "commit" /\ r.status = "written" => old.committed /\ ~old.persisted
      /\ sub = "sector commit" /\ r.status = "extended" => ~old.committed /\ ~old.ejected
  BY <1>1, <1>6 DEF AmiiboIInv, GoodTag, TakenIsClean
<1>9. tag'.committed /\ tag'.persisted => ~unsaved'
  BY <1>1, <1>4, <1>6, <1>8 DEF Follows, AmiiboIInv, Saving
<1>10. Saving'
  <2>1. CASE save' = None
    BY <1>9, <2>1 DEF Saving
  <2>2. CASE save' = [id |-> r.id, mark |-> r.committed, result |-> None]
    BY <1>6, <1>7, <1>9, <2>2 DEF Saving, GoodTag, TakenIsClean
  <2> QED
    BY <1>4, <2>1, <2>2
<1>11. OnReader
  BY <1>1, <1>4, <1>6, <1>8 DEF OnReader, Follows, GoodTag, TakenIsClean, AmiiboIInv, Saving
<1> QED
  BY <1>7, <1>10, <1>11 DEF AmiiboIInv

LEMMA StageCommandTag ==
  ASSUME NEW r, GoodTag(r), r.kind = "v3"
  PROVE  Follows(r, IF r.ejected THEN Amiibo!Refused(r) ELSE [r EXCEPT !.command = TRUE])
  BY AmiiboAssumption
  DEF AmiiboAssumption, GoodTag, Shaped, TagFields, OneWriteOnly, TakenIsClean, Follows, Amiibo!Refused

\* A descriptor for another write makes the chunks that are staged old.
Aged(r) == [r EXCEPT !.stage = [c \in chunks |-> IF @[c] = "new" THEN "old" ELSE @[c]]]

LEMMA BegunTag ==
  ASSUME NEW r, GoodTag(r), r.kind # None, NEW d \in {"read", "write", "other", "malformed"}
  PROVE  Follows(r, Aged(Amiibo!Begun(r, d)))
<1> USE AmiiboAssumption DEF AmiiboAssumption
<1> DEFINE q == Amiibo!Begun(r, d)
           p == Aged(q)
<1>1. /\ q = [x \in TagFields |-> q[x]] /\ DOMAIN q.stage = chunks /\ q.kind = r.kind /\ q.torn = r.torn
      /\ q.defer = r.defer /\ q.ejected = r.ejected /\ q.persisted = r.persisted
      /\ q.status \in {"gone", "active"} /\ (q.committed => r.committed)
      /\ q.op /\ q.kind = "v3" => q.mode = None
      /\ q.op /\ q.kind = "ntag" => ~q.committed /\ ~r.ejected
  BY ZenonT(40) DEF Amiibo!Begun, Amiibo!Refused, GoodTag, Shaped, TagFields, TakenIsClean
<1> HIDE DEF q
<1>2. /\ p = [x \in TagFields |-> p[x]] /\ DOMAIN p.stage = chunks
      /\ \A x \in TagFields \ {"stage"} : p[x] = q[x]
  BY <1>1 DEF Aged, TagFields
<1> HIDE DEF p
<1>3. /\ p.kind = q.kind /\ p.torn = q.torn /\ p.defer = q.defer /\ p.ejected = q.ejected
      /\ p.persisted = q.persisted /\ p.status = q.status /\ p.committed = q.committed
      /\ p.op = q.op /\ p.mode = q.mode
  BY <1>2 DEF TagFields
<1>4. GoodTag(p)
  BY <1>1, <1>2, <1>3 DEF GoodTag, Shaped, OneWriteOnly, TakenIsClean
<1>5. Follows(r, p)
  BY <1>1, <1>3, <1>4 DEF GoodTag, TakenIsClean, Follows
<1> QED
  BY <1>5 DEF p, q


LEMMA AmiiboStep ==
  AmiiboIInv /\ [Amiibo!Next]_amiiboVars => AmiiboIInv' /\ (OnReader \/ UNCHANGED <<tag, tags>>)
<1> SUFFICES ASSUME AmiiboIInv, [Amiibo!Next]_amiiboVars
             PROVE  AmiiboIInv' /\ (OnReader \/ UNCHANGED <<tag, tags>>)
  OBVIOUS
<1> USE AmiiboAssumption DEF AmiiboAssumption
<1>a. GoodTag(tag)
  BY DEF AmiiboIInv
<1>b. ASSUME NEW now \in Amiibo!Now, tag.kind # None
      PROVE  /\ GoodTag(now) /\ now.kind = tag.kind
             /\ \A q : Follows(now, q) => Follows(tag, q)
  BY <1>a, <1>b, SameTag, LapsedTag, AfterDeadline DEF Amiibo!Now, Follows
<1>c. tag.kind = "v3" => tag.kind # None
  OBVIOUS
<1>1. CASE Amiibo!Scan
  <2>1. PICK now \in Amiibo!Now :
          Amiibo!Answer("scan", Amiibo!Scanned(now))
    BY <1>1 DEF Amiibo!Scan
  <2> DEFINE q == Amiibo!Scanned(now)
  <2>2. tag.kind # None => Follows(now, q)
    BY <1>1, <1>a, <1>b, ScannedTag DEF GoodTag, Shaped
  <2>3. tag.kind # None => Follows(tag, q)
    BY <1>b, <2>2
  <2> HIDE DEF q
  <2> QED
    BY <1>1, <2>1, <2>3, Answered DEF q, Amiibo!Scan
<1>2. CASE Amiibo!Leave
  <2>1. PICK now \in Amiibo!Now :
          Amiibo!Answer("leave", Amiibo!Left(now))
    BY <1>2 DEF Amiibo!Leave
  <2> DEFINE q == Amiibo!Left(now)
  <2>2. tag.kind # None => Follows(now, q)
    BY <1>2, <1>a, <1>b, LeftTag DEF GoodTag, Shaped
  <2>3. tag.kind # None => Follows(tag, q)
    BY <1>b, <2>2
  <2> HIDE DEF q
  <2> QED
    BY <1>2, <2>1, <2>3, Answered DEF q, Amiibo!Leave
<1>3. CASE Amiibo!Status
  <2>1. PICK now \in Amiibo!Now :
          Amiibo!Answer("status", now)
    BY <1>3 DEF Amiibo!Status
  <2> DEFINE q == now
  <2>2. tag.kind # None => Follows(now, q)
    BY <1>3, <1>a, <1>b, SameTag DEF GoodTag, Shaped
  <2>3. tag.kind # None => Follows(tag, q)
    BY <1>b, <2>2
  <2> HIDE DEF q
  <2> QED
    BY <1>3, <2>1, <2>3, Answered DEF q, Amiibo!Status
<1>4. CASE Amiibo!Fetch
  <2>1. PICK now \in Amiibo!Now :
          Amiibo!Answer("fetch", Amiibo!FetchedLast(now))
    BY <1>4 DEF Amiibo!Fetch
  <2> DEFINE q == Amiibo!FetchedLast(now)
  <2>2. tag.kind # None => Follows(now, q)
    BY <1>4, <1>a, <1>b, FetchedTag DEF GoodTag, Shaped
  <2>3. tag.kind # None => Follows(tag, q)
    BY <1>b, <2>2
  <2> HIDE DEF q
  <2> QED
    BY <1>4, <2>1, <2>3, Answered DEF q, Amiibo!Fetch
<1>5. CASE Amiibo!ReadSector
  <2>1. PICK now \in Amiibo!Now, good \in BOOLEAN :
          Amiibo!Answer("sector", IF Amiibo!V3 THEN Amiibo!SectorRead(now, good) ELSE now)
    BY <1>5 DEF Amiibo!ReadSector
  <2> DEFINE q == IF Amiibo!V3 THEN Amiibo!SectorRead(now, good) ELSE now
  <2>2. tag.kind # None => Follows(now, q)
    BY <1>5, <1>a, <1>b, SectorTag, SameTag DEF GoodTag, Shaped, Amiibo!V3
  <2>3. tag.kind # None => Follows(tag, q)
    BY <1>b, <2>2
  <2> HIDE DEF q
  <2> QED
    BY <1>5, <2>1, <2>3, Answered DEF q, Amiibo!ReadSector
<1>6. CASE Amiibo!RunDevice
  <2>1. PICK now \in Amiibo!Now :
          Amiibo!Answer("device", IF Amiibo!V3 THEN Amiibo!DeviceRun(now) ELSE now)
    BY <1>6 DEF Amiibo!RunDevice
  <2> DEFINE q == IF Amiibo!V3 THEN Amiibo!DeviceRun(now) ELSE now
  <2>2. tag.kind # None => Follows(now, q)
    BY <1>6, <1>a, <1>b, DeviceTag, SameTag DEF GoodTag, Shaped, Amiibo!V3
  <2>3. tag.kind # None => Follows(tag, q)
    BY <1>b, <2>2
  <2> HIDE DEF q
  <2> QED
    BY <1>6, <2>1, <2>3, Answered DEF q, Amiibo!RunDevice
<1>7. CASE Amiibo!Stage
  <2>1. PICK now \in Amiibo!Now, c \in chunks, head \in Amiibo!Heads :
          Amiibo!Answer("stage", IF Amiibo!V3 THEN Amiibo!V3Staged(now, c, head) ELSE Amiibo!NtagStaged(now, c))
    BY <1>7 DEF Amiibo!Stage
  <2> DEFINE q == IF Amiibo!V3 THEN Amiibo!V3Staged(now, c, head) ELSE Amiibo!NtagStaged(now, c)
  <2>2. tag.kind # None => Follows(now, q)
    BY <1>7, <1>a, <1>b, V3StagedTag, NtagStagedTag DEF GoodTag, Shaped, Amiibo!V3
  <2>3. tag.kind # None => Follows(tag, q)
    BY <1>b, <2>2
  <2> HIDE DEF q
  <2> QED
    BY <1>7, <2>1, <2>3, Answered DEF q, Amiibo!Stage
<1>8. CASE Amiibo!StageCommand
  <2>1. PICK now \in Amiibo!Now :
          Amiibo!Answer("stage", IF now.ejected THEN Amiibo!Refused(now) ELSE [now EXCEPT !.command = TRUE])
    BY <1>8 DEF Amiibo!StageCommand
  <2> DEFINE q == IF now.ejected THEN Amiibo!Refused(now) ELSE [now EXCEPT !.command = TRUE]
  <2>2. tag.kind # None => Follows(now, q)
    BY <1>8, <1>a, <1>b, StageCommandTag DEF GoodTag, Shaped, Amiibo!V3, Amiibo!StageCommand
  <2>3. tag.kind # None => Follows(tag, q)
    BY <1>b, <2>2
  <2> HIDE DEF q
  <2> QED
    BY <1>8, <2>1, <2>3, Answered DEF q, Amiibo!StageCommand
<1>9. CASE Amiibo!Begin
  <2>1. PICK now \in Amiibo!Now, d \in {"read", "write", "other", "malformed"} :
          Amiibo!Answer("begin", Aged(Amiibo!Begun(now, d)))
    BY <1>9 DEF Amiibo!Begin, Aged
  <2> DEFINE q == Aged(Amiibo!Begun(now, d))
  <2>2. tag.kind # None => Follows(now, q)
    BY <1>9, <1>a, <1>b, BegunTag DEF GoodTag, Shaped
  <2>3. tag.kind # None => Follows(tag, q)
    BY <1>b, <2>2
  <2> HIDE DEF q
  <2> QED
    BY <1>9, <2>1, <2>3, Answered DEF q, Amiibo!Begin
<1>10. CASE Amiibo!Commit
  <2>1. PICK now \in Amiibo!Now, good \in BOOLEAN :
          Amiibo!Answer("commit", Amiibo!Committed(now, good))
    BY <1>10 DEF Amiibo!Commit
  <2> DEFINE q == Amiibo!Committed(now, good)
  <2>2. tag.kind # None => Follows(now, q)
    BY <1>10, <1>a, <1>b, CommittedTag DEF GoodTag, Shaped
  <2>3. tag.kind # None => Follows(tag, q)
    BY <1>b, <2>2
  <2>4. tag.kind # None /\ q.status = "written" => q.committed /\ ~q.persisted
    BY <1>a, <1>b DEF Amiibo!Committed, Amiibo!Applied, Amiibo!Refused, GoodTag, Shaped, TagFields
  <2> HIDE DEF q
  <2> QED
    BY <1>10, <2>1, <2>3, <2>4, Answered DEF q, Amiibo!Commit
<1>11. CASE Amiibo!CommitSector
  <2>1. PICK now \in Amiibo!Now, good \in BOOLEAN :
          Amiibo!Answer("sector commit", IF Amiibo!V3 THEN Amiibo!SectorCommitted(now, good) ELSE now)
    BY <1>11 DEF Amiibo!CommitSector
  <2> DEFINE q == IF Amiibo!V3 THEN Amiibo!SectorCommitted(now, good) ELSE now
  <2>2. tag.kind # None => Follows(now, q)
    BY <1>11, <1>a, <1>b, SectorCommittedTag, SameTag DEF GoodTag, Shaped, Amiibo!V3
  <2>3. tag.kind # None => Follows(tag, q)
    BY <1>b, <2>2
  <2>4. tag.kind # None /\ q.status = "extended" => ~q.committed /\ ~q.ejected
    <3>1. CASE tag.kind = "v3"
      BY <1>a, <1>b, <3>1 DEF Amiibo!V3, Amiibo!SectorCommitted, Amiibo!Applied, Amiibo!Refused, GoodTag, Shaped, TagFields
    <3>2. CASE tag.kind = "ntag"
      BY <1>a, <1>b, <3>2 DEF Amiibo!V3, GoodTag, TakenIsClean
    <3> QED
      BY <1>a, <3>1, <3>2 DEF GoodTag, Shaped
  <2> HIDE DEF q
  <2> QED
    BY <1>11, <2>1, <2>3, <2>4, Answered DEF q, Amiibo!CommitSector
<1>12. CASE Amiibo!Store
  BY <1>12 DEF Amiibo!Store, AmiiboIInv, Saving
<1>13. CASE Amiibo!Mark
  <2>1. /\ save # None /\ save.result # None /\ save' = None /\ unsaved' = unsaved /\ tags' = tags
        /\ tag.kind = None => tag' = tag
        /\ tag.kind # None /\ ~(save.result /\ tag.waiting) => tag' = [tag EXCEPT !.persisted = save.result]
        /\ tag.kind # None /\ save.result /\ tag.waiting =>
             tag' = [[tag EXCEPT !.persisted = save.result] EXCEPT
                       !.waiting = FALSE, !.committed = FALSE, !.ejected = TRUE]
    BY <1>13 DEF Amiibo!Mark, Amiibo!counts
  <2>2. save.result \in BOOLEAN /\ save.mark /\ (save.result = TRUE => ~unsaved)
    BY <2>1 DEF AmiiboIInv, Saving
  <2>3. CASE tag.kind = None
    BY <1>a, <2>1, <2>3 DEF AmiiboIInv, Saving, GoodTag, TakenIsClean
  <2>4. CASE tag.kind # None /\ ~(save.result /\ tag.waiting)
    <3>1. /\ tag' = [x \in TagFields |-> tag'[x]] /\ tag'.persisted = save.result
          /\ \A x \in TagFields \ {"persisted"} : tag'[x] = tag[x]
      BY <1>a, <2>1, <2>4 DEF GoodTag, Shaped, TagFields
    <3>2. GoodTag(tag')
      BY <1>a, <3>1 DEF GoodTag, Shaped, TagFields, OneWriteOnly, TakenIsClean
    <3>3. Saving'
      BY <2>1, <2>2, <3>1 DEF Saving
    <3>4. OnReader
      BY <1>a, <2>1, <3>1 DEF OnReader, GoodTag, TakenIsClean, TagFields
    <3> QED
      BY <3>2, <3>3, <3>4 DEF AmiiboIInv
  <2>5. CASE tag.kind # None /\ save.result /\ tag.waiting
    <3>1. /\ tag' = [x \in TagFields |-> tag'[x]]
          /\ tag'.committed = FALSE /\ tag'.ejected = TRUE
          /\ \A x \in TagFields \ {"persisted", "waiting", "committed", "ejected"} : tag'[x] = tag[x]
      BY <1>a, <2>1, <2>5 DEF GoodTag, Shaped, TagFields
    <3>2. tag.kind = "ntag" => ~tag.op
      BY <2>1, <2>2 DEF AmiiboIInv, Saving
    <3>3. GoodTag(tag')
      BY <1>a, <2>5, <3>1, <3>2 DEF GoodTag, Shaped, TagFields, OneWriteOnly, TakenIsClean
    <3>4. Saving'
      BY <2>1, <3>1 DEF Saving
    <3>5. OnReader
      BY <2>1, <2>2, <2>5, <3>1 DEF OnReader, TagFields
    <3> QED
      BY <3>3, <3>4, <3>5 DEF AmiiboIInv
  <2> QED
    BY <2>3, <2>4, <2>5
<1>14. CASE Amiibo!Expire
  <2>1. GoodTag(tag')
    BY <1>14 DEF Amiibo!Expire, Amiibo!NoTag, Amiibo!Fresh, Amiibo!Empty, GoodTag, Shaped, TagFields,
                 OneWriteOnly, TakenIsClean
  <2>2. Saving'
    BY <1>14 DEF Amiibo!Expire, Amiibo!NoTag, Amiibo!Fresh, Saving
  <2>3. OnReader
    BY <1>14 DEF Amiibo!Expire, Amiibo!NoTag, Amiibo!Fresh, Amiibo!counts, OnReader
  <2> QED
    BY <2>1, <2>2, <2>3 DEF AmiiboIInv
<1>15. CASE Amiibo!Present
  <2>1. PICK defer \in BOOLEAN :
          tag' = [Amiibo!Fresh(Amiibo!Kind(hand), hand) EXCEPT !.defer = defer]
    BY <1>15 DEF Amiibo!Present
  <2>2. /\ tag' = [x \in TagFields |-> tag'[x]] /\ DOMAIN tag'.stage = chunks
        /\ tag'.kind \in {"v3", "ntag"} /\ tag'.status = "scan" /\ tag'.op = FALSE /\ tag'.torn = FALSE
        /\ tag'.committed = FALSE /\ tag'.ejected = FALSE /\ tag'.defer = defer
    BY <2>1 DEF Amiibo!Fresh, Amiibo!Kind, Amiibo!Empty, TagFields
  <2>3. GoodTag(tag')
    BY <2>2 DEF GoodTag, Shaped, OneWriteOnly, TakenIsClean
  <2>4. Saving'
    BY <1>15, <2>2 DEF Amiibo!Present, AmiiboIInv, Saving
  <2>5. OnReader
    BY <1>15, <2>2 DEF Amiibo!Present, OnReader
  <2> QED
    BY <2>3, <2>4, <2>5 DEF AmiiboIInv
<1>16. CASE Amiibo!Select
  BY <1>16 DEF Amiibo!Select, Amiibo!counts, AmiiboIInv, Saving
<1>17. CASE Amiibo!Upload
  BY <1>17 DEF Amiibo!Upload, Amiibo!counts, AmiiboIInv, Saving
<1>18. CASE Amiibo!Delete
  BY <1>18 DEF Amiibo!Delete, Amiibo!counts, AmiiboIInv, Saving
<1>19. CASE UNCHANGED amiiboVars
  BY <1>19 DEF amiiboVars, AmiiboIInv, Saving
<1> QED
  BY <1>1, <1>2, <1>3, <1>4, <1>5, <1>6, <1>7, <1>8, <1>9, <1>10, <1>11, <1>12, <1>13, <1>14, <1>15, <1>16, <1>17, <1>18, <1>19 DEF Amiibo!Next

LEMMA AmiiboInit == Amiibo!Init => AmiiboIInv
<1> SUFFICES ASSUME Amiibo!Init
             PROVE  AmiiboIInv
  OBVIOUS
<1>1. GoodTag(tag)
  BY AmiiboAssumption
  DEF AmiiboAssumption, Amiibo!Init, Amiibo!NoTag, Amiibo!Fresh, Amiibo!Empty, GoodTag, Shaped,
      TagFields, OneWriteOnly, TakenIsClean
<1> QED
  BY <1>1 DEF Amiibo!Init, Amiibo!NoTag, Amiibo!Fresh, AmiiboIInv, Saving

LEMMA AmiiboRuns ==
  AmiiboIInv /\ [MCNext]_MCvars => AmiiboIInv' /\ (OnReader \/ UNCHANGED <<tag, tags>>)
<1>1. AmiiboIInv /\ UNCHANGED amiiboVars => AmiiboIInv' /\ (OnReader \/ UNCHANGED <<tag, tags>>)
  BY AmiiboStep
<1> QED
  BY <1>1, AmiiboStep DEF MCNext, MCvars

\* NfcSafe: a figure-v3 tag never holds chunks of two writes, and a tag that was written to is
\* taken away only once the library has stored the write.
THEOREM AmiiboTheorem == MCSpec => NfcSafe
<1>1. MCInit => AmiiboIInv
  BY AmiiboInit DEF MCInit
<1>2. AmiiboIInv /\ [MCNext]_MCvars => AmiiboIInv'
  BY AmiiboRuns
<1>3. AmiiboIInv => Amiibo!WholeImage
  BY DEF AmiiboIInv, GoodTag, OneWriteOnly, Amiibo!WholeImage
<1>4. AmiiboIInv /\ [MCNext]_MCvars =>
        [tag.id = tag'.id /\ tag.committed /\ tag.phase # "await" /\ tag'.ejected => ~unsaved']_(Amiibo!vars)
  BY AmiiboRuns DEF OnReader, AmiiboIInv, GoodTag, TakenIsClean
<1> QED
  BY <1>1, <1>2, <1>3, <1>4, PTL DEF MCSpec, NfcSafe, Amiibo!EjectedIsSaved

\* TagIsTaken: the tag is presented, taken away once and then gone, as TagPresence says.
THEOREM PresenceTheorem == MCSpec => TagIsTaken
<1> DEFINE there == IF tag.kind = None THEN "none" ELSE IF tag.ejected THEN "taken" ELSE "there"
<1>1. MCInit => AmiiboIInv /\ Amiibo!Presence!Init
  BY AmiiboInit DEF MCInit, Amiibo!Init, Amiibo!NoTag, Amiibo!Fresh, Amiibo!Presence!Init
<1>2. AmiiboIInv /\ [MCNext]_MCvars => AmiiboIInv'
  BY AmiiboRuns
<1>3. AmiiboIInv /\ [MCNext]_MCvars =>
        [Amiibo!Presence!Presented \/ Amiibo!Presence!Taken \/ Amiibo!Presence!Returned
           \/ Amiibo!Presence!Cleared]_<<there, tag.defer, tags>>
  BY AmiiboRuns
  DEF OnReader, Amiibo!Presence!Presented, Amiibo!Presence!Taken, Amiibo!Presence!Returned,
      Amiibo!Presence!Cleared
<1> QED
  BY <1>1, <1>2, <1>3, PTL DEF MCSpec, TagIsTaken, Amiibo!TagIsTaken, Amiibo!Presence!Spec

-----------------------------------------------------------------------------
(***************************************************************************)
(* What the client sees of the reader: its picker, and the NFC events of   *)
(* the port.  The picker needs to know when scans are suppressed, and that *)
(* a session that no longer plays on the port gets its picker withdrawn.   *)
(***************************************************************************)

PickerTypes ==
  /\ presence \in {"none", "there", "taken"}
  /\ suppressed \in BOOLEAN /\ open \in BOOLEAN /\ mapped \in BOOLEAN /\ returned \in BOOLEAN
  /\ writer \in {"idle", "told"}
  /\ slot \in [ours : BOOLEAN, type : Picker!Controllers]
  /\ hid \in [state : Nat, pending : BOOLEAN, left : Nat]
  /\ hid.state < eventStates

\* Who may have the picker open over a tag, or while scans are suppressed.
Excused == presenter = "presented" \/ returned \/ ~mapped

\* The picker is over a tag only until the thread that presented it says so.
PickerOpen == open /\ presence = "there" => Excused

\* Scans are suppressed while an extended update is awaited, and under an open picker with the
\* same excuses only.
Suppression ==
  /\ extended = "await" => suppressed
  /\ open /\ suppressed => Excused

\* A session without a port has its picker open only until the writer withdraws it.
Withdrawn == open /\ ~mapped => writer = "told" /\ ~(slot.ours /\ Picker!Supports(slot))

PickerIInv == PickerTypes /\ PickerOpen /\ Suppression /\ Withdrawn

\* An event moves the state on, and there are two states at least: it is seen.
LEMMA Moves ==
  ASSUME NEW n \in Nat, n < eventStates
  PROVE  /\ (n + 1) % eventStates \in Nat
         /\ (n + 1) % eventStates < eventStates
         /\ (n + 1) % eventStates # n
<1> USE AmiiboAssumption DEF AmiiboAssumption
<1>1. CASE n + 1 < eventStates
  <2>1. (n + 1) % eventStates = n + 1 BY <1>1
  <2> QED BY <2>1, <1>1
<1>2. CASE n + 1 = eventStates
  <2>1. (n + 1) % eventStates = 0 BY <1>2
  <2> QED BY <2>1, <1>2
<1> QED BY <1>1, <1>2

\* What becomes of an event: it comes, is put off, or has less time left.
HidTypes(h) == h \in [state : Nat, pending : BOOLEAN, left : Nat] /\ h.state < eventStates

LEMMA Advances ==
  ASSUME HidTypes(hid)
  PROVE  HidTypes(Picker!Advance(hid)) /\ Picker!Advance(hid).state # hid.state
  BY Moves, AmiiboAssumption DEF AmiiboAssumption, Picker!Advance, Picker!NoEvent, HidTypes

LEMMA Schedules ==
  ASSUME NEW h, HidTypes(h)
  PROVE  HidTypes(Picker!Schedule(h)) /\ Picker!Schedule(h).pending
  BY AmiiboAssumption DEF AmiiboAssumption, Picker!Schedule, HidTypes

LEMMA PickerInit == Picker!Init => PickerIInv
<1> SUFFICES ASSUME Picker!Init PROVE PickerIInv
  OBVIOUS
<1> USE AmiiboAssumption DEF AmiiboAssumption
<1>1. hid \in [state : Nat, pending : BOOLEAN, left : Nat] /\ hid.state < eventStates
  BY DEF Picker!Init, Picker!NoEvent
<1>2. presence = "none" /\ extended = "idle" /\ writer = "idle"
  BY DEF Picker!Init
<1>3. suppressed \in BOOLEAN /\ open \in BOOLEAN /\ mapped \in BOOLEAN /\ returned \in BOOLEAN /\ ~open
  BY DEF Picker!Init
<1>4. slot \in [ours : BOOLEAN, type : Picker!Controllers]
  BY DEF Picker!Init, Picker!Controllers
<1> QED BY <1>1, <1>2, <1>3, <1>4
  DEF PickerIInv, PickerTypes, PickerOpen, Suppression, Withdrawn

\* What a step may do to the picker and to an event that is due.
PickerStep ==
  open /\ ~open' /\ Picker!Plays /\ Picker!Plays' /\ slot' = slot
    => presenter = "presented" \/ presence = "there" \/ returned
EventStep == hid.pending /\ ~hid'.pending => hid'.state # hid.state

\* A command, by what it asks of the client.
LEMMA CommandStep ==
  ASSUME PickerIInv, Picker!Command
  PROVE  PickerIInv' /\ PickerStep /\ EventStep
<1> USE DEF PickerIInv, PickerTypes
<1>1. PICK sub \in Picker!Commands :
        /\ Picker!Stays(sub) \/ Picker!Taken(sub) \/ Picker!Returned(sub)
        /\ suppressed' = CASE extended' = "await" -> TRUE [] extended' = "done" -> FALSE [] OTHER -> suppressed
        /\ LET h == IF presence = "there" /\ presence' = "taken" THEN Picker!Advance(hid) ELSE hid IN
           hid' = IF sub \in {"operation", "commit"} \/ (sub = "scan" /\ presence' = "there") THEN Picker!Schedule(h) ELSE h
        /\ open' = CASE sub = "scan" -> Picker!Published(Picker!Asks(presence' = "there"))
                      [] Picker!Closes(sub) -> Picker!Published(FALSE)
                      [] OTHER -> open
  BY DEF Picker!Command
<1>2. /\ UNCHANGED <<slot, mapped, writer, presenter>>
      /\ returned' = (open' /\ (returned \/ (presence = "taken" /\ presence' = "there")))
      /\ writer = "idle"
  BY DEF Picker!Command, Picker!layout
<1>3. HidTypes(hid') /\ EventStep
  <2> DEFINE h == IF presence = "there" /\ presence' = "taken" THEN Picker!Advance(hid) ELSE hid
  <2>1. HidTypes(hid)
    BY DEF HidTypes
  <2>2. HidTypes(h) /\ (h = hid \/ h.state # hid.state)
    BY <2>1, Advances
  <2>3. hid' = h \/ hid' = Picker!Schedule(h)
    BY <1>1
  <2> HIDE DEF h
  <2> QED BY <2>2, <2>3, Schedules DEF EventStep
<1>4. /\ presence' \in {"none", "there", "taken"}
      /\ presence' = "there" => presence \in {"there", "taken"}
      /\ extended' = "await" => extended = "await" \/ presence = "there"
  BY <1>1 DEF Picker!Stays, Picker!Taken, Picker!Returned
<1>5. /\ suppressed' \in BOOLEAN /\ (extended' = "await" => suppressed')
      /\ suppressed' => suppressed \/ presence = "there"
  BY <1>1, <1>4 DEF Suppression
<1>6. CASE ~mapped
  <2>1. ~open
    BY <1>2, <1>6 DEF Withdrawn
  <2>2. \/ open' = Picker!Published(Picker!Asks(presence' = "there"))
        \/ open' = Picker!Published(FALSE)
        \/ open' = open
    BY <1>1 DEF Picker!Closes
  <2>3. open' = open
    BY <2>2, <1>6, Zenon DEF Picker!Published
  <2> QED
    BY <2>1, <2>3, <1>2, <1>3, <1>4, <1>5
    DEF PickerOpen, Suppression, Withdrawn, PickerStep, HidTypes
<1>7. CASE mapped /\ sub = "scan"
  <2>0. open' = Picker!Published(Picker!Asks(presence' = "there"))
    BY <1>1, <1>7 DEF Picker!Closes
  <2>1. open' = (presence' # "there" /\ ~suppressed')
    BY <2>0, <1>7, Zenon DEF Picker!Asks, Picker!Published
  <2>2. presence' = "there" => presence = "there"
    BY <1>1, <1>7 DEF Picker!Stays, Picker!Taken, Picker!Returned
  <2>3. PickerStep
    BY <2>1, <2>2, <1>2, <1>5, <1>7 DEF PickerStep, Suppression, Excused
  <2> QED
    BY <2>1, <2>3, <1>2, <1>3, <1>4, <1>5, <1>7
    DEF PickerOpen, Suppression, Withdrawn, HidTypes
<1>8. CASE mapped /\ sub # "scan"
  <2>1. /\ open' \in BOOLEAN /\ (open' => open)
        /\ open /\ ~open' => presence = "there"
    BY <1>1, <1>8 DEF Picker!Closes, Picker!Published
  <2>2. PickerStep
    BY <2>1 DEF PickerStep
  <2>3. PickerOpen' /\ Suppression'
    BY <2>1, <1>2, <1>4, <1>5, <1>8 DEF PickerOpen, Suppression, Excused
  <2> QED
    BY <2>1, <2>2, <2>3, <1>2, <1>3, <1>4, <1>5, <1>8 DEF Withdrawn, HidTypes
<1> QED BY <1>6, <1>7, <1>8

LEMMA PickerRuns ==
  ASSUME PickerIInv, [MCNext]_MCvars
  PROVE  PickerIInv' /\ PickerStep /\ EventStep
<1>0. HidTypes(Picker!Advance(hid)) /\ Picker!Advance(hid).state # hid.state
  BY Advances DEF PickerIInv, PickerTypes, HidTypes
<1> USE DEF PickerIInv, PickerTypes, PickerOpen, Suppression, Excused, Withdrawn, PickerStep,
            EventStep, Picker!layout, Picker!tag
<1>1. CASE Picker!Command BY <1>1, CommandStep
<1>2. CASE Picker!Unsupported
  BY <1>2 DEF Picker!Unsupported, Picker!Published, Picker!Plays
<1>3. CASE Picker!TakenLate BY <1>0, <1>3 DEF Picker!TakenLate, HidTypes
<1>4. CASE Picker!Reassign BY <1>4 DEF Picker!Reassign
<1>5. CASE Picker!Tell BY <1>5 DEF Picker!Tell
<1>6. CASE Picker!Withdraw BY <1>6 DEF Picker!Withdraw, Picker!Plays
<1>7. CASE Picker!Expire BY <1>0, <1>7 DEF Picker!Expire, Picker!Clear, HidTypes
<1>8. CASE Picker!Elapse
  <2>1. hid' = [hid EXCEPT !.left = hid.left - 1] /\ hid.left > 0
    BY <1>8 DEF Picker!Elapse
  <2>2. HidTypes(hid') /\ hid'.pending = hid.pending
    BY <2>1 DEF HidTypes
  <2> QED BY <1>8, <2>2 DEF Picker!Elapse, HidTypes
<1>9. CASE Picker!Report BY <1>0, <1>9 DEF Picker!Report, HidTypes
<1>10. CASE Picker!Route BY <1>10 DEF Picker!Route
<1>11. CASE Picker!Present BY <1>0, <1>11 DEF Picker!Present, HidTypes
<1>12. CASE Picker!PresentBad BY <1>12 DEF Picker!PresentBad
<1>13. CASE Picker!Announce BY <1>13 DEF Picker!Announce, Picker!Published
<1>14. CASE Picker!Ends BY <1>14 DEF Picker!Ends, Picker!Plays
<1>15. CASE UNCHANGED pickerVars BY <1>15 DEF pickerVars
<1> QED
  BY <1>1, <1>2, <1>3, <1>4, <1>5, <1>6, <1>7, <1>8, <1>9, <1>10, <1>11, <1>12, <1>13, <1>14,
     <1>15
  DEF Picker!Next, MCNext, MCvars

\* The picker of a client that plays is over a tag only until the client is told, and closes only
\* when a tag was presented (publish_amiibo_request_for_port), unless the client lost its port
\* or controller, or a kept tag came back under it.
THEOREM PickerTheorem == MCSpec => Picker!PickerFollows
<1>1. MCInit => PickerIInv
  BY PickerInit DEF MCInit
<1>2. PickerIInv /\ [MCNext]_MCvars => PickerIInv' /\ [PickerStep]_(Picker!vars)
  BY PickerRuns
<1>3. PickerIInv => (open /\ presence = "there" /\ Picker!Plays => presenter = "presented" \/ returned)
  BY DEF PickerIInv, PickerOpen, Excused, Picker!Plays
<1> QED BY <1>1, <1>2, <1>3, PTL DEF MCSpec, Picker!PickerFollows, PickerStep

\* No NFC event that is due is dropped without a change of the state the console watches
\* (schedule_amiibo_hid_state_locked, signal_amiibo_hid_state_locked).
THEOREM EventTheorem == MCSpec => Picker!EventIsSeen
<1>1. MCInit => PickerIInv
  BY PickerInit DEF MCInit
<1>2. PickerIInv /\ [MCNext]_MCvars => PickerIInv' /\ [EventStep]_(Picker!vars)
  BY PickerRuns
<1> QED BY <1>1, <1>2, PTL DEF MCSpec, Picker!EventIsSeen, EventStep

-----------------------------------------------------------------------------
(***************************************************************************)
(* The hotkeys.  A press is done with once it has started a macro or has   *)
(* chosen a hotkey: as long as its key is seen to be down, it is noted as  *)
(* down, or will be before the window in which it was edited closes.  And  *)
(* a press that is due is of a key that was seen to be up.                 *)
(***************************************************************************)
Free(k) == native \/ cache[k] = "none"

HotkeyTypes ==
  /\ native \in BOOLEAN /\ focus \in BOOLEAN /\ edited \in BOOLEAN /\ loading \in BOOLEAN
  /\ press \in [letters -> Hotkeys!Presses]
  /\ cache \in [letters -> {"none", "down", "up"}]
  /\ bindings \subseteq letters /\ pressed \subseteq Hotkeys!held
  /\ entries \in Seq(letters \union {None})
  /\ (~focus => pressed = {})

\* The window of the macros is open, or is about to be.
Editing == Hotkeys!Suspended \/ loading

\* A press that was used is noted, or is noted before its window closes.
UsedIsNoted ==
  \A k \in letters : press[k] = "used" /\ k \in Hotkeys!Hotkeys /\ Hotkeys!Heard(k) /\ Hotkeys!Known(k) =>
    k \in down \/ (edited /\ Editing)

\* A key that is up, was just pressed or is a button's is not noted as down.
UpIsNoted ==
  \A k \in letters :
    k \in Hotkeys!Hotkeys /\ Free(k) /\ (press[k] \in {"up", "due"} \/ k \in bindings) => k \notin down

DueIsKnown == \A k \in letters : press[k] = "due" => focus /\ ~Hotkeys!Suspended /\ k \in pressed

HotkeyIInv == HotkeyTypes /\ UsedIsNoted /\ UpIsNoted /\ DueIsKnown

\* What a poll of the macros that have hotkeys finds.
Seen == {k \in Hotkeys!Hotkeys \ bindings : Hotkeys!KeyIsDown(k)}

PolledTo(state, n) ==
  LET seen == {entries[i] : i \in 1..n} \ ({None} \union bindings) IN
  /\ state = [down |-> state.down, run |-> state.run]
  /\ state.down = (down \ seen) \union {k \in seen : Hotkeys!KeyIsDown(k)}
  /\ state.run = IF Hotkeys!Suspended THEN {} ELSE {k \in seen : Hotkeys!KeyIsDown(k) /\ k \notin down}

LEMMA PolledStep ==
  ASSUME entries \in Seq(letters \union {None}), NEW n \in 1..Len(entries), NEW state, PolledTo(state, n - 1)
  PROVE  PolledTo(Hotkeys!Polled(state, entries[n]), n)
<1> DEFINE k == entries[n]
           before == {entries[i] : i \in 1..(n - 1)} \ ({None} \union bindings)
           seen == {entries[i] : i \in 1..n} \ ({None} \union bindings)
<1>1. seen = IF k \in {None} \union bindings THEN before ELSE before \union {k}
  OBVIOUS
<1>2. CASE k \in {None} \union bindings
  BY <1>1, <1>2 DEF PolledTo, Hotkeys!Polled
<1>3. CASE k \notin {None} \union bindings
  <2> DEFINE q == Hotkeys!Polled(state, k)
  <2>1. /\ q = [down |-> q.down, run |-> q.run]
        /\ q.down = IF Hotkeys!KeyIsDown(k) THEN state.down \union {k} ELSE state.down \ {k}
        /\ q.run = state.run \union (IF ~Hotkeys!Suspended /\ Hotkeys!KeyIsDown(k) /\ k \notin state.down
                                     THEN {k} ELSE {})
    BY <1>3 DEF Hotkeys!Polled
  <2>2. /\ state.down = (down \ before) \union {l \in before : Hotkeys!KeyIsDown(l)}
        /\ state.run = IF Hotkeys!Suspended THEN {} ELSE {l \in before : Hotkeys!KeyIsDown(l) /\ l \notin down}
    BY DEF PolledTo
  <2>3. seen = before \union {k}
    BY <1>1, <1>3
  <2> HIDE DEF q, k, before, seen
  <2>4. q.down = (down \ seen) \union {l \in seen : Hotkeys!KeyIsDown(l)}
    BY <2>1, <2>2, <2>3
  <2>5. q.run = IF Hotkeys!Suspended THEN {} ELSE {l \in seen : Hotkeys!KeyIsDown(l) /\ l \notin down}
    BY <2>1, <2>2, <2>3
  <2> QED
    BY <2>1, <2>4, <2>5 DEF PolledTo, q, k, seen
<1> QED
  BY <1>2, <1>3


\* The list is gone through from its first macro to its last.
Passes(run, n) ==
  run = [i \in 0..n |-> IF i = 0 THEN [down |-> down, run |-> {}]
                        ELSE Hotkeys!Polled(run[i - 1], entries[i])]

LEMMA PassesExist ==
  ASSUME NEW K \in Nat
  PROVE  \E run : Passes(run, K)
<1> DEFINE S == {n \in 0..K : \E run : Passes(run, n)}
           start == [down |-> down, run |-> {}]
<1>1. 0 \in S
  <2>1. Passes([i \in 0..0 |-> start], 0)
    BY DEF Passes
  <2> QED
    BY <2>1
<1>2. ASSUME NEW n \in 1..K, n - 1 \in S
      PROVE  n \in S
  <2>1. PICK r : Passes(r, n - 1)
    BY <1>2
  <2> DEFINE last == Hotkeys!Polled(r[n - 1], entries[n])
             s == [i \in 0..n |-> IF i = n THEN last ELSE r[i]]
             t == [i \in 0..n |-> IF i = 0 THEN start ELSE Hotkeys!Polled(s[i - 1], entries[i])]
  <2>2. \A i \in 0..(n - 1) : s[i] = r[i]
    OBVIOUS
  <2>3. ASSUME NEW i \in 0..n PROVE s[i] = t[i]
    <3>1. CASE i = 0
      <4>1. r[0] = start
        BY <2>1 DEF Passes
      <4> QED
        BY <2>2, <3>1, <4>1
    <3>2. CASE i # 0 /\ i # n
      <4>1. i - 1 \in 0..(n - 1) /\ i \in 0..(n - 1)
        BY <3>2
      <4>2. r[i] = Hotkeys!Polled(r[i - 1], entries[i])
        BY <2>1, <3>2, <4>1 DEF Passes
      <4>3. s[i] = r[i] /\ s[i - 1] = r[i - 1]
        BY <2>2, <4>1
      <4>4. t[i] = Hotkeys!Polled(s[i - 1], entries[i])
        BY <3>2
      <4> HIDE DEF s, t
      <4> QED
        BY <4>2, <4>3, <4>4
    <3>3. CASE i = n
      <4>1. s[n - 1] = r[n - 1] /\ s[n] = last
        BY <2>2
      <4>2. t[n] = Hotkeys!Polled(s[n - 1], entries[n])
        OBVIOUS
      <4> HIDE DEF s, t
      <4> QED
        BY <3>3, <4>1, <4>2
    <3> QED
      BY <3>1, <3>2, <3>3
  <2>4. s = t
    <3>1. s = [i \in 0..n |-> s[i]] /\ t = [i \in 0..n |-> t[i]]
      OBVIOUS
    <3> HIDE DEF s, t
    <3> QED
      BY <2>3, <3>1
  <2>5. Passes(s, n)
    BY <2>4 DEF Passes
  <2> QED
    BY <1>2, <2>5
<1> HIDE DEF S
<1>3. K \in S
  BY <1>1, <1>2, Climbs
<1> QED
  BY <1>3 DEF S

\* One poll starts what is seen to be down and was not, and notes what it sees.
LEMMA PollsFacts ==
  ASSUME HotkeyTypes
  PROVE  /\ Hotkeys!Polls.down = (down \ (Hotkeys!Hotkeys \ bindings)) \union Seen
         /\ Hotkeys!Polls.run = IF Hotkeys!Suspended THEN {} ELSE Seen \ down
<1> DEFINE K == Len(entries)
           g == CHOOSE f : Passes(f, K)
           S == {n \in 0..K : PolledTo(g[n], n)}
<1>0. entries \in Seq(letters \union {None}) /\ K \in Nat
  BY DEF HotkeyTypes
<1>1. Passes(g, K)
  BY <1>0, PassesExist
<1>2. Hotkeys!Polls = g[K]
  BY DEF Hotkeys!Polls, Passes
<1> HIDE DEF g
<1>3. g[0] = [down |-> down, run |-> {}]
  BY <1>0, <1>1 DEF Passes
<1>4. 0 \in S
  <2>1. {entries[i] : i \in 1..0} = {}
    OBVIOUS
  <2>2. PolledTo([down |-> down, run |-> {}], 0)
    BY <2>1 DEF PolledTo
  <2> QED
    BY <1>0, <1>3, <2>2
<1>5. ASSUME NEW n \in 1..K, n - 1 \in S PROVE n \in S
  <2>0. n \in 0..K /\ n # 0
    BY <1>0
  <2>1. g[n] = Hotkeys!Polled(g[n - 1], entries[n])
    <3> HIDE DEF K
    <3> QED
      BY <1>1, <2>0 DEF Passes
  <2>2. PolledTo(g[n], n)
    BY <1>0, <1>5, <2>1, PolledStep
  <2> QED
    BY <2>2
<1> HIDE DEF S
<1>6. K \in S
  <2> HIDE DEF K
  <2>1. K \in Nat /\ \A n \in 1..K : n - 1 \in S => n \in S
    BY <1>0, <1>5
  <2>2. \A n \in 0..K : n \in S
    BY <1>4, <2>1, Climbs
  <2> QED
    BY <2>1, <2>2
<1>7. PolledTo(Hotkeys!Polls, K)
  BY <1>2, <1>6 DEF S
<1>8. {entries[i] : i \in 1..K} \ ({None} \union bindings) = Hotkeys!Hotkeys \ bindings
  <2>1. DOMAIN entries = 1..K
    BY <1>0
  <2> QED
    BY <2>1 DEF Hotkeys!Hotkeys
<1> DEFINE seen == {entries[i] : i \in 1..K} \ ({None} \union bindings)
<1>9. /\ Hotkeys!Polls.down = (down \ seen) \union {k \in seen : Hotkeys!KeyIsDown(k)}
      /\ Hotkeys!Polls.run = IF Hotkeys!Suspended THEN {} ELSE {k \in seen : Hotkeys!KeyIsDown(k) /\ k \notin down}
  BY <1>7 DEF PolledTo
<1>10. seen = Hotkeys!Hotkeys \ bindings
  BY <1>8
<1> HIDE DEF seen
<1>11. {k \in seen : Hotkeys!KeyIsDown(k)} = Seen
  BY <1>10 DEF Seen
<1>12. {k \in seen : Hotkeys!KeyIsDown(k) /\ k \notin down} = Seen \ down
  BY <1>10 DEF Seen
<1> QED
  BY <1>9, <1>10, <1>11, <1>12

\* What a poll may do.
PollStep ==
  poll /\ ~poll' =>
    /\ ~loading => \A k \in Hotkeys!Polls.run \cap Hotkeys!held : Hotkeys!Heard(k) => press[k] # "used"
    /\ \A k \in Hotkeys!Hotkeys :
         Hotkeys!Heard(k) /\ ~Hotkeys!Deaf(k) /\ press[k] = "due" => k \in Hotkeys!Polls.run

LEMMA HotkeyInit == Hotkeys!Init => HotkeyIInv
<1> SUFFICES ASSUME Hotkeys!Init PROVE HotkeyIInv
  OBVIOUS
<1>1. Hotkeys!Hotkeys = {}
  BY DEF Hotkeys!Init, Hotkeys!Hotkeys
<1>2. HotkeyTypes
  <2>1. entries \in Seq(letters \union {None})
    BY DEF Hotkeys!Init
  <2>2. /\ press \in [letters -> Hotkeys!Presses] /\ cache \in [letters -> {"none", "down", "up"}]
        /\ pressed \subseteq Hotkeys!held /\ bindings \subseteq letters
    BY DEF Hotkeys!Init, Hotkeys!Presses
  <2>3. native \in BOOLEAN /\ focus \in BOOLEAN /\ edited \in BOOLEAN /\ loading \in BOOLEAN /\ (~focus => pressed = {})
    BY Zenon DEF Hotkeys!Init
  <2> QED
    BY <2>1, <2>2, <2>3 DEF HotkeyTypes
<1> QED
  BY <1>1, <1>2 DEF Hotkeys!Init, HotkeyIInv, UsedIsNoted, UpIsNoted, DueIsKnown

\* The poll itself: whoever is free to hear it takes the presses that are due.
LEMMA PollKeysStep ==
  ASSUME HotkeyIInv, Hotkeys!PollKeys
  PROVE  HotkeyIInv' /\ PollStep
<1> DEFINE run == Hotkeys!Polls.run
<1>1. /\ down' = (down \ (Hotkeys!Hotkeys \ bindings)) \union Seen
      /\ run = IF Hotkeys!Suspended THEN {} ELSE Seen \ down
  BY PollsFacts DEF HotkeyIInv, Hotkeys!PollKeys
<1>2. \A k \in letters : Hotkeys!Heard(k) => (Hotkeys!KeyIsDown(k) <=> ~Hotkeys!Deaf(k) /\ Hotkeys!Known(k))
  BY DEF Hotkeys!Heard, Hotkeys!KeyIsDown, HotkeyIInv, HotkeyTypes
<1>3. Hotkeys!Hotkeys \subseteq letters
  BY DEF Hotkeys!Hotkeys, HotkeyIInv, HotkeyTypes
<1>4. PollStep
  <2>1. ASSUME ~loading, NEW k \in run \cap Hotkeys!held, Hotkeys!Heard(k) PROVE press[k] # "used"
    <3>1. ~Hotkeys!Suspended /\ k \in Hotkeys!Hotkeys \ bindings /\ Hotkeys!KeyIsDown(k) /\ k \notin down
      BY <1>1, <2>1 DEF Seen
    <3> QED
      BY <1>2, <1>3, <2>1, <3>1 DEF HotkeyIInv, UsedIsNoted, Editing
  <2>2. ASSUME NEW k \in Hotkeys!Hotkeys, Hotkeys!Heard(k), ~Hotkeys!Deaf(k), press[k] = "due" PROVE k \in run
    <3>1. k \notin bindings /\ ~Hotkeys!Suspended /\ k \in pressed /\ k \in letters
      BY <1>3, <2>2 DEF HotkeyIInv, DueIsKnown, Hotkeys!Heard
    <3>2. Hotkeys!Known(k)
      BY <3>1 DEF Hotkeys!Known, HotkeyIInv, HotkeyTypes
    <3>3. k \notin down
      BY <2>2, <3>1 DEF HotkeyIInv, UpIsNoted, Free, Hotkeys!Heard
    <3> QED
      BY <1>1, <1>2, <2>2, <3>1, <3>2, <3>3 DEF Seen
  <2> HIDE DEF run
  <2> QED
    BY <2>1, <2>2 DEF PollStep, run
<1> HIDE DEF run
<1>5. UNCHANGED <<native, focus, pressed, cache, bindings, entries, loading, windows>>
  BY DEF Hotkeys!PollKeys, Hotkeys!dialogs
<1>6. ASSUME NEW k \in letters
      PROVE  /\ press'[k] \in Hotkeys!Presses /\ press'[k] # "due"
             /\ k \in Hotkeys!held => press'[k] \in {"used", "lost", "held"}
             /\ press'[k] = "up" => press[k] \in {"up", "released"}
             /\ press'[k] \in {"used", "lost", "held"} => k \in Hotkeys!held
             /\ press'[k] = "used" => k \in run \/ ~Hotkeys!Deaf(k)
  BY DEF Hotkeys!PollKeys, Hotkeys!Excused, Hotkeys!Presses, Hotkeys!held, HotkeyIInv, HotkeyTypes, run
<1>7. press' \in [letters -> Hotkeys!Presses] /\ Hotkeys!held' = Hotkeys!held
  <2>1. press' = [k \in letters |-> press'[k]]
    BY DEF Hotkeys!PollKeys
  <2>2. \A k \in letters : k \in Hotkeys!held <=> press'[k] \in {"due", "used", "lost", "held"}
    BY <1>6
  <2> QED
    BY <1>6, <2>1, <2>2 DEF Hotkeys!held
<1>8. Hotkeys!Hotkeys' = Hotkeys!Hotkeys
  BY <1>5 DEF Hotkeys!Hotkeys
<1>9. HotkeyTypes'
  <2>1. edited' \in BOOLEAN
    BY DEF Hotkeys!PollKeys
  <2> QED
    BY <1>5, <1>7, <2>1 DEF HotkeyIInv, HotkeyTypes
<1>10. UsedIsNoted'
  <2> SUFFICES ASSUME NEW k \in letters, press'[k] = "used", k \in Hotkeys!Hotkeys,
                      Hotkeys!Heard(k), Hotkeys!Known(k)
               PROVE  k \in down'
    BY <1>5, <1>7, <1>8 DEF UsedIsNoted, Hotkeys!Heard, Hotkeys!Known
  <2>1. Hotkeys!KeyIsDown(k)
    BY <1>1, <1>2, <1>6 DEF Seen
  <2> QED
    BY <1>1, <2>1 DEF Seen, Hotkeys!Heard
<1>11. UpIsNoted'
  <2> SUFFICES ASSUME NEW k \in letters, k \in Hotkeys!Hotkeys, Free(k),
                      press'[k] \in {"up", "due"} \/ k \in bindings
               PROVE  k \notin down'
    BY <1>5, <1>8 DEF UpIsNoted, Free
  <2>1. CASE k \in bindings
    <3>1. k \notin down
      BY <2>1 DEF HotkeyIInv, UpIsNoted
    <3> QED
      BY <1>1, <2>1, <3>1 DEF Seen
  <2>2. CASE k \notin bindings
    <3>1. k \notin Hotkeys!held
      BY <1>6, <2>2
    <3>2. ~Hotkeys!Known(k)
      BY <3>1 DEF Hotkeys!Known, HotkeyIInv, HotkeyTypes
    <3>3. ~Hotkeys!KeyIsDown(k)
      BY <1>2, <2>2, <3>2 DEF Hotkeys!Heard, Free
    <3> QED
      BY <1>1, <2>2, <3>3 DEF Seen
  <2> QED
    BY <2>1, <2>2
<1>12. DueIsKnown'
  BY <1>6 DEF DueIsKnown
<1> QED
  BY <1>4, <1>9, <1>10, <1>11, <1>12 DEF HotkeyIInv

\* An edit of the list forgets what was noted, until the next poll.
LEMMA RebuiltStep ==
  ASSUME HotkeyIInv, Hotkeys!Rebuilt, Editing', HotkeyTypes',
         UNCHANGED <<focus, pressed, windows>>,
         \A k \in letters : press'[k] = press[k] \/ press'[k] = "used"
  PROVE  HotkeyIInv'
<1>1. DueIsKnown'
  BY DEF HotkeyIInv, DueIsKnown, Hotkeys!Suspended
<1> QED
  BY <1>1 DEF HotkeyIInv, UsedIsNoted, UpIsNoted, Hotkeys!Rebuilt

\* The windows, the keyboard and the buttons leave what is noted alone.
LEMMA KeyboardStep ==
  ASSUME HotkeyIInv, HotkeyTypes', UNCHANGED <<native, entries, down, edited, bindings>>,
         \A k \in letters \ bindings : cache'[k] = cache[k],
         \A k \in letters : cache'[k] = "none" => cache[k] = "none",
         edited /\ Editing => Editing' \/ \A k \in letters : press'[k] # "used",
         \A k \in letters :
           /\ press'[k] = "due" => /\ press[k] \in {"up", "due"}
                                   /\ focus' /\ ~Hotkeys!Suspended' /\ k \in pressed'
           /\ press'[k] = "up" => press[k] = "up"
           /\ press'[k] = "used" => press[k] = "used"
           /\ press'[k] = "used" /\ k \in pressed' => k \in pressed
  PROVE  HotkeyIInv'
<1>0. Hotkeys!Hotkeys' = Hotkeys!Hotkeys
  BY DEF Hotkeys!Hotkeys
<1>1. UsedIsNoted'
  <2> SUFFICES ASSUME NEW k \in letters, press'[k] = "used", k \in Hotkeys!Hotkeys,
                      Hotkeys!Heard(k)', Hotkeys!Known(k)'
               PROVE  k \in down \/ (edited /\ Editing')
    BY <1>0 DEF UsedIsNoted
  <2>1. press[k] = "used"
    OBVIOUS
  <2>2. Hotkeys!Heard(k)
    BY DEF Hotkeys!Heard
  <2>3. Hotkeys!Known(k)
    BY <2>1 DEF Hotkeys!Known, Hotkeys!held
  <2> QED
    BY <2>1, <2>2, <2>3 DEF HotkeyIInv, UsedIsNoted
<1>2. UpIsNoted'
  BY <1>0 DEF HotkeyIInv, UpIsNoted, Free
<1>3. DueIsKnown'
  BY DEF DueIsKnown
<1> QED
  BY <1>1, <1>2, <1>3 DEF HotkeyIInv

LEMMA Excuses ==
  ASSUME HotkeyTypes, press' = Hotkeys!Excused
  PROVE  /\ press' \in [letters -> Hotkeys!Presses] /\ Hotkeys!held' = Hotkeys!held
         /\ \A k \in letters : /\ press'[k] # "due"
                               /\ press'[k] \in {"up", "used"} => press[k] = press'[k]
BY DEF HotkeyTypes, Hotkeys!Presses, Hotkeys!Excused, Hotkeys!held

LEMMA HotkeyStep ==
  ASSUME HotkeyIInv, Hotkeys!Next \/ UNCHANGED Hotkeys!vars
  PROVE  HotkeyIInv' /\ PollStep
<1> USE DEF HotkeyIInv
<1>0. HotkeyTypes
  OBVIOUS
<1>1. CASE Hotkeys!PollKeys
  BY <1>1, PollKeysStep
<1>2. ASSUME NEW k \in letters, Hotkeys!Press(k) \/ Hotkeys!Release(k)
      PROVE  HotkeyIInv' /\ poll' = poll
  <2>1. /\ UNCHANGED <<native, focus, cache, bindings, entries, down, loading, windows, poll, edited>>
        /\ \/ /\ press[k] = "up"
              /\ press' = [press EXCEPT ![k] = IF focus /\ ~Hotkeys!Suspended THEN "due" ELSE "held"]
              /\ pressed' = IF focus THEN pressed \union {k} ELSE pressed
           \/ /\ press[k] \in {"due", "used", "lost", "held"}
              /\ press' = [press EXCEPT ![k] = "released"]
              /\ pressed' = IF focus THEN pressed \ {k} ELSE pressed
    BY <1>2 DEF Hotkeys!Press, Hotkeys!Release, Hotkeys!held, Hotkeys!macros, Hotkeys!dialogs
  <2>2. press' \in [letters -> Hotkeys!Presses]
    BY <1>0, <2>1 DEF HotkeyTypes, Hotkeys!Presses
  <2>3. pressed' \subseteq Hotkeys!held' /\ (~focus => pressed' = {})
    BY <1>0, <2>1 DEF HotkeyTypes, Hotkeys!held
  <2>4. HotkeyTypes'
    BY <1>0, <2>1, <2>2, <2>3 DEF HotkeyTypes
  <2>5. \A l \in letters :
           /\ press'[l] = "due" => /\ press[l] \in {"up", "due"}
                                   /\ focus' /\ ~Hotkeys!Suspended' /\ l \in pressed'
           /\ press'[l] = "up" => press[l] = "up"
           /\ press'[l] = "used" => press[l] = "used"
           /\ press'[l] = "used" /\ l \in pressed' => l \in pressed
    BY <1>0, <2>1 DEF HotkeyTypes, DueIsKnown, Hotkeys!Suspended
  <2> QED
    BY <2>1, <2>4, <2>5, KeyboardStep DEF Hotkeys!Suspended, Editing
<1>3. CASE Hotkeys!Leave \/ Hotkeys!Return \/ Hotkeys!PollCache \/ Hotkeys!KeyboardMode
           \/ (\E w \in {"macros", "modal"} : Hotkeys!Open(w) \/ Hotkeys!Close(w))
           \/ UNCHANGED Hotkeys!vars
  <2>1. /\ UNCHANGED <<native, bindings, entries, down, edited>>
        /\ ~(poll /\ ~poll')
    BY <1>3 DEF Hotkeys!Leave, Hotkeys!Return, Hotkeys!PollCache, Hotkeys!Open, Hotkeys!Close, Hotkeys!Resumed,
                Hotkeys!KeyboardMode, Hotkeys!vars, Hotkeys!macros, Hotkeys!keyboard, Hotkeys!dialogs
  <2> DEFINE Typed == /\ press' \in [letters -> Hotkeys!Presses] /\ Hotkeys!held' = Hotkeys!held
                      /\ focus' \in BOOLEAN /\ loading' \in BOOLEAN
                      /\ cache' \in [letters -> {"none", "down", "up"}]
             Hears == pressed' \in {pressed, {}} /\ (~focus' => pressed' = {})
             Cached == /\ \A k \in letters \ bindings : cache'[k] = cache[k]
                       /\ \A k \in letters : cache'[k] = "none" => cache[k] = "none"
             Noting == edited /\ Editing => Editing' \/ \A k \in letters : press'[k] # "used"
             Pressing == \A k \in letters :
                           /\ press'[k] = "due" =>
                                press[k] = "due" /\ focus' /\ ~Hotkeys!Suspended' /\ k \in pressed'
                           /\ press'[k] = "up" => press[k] = "up"
                           /\ press'[k] = "used" => press[k] = "used"
  <2>2. ASSUME Typed, Hears, Cached, Noting, Pressing
        PROVE  HotkeyIInv'
    <3>1. HotkeyTypes'
      BY <1>0, <2>1, <2>2 DEF HotkeyTypes
    <3> QED
      BY <2>1, <2>2, <3>1, KeyboardStep
  <2> HIDE DEF Typed, Hears, Cached, Noting, Pressing
  <2>3. CASE Hotkeys!Leave
    <3>1. /\ focus' = FALSE /\ pressed' = {} /\ press' = Hotkeys!Excused
          /\ UNCHANGED <<cache, loading, windows>>
      BY <2>3 DEF Hotkeys!Leave, Hotkeys!dialogs
    <3>2. Typed /\ Cached /\ Hears
      BY <1>0, <3>1, Excuses DEF HotkeyTypes, Typed, Cached, Hears
    <3>3. Noting /\ Pressing
      BY <1>0, <3>1, Excuses DEF Noting, Pressing, Editing, Hotkeys!Suspended
    <3> QED
      BY <2>1, <2>2, <3>2, <3>3 DEF PollStep
  <2>4. CASE Hotkeys!Return \/ Hotkeys!KeyboardMode \/ UNCHANGED Hotkeys!vars
    <3>1. /\ UNCHANGED <<press, pressed, cache, loading, windows>>
          /\ focus' = focus \/ (~focus /\ focus' = TRUE)
      BY <2>4 DEF Hotkeys!Return, Hotkeys!KeyboardMode, Hotkeys!vars, Hotkeys!keyboard, Hotkeys!dialogs
    <3>2. Typed /\ Cached /\ Hears
      BY <1>0, <3>1 DEF HotkeyTypes, Typed, Cached, Hears, Hotkeys!held
    <3>3. Noting /\ Pressing
      BY <3>1 DEF DueIsKnown, Noting, Pressing, Editing, Hotkeys!Suspended
    <3> QED
      BY <2>1, <2>2, <3>2, <3>3 DEF PollStep
  <2>5. CASE Hotkeys!PollCache
    <3>1. UNCHANGED <<press, focus, pressed, loading, windows>>
      BY <2>5 DEF Hotkeys!PollCache, Hotkeys!keyboard, Hotkeys!dialogs
    <3>2. /\ cache' \in [letters -> {"none", "down", "up"}]
          /\ \A k \in letters \ bindings : cache'[k] = cache[k]
          /\ \A k \in letters : cache'[k] = "none" => cache[k] = "none"
      BY <1>0, <2>5 DEF HotkeyTypes, Hotkeys!PollCache
    <3>3. Typed /\ Cached /\ Hears
      BY <1>0, <3>1, <3>2 DEF HotkeyTypes, Typed, Cached, Hears, Hotkeys!held
    <3>4. Noting /\ Pressing
      BY <3>1 DEF DueIsKnown, Noting, Pressing, Editing, Hotkeys!Suspended
    <3> QED
      BY <2>1, <2>2, <3>3, <3>4 DEF PollStep
  <2>6. ASSUME NEW w \in {"macros", "modal"}, Hotkeys!Open(w)
        PROVE  HotkeyIInv'
    <3>1. /\ UNCHANGED <<focus, cache>> /\ loading' = FALSE /\ press' = Hotkeys!Excused
          /\ pressed' \in {pressed, {}} /\ windows' = windows \union {w}
      BY <2>6 DEF Hotkeys!Open
    <3>2. Typed /\ Cached /\ Hears
      BY <1>0, <3>1, Excuses DEF HotkeyTypes, Typed, Cached, Hears
    <3>3. Noting /\ Pressing
      BY <1>0, <3>1, Excuses DEF Noting, Pressing, Editing, Hotkeys!Suspended
    <3> QED
      BY <2>2, <3>2, <3>3
  <2>7. ASSUME NEW w \in {"macros", "modal"}, Hotkeys!Close(w)
        PROVE  HotkeyIInv'
    <3>1. /\ UNCHANGED <<focus, cache, loading>> /\ pressed' \in {pressed, {}} /\ Hotkeys!Suspended
          /\ w \in windows /\ windows' = windows \ {w}
          /\ press' = [k \in letters |-> IF press[k] = "used" /\ edited /\ windows = {w} THEN "lost" ELSE press[k]]
      BY <2>7 DEF Hotkeys!Close, Hotkeys!Resumed, Hotkeys!Suspended
    <3>2. \A k \in letters : press[k] # "due"
      BY <3>1 DEF DueIsKnown
    <3>3. press' \in [letters -> Hotkeys!Presses] /\ Hotkeys!held' = Hotkeys!held
      BY <1>0, <3>1 DEF HotkeyTypes, Hotkeys!Presses, Hotkeys!held
    <3>4. edited => windows' # {} \/ \A k \in letters : press'[k] # "used"
      BY <3>1
    <3>5. Typed /\ Cached /\ Hears
      BY <1>0, <3>1, <3>3 DEF HotkeyTypes, Typed, Cached, Hears
    <3>6. Noting /\ Pressing
      BY <3>1, <3>2, <3>4 DEF Noting, Pressing, Editing, Hotkeys!Suspended
    <3> QED
      BY <2>2, <3>5, <3>6
  <2> QED
    BY <1>3, <2>1, <2>3, <2>4, <2>5, <2>6, <2>7 DEF PollStep
<1>4. CASE (\E i \in DOMAIN entries : Hotkeys!Delete(i) \/ \E k \in letters \union {None} : Hotkeys!SetHotkey(i, k))
           \/ (\E k \in letters \union {None} : Hotkeys!Upsert(k))
           \/ (\E k \in letters : Hotkeys!Import([i \in 1..maxMacros |-> k])) \/ Hotkeys!Load
  <2>1. /\ Hotkeys!Rebuilt /\ (windows = {"macros"} \/ loading')
        /\ UNCHANGED <<native, focus, pressed, cache, bindings, windows, poll>>
        /\ loading' \in BOOLEAN
    BY <1>0, <1>4 DEF HotkeyTypes, Hotkeys!Delete, Hotkeys!SetHotkey, Hotkeys!Upsert, Hotkeys!Import, Hotkeys!Load,
                      Hotkeys!keyboard, Hotkeys!dialogs
  <2>2. entries' \in Seq(letters \union {None})
    <3>1. ASSUME NEW i \in DOMAIN entries, Hotkeys!Delete(i)
          PROVE  entries' \in Seq(letters \union {None})
      <4>1. entries' = SubSeq(entries, 1, i - 1) \o SubSeq(entries, i + 1, Len(entries))
        BY <3>1 DEF Hotkeys!Delete, Hotkeys!RemoveAt
      <4> QED
        BY <1>0, <4>1 DEF HotkeyTypes
    <3>2. ASSUME NEW i \in DOMAIN entries, NEW k \in letters \union {None}, Hotkeys!SetHotkey(i, k)
          PROVE  entries' \in Seq(letters \union {None})
      BY <1>0, <3>2 DEF Hotkeys!SetHotkey, HotkeyTypes
    <3>3. ASSUME NEW k \in letters \union {None}, Hotkeys!Upsert(k)
          PROVE  entries' \in Seq(letters \union {None})
      BY <1>0, <3>3 DEF Hotkeys!Upsert, HotkeyTypes
    <3>4. ASSUME NEW k \in letters, Hotkeys!Import([i \in 1..maxMacros |-> k])
          PROVE  entries' \in Seq(letters \union {None})
      BY <3>4, HotkeyAssumption DEF Hotkeys!Import, HotkeyAssumption
    <3> QED
      BY <1>0, <1>4, <3>1, <3>2, <3>3, <3>4 DEF HotkeyTypes, Hotkeys!Load
  <2>3. \/ press' = press
        \/ \E k \in Hotkeys!held : press' = [press EXCEPT ![k] = "used"]
    BY <1>4 DEF Hotkeys!Delete, Hotkeys!SetHotkey, Hotkeys!Upsert, Hotkeys!Import, Hotkeys!Load,
                Hotkeys!keyboard
  <2>4. /\ press' \in [letters -> Hotkeys!Presses]
        /\ \A k \in letters : press'[k] = press[k] \/ press'[k] = "used"
        /\ Hotkeys!held' = Hotkeys!held
    BY <1>0, <2>3 DEF HotkeyTypes, Hotkeys!Presses, Hotkeys!held
  <2>5. HotkeyTypes'
    <3>1. edited' \in BOOLEAN
      BY <2>1 DEF Hotkeys!Rebuilt
    <3> QED
      BY <1>0, <2>1, <2>2, <2>4, <3>1 DEF HotkeyTypes
  <2>6. HotkeyIInv'
    BY <2>1, <2>4, <2>5, RebuiltStep DEF Editing, Hotkeys!Suspended
  <2> QED
    BY <2>1, <2>6 DEF PollStep
<1>5. ASSUME NEW keys \in SUBSET letters, Hotkeys!SaveBindings(keys)
      PROVE  HotkeyIInv' /\ poll' = poll
  <2>1. /\ UNCHANGED <<native, press, focus, cache, entries, down, loading, poll, edited>>
        /\ bindings' = keys /\ pressed' \in {pressed, {}}
        /\ \A k \in letters : press[k] = "up"
    BY <1>5 DEF Hotkeys!SaveBindings, Hotkeys!Resumed, Hotkeys!macros
  <2>2. Hotkeys!held' = Hotkeys!held /\ Hotkeys!Hotkeys' = Hotkeys!Hotkeys
    BY <2>1 DEF Hotkeys!held, Hotkeys!Hotkeys
  <2>3. HotkeyTypes'
    BY <1>0, <2>1, <2>2 DEF HotkeyTypes
  <2> QED
    BY <2>1, <2>2, <2>3 DEF UsedIsNoted, UpIsNoted, DueIsKnown, Free
<1>6. ASSUME NEW chosen, Hotkeys!SaveSettings(chosen)
      PROVE  HotkeyIInv' /\ poll' = poll
  <2>1. /\ UNCHANGED <<native, press, focus, pressed, cache, loading, windows, poll>>
        /\ Hotkeys!Suspended /\ bindings' \subseteq bindings
        /\ \/ Hotkeys!Rebuilt
           \/ UNCHANGED <<down, edited>> /\ entries' = entries
    BY <1>6 DEF Hotkeys!SaveSettings, Hotkeys!Suspended, Hotkeys!keyboard, Hotkeys!dialogs, Hotkeys!macros
  <2>2. entries' \in Seq(letters \union {None}) /\ edited' \in BOOLEAN
    <3>1. edited' \in BOOLEAN
      BY <1>0, <2>1 DEF HotkeyTypes, Hotkeys!Rebuilt
    <3>2. entries' \in {entries, [i \in DOMAIN entries |-> IF entries[i] \in clicks THEN None ELSE entries[i]]}
      BY <1>6 DEF Hotkeys!SaveSettings, Hotkeys!macros
    <3>3. [i \in DOMAIN entries |-> IF entries[i] \in clicks THEN None ELSE entries[i]] \in Seq(letters \union {None})
      BY <1>0 DEF HotkeyTypes
    <3> QED
      BY <1>0, <3>1, <3>2, <3>3 DEF HotkeyTypes
  <2>3. HotkeyTypes'
    BY <1>0, <2>1, <2>2 DEF HotkeyTypes, Hotkeys!held
  <2>4. CASE Hotkeys!Rebuilt
    BY <2>1, <2>3, <2>4, RebuiltStep DEF Editing, Hotkeys!Suspended
  <2>5. CASE UNCHANGED <<down, edited>> /\ entries' = entries
    <3>1. ASSUME NEW k \in Hotkeys!Hotkeys, k \in bindings PROVE k \in bindings'
      <4>1. PICK i \in DOMAIN entries : entries[i] = k /\ k # None
        BY <3>1 DEF Hotkeys!Hotkeys
      <4>2. CASE bindings' = bindings \ clicks /\ entries' = [n \in DOMAIN entries |->
                                                   IF entries[n] \in clicks THEN None ELSE entries[n]]
        <5>1. entries'[i] = IF k \in clicks THEN None ELSE k
          BY <4>1, <4>2
        <5> QED
          BY <2>5, <3>1, <4>1, <4>2, <5>1
      <4>3. CASE bindings' = bindings
        BY <3>1, <4>3
      <4> QED
        BY <1>6, <4>2, <4>3 DEF Hotkeys!SaveSettings
    <3>2. Hotkeys!Hotkeys' = Hotkeys!Hotkeys
      BY <2>5 DEF Hotkeys!Hotkeys
    <3>3. UsedIsNoted'
      BY <2>1, <2>5, <3>1, <3>2 DEF UsedIsNoted, Editing, Hotkeys!Heard, Hotkeys!Known, Hotkeys!held, Hotkeys!Suspended
    <3>4. UpIsNoted'
      BY <2>1, <2>5, <3>2 DEF UpIsNoted, Free
    <3> QED
      BY <2>1, <2>3, <3>3, <3>4 DEF DueIsKnown, Hotkeys!Suspended
  <2> QED
    BY <2>1, <2>4, <2>5
<1> QED
  BY <1>1, <1>2, <1>3, <1>4, <1>5, <1>6 DEF Hotkeys!Next, Hotkeys!Record, PollStep

\* A press starts a macro once, and none that the program is free to hear is lost
\* (poll_macro_entry_hotkeys, rebuild_macro_hotkey_state).
THEOREM HotkeyTheorem == MCSpec => OncePerPress
<1>1. MCInit => HotkeyIInv
  BY HotkeyInit DEF MCInit
<1>2. HotkeyIInv /\ [MCNext]_MCvars => HotkeyIInv' /\ PollStep
  <2> SUFFICES ASSUME HotkeyIInv, [MCNext]_MCvars PROVE HotkeyIInv' /\ PollStep
    OBVIOUS
  <2>1. Hotkeys!Next \/ UNCHANGED Hotkeys!vars
    BY DEF MCNext, MCvars, keysVars, Hotkeys!vars, Hotkeys!keyboard, Hotkeys!macros,
              Hotkeys!dialogs
  <2> QED
    BY <2>1, HotkeyStep
<1>3. HotkeyIInv /\ [MCNext]_MCvars =>
        /\ [poll /\ ~poll' /\ ~loading => \A k \in Hotkeys!Polls.run \cap Hotkeys!held :
                                             Hotkeys!Heard(k) => press[k] # "used"]_(Hotkeys!vars)
        /\ [poll /\ ~poll' => \A k \in Hotkeys!Hotkeys :
                                Hotkeys!Heard(k) /\ ~Hotkeys!Deaf(k) /\ press[k] = "due" =>
                                  k \in Hotkeys!Polls.run]_(Hotkeys!vars)
  BY <1>2 DEF PollStep
<1> QED
  BY <1>1, <1>2, <1>3, PTL DEF MCSpec, OncePerPress, Hotkeys!OncePerPress, Hotkeys!HotkeyHeard

-----------------------------------------------------------------------------
(***************************************************************************)
(* Vendor commands.  While console and assembler agree on where a command  *)
(* begins, what the assembler holds is the beginning of one command, what  *)
(* is still to come is the rest of it and at most one other command, and   *)
(* what is due are those of the two that the assembler does not skip.      *)
(* Every unit moves on by one place, whatever fragment brings it.          *)
(***************************************************************************)
Known == Vendor!Commands \ {"bad"}

Opening(c, i) == [k \in 1..i |-> <<c, k>>]

\* The assembler after the first i units of a command, with what it dispatched before.
At(c, i, out) ==
  LET over == c = "over" /\ i >= headSize
      done == i = Vendor!Sizes[c]
  IN [bytes    |-> IF done \/ over THEN <<>> ELSE Opening(c, i),
      expected |-> IF i < headSize \/ done \/ over THEN 0 ELSE Vendor!Sizes[c],
      discard  |-> IF over THEN Vendor!Sizes[c] - i ELSE 0,
      out      |-> out]

\* The rest of a command, and the units of another one if there is one.
SizeOf(d) == IF d \in Known THEN Vendor!Sizes[d] ELSE 0

Rest(c, i, d) ==
  [k \in 1..(Vendor!Sizes[c] - i + SizeOf(d)) |->
     IF k <= Vendor!Sizes[c] - i THEN <<c, i + k>> ELSE <<d, k - (Vendor!Sizes[c] - i)>>]

Owes(c) == IF c \in Known \ {"over"} THEN <<c>> ELSE <<>>

\* What is to come, and what is to be dispatched of it.
Agree(a, w, owed) ==
  \E c \in Known, d \in Known \union {"none"} : \E i \in 0..Vendor!Sizes[c] :
    /\ a = At(c, i, a.out)
    /\ w = Rest(c, i, d)
    /\ owed = (IF i < Vendor!Sizes[c] THEN Owes(c) ELSE <<>>) \o Owes(d)

LEMMA SizeFacts ==
  /\ Vendor!Commands = {"start", "short", "mask", "enable", "write", "over", "bad"}
  /\ \A c \in Vendor!Commands :
       /\ Vendor!Sizes[c] \in Nat /\ headSize <= Vendor!Sizes[c] /\ 0 < Vendor!Sizes[c]
       /\ Vendor!Sizes[c] <= maxCommand <=> c # "over"
  /\ headSize \in Nat \ {0} /\ headSize < maxCommand /\ maxCommand \in Nat
BY VendorAssumption DEF VendorAssumption, Vendor!Commands, Vendor!Sizes

\* The first i units of a command.
LEMMA FirstUnits ==
  ASSUME NEW c \in Vendor!Commands, NEW i \in 0..Vendor!Sizes[c]
  PROVE  /\ SubSeq(Vendor!Units(c), 1, i) = Opening(c, i)
         /\ Len(Opening(c, i)) = i
         /\ Append(Opening(c, i), <<c, i + 1>>) = Opening(c, i + 1)
         /\ Opening(c, Vendor!Sizes[c]) = Vendor!Units(c)
<1>1. Vendor!Sizes[c] \in Nat
  BY SizeFacts
<1> USE DEF Opening
<1>2. SubSeq(Vendor!Units(c), 1, i) = Opening(c, i)
  BY <1>1 DEF Vendor!Units
<1>3. Append(Opening(c, i), <<c, i + 1>>) = Opening(c, i + 1)
  OBVIOUS
<1>4. Len(Opening(c, i)) = i
  OBVIOUS
<1>5. Opening(c, Vendor!Sizes[c]) = Vendor!Units(c)
  BY DEF Vendor!Units
<1> QED
  BY <1>2, <1>3, <1>4, <1>5

\* What a header of a command says, and which command a whole one is.
LEMMA HeaderFacts ==
  ASSUME NEW c \in Vendor!Commands
  PROVE  /\ Vendor!Headers(Opening(c, headSize)) = {<<c # "bad", Vendor!Sizes[c]>>}
         /\ Vendor!Whole(Opening(c, Vendor!Sizes[c])) = c
<1>1. /\ headSize \in 0..Vendor!Sizes[c] /\ 1 \in 1..headSize /\ 1 \in 1..Vendor!Sizes[c]
      /\ Vendor!Sizes[c] \in 0..Vendor!Sizes[c]
  BY SizeFacts
<1>2. Opening(c, headSize)[1] = <<c, 1>> /\ Opening(c, Vendor!Sizes[c])[1] = <<c, 1>>
  BY <1>1 DEF Opening
<1>3. \E e \in Vendor!Commands : Opening(c, headSize) = SubSeq(Vendor!Units(e), 1, headSize)
  BY <1>1, FirstUnits
<1>4. \E e \in Vendor!Commands : Opening(c, Vendor!Sizes[c]) = Vendor!Units(e)
  BY <1>1, FirstUnits
<1> HIDE DEF Opening
<1>5. <<c, 1>>[1] = c
  OBVIOUS
<1> QED
  BY <1>2, <1>3, <1>4, <1>5 DEF Vendor!Headers, Vendor!Whole

\* One unit of a command.
LEMMA FeedAlong ==
  ASSUME NEW c \in Known, NEW i \in Nat, i < Vendor!Sizes[c], NEW out \in Seq(Vendor!Commands)
  PROVE  Vendor!FeedUnit(At(c, i, out), <<c, i + 1>>) =
           {At(c, i + 1, IF i + 1 = Vendor!Sizes[c] /\ c # "over" THEN Append(out, c) ELSE out)}
<1> DEFINE a == At(c, i, out)
           n == Vendor!Sizes[c]
           b == [a EXCEPT !.bytes = Append(@, <<c, i + 1>>)]
           next == At(c, i + 1, IF i + 1 = n /\ c # "over" THEN Append(out, c) ELSE out)
<1>0. /\ c \in Vendor!Commands /\ c # "bad" /\ n \in Nat /\ headSize <= n /\ headSize \in Nat \ {0}
      /\ (n <= maxCommand <=> c # "over") /\ headSize < maxCommand /\ maxCommand \in Nat
      /\ i \in 0..n /\ i + 1 \in 0..n
  <2>1. c \in Vendor!Commands /\ c # "bad"
    BY DEF Known
  <2>2. n \in Nat /\ headSize <= n /\ (n <= maxCommand <=> c # "over")
    BY <2>1, SizeFacts
  <2>3. headSize \in Nat \ {0} /\ headSize < maxCommand /\ maxCommand \in Nat
    BY SizeFacts
  <2>4. i \in 0..n /\ i + 1 \in 0..n
    <3> HIDE DEF n
    <3>1. i < n
      BY DEF n
    <3> QED
      BY <2>2, <3>1
  <2> QED
    BY <2>1, <2>2, <2>3, <2>4
<1> SUFFICES Vendor!FeedUnit(a, <<c, i + 1>>) = {next}
  OBVIOUS
<1>1. CASE c = "over" /\ i >= headSize
  <2>1. a = [bytes |-> <<>>, expected |-> 0, discard |-> n - i, out |-> out]
    BY <1>0, <1>1 DEF At, next
  <2>2. next = [bytes |-> <<>>, expected |-> 0, discard |-> n - (i + 1), out |-> out]
    BY <1>0, <1>1 DEF At, next
  <2>3. [a EXCEPT !.discard = @ - 1] = next /\ a.discard # 0
    BY <1>0, <2>1, <2>2
  <2> QED
    BY <2>3 DEF Vendor!FeedUnit
<1>2. CASE ~(c = "over" /\ i >= headSize)
  <2>0. /\ Append(Opening(c, i), <<c, i + 1>>) = Opening(c, i + 1) /\ Len(Opening(c, i + 1)) = i + 1
        /\ i + 1 = n => Vendor!Whole(Opening(c, i + 1)) = c
        /\ i + 1 = headSize => Vendor!Headers(Opening(c, i + 1)) = {<<TRUE, n>>}
    <3>1. (c # "bad") = TRUE
      BY <1>0
    <3> QED
      BY <1>0, <3>1, FirstUnits, HeaderFacts
  <2>1. a = [bytes |-> Opening(c, i), expected |-> IF i < headSize THEN 0 ELSE n,
             discard |-> 0, out |-> out]
    BY <1>0, <1>2 DEF At, next
  <2>2. b = [bytes |-> Opening(c, i + 1), expected |-> IF i < headSize THEN 0 ELSE n,
             discard |-> 0, out |-> out]
    <3> DEFINE e == IF i < headSize THEN 0 ELSE n
    <3>1. a = [bytes |-> Opening(c, i), expected |-> e, discard |-> 0, out |-> out]
      BY <2>1
    <3> HIDE DEF a, e
    <3>2. b = [bytes |-> Append(Opening(c, i), <<c, i + 1>>), expected |-> e, discard |-> 0, out |-> out]
      <4>1. a.bytes = Opening(c, i)
        BY <3>1
      <4>2. b = [a EXCEPT !.bytes = Append(Opening(c, i), <<c, i + 1>>)]
        BY <4>1
      <4> HIDE DEF b
      <4> QED
        BY <3>1, <4>2
    <3> HIDE DEF b
    <3>3. b = [bytes |-> Opening(c, i + 1), expected |-> e, discard |-> 0, out |-> out]
      BY <2>0, <3>2
    <3> QED
      BY <3>3 DEF e
  <2>3. Len(b.bytes) = i + 1
    BY <1>0, <2>0, <2>2
  <2>4. Vendor!FeedUnit(a, <<c, i + 1>>) =
          IF b.expected # 0 \/ Len(b.bytes) < headSize THEN {Vendor!Dispatch(b)}
          ELSE {Vendor!Dispatch(Vendor!Announced(b, h[1], h[2])) : h \in Vendor!Headers(b.bytes)}
    BY <2>1 DEF Vendor!FeedUnit
  <2> HIDE DEF a, b, next
  <2>5. i + 1 = n => Vendor!Whole(Opening(c, i + 1)) = c
    BY <2>0
  <2>6. CASE i + 1 < headSize
    <3>1. b.expected = 0
      BY <2>2, <2>6, <1>0
    <3>2. Vendor!Dispatch(b) = b
      BY <3>1 DEF Vendor!Dispatch
    <3>3. next = b
      BY <1>0, <2>2, <2>6 DEF At, next
    <3> QED
      BY <2>3, <2>4, <2>6, <3>2, <3>3
  <2>7. CASE i + 1 > headSize
    <3>1. b.expected = n /\ n # 0 /\ c # "over"
      BY <1>0, <1>2, <2>2, <2>7
    <3>2. CASE i + 1 = n
      <4>1. Vendor!Dispatch(b) = [Vendor!Nothing EXCEPT !.out = Append(out, c)]
        BY <2>2, <2>3, <2>5, <3>1, <3>2 DEF Vendor!Dispatch, Vendor!Nothing
      <4>2. next = [Vendor!Nothing EXCEPT !.out = Append(out, c)]
        <5>1. At(c, n, Append(out, c)) = [bytes |-> <<>>, expected |-> 0, discard |-> 0, out |-> Append(out, c)]
          BY <1>0, <3>1 DEF At
        <5>2. next = At(c, n, Append(out, c))
          BY <3>1, <3>2 DEF next
        <5> HIDE DEF next
        <5> QED
          BY <3>2, <5>1, <5>2 DEF Vendor!Nothing
      <4> QED
        BY <2>4, <3>1, <4>1, <4>2
    <3>3. CASE i + 1 # n
      <4>1. Vendor!Dispatch(b) = b
        BY <2>3, <3>1, <3>3 DEF Vendor!Dispatch
      <4>2. next = b
        BY <1>0, <2>2, <2>7, <3>1, <3>3 DEF At, next
      <4> QED
        BY <2>4, <3>1, <4>1, <4>2
    <3> QED
      BY <3>2, <3>3
  <2>8. CASE i + 1 = headSize
    <3>1. b.expected = 0 /\ Len(b.bytes) = headSize
      BY <1>0, <2>2, <2>3, <2>8
    <3>2. Vendor!Headers(b.bytes) = {<<TRUE, n>>}
      BY <1>0, <2>0, <2>2, <2>8
    <3>3. Vendor!FeedUnit(a, <<c, i + 1>>) = {Vendor!Dispatch(Vendor!Announced(b, TRUE, n))}
      <4>1. <<TRUE, n>>[1] = TRUE /\ <<TRUE, n>>[2] = n
        OBVIOUS
      <4>2. Vendor!FeedUnit(a, <<c, i + 1>>) =
              {Vendor!Dispatch(Vendor!Announced(b, h[1], h[2])) : h \in Vendor!Headers(b.bytes)}
        <5>1. ~(b.expected # 0 \/ Len(b.bytes) < headSize)
          BY <1>0, <3>1
        <5> QED
          BY <2>4, <5>1
      <4> HIDE DEF n
      <4> QED
        BY <3>2, <4>1, <4>2
    <3>4. CASE c = "over"
      <4>1. Vendor!Announced(b, TRUE, n) = [bytes |-> <<>>, expected |-> 0, discard |-> n - headSize, out |-> out]
        <5>1. Vendor!Announced(b, TRUE, n) = [b EXCEPT !.bytes = <<>>, !.discard = n - headSize]
          BY <1>0, <3>4 DEF Vendor!Announced, Vendor!Skipped
        <5>2. b = [bytes |-> Opening(c, i + 1), expected |-> 0, discard |-> 0, out |-> out]
          BY <1>0, <2>2, <2>8
        <5> HIDE DEF n
        <5> QED
          BY <5>1, <5>2
      <4>2. next = [bytes |-> <<>>, expected |-> 0, discard |-> n - headSize, out |-> out]
        BY <1>0, <2>8, <3>4 DEF At, next
      <4> QED
        <5> DEFINE r == [bytes |-> <<>>, expected |-> 0, discard |-> n - headSize, out |-> out]
        <5>1. Vendor!Dispatch(r) = r
          BY DEF Vendor!Dispatch
        <5> HIDE DEF r
        <5> QED
          BY <3>3, <4>1, <4>2, <5>1 DEF r
    <3>5. CASE c # "over"
      <4> DEFINE q == [bytes |-> Opening(c, i + 1), expected |-> n, discard |-> 0, out |-> out]
      <4>1. Vendor!Announced(b, TRUE, n) = q
        BY <1>0, <2>2, <3>5 DEF Vendor!Announced
      <4>2. CASE i + 1 = n
        <5>1. Vendor!Dispatch(q) = [Vendor!Nothing EXCEPT !.out = Append(out, c)]
          <6>1. Len(q.bytes) = n /\ q.expected = n /\ q.out = out /\ n # 0 /\ Vendor!Whole(q.bytes) = c
            BY <1>0, <2>0, <4>2
          <6> HIDE DEF q
          <6> QED
            BY <6>1 DEF Vendor!Dispatch
        <5>2. next = [Vendor!Nothing EXCEPT !.out = Append(out, c)]
          <6>1. next.bytes = <<>> /\ next.expected = 0
            BY <4>2 DEF At, next
          <6>2. next.discard = 0 /\ next.out = Append(out, c)
            BY <3>5, <4>2 DEF At, next
          <6>3. next = [bytes |-> next.bytes, expected |-> next.expected, discard |-> next.discard, out |-> next.out]
            BY DEF At, next
          <6> HIDE DEF next
          <6> QED
            BY <6>1, <6>2, <6>3 DEF Vendor!Nothing
        <5> QED
          BY <3>3, <4>1, <5>1, <5>2
      <4>3. CASE i + 1 # n
        <5>1. Vendor!Dispatch(q) = q
          BY <1>0, <2>2, <2>3, <4>3 DEF Vendor!Dispatch
        <5>2. next = q
          BY <1>0, <2>8, <3>5, <4>3 DEF At, next
        <5> QED
          BY <3>3, <4>1, <5>1, <5>2
      <4> QED
        BY <4>2, <4>3
    <3> QED
      BY <3>4, <3>5
  <2> HIDE DEF a, b, n, next
  <2> QED
    BY <1>0, <2>6, <2>7, <2>8
<1> QED
  BY <1>1, <1>2

\* The same, with a command that is not whole yet.
Inside(a, w, owed) ==
  \E c \in Known, d \in Known \union {"none"} : \E i \in 0..Vendor!Sizes[c] :
    /\ i < Vendor!Sizes[c] /\ a = At(c, i, a.out) /\ w = Rest(c, i, d)
    /\ owed = Owes(c) \o Owes(d)

LEMMA OwesFacts ==
  /\ \A c : Owes(c) \in Seq(Vendor!Commands) /\ Owes(c) \o <<>> = Owes(c) /\ <<>> \o Owes(c) = Owes(c)
  /\ Owes("none") = <<>>
<1>1. ASSUME NEW c PROVE Owes(c) \in Seq(Vendor!Commands)
  <2>1. CASE c \in Known \ {"over"}
    BY <2>1 DEF Owes, Known
  <2>2. CASE c \notin Known \ {"over"}
    BY <2>2 DEF Owes
  <2> QED
    BY <2>1, <2>2
<1>2. ASSUME NEW c PROVE Owes(c) \o <<>> = Owes(c) /\ <<>> \o Owes(c) = Owes(c)
  BY <1>1
<1>3. "none" \notin Known
  BY SizeFacts DEF Known
<1>4. Owes("none") = <<>>
  BY <1>3 DEF Owes
<1> QED
  BY <1>1, <1>2, <1>4

LEMMA AgreeOwes ==
  ASSUME NEW a, NEW w, NEW owed, Agree(a, w, owed)
  PROVE  owed \in Seq(Vendor!Commands)
<1>1. \A c, d : Owes(c) \o Owes(d) \in Seq(Vendor!Commands) /\ <<>> \o Owes(d) \in Seq(Vendor!Commands)
  BY OwesFacts, ConcatProperties
<1>2. \E c, d : owed = Owes(c) \o Owes(d) \/ owed = <<>> \o Owes(d)
  BY DEF Agree
<1> QED
  BY <1>1, <1>2

\* What was dispatched does not matter, and where nothing is to come nothing is due.
LEMMA AgreeOut ==
  ASSUME NEW a, NEW w, NEW owed, Agree(a, w, owed), NEW out
  PROVE  Agree([bytes |-> a.bytes, expected |-> a.expected, discard |-> a.discard, out |-> out], w, owed)
<1> DEFINE b == [bytes |-> a.bytes, expected |-> a.expected, discard |-> a.discard, out |-> out]
<1>1. ASSUME NEW c, NEW i, a = At(c, i, a.out)
      PROVE  b = At(c, i, b.out)
  <2>1. b.out = out
    OBVIOUS
  <2>2. At(c, i, out) = [bytes |-> At(c, i, a.out).bytes, expected |-> At(c, i, a.out).expected,
                         discard |-> At(c, i, a.out).discard, out |-> out]
    BY DEF At
  <2> QED
    BY <1>1, <2>1, <2>2
<1> HIDE DEF b
<1>2. Agree(b, w, owed)
  BY <1>1 DEF Agree
<1> QED
  BY <1>2 DEF b

LEMMA NothingOwed ==
  ASSUME NEW a, NEW owed, Agree(a, <<>>, owed)
  PROVE  owed = <<>>
<1>1. PICK c \in Known, d \in Known \union {"none"} : \E i \in 0..Vendor!Sizes[c] :
        /\ a = At(c, i, a.out)
        /\ <<>> = Rest(c, i, d)
        /\ owed = (IF i < Vendor!Sizes[c] THEN Owes(c) ELSE <<>>) \o Owes(d)
  BY DEF Agree
<1>2. PICK i \in 0..Vendor!Sizes[c] :
        /\ <<>> = Rest(c, i, d)
        /\ owed = (IF i < Vendor!Sizes[c] THEN Owes(c) ELSE <<>>) \o Owes(d)
  BY <1>1
<1> DEFINE n == Vendor!Sizes[c]
<1>3. n \in Nat /\ SizeOf(d) \in Nat /\ (d \in Known => SizeOf(d) > 0)
  BY SizeFacts DEF Known, SizeOf
<1>4. DOMAIN Rest(c, i, d) = 1..(n - i + SizeOf(d)) /\ DOMAIN <<>> = {}
  BY DEF Rest
<1>5. n - i + SizeOf(d) = 0
  <2>1. 1 \notin 1..(n - i + SizeOf(d))
    BY <1>2, <1>4
  <2> HIDE DEF n
  <2>2. i \in 0..n
    BY DEF n
  <2> QED
    BY <1>3, <2>1, <2>2
<1>6. ~(i < n) /\ d = "none"
  <2> HIDE DEF n
  <2>1. i \in 0..n
    BY DEF n
  <2>2. SizeOf(d) = 0 /\ ~(i < n)
    BY <1>3, <1>5, <2>1
  <2>3. d \notin Known
    BY <1>3, <2>2
  <2> QED
    BY <2>2, <2>3
<1> QED
  BY <1>2, <1>6, OwesFacts

\* There is something to come, so a command is not whole yet.
LEMMA AgreeInside ==
  ASSUME NEW a, NEW w, NEW owed, Agree(a, w, owed), w # <<>>
  PROVE  Inside(a, w, owed)
<1>1. PICK c \in Known, d \in Known \union {"none"} : \E i \in 0..Vendor!Sizes[c] :
        /\ a = At(c, i, a.out)
        /\ w = Rest(c, i, d)
        /\ owed = (IF i < Vendor!Sizes[c] THEN Owes(c) ELSE <<>>) \o Owes(d)
  BY DEF Agree
<1>2. PICK i \in 0..Vendor!Sizes[c] :
        /\ a = At(c, i, a.out)
        /\ w = Rest(c, i, d)
        /\ owed = (IF i < Vendor!Sizes[c] THEN Owes(c) ELSE <<>>) \o Owes(d)
  BY <1>1
<1>3. Vendor!Sizes[c] \in Nat /\ 0 < Vendor!Sizes[c] /\ headSize <= Vendor!Sizes[c]
  BY SizeFacts DEF Known
<1>4. CASE i < Vendor!Sizes[c]
  BY <1>2, <1>4 DEF Inside
<1>5. CASE i = Vendor!Sizes[c]
  <2>1. d \in Known
    <3> SUFFICES ASSUME d \notin Known PROVE FALSE
      OBVIOUS
    <3>1. w = [k \in 1..0 |-> IF k <= Vendor!Sizes[c] - i THEN <<c, i + k>> ELSE <<d, k - (Vendor!Sizes[c] - i)>>]
      BY <1>2, <1>3, <1>5 DEF Rest, SizeOf
    <3>2. w = <<>>
      BY <3>1
    <3> QED
      BY <3>2
  <2>2. /\ Vendor!Sizes[d] \in Nat /\ 0 < Vendor!Sizes[d] /\ headSize <= Vendor!Sizes[d]
        /\ headSize \in Nat /\ 0 < headSize
    BY <2>1, SizeFacts DEF Known
  <2>3. a = At(d, 0, a.out)
    <3>1. Opening(d, 0) = <<>>
      BY DEF Opening
    <3>2. At(c, i, a.out) = [bytes |-> <<>>, expected |-> 0, discard |-> 0, out |-> a.out]
      BY <1>3, <1>5 DEF At
    <3>3. At(d, 0, a.out) = [bytes |-> <<>>, expected |-> 0, discard |-> 0, out |-> a.out]
      <4>1. 0 # Vendor!Sizes[d] /\ ~(0 >= headSize) /\ 0 < headSize
        BY <2>2
      <4> QED
        BY <3>1, <4>1 DEF At
    <3> QED
      BY <1>2, <3>2, <3>3
  <2>4. w = Rest(d, 0, "none")
    <3>1. Vendor!Sizes[c] - i = 0 /\ SizeOf(d) = Vendor!Sizes[d] /\ SizeOf("none") = 0
      BY <1>3, <1>5, <2>1, SizeFacts DEF SizeOf, Known
    <3>2. Rest(c, i, d) = [k \in 1..Vendor!Sizes[d] |-> <<d, k>>]
      <4> DEFINE m == Vendor!Sizes[c] - i
                 z == Vendor!Sizes[d]
      <4>1. m = 0 /\ z \in Nat
        BY <2>2, <3>1
      <4>2. Rest(c, i, d) = [k \in 1..(m + z) |-> IF k <= m THEN <<c, i + k>> ELSE <<d, k - m>>]
        BY <3>1 DEF Rest
      <4> HIDE DEF m, z
      <4>3. Rest(c, i, d) = [k \in 1..z |-> <<d, k>>]
        BY <4>1, <4>2
      <4> QED
        BY <4>3 DEF z
    <3>3. Rest(d, 0, "none") = [k \in 1..Vendor!Sizes[d] |-> <<d, k>>]
      <4> DEFINE z == Vendor!Sizes[d]
      <4>1. z \in Nat
        BY <2>2
      <4>2. Rest(d, 0, "none") = [k \in 1..(z - 0 + 0) |-> IF k <= z - 0 THEN <<d, 0 + k>> ELSE <<"none", k - (z - 0)>>]
        BY <3>1 DEF Rest
      <4> HIDE DEF z
      <4>3. Rest(d, 0, "none") = [k \in 1..z |-> <<d, k>>]
        BY <4>1, <4>2
      <4> QED
        BY <4>3 DEF z
    <3> QED
      BY <1>2, <3>2, <3>3
  <2>5. owed = Owes(d) \o Owes("none")
    <3>1. ~(i < Vendor!Sizes[c])
      BY <1>3, <1>5
    <3>2. owed = <<>> \o Owes(d)
      BY <1>2, <3>1
    <3> QED
      BY <3>2, OwesFacts
  <2>6. "none" \in Known \union {"none"} /\ 0 \in 0..Vendor!Sizes[d] /\ 0 < Vendor!Sizes[d]
    BY <2>2
  <2>7. \E i0 \in 0..Vendor!Sizes[d] : /\ i0 < Vendor!Sizes[d] /\ a = At(d, i0, a.out)
                                      /\ w = Rest(d, i0, "none") /\ owed = Owes(d) \o Owes("none")
    BY <2>3, <2>4, <2>5, <2>6
  <2> QED
    BY <2>1, <2>6, <2>7 DEF Inside
<1>6. i < Vendor!Sizes[c] \/ i = Vendor!Sizes[c]
  BY <1>3
<1> QED
  BY <1>4, <1>5, <1>6

\* One unit has one outcome, which agrees with what is left.
MovesOn(a, w, owed) ==
  \E b, later :
    /\ Vendor!FeedUnit(a, w[1]) = {b} /\ b.out \in Seq(Vendor!Commands)
    /\ Agree(b, [k \in 1..(Len(w) - 1) |-> w[k + 1]], later)
    /\ b.out \o later = a.out \o owed

LEMMA AgreeStep ==
  ASSUME NEW a, NEW w, NEW owed, Agree(a, w, owed), w # <<>>, a.out \in Seq(Vendor!Commands)
  PROVE  MovesOn(a, w, owed)
<1>1. PICK c \in Known, d \in Known \union {"none"} : \E i \in 0..Vendor!Sizes[c] :
           /\ i < Vendor!Sizes[c] /\ a = At(c, i, a.out) /\ w = Rest(c, i, d)
           /\ owed = Owes(c) \o Owes(d)
  <2>1. Inside(a, w, owed)
    BY AgreeInside
  <2> QED
    BY <2>1 DEF Inside
<1>2. PICK i \in 0..Vendor!Sizes[c] :
           /\ i < Vendor!Sizes[c] /\ a = At(c, i, a.out) /\ w = Rest(c, i, d)
           /\ owed = Owes(c) \o Owes(d)
  BY <1>1
<1> DEFINE n == Vendor!Sizes[c]
           out == IF i + 1 = n /\ c # "over" THEN Append(a.out, c) ELSE a.out
           b == At(c, i + 1, out)
           later == (IF i + 1 < n THEN Owes(c) ELSE <<>>) \o Owes(d)
<1>3. n \in Nat /\ c \in Vendor!Commands /\ SizeOf(d) \in Nat
  BY SizeFacts DEF Known, SizeOf
<1>4. w[1] = <<c, i + 1>> /\ Len(w) = n - i + SizeOf(d)
  <2> DEFINE m == n - i
             z == SizeOf(d)
  <2>1. m \in Nat /\ 1 <= m /\ z \in Nat
    <3> HIDE DEF n
    <3>1. i \in Int /\ i < n
      BY <1>2 DEF n
    <3> QED
      BY <1>3, <3>1
  <2>2. w = [k \in 1..(m + z) |-> IF k <= m THEN <<c, i + k>> ELSE <<d, k - m>>]
    BY <1>2 DEF Rest
  <2> HIDE DEF m, z
  <2>3. w[1] = <<c, i + 1>> /\ Len(w) = m + z
    BY <2>1, <2>2
  <2> QED
    BY <2>3 DEF m, z
<1>5. Vendor!FeedUnit(a, w[1]) = {b}
  BY <1>2, <1>3, <1>4, FeedAlong
<1>6. b.out = out /\ out \in Seq(Vendor!Commands)
  BY <1>3 DEF At
<1>7. [k \in 1..(Len(w) - 1) |-> w[k + 1]] = Rest(c, i + 1, d)
  <2> DEFINE x == [k \in 1..(Len(w) - 1) |-> w[k + 1]]
             y == Rest(c, i + 1, d)
  <2>1. Len(w) - 1 = n - (i + 1) + SizeOf(d)
    <3> HIDE DEF n
    <3>1. i \in Int
      OBVIOUS
    <3> QED
      BY <1>3, <1>4, <3>1
  <2>2. ASSUME NEW k \in 1..(Len(w) - 1) PROVE x[k] = y[k]
    <3>1. k + 1 \in 1..(n - i + SizeOf(d)) /\ k \in 1..(n - (i + 1) + SizeOf(d))
      BY <1>2, <1>3, <1>4, <2>1
    <3>2. w[k + 1] = IF k + 1 <= n - i THEN <<c, i + (k + 1)>> ELSE <<d, (k + 1) - (n - i)>>
      BY <1>2, <3>1 DEF Rest
    <3>3. y[k] = IF k <= n - (i + 1) THEN <<c, (i + 1) + k>> ELSE <<d, k - (n - (i + 1))>>
      BY <3>1 DEF Rest
    <3>4. (k + 1 <= n - i <=> k <= n - (i + 1)) /\ i + (k + 1) = (i + 1) + k
          /\ (k + 1) - (n - i) = k - (n - (i + 1))
      <4>1. i \in Nat /\ k \in Nat /\ n \in Nat
        BY <1>3, <3>1
      <4> HIDE DEF n
      <4> QED
        BY <4>1
    <3> HIDE DEF y, n
    <3> QED
      BY <3>2, <3>3, <3>4
  <2>3. x = [k \in 1..(Len(w) - 1) |-> x[k]] /\ y = [k \in 1..(Len(w) - 1) |-> y[k]]
    BY <2>1 DEF Rest
  <2> HIDE DEF x, y
  <2>4. x = y
    BY <2>2, <2>3
  <2> QED
    BY <2>4 DEF x, y
<1>8. out \o later = a.out \o owed
  <2> DEFINE o == a.out
  <2>0. o \in Seq(Vendor!Commands) /\ Owes(c) \in Seq(Vendor!Commands) /\ Owes(d) \in Seq(Vendor!Commands)
    BY OwesFacts
  <2>1. CASE i + 1 = n /\ c # "over"
    <3>1. Owes(c) = <<c>>
      BY <2>1 DEF Owes
    <3>2. out \o later = Append(o, c) \o (<<>> \o Owes(d))
      <4>1. out = Append(o, c) /\ later = <<>> \o Owes(d)
        <5>1. ~(i + 1 < n)
          BY <1>3, <2>1
        <5> QED
          BY <2>1, <5>1
      <4> HIDE DEF out, later, o
      <4> QED
        BY <4>1
    <3> HIDE DEF o
    <3>3. Append(o, c) = o \o <<c>>
      BY <1>3, <2>0, AppendIsConcat
    <3>4. (o \o <<c>>) \o Owes(d) = o \o (<<c>> \o Owes(d))
      BY <1>3, <2>0
    <3> QED
      BY <1>2, <2>0, <3>1, <3>2, <3>3, <3>4, OwesFacts DEF o
  <2>2. CASE i + 1 = n /\ c = "over"
    BY <1>2, <1>3, <2>2 DEF Owes
  <2>3. CASE i + 1 # n
    <3>1. out = a.out /\ later = Owes(c) \o Owes(d)
      <4>1. i + 1 < n
        BY <1>2, <1>3, <2>3
      <4> QED
        BY <2>3, <4>1
    <3> HIDE DEF out, later
    <3> QED
      BY <1>2, <3>1
  <2> QED
    BY <2>1, <2>2, <2>3
<1>9. Agree(b, [k \in 1..(Len(w) - 1) |-> w[k + 1]], later)
  <2>1. i + 1 \in 0..n /\ b = At(c, i + 1, b.out)
    BY <1>2, <1>3, <1>6
  <2>2. Agree(b, Rest(c, i + 1, d), later)
    <3> HIDE DEF b
    <3> QED
      BY <1>1, <2>1 DEF Agree
  <2> QED
    BY <1>7, <2>2
<1> HIDE DEF b, later, out
<1> QED
  BY <1>5, <1>6, <1>8, <1>9 DEF MovesOn

\* Unit after unit.
Feeds(run, n) ==
  run = [k \in 0..n |-> IF k = 0 THEN {Vendor!Start}
                        ELSE UNION {Vendor!FeedUnit(a, wire[k]) : a \in run[k - 1]}]

LEMMA FeedsExist ==
  ASSUME NEW K \in Nat
  PROVE  \E run : Feeds(run, K)
<1> DEFINE S == {n \in 0..K : \E run : Feeds(run, n)}
           Fed(A, k) == UNION {Vendor!FeedUnit(a, wire[k]) : a \in A}
<1>1. 0 \in S
  <2>1. Feeds([k \in 0..0 |-> {Vendor!Start}], 0)
    BY DEF Feeds
  <2> QED
    BY <2>1
<1>2. ASSUME NEW n \in 1..K, n - 1 \in S
      PROVE  n \in S
  <2>1. PICK r : Feeds(r, n - 1)
    BY <1>2
  <2> DEFINE last == Fed(r[n - 1], n)
             s == [k \in 0..n |-> IF k = n THEN last ELSE r[k]]
             t == [k \in 0..n |-> IF k = 0 THEN {Vendor!Start} ELSE Fed(s[k - 1], k)]
  <2>2. \A k \in 0..(n - 1) : s[k] = r[k]
    OBVIOUS
  <2>3. ASSUME NEW k \in 0..n PROVE s[k] = t[k]
    <3>1. CASE k = 0
      <4>1. r[0] = {Vendor!Start}
        BY <2>1 DEF Feeds
      <4> QED
        BY <2>2, <3>1, <4>1
    <3>2. CASE k # 0 /\ k # n
      <4>1. k - 1 \in 0..(n - 1) /\ k \in 0..(n - 1)
        BY <3>2
      <4>2. r[k] = Fed(r[k - 1], k)
        BY <2>1, <3>2, <4>1 DEF Feeds
      <4>3. s[k] = r[k] /\ s[k - 1] = r[k - 1]
        BY <2>2, <4>1
      <4>4. t[k] = Fed(s[k - 1], k)
        BY <3>2
      <4> HIDE DEF s, t, Fed
      <4> QED
        BY <4>2, <4>3, <4>4
    <3>3. CASE k = n
      <4>1. s[n - 1] = r[n - 1] /\ s[n] = last
        BY <2>2
      <4>2. t[n] = Fed(s[n - 1], n)
        <5>1. n \in 0..n /\ n # 0
          OBVIOUS
        <5> HIDE DEF s, Fed
        <5> QED
          BY <5>1
      <4> HIDE DEF s, t, Fed
      <4> QED
        BY <3>3, <4>1, <4>2
    <3> QED
      BY <3>1, <3>2, <3>3
  <2>4. s = t
    <3>1. s = [k \in 0..n |-> s[k]] /\ t = [k \in 0..n |-> t[k]]
      OBVIOUS
    <3> HIDE DEF s, t
    <3> QED
      BY <2>3, <3>1
  <2>5. Feeds(s, n)
    BY <2>4 DEF Feeds
  <2> QED
    BY <1>2, <2>5
<1> HIDE DEF S
<1>3. K \in S
  BY <1>1, <1>2, Climbs
<1> QED
  BY <1>3 DEF S

\* The assembler as the fragments of a feed leave it, one unit at a time.
LEMMA FedSteps ==
  ASSUME NEW n \in Nat
  PROVE  \E run : /\ Vendor!Fed(n) = run[n] /\ run[0] = {Vendor!Start}
                  /\ \A k \in 1..n : run[k] = UNION {Vendor!FeedUnit(a, wire[k]) : a \in run[k - 1]}
<1> DEFINE g == CHOOSE f : Feeds(f, n)
<1>1. Feeds(g, n)
  BY FeedsExist
<1>2. Vendor!Fed(n) = g[n]
  BY DEF Vendor!Fed, Feeds
<1> HIDE DEF g
<1>3. g[0] = {Vendor!Start}
  BY <1>1 DEF Feeds
<1>4. ASSUME NEW k \in 1..n PROVE g[k] = UNION {Vendor!FeedUnit(a, wire[k]) : a \in g[k - 1]}
  <2>1. k \in 0..n /\ k # 0
    OBVIOUS
  <2> QED
    BY <1>1, <2>1 DEF Feeds
<1> QED
  BY <1>2, <1>3, <1>4

Places == Vendor!Commands \X Nat

\* What is left of the wire.
After(k) == [j \in 1..(Len(wire) - k) |-> wire[j + k]]

\* A feed of n units has one outcome, which agrees with what is left.
LEMMA AgreeFed ==
  ASSUME Agree(Vendor!Start, wire, due), wire \in Seq(Places), NEW n \in 0..Len(wire), NEW a \in Vendor!Fed(n)
  PROVE  \E later : /\ Agree(a, After(n), later) /\ a.out \in Seq(Vendor!Commands)
                    /\ a.out \o later = due
<1>1. PICK run : /\ Vendor!Fed(n) = run[n] /\ run[0] = {Vendor!Start}
                 /\ \A k \in 1..n : run[k] = UNION {Vendor!FeedUnit(x, wire[k]) : x \in run[k - 1]}
  <2>1. n \in Nat
    OBVIOUS
  <2> QED
    BY <2>1, FedSteps
<1>0. Len(wire) \in Nat
  OBVIOUS
<1> DEFINE Good(k, b, later) == /\ Agree(b, After(k), later) /\ b.out \in Seq(Vendor!Commands)
                                /\ b.out \o later = due
           S == {k \in 0..n : \E b, later : run[k] = {b} /\ Good(k, b, later)}
<1>2. 0 \in S
  <2>1. Vendor!Start.out = <<>>
    BY DEF Vendor!Start, Vendor!Nothing
  <2>2. After(0) = wire
    BY DEF After
  <2>3. due \in Seq(Vendor!Commands)
    BY AgreeOwes
  <2>4. <<>> \o due = due
    BY <2>3
  <2>5. Good(0, Vendor!Start, due)
    BY <2>1, <2>2, <2>4
  <2>6. run[0] = {Vendor!Start} /\ 0 \in 0..n
    BY <1>1
  <2> HIDE DEF Good
  <2> QED
    BY <2>5, <2>6
<1>3. ASSUME NEW k \in 1..n, k - 1 \in S
      PROVE  k \in S
  <2>1. PICK b, later : run[k - 1] = {b} /\ Good(k - 1, b, later)
    BY <1>3
  <2> DEFINE w == After(k - 1)
  <2>2. w # <<>> /\ w[1] = wire[k] /\ Len(w) = Len(wire) - (k - 1)
    <3>1. k \in Nat /\ 1 <= k /\ k <= Len(wire)
      BY <1>0
    <3>2. 1 \in 1..(Len(wire) - (k - 1)) /\ Len(wire) - (k - 1) \in Nat
      BY <1>0, <3>1
    <3>3. w[1] = wire[1 + (k - 1)] /\ Len(w) = Len(wire) - (k - 1)
      BY <3>2 DEF After
    <3>4. 1 + (k - 1) = k
      BY <3>1
    <3>5. w # <<>>
      <4>1. DOMAIN w = 1..(Len(wire) - (k - 1))
        BY DEF After
      <4>2. 1 \in DOMAIN w /\ 1 \notin DOMAIN <<>>
        BY <3>2, <4>1
      <4> QED
        BY <4>2
    <3> QED
      BY <3>3, <3>4, <3>5
  <2>21. Agree(b, w, later) /\ b.out \in Seq(Vendor!Commands)
    BY <2>1
  <2>3. PICK c, rest : /\ Vendor!FeedUnit(b, w[1]) = {c} /\ c.out \in Seq(Vendor!Commands)
                       /\ Agree(c, [j \in 1..(Len(w) - 1) |-> w[j + 1]], rest)
                       /\ c.out \o rest = b.out \o later
    <3> HIDE DEF w
    <3>1. MovesOn(b, w, later)
      BY <2>21, <2>2, AgreeStep
    <3> QED
      BY <3>1 DEF MovesOn
  <2>4. [j \in 1..(Len(w) - 1) |-> w[j + 1]] = After(k)
    <3>1. Len(w) - 1 = Len(wire) - k
      BY <2>2
    <3>2. ASSUME NEW j \in 1..(Len(wire) - k) PROVE w[j + 1] = wire[j + k]
      <4>1. j + 1 \in 1..(Len(wire) - (k - 1)) /\ (j + 1) + (k - 1) = j + k
        OBVIOUS
      <4> QED
        BY <4>1 DEF After
    <3> HIDE DEF w
    <3> QED
      BY <3>1, <3>2 DEF After
  <2>5. run[k] = {c}
    <3>1. run[k] = UNION {Vendor!FeedUnit(x, wire[k]) : x \in {b}}
      BY <1>1, <2>1
    <3> QED
      BY <2>2, <2>3, <3>1
  <2>6. Good(k, c, rest)
    BY <2>1, <2>3, <2>4
  <2> QED
    BY <2>5, <2>6
<1> HIDE DEF S
<1>4. n \in S
  <2>1. \A k \in 1..n : k - 1 \in S => k \in S
    BY <1>3
  <2>2. n \in Nat /\ n \in 0..n
    OBVIOUS
  <2>3. \A k \in 0..n : k \in S
    BY <1>2, <2>1, <2>2, Climbs
  <2> QED
    BY <2>2, <2>3
<1> QED
  BY <1>1, <1>4 DEF S

\* What the assembler holds, agreed or not: part of a header, or of a command that fits.
Holds(a) ==
  /\ a = [bytes |-> a.bytes, expected |-> a.expected, discard |-> a.discard, out |-> a.out]
  /\ a.bytes \in Seq(Places) /\ a.expected \in 0..maxCommand
  /\ IF a.expected = 0 THEN Len(a.bytes) < headSize
     ELSE headSize <= Len(a.bytes) /\ Len(a.bytes) < a.expected

LEMMA DispatchHolds ==
  ASSUME NEW bs \in Seq(Places), NEW e \in 0..maxCommand, NEW d, NEW out,
         IF e = 0 THEN Len(bs) < headSize ELSE headSize <= Len(bs) /\ Len(bs) <= e
  PROVE  Holds(Vendor!Dispatch([bytes |-> bs, expected |-> e, discard |-> d, out |-> out]))
<1> DEFINE a == [bytes |-> bs, expected |-> e, discard |-> d, out |-> out]
           whole == [bytes |-> <<>>, expected |-> 0, discard |-> 0, out |-> Append(out, Vendor!Whole(bs))]
<1>0. a.bytes = bs /\ a.expected = e /\ a.out = out /\ a.discard = d /\ Len(bs) \in Nat
  OBVIOUS
<1>1. CASE e # 0 /\ Len(bs) = e
  <2>1. Vendor!Dispatch(a) = [Vendor!Nothing EXCEPT !.out = Append(out, Vendor!Whole(bs))]
    BY <1>0, <1>1 DEF Vendor!Dispatch
  <2>2. Vendor!Dispatch(a) = whole
    BY <2>1 DEF Vendor!Nothing
  <2>3. <<>> \in Seq(Places) /\ 0 \in 0..maxCommand /\ Len(<<>>) < headSize
    BY VendorAssumption DEF VendorAssumption
  <2>4. Holds(whole)
    BY <2>3 DEF Holds
  <2> QED
    BY <2>2, <2>4
<1>2. CASE ~(e # 0 /\ Len(bs) = e)
  <2>1. Vendor!Dispatch(a) = a
    BY <1>0, <1>2 DEF Vendor!Dispatch
  <2>2. Holds(a)
    BY <1>0, <1>2 DEF Holds
  <2> QED
    BY <2>1, <2>2
<1> QED
  BY <1>1, <1>2

\* What a header says, and nothing says less than its own size.
LEMMA HeadersFacts ==
  ASSUME NEW b, NEW h \in Vendor!Headers(b)
  PROVE  h[2] \in Nat /\ headSize <= h[2]
<1>1. CASE \E c \in Vendor!Commands : b = SubSeq(Vendor!Units(c), 1, headSize)
  <2>1. PICK c \in Vendor!Commands : b = SubSeq(Vendor!Units(c), 1, headSize)
    BY <1>1
  <2>2. headSize \in 0..Vendor!Sizes[c] /\ Vendor!Sizes[c] \in Nat /\ headSize <= Vendor!Sizes[c]
    BY SizeFacts
  <2>3. b = Opening(c, headSize)
    BY <2>1, <2>2, FirstUnits
  <2>4. h = <<c # "bad", Vendor!Sizes[c]>>
    BY <2>3, HeaderFacts
  <2> QED
    BY <2>2, <2>4
<1>2. CASE ~\E c \in Vendor!Commands : b = SubSeq(Vendor!Units(c), 1, headSize)
  <2>1. h \in {<<TRUE, headSize>>, <<TRUE, maxCommand>>, <<TRUE, maxCommand + 1>>, <<FALSE, headSize>>}
    BY <1>2 DEF Vendor!Headers
  <2>2. h[2] \in {headSize, maxCommand, maxCommand + 1}
    <3>1. /\ <<TRUE, headSize>>[2] = headSize /\ <<TRUE, maxCommand>>[2] = maxCommand
          /\ <<TRUE, maxCommand + 1>>[2] = maxCommand + 1 /\ <<FALSE, headSize>>[2] = headSize
      OBVIOUS
    <3> QED
      BY <2>1, <3>1
  <2> QED
    BY <2>2, SizeFacts
<1> QED
  BY <1>1, <1>2

LEMMA FeedHolds ==
  ASSUME NEW a, Holds(a), NEW u \in Places, NEW next \in Vendor!FeedUnit(a, u)
  PROVE  Holds(next)
<1> DEFINE b == [a EXCEPT !.bytes = Append(@, u)]
<1>0. headSize \in Nat \ {0} /\ maxCommand \in Nat /\ headSize < maxCommand
  BY SizeFacts
<1>1. CASE a.discard # 0
  <2>1. next = [a EXCEPT !.discard = @ - 1]
    BY <1>1 DEF Vendor!FeedUnit
  <2>2. next = [bytes |-> a.bytes, expected |-> a.expected, discard |-> a.discard - 1, out |-> a.out]
    BY <2>1 DEF Holds
  <2>3. next.bytes = a.bytes /\ next.expected = a.expected /\ next.discard = a.discard - 1
        /\ next.out = a.out
    BY <2>2
  <2>4. next = [bytes |-> next.bytes, expected |-> next.expected, discard |-> next.discard,
                out |-> next.out]
    BY <2>2, <2>3
  <2> QED
    BY <2>3, <2>4 DEF Holds
<1>2. CASE a.discard = 0
  <2>1. b = [bytes |-> Append(a.bytes, u), expected |-> a.expected, discard |-> a.discard, out |-> a.out]
    BY DEF Holds
  <2> DEFINE bs == Append(a.bytes, u)
  <2>2. bs \in Seq(Places) /\ Len(bs) = Len(a.bytes) + 1 /\ Len(a.bytes) \in Nat
    BY DEF Holds
  <2>3. /\ b.bytes = bs /\ b.expected = a.expected
        /\ next \in IF b.expected # 0 \/ Len(b.bytes) < headSize THEN {Vendor!Dispatch(b)}
                    ELSE {Vendor!Dispatch(Vendor!Announced(b, h[1], h[2])) : h \in Vendor!Headers(b.bytes)}
    BY <1>2, <2>1 DEF Vendor!FeedUnit
  <2> HIDE DEF b, bs
  <2>4. CASE a.expected # 0 \/ Len(bs) < headSize
    <3>1. IF a.expected = 0 THEN Len(bs) < headSize ELSE headSize <= Len(bs) /\ Len(bs) <= a.expected
      BY <1>0, <2>2, <2>4 DEF Holds
    <3>2. next = Vendor!Dispatch(b)
      BY <2>3, <2>4
    <3>3. a.expected \in 0..maxCommand
      BY DEF Holds
    <3> QED
      BY <2>1, <2>2, <3>1, <3>2, <3>3, DispatchHolds DEF bs
  <2>5. CASE a.expected = 0 /\ Len(bs) >= headSize
    <3>1. PICK h \in Vendor!Headers(bs) : next = Vendor!Dispatch(Vendor!Announced(b, h[1], h[2]))
      BY <1>0, <2>2, <2>3, <2>5
    <3>2. h[2] \in Nat /\ headSize <= h[2] /\ Len(bs) = headSize
      BY <1>0, <2>2, <2>5, HeadersFacts DEF Holds
    <3>3. b = [bytes |-> bs, expected |-> 0, discard |-> a.discard, out |-> a.out]
      BY <2>1, <2>5 DEF bs
    <3>4. CASE h[1] /\ h[2] <= maxCommand
      <4>1. Vendor!Announced(b, h[1], h[2]) = [bytes |-> bs, expected |-> h[2], discard |-> a.discard, out |-> a.out]
        BY <3>3, <3>4 DEF Vendor!Announced
      <4>2. h[2] \in 0..maxCommand /\ h[2] # 0
        BY <1>0, <3>2, <3>4
      <4> QED
        BY <2>2, <3>1, <3>2, <4>1, <4>2, DispatchHolds
    <3>5. CASE ~(h[1] /\ h[2] <= maxCommand)
      <4>1. PICK d : Vendor!Announced(b, h[1], h[2]) = [b EXCEPT !.bytes = <<>>, !.discard = d]
        BY <3>5 DEF Vendor!Announced
      <4>2. Vendor!Announced(b, h[1], h[2]) = [bytes |-> <<>>, expected |-> 0, discard |-> d, out |-> a.out]
        BY <3>3, <4>1
      <4>3. <<>> \in Seq(Places) /\ 0 \in 0..maxCommand /\ Len(<<>>) < headSize
        BY <1>0
      <4> QED
        BY <3>1, <4>2, <4>3, DispatchHolds
    <3> QED
      BY <3>4, <3>5
  <2> QED
    BY <1>0, <2>2, <2>4, <2>5 DEF Holds
<1> QED
  BY <1>1, <1>2

LEMMA HoldsFed ==
  ASSUME Holds(Vendor!Start), wire \in Seq(Places), NEW n \in 0..Len(wire), NEW a \in Vendor!Fed(n)
  PROVE  Holds(a)
<1>1. PICK run : /\ Vendor!Fed(n) = run[n] /\ run[0] = {Vendor!Start}
                 /\ \A k \in 1..n : run[k] = UNION {Vendor!FeedUnit(x, wire[k]) : x \in run[k - 1]}
  <2>1. n \in Nat
    OBVIOUS
  <2> QED
    BY <2>1, FedSteps
<1> DEFINE S == {k \in 0..n : \A b \in run[k] : Holds(b)}
<1>2. 0 \in S
  BY <1>1
<1>3. ASSUME NEW k \in 1..n, k - 1 \in S PROVE k \in S
  <2>1. wire[k] \in Places
    OBVIOUS
  <2>2. ASSUME NEW b \in run[k] PROVE Holds(b)
    <3>1. PICK x \in run[k - 1] : b \in Vendor!FeedUnit(x, wire[k])
      BY <1>1
    <3> QED
      BY <1>3, <2>1, <3>1, FeedHolds
  <2> QED
    BY <2>2
<1> HIDE DEF S
<1>4. n \in S
  <2>1. \A k \in 1..n : k - 1 \in S => k \in S
    BY <1>3
  <2>2. n \in Nat /\ n \in 0..n
    OBVIOUS
  <2>3. \A k \in 0..n : k \in S
    BY <1>2, <2>1, <2>2, Climbs
  <2> QED
    BY <2>2, <2>3
<1> QED
  BY <1>1, <1>4 DEF S

Assembler == [bytes |-> bytes, expected |-> expected, discard |-> discard, out |-> <<>>]

\* The pipe, and what it feeds.
PipeFacts ==
  /\ wire \in Seq(Places) /\ fresh \in BOOLEAN /\ synced \in BOOLEAN
  /\ Holds(Assembler)
  /\ synced => Agree(Vendor!Start, wire, due)
  /\ ~missed

\* The port and the file.
PortFacts ==
  /\ port = [streaming |-> port.streaming, mask |-> port.mask, enabled |-> port.enabled]
  /\ port.enabled \subseteq asked
  /\ disk = [main |-> disk.main, tmp |-> disk.tmp] /\ disk.main \in {"none", "record"}

VendorIInv == PipeFacts /\ PortFacts

LEMMA StartFacts ==
  ASSUME fresh \in BOOLEAN
  PROVE  /\ fresh => Vendor!Start = Vendor!Nothing
         /\ ~fresh => Vendor!Start = Assembler
BY DEF Vendor!Start, Assembler

\* Between two commands, with nothing to come and nothing due.
LEMMA NothingAgrees ==
  /\ Agree(Vendor!Nothing, <<>>, <<>>) /\ Holds(Vendor!Nothing)
  /\ Vendor!Nothing = [bytes |-> <<>>, expected |-> 0, discard |-> 0, out |-> <<>>]
<1> DEFINE n == Vendor!Sizes["start"]
<1>1. "start" \in Known /\ n \in Nat /\ 0 < n /\ headSize <= n /\ headSize \in Nat \ {0} /\ maxCommand \in Nat
  BY SizeFacts DEF Known
<1>2. Vendor!Nothing = [bytes |-> <<>>, expected |-> 0, discard |-> 0, out |-> <<>>]
  BY DEF Vendor!Nothing
<1>3. At("start", n, <<>>) = Vendor!Nothing
  BY <1>1, <1>2 DEF At
<1>4. Rest("start", n, "none") = <<>>
  <2>1. "none" \notin Known
    BY SizeFacts DEF Known
  <2>2. n - n + SizeOf("none") = 0
    BY <1>1, <2>1 DEF SizeOf
  <2>3. Rest("start", n, "none") = [k \in 1..0 |-> IF k <= n - n THEN <<"start", n + k>> ELSE <<"none", k - (n - n)>>]
    BY <2>2 DEF Rest
  <2> QED
    BY <2>3
<1>5. (IF n < n THEN Owes("start") ELSE <<>>) \o Owes("none") = <<>>
  BY <1>1, OwesFacts
<1>6. Agree(Vendor!Nothing, <<>>, <<>>)
  <2>1. Vendor!Nothing.out = <<>> /\ n \in 0..n
    BY <1>1, <1>2
  <2> HIDE DEF n
  <2> QED
    BY <1>1, <1>3, <1>4, <1>5, <2>1 DEF Agree, n
<1>7. Holds(Vendor!Nothing)
  <2>1. <<>> \in Seq(Places) /\ 0 \in 0..maxCommand /\ Len(<<>>) < headSize
    BY <1>1
  <2> QED
    BY <1>2, <2>1 DEF Holds
<1> QED
  BY <1>2, <1>6, <1>7

\* A command is added behind what is left of one that is on the way.
LEMMA SendAgrees ==
  ASSUME NEW a, NEW owed, Agree(a, wire, owed), Len(wire) < headSize, NEW e \in Known
  PROVE  Agree(a, wire \o Vendor!Units(e), owed \o Owes(e))
<1>1. PICK c \in Known, d \in Known \union {"none"} : \E i \in 0..Vendor!Sizes[c] :
        /\ a = At(c, i, a.out)
        /\ wire = Rest(c, i, d)
        /\ owed = (IF i < Vendor!Sizes[c] THEN Owes(c) ELSE <<>>) \o Owes(d)
  BY DEF Agree
<1>2. PICK i \in 0..Vendor!Sizes[c] :
        /\ a = At(c, i, a.out)
        /\ wire = Rest(c, i, d)
        /\ owed = (IF i < Vendor!Sizes[c] THEN Owes(c) ELSE <<>>) \o Owes(d)
  BY <1>1
<1> DEFINE n == Vendor!Sizes[c]
           m == Vendor!Sizes[e]
           mine == IF i < n THEN Owes(c) ELSE <<>>
<1>3. n \in Nat /\ SizeOf(d) \in Nat /\ m \in Nat /\ headSize \in Nat
      /\ (d \in Known => headSize <= SizeOf(d))
  BY SizeFacts DEF Known, SizeOf
<1>4. Len(wire) = n - i + SizeOf(d) /\ i \in 0..n
  BY <1>2, <1>3 DEF Rest
<1>5. d = "none"
  BY <1>3, <1>4
<1>6. SizeOf(d) = 0 /\ SizeOf(e) = m
  <2>1. "none" \notin Known
    BY SizeFacts DEF Known
  <2> QED
    BY <1>5, <2>1 DEF SizeOf
<1>7. wire = [k \in 1..(n - i) |-> <<c, i + k>>]
  <2>1. Rest(c, i, d) = [k \in 1..(n - i) |-> IF k <= n - i THEN <<c, i + k>> ELSE <<d, k - (n - i)>>]
    BY <1>3, <1>4, <1>6 DEF Rest
  <2> HIDE DEF n
  <2> QED
    BY <1>2, <2>1
<1>8. wire \o Vendor!Units(e) = Rest(c, i, e)
  <2>1. Vendor!Units(e) = [k \in 1..m |-> <<e, k>>]
    BY DEF Vendor!Units
  <2>2. Rest(c, i, e) = [k \in 1..(n - i + m) |-> IF k <= n - i THEN <<c, i + k>> ELSE <<e, k - (n - i)>>]
    BY <1>6 DEF Rest
  <2> HIDE DEF n, m
  <2>3. n - i \in Nat
    BY <1>3, <1>4
  <2>4. [k \in 1..(n - i) |-> <<c, i + k>>] \o [k \in 1..m |-> <<e, k>>]
          = [k \in 1..(n - i + m) |-> IF k <= n - i THEN <<c, i + k>> ELSE <<e, k - (n - i)>>]
    BY <1>3, <2>3
  <2> QED
    BY <1>7, <2>1, <2>2, <2>4
<1>9. owed \o Owes(e) = mine \o Owes(e)
  <2>1. owed = mine \o <<>>
    BY <1>2, <1>5, OwesFacts
  <2>2. mine \in Seq(Vendor!Commands)
    BY OwesFacts
  <2> HIDE DEF mine
  <2> QED
    BY <2>1, <2>2
<1> HIDE DEF n, m
<1> QED
  BY <1>1, <1>2, <1>8, <1>9 DEF Agree, n

LEMMA VendorInit == Vendor!Init => VendorIInv
<1> SUFFICES ASSUME Vendor!Init PROVE VendorIInv
  OBVIOUS
<1>1. Vendor!Start = Vendor!Nothing /\ Assembler = Vendor!Nothing
  BY NothingAgrees DEF Vendor!Init, Vendor!Start, Assembler
<1>2. wire = <<>> /\ due = <<>> /\ wire \in Seq(Places) /\ fresh \in BOOLEAN /\ synced \in BOOLEAN /\ ~missed
  BY DEF Vendor!Init
<1>3. /\ port = [streaming |-> port.streaming, mask |-> port.mask, enabled |-> port.enabled]
      /\ port.enabled \subseteq asked
  BY DEF Vendor!Init, Vendor!NewPort
<1>4. disk = [main |-> disk.main, tmp |-> disk.tmp] /\ disk.main \in {"none", "record"}
  BY DEF Vendor!Init
<1> QED
  BY <1>1, <1>2, <1>3, <1>4, NothingAgrees DEF VendorIInv, PipeFacts, PortFacts

\* A step that leaves the pipe alone, and one that empties it.
LEMMA PipeKept ==
  ASSUME PipeFacts, UNCHANGED Vendor!stream
  PROVE  PipeFacts'
BY DEF PipeFacts, Vendor!stream, Vendor!assembler, Assembler, Vendor!Start

LEMMA PipeCleared ==
  ASSUME PipeFacts, wire' = <<>>, due' = <<>>, fresh', fresh' \in BOOLEAN, synced', synced' \in BOOLEAN,
         missed' = missed, Assembler' = Assembler \/ Assembler' = Vendor!Nothing
  PROVE  PipeFacts'
<1>1. Vendor!Start' = Vendor!Nothing
  BY DEF Vendor!Start
<1>2. Holds(Assembler')
  BY NothingAgrees DEF PipeFacts
<1> QED
  BY <1>1, <1>2, NothingAgrees DEF PipeFacts

LEMMA SendStep ==
  ASSUME VendorIInv, Vendor!Send
  PROVE  PipeFacts'
<1>1. PICK c \in Vendor!Commands :
        /\ wire' = wire \o Vendor!Units(c)
        /\ due' = IF c \in {"over", "bad"} THEN due ELSE Append(due, c)
        /\ synced' = (synced /\ c # "bad")
  BY DEF Vendor!Send
<1>2. Len(wire) < headSize /\ UNCHANGED <<bytes, expected, discard, fresh, missed>>
  BY DEF Vendor!Send, Vendor!assembler
<1>3. PipeFacts
  BY DEF VendorIInv
<1>4. wire' \in Seq(Places)
  <2>1. Vendor!Sizes[c] \in Nat
    BY SizeFacts
  <2>2. Vendor!Units(c) \in Seq(Places)
    BY <2>1 DEF Vendor!Units, Places
  <2> QED
    BY <1>1, <1>3, <2>2 DEF PipeFacts
<1>5. Vendor!Start' = Vendor!Start /\ Assembler' = Assembler
  BY <1>2 DEF Vendor!Start, Assembler
<1>6. ASSUME synced' PROVE Agree(Vendor!Start, wire', due')
  <2>1. c \in Known /\ synced
    BY <1>1, <1>6 DEF Known
  <2>2. Agree(Vendor!Start, wire, due)
    BY <1>3, <2>1 DEF PipeFacts
  <2>3. Agree(Vendor!Start, wire \o Vendor!Units(c), due \o Owes(c))
    BY <1>2, <2>1, <2>2, SendAgrees
  <2>4. due \in Seq(Vendor!Commands)
    BY <2>2, AgreeOwes
  <2>5. due' = due \o Owes(c)
    <3>1. CASE c = "over"
      BY <1>1, <2>4, <3>1 DEF Owes
    <3>2. CASE c # "over"
      <4>1. due' = Append(due, c) /\ Owes(c) = <<c>>
        BY <1>1, <2>1, <3>2 DEF Owes, Known
      <4> QED
        BY <2>4, <4>1, AppendIsConcat
    <3> QED
      BY <3>1, <3>2
  <2> QED
    BY <1>1, <2>3, <2>5
<1>7. synced' \in BOOLEAN
  BY <1>1, <1>3 DEF PipeFacts
<1> QED
  BY <1>2, <1>3, <1>4, <1>5, <1>6, <1>7 DEF PipeFacts

LEMMA FeedStep ==
  ASSUME VendorIInv, Vendor!Feed
  PROVE  PipeFacts'
<1>1. PICK n \in 1..(IF Len(wire) < packetSize THEN Len(wire) ELSE packetSize) :
        \E a \in Vendor!Fed(n) :
          /\ wire' = SubSeq(wire, n + 1, Len(wire))
          /\ bytes' = a.bytes /\ expected' = a.expected /\ discard' = a.discard /\ fresh' = FALSE
          /\ IF synced
             THEN /\ missed' = (missed \/ ~Vendor!IsPrefix(a.out, due) \/ (wire' = <<>> /\ a.out # due))
                  /\ due' = IF Vendor!IsPrefix(a.out, due) THEN SubSeq(due, Len(a.out) + 1, Len(due)) ELSE <<>>
             ELSE UNCHANGED <<missed, due>>
  BY DEF Vendor!Feed
<1>2. PICK a \in Vendor!Fed(n) :
        /\ wire' = SubSeq(wire, n + 1, Len(wire))
        /\ bytes' = a.bytes /\ expected' = a.expected /\ discard' = a.discard /\ fresh' = FALSE
        /\ IF synced
           THEN /\ missed' = (missed \/ ~Vendor!IsPrefix(a.out, due) \/ (wire' = <<>> /\ a.out # due))
                /\ due' = IF Vendor!IsPrefix(a.out, due) THEN SubSeq(due, Len(a.out) + 1, Len(due)) ELSE <<>>
           ELSE UNCHANGED <<missed, due>>
  BY <1>1
<1>3. PipeFacts /\ synced' = synced
  BY DEF VendorIInv, Vendor!Feed
<1>4. Len(wire) \in Nat /\ n \in 0..Len(wire)
  BY <1>1, <1>3, VendorAssumption DEF VendorAssumption, PipeFacts
<1>5. wire' \in Seq(Places) /\ wire' = After(n)
  <2>1. wire \in Seq(Places)
    BY <1>3 DEF PipeFacts
  <2>2. SubSeq(wire, n + 1, Len(wire)) \in Seq(Places)
    BY <1>4, <2>1
  <2>3. SubSeq(wire, n + 1, Len(wire)) = After(n)
    BY <1>4, <2>1 DEF After
  <2> QED
    BY <1>2, <2>2, <2>3
<1>6. Holds(Vendor!Start)
  BY <1>3, StartFacts, NothingAgrees DEF PipeFacts
<1>7. Holds(a)
  BY <1>3, <1>4, <1>6, HoldsFed DEF PipeFacts
<1>8. Assembler' = [bytes |-> a.bytes, expected |-> a.expected, discard |-> a.discard, out |-> <<>>]
  BY <1>2 DEF Assembler
<1>9. Holds(Assembler')
  BY <1>7, <1>8 DEF Holds
<1>10. Vendor!Start' = Assembler'
  BY <1>2 DEF Vendor!Start, Assembler
<1>11. CASE synced
  <2>1. PICK later : /\ Agree(a, After(n), later) /\ a.out \in Seq(Vendor!Commands)
                     /\ a.out \o later = due
    BY <1>3, <1>4, <1>11, AgreeFed DEF PipeFacts
  <2>2. later \in Seq(Vendor!Commands)
    BY <2>1, AgreeOwes
  <2>3. Vendor!IsPrefix(a.out, due) /\ SubSeq(due, Len(a.out) + 1, Len(due)) = later
    <3> DEFINE o == a.out
    <3>1. o \in Seq(Vendor!Commands) /\ later \in Seq(Vendor!Commands) /\ due = o \o later
      BY <2>1, <2>2
    <3> HIDE DEF o
    <3>2. Len(due) = Len(o) + Len(later) /\ Len(o) \in Nat /\ Len(later) \in Nat
      BY <3>1
    <3>3. \A k \in 1..Len(o) : due[k] = o[k]
      BY <3>1
    <3>4. SubSeq(o, 1, Len(o)) = SubSeq(due, 1, Len(o))
      <4>1. SubSeq(o, 1, Len(o)) = [k \in 1..Len(o) |-> o[k]]
        BY <3>1, <3>2
      <4>2. SubSeq(due, 1, Len(o)) = [k \in 1..Len(o) |-> due[k]]
        BY <3>1, <3>2
      <4> QED
        BY <3>3, <4>1, <4>2
    <3>5. SubSeq(due, Len(o) + 1, Len(due)) = later
      BY <3>1, <3>2
    <3>6. Len(o) <= Len(due) /\ o = SubSeq(due, 1, Len(o))
      <4>1. o = SubSeq(o, 1, Len(o))
        BY <3>1
      <4> QED
        BY <3>2, <3>4, <4>1
    <3> QED
      BY <3>4, <3>5, <3>6 DEF Vendor!IsPrefix, o
  <2>4. due' = later
    BY <1>2, <1>11, <2>3
  <2>5. wire' = <<>> => later = <<>>
    <3> SUFFICES ASSUME wire' = <<>> PROVE later = <<>>
      OBVIOUS
    <3>1. Agree(a, <<>>, later)
      BY <1>5, <2>1
    <3> QED
      BY <3>1, NothingOwed
  <2>6. wire' = <<>> => a.out = due
    <3>1. a.out \o <<>> = a.out
      BY <2>1
    <3> QED
      BY <2>1, <2>5, <3>1
  <2>7. ~missed'
    BY <1>2, <1>3, <1>11, <2>3, <2>6 DEF PipeFacts
  <2>8. Agree(Vendor!Start', wire', due')
    <3>1. Agree(Assembler', wire', later)
      BY <1>5, <1>8, <2>1, AgreeOut
    <3> QED
      BY <1>10, <2>4, <3>1
  <2> QED
    BY <1>2, <1>3, <1>5, <1>9, <2>7, <2>8 DEF PipeFacts
<1>12. CASE ~synced
  BY <1>2, <1>3, <1>5, <1>9, <1>12 DEF PipeFacts
<1> QED
  BY <1>3, <1>11, <1>12 DEF PipeFacts

LEMMA PauseStep ==
  ASSUME VendorIInv, Vendor!Pause
  PROVE  PipeFacts'
<1>1. /\ ~fresh /\ fresh' = (bytes # <<>> \/ discard # 0)
      /\ due' = IF wire = <<>> THEN <<>> ELSE due
      /\ synced' = (wire = <<>> \/ (synced /\ ~fresh'))
      /\ UNCHANGED <<wire, bytes, expected, discard, missed>>
  BY DEF Vendor!Pause
<1>2. PipeFacts
  BY DEF VendorIInv
<1>3. Assembler' = Assembler
  BY <1>1 DEF Assembler
<1>4. fresh' \in BOOLEAN /\ synced' \in BOOLEAN
  BY <1>1, <1>2 DEF PipeFacts
<1>5. Vendor!Start = Assembler
  BY <1>1, <1>2, StartFacts DEF PipeFacts
<1>6. CASE wire = <<>>
  <2>1. fresh' => Vendor!Start' = Vendor!Nothing
    BY DEF Vendor!Start
  <2>2. ASSUME ~fresh' PROVE Vendor!Start' = Vendor!Nothing
    <3>1. bytes = <<>> /\ discard = 0
      BY <1>1, <2>2
    <3>2. Assembler.expected = 0
      <4>1. Assembler.bytes = <<>> /\ Len(<<>>) = 0 /\ headSize \in Nat \ {0}
        BY <3>1, SizeFacts DEF Assembler
      <4>2. Holds(Assembler)
        BY <1>2 DEF PipeFacts
      <4> HIDE DEF Assembler
      <4> QED
        BY <4>1, <4>2 DEF Holds
    <3>3. expected = 0
      BY <3>2 DEF Assembler
    <3> QED
      BY <1>1, <2>2, <3>1, <3>3, NothingAgrees DEF Vendor!Start
  <2>3. Agree(Vendor!Start', wire', due')
    BY <1>1, <1>6, <2>1, <2>2, NothingAgrees
  <2> QED
    BY <1>1, <1>2, <1>3, <1>4, <2>3 DEF PipeFacts
<1>7. CASE wire # <<>>
  <2>1. ASSUME synced' PROVE Agree(Vendor!Start', wire', due')
    <3>1. synced /\ ~fresh' /\ due' = due
      BY <1>1, <1>7, <2>1
    <3>2. Vendor!Start' = Vendor!Start
      BY <1>1, <3>1 DEF Vendor!Start
    <3> QED
      BY <1>1, <1>2, <3>1, <3>2 DEF PipeFacts
  <2> QED
    BY <1>1, <1>2, <1>3, <1>4, <2>1 DEF PipeFacts
<1> QED
  BY <1>6, <1>7

LEMMA VendorStep ==
  ASSUME VendorIInv, Vendor!Next \/ UNCHANGED Vendor!vars
  PROVE  VendorIInv'
<1> USE DEF VendorIInv
<1>1. CASE Vendor!Send \/ Vendor!GiveUp \/ Vendor!Pause \/ Vendor!Feed
  <2>1. PortFacts'
    BY <1>1 DEF Vendor!Send, Vendor!GiveUp, Vendor!Pause, Vendor!Feed, Vendor!native, Vendor!flash, PortFacts
  <2>2. CASE Vendor!Send
    BY <2>1, <2>2, SendStep
  <2>3. CASE Vendor!Feed
    BY <2>1, <2>3, FeedStep
  <2>4. CASE Vendor!Pause
    BY <2>1, <2>4, PauseStep
  <2>5. CASE Vendor!GiveUp
    <3>1. /\ wire' = <<>> /\ due' = <<>> /\ fresh' \in {fresh, TRUE} /\ synced' = fresh'
          /\ UNCHANGED <<bytes, expected, discard, missed>>
      BY <2>5 DEF Vendor!GiveUp
    <3>2. Assembler' = Assembler
      BY <3>1 DEF Assembler
    <3>3. PipeFacts'
      <4>1. CASE fresh'
        BY <3>1, <3>2, <4>1, PipeCleared DEF PipeFacts
      <4>2. CASE ~fresh'
        <5>1. synced' = FALSE /\ <<>> \in Seq(Places) /\ <<>> \in Seq(Vendor!Commands)
          BY <3>1, <4>2 DEF PipeFacts
        <5>2. Holds(Assembler')
          BY <3>2 DEF PipeFacts
        <5>3. fresh' \in BOOLEAN /\ ~missed'
          BY <3>1 DEF PipeFacts
        <5> QED
          BY <3>1, <4>2, <5>1, <5>2, <5>3 DEF PipeFacts
      <4> QED
        BY <4>1, <4>2
    <3> QED
      BY <2>1, <3>3
  <2> QED
    BY <1>1, <2>2, <2>3, <2>4, <2>5
<1>2. CASE Vendor!Take \/ Vendor!SaveWrite \/ Vendor!SaveRename \/ Vendor!SetPid \/ UNCHANGED Vendor!vars
  <2>1. PipeFacts'
    BY <1>2, PipeKept DEF Vendor!Take, Vendor!SaveWrite, Vendor!SaveRename, Vendor!SetPid, Vendor!vars
  <2>2. PortFacts'
    <3>1. CASE Vendor!Take
      <4>1. PICK c : /\ port' = Vendor!Handled(c)
                     /\ asked' = IF c = "enable" THEN asked \union port.mask ELSE asked
                     /\ disk' = [disk EXCEPT !["tmp"] = "partial"] \/ disk' = disk
        BY <3>1 DEF Vendor!Take, Vendor!flash, Vendor!Target
      <4>2. /\ port' = [streaming |-> port'.streaming, mask |-> port'.mask, enabled |-> port'.enabled]
            /\ port'.enabled \subseteq asked'
        BY <4>1 DEF Vendor!Handled, PortFacts
      <4>3. disk' = [main |-> disk'.main, tmp |-> disk'.tmp] /\ disk'.main = disk.main
        BY <4>1 DEF PortFacts
      <4> QED
        BY <4>2, <4>3 DEF PortFacts
    <3>2. CASE Vendor!SaveWrite
      <4>1. UNCHANGED <<port, asked>> /\ (disk' = [disk EXCEPT !.tmp = cal] \/ disk' = [disk EXCEPT !.tmp = "none"])
        BY <3>2 DEF Vendor!SaveWrite, Vendor!native
      <4>2. disk' = [main |-> disk'.main, tmp |-> disk'.tmp] /\ disk'.main = disk.main
        BY <4>1 DEF PortFacts
      <4> QED
        BY <4>1, <4>2 DEF PortFacts
    <3>3. CASE Vendor!SaveRename
      <4>1. /\ UNCHANGED <<port, asked>> /\ disk.tmp = "record"
            /\ disk' \in {[main |-> disk.tmp, tmp |-> "none"], [disk EXCEPT !.tmp = "none"]}
        BY <3>3 DEF Vendor!SaveRename, Vendor!native
      <4>2. disk' = [main |-> disk'.main, tmp |-> disk'.tmp] /\ disk'.main \in {disk.main, "record"}
        BY <4>1 DEF PortFacts
      <4> QED
        BY <4>1, <4>2 DEF PortFacts
    <3>4. CASE Vendor!SetPid
      <4>1. /\ UNCHANGED <<asked, disk>>
            /\ port' = [port EXCEPT !.mask = IF pid' = "joycon" THEN @ \union {"mouse"} ELSE @ \ {"mouse"},
                                    !.enabled = IF pid' = "joycon" THEN @ ELSE @ \ {"mouse"}]
        BY <3>4 DEF Vendor!SetPid, Vendor!flash
      <4>2. /\ port' = [streaming |-> port'.streaming, mask |-> port'.mask, enabled |-> port'.enabled]
            /\ port'.enabled \subseteq port.enabled
        BY <4>1 DEF PortFacts
      <4> QED
        BY <4>1, <4>2 DEF PortFacts
    <3>5. CASE UNCHANGED Vendor!vars
      BY <3>5 DEF PortFacts, Vendor!vars, Vendor!native, Vendor!flash
    <3> QED
      BY <1>2, <3>1, <3>2, <3>3, <3>4, <3>5
  <2> QED
    BY <2>1, <2>2
<1>3. CASE Vendor!Reconnect \/ Vendor!Restarted
  <2>1. PipeFacts'
    <3>1. /\ wire' = <<>> /\ due' = <<>> /\ fresh' = TRUE /\ synced' = TRUE /\ missed' = missed
          /\ UNCHANGED <<bytes, expected, discard>> \/ (bytes' = <<>> /\ expected' = 0 /\ discard' = 0)
      BY <1>3 DEF Vendor!Reconnect, Vendor!Restarted
    <3>2. Assembler' = Assembler \/ Assembler' = Vendor!Nothing
      BY <3>1, NothingAgrees DEF Assembler
    <3> QED
      BY <3>1, <3>2, PipeCleared
  <2>2. PortFacts'
    <3>1. port' = Vendor!NewPort /\ (disk' = disk \/ disk' = [disk EXCEPT !.tmp = "none"])
      BY <1>3 DEF Vendor!Reconnect, Vendor!Restarted, Vendor!Reset, Vendor!flash
    <3>2. /\ port' = [streaming |-> port'.streaming, mask |-> port'.mask, enabled |-> port'.enabled]
          /\ port'.enabled \subseteq asked'
      BY <3>1 DEF Vendor!NewPort
    <3>3. disk' = [main |-> disk'.main, tmp |-> disk'.tmp] /\ disk'.main = disk.main
      BY <3>1 DEF PortFacts
    <3> QED
      BY <3>2, <3>3 DEF PortFacts
  <2> QED
    BY <2>1, <2>2
<1> QED
  BY <1>1, <1>2, <1>3 DEF Vendor!Next

\* Vendor commands are dispatched whole, in order and once, whatever fragments they come in,
\* only what was asked for is on, and the calibration file is never half a record
\* (S2VendorCommandAssembler::feed, switch2_native_handle_vendor_command).
THEOREM VendorTheorem == MCSpec => []VendorInv
<1>1. MCInit => VendorIInv
  BY VendorInit DEF MCInit
<1>2. VendorIInv /\ [MCNext]_MCvars => VendorIInv'
  <2> SUFFICES ASSUME VendorIInv, [MCNext]_MCvars PROVE VendorIInv'
    OBVIOUS
  <2>1. Vendor!Next \/ UNCHANGED Vendor!vars
    BY DEF MCNext, MCvars, vendorVars, Vendor!vars, Vendor!stream, Vendor!assembler, Vendor!native, Vendor!flash
  <2> QED
    BY <2>1, VendorStep
<1>3. VendorIInv => VendorInv
  <2> SUFFICES ASSUME VendorIInv PROVE VendorInv
    OBVIOUS
  <2>1. Holds(Assembler) /\ ~missed /\ port.enabled \subseteq asked /\ disk.main \in {"none", "record"}
    BY DEF VendorIInv, PipeFacts, PortFacts
  <2>2. Assembler.bytes = bytes /\ Assembler.expected = expected
    BY DEF Assembler
  <2>3. /\ bytes \in Seq(Places) /\ expected \in 0..maxCommand
        /\ IF expected = 0 THEN Len(bytes) < headSize ELSE headSize <= Len(bytes) /\ Len(bytes) < expected
    BY <2>1, <2>2 DEF Holds
  <2>4. Vendor!Fits
    BY <2>3, SizeFacts DEF Vendor!Fits
  <2> QED
    BY <2>1, <2>4 DEF VendorInv, Vendor!VendorInv, Vendor!InStep, Vendor!FeaturesAsked, Vendor!FileIsWhole
<1> QED
  BY <1>1, <1>2, <1>3, PTL DEF MCSpec
=============================================================================
