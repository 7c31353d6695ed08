--------------------------- MODULE NetworkProofs ---------------------------
(***************************************************************************)
(* What goes between a client and the server, for any sizes of the circles *)
(* of numbers, any bounds on datagrams, sessions and retries and any       *)
(* macros: the connection, the streams of pads and mice, what comes back,  *)
(* and macros in pieces.  A part that rests keeps its invariant, so each   *)
(* part has an invariant and proof of its own.                             *)
(***************************************************************************)
EXTENDS MCNetwork, FiniteSetTheorems, SequenceTheorems, NaturalsInduction,
        WellFoundedInduction, TLAPS

(***************************************************************************)
(* The connection of the client.                                           *)
(***************************************************************************)

Reasons == Connection!Decisions \cup {"none", "unreachable", "input"}

Records ==
  [requested : BOOLEAN, probeFull : BOOLEAN, full : BOOLEAN, profile : BOOLEAN,
   reason : {"none", "asleep", "ended"}]

ConnectionTypes ==
  /\ flags \in Records /\ reason \in Reasons /\ running \in BOOLEAN
  /\ server \in {"ok", "silent"} \cup Connection!Decisions

\* What is recorded of the server's decisions was said.
SaidIn(records, decisions) ==
  /\ records.reason # "none" => records.reason \in decisions
  /\ records.probeFull \/ records.full => "full" \in decisions
  /\ records.profile => "profile" \in decisions
  /\ records.requested => records.profile \/ records.full \/ records.reason # "none"

\* A thread on its way out, or at the top of the loop, may still have the records of the
\* attempt before.
RecordsAreSaid == sender \notin {"top", "exit", "last", "none"} => SaidIn(flags, said)

\* A stream is left because of a decision, or because the sender was told to stop, which is
\* not taken back while it lives.
LeftForReason == sender = "leave" /\ running => reason \in said

\* What a sender that ended has cleared behind it, and stays cleared.
NothingLeft ==
  /\ sender \in {"last", "none"} => ~connected /\ ~connecting /\ shown = "Disconnected"
  /\ sender = "none" => ~running
  /\ socket => sender \in {"stream", "leave"}

ConnectionIInv ==
  /\ ConnectionTypes /\ RecordsAreSaid /\ LeftForReason /\ NothingLeft
  /\ Connection!DecisionsAreTerminal

LEMMA ReplyIsSaid ==
  ASSUME ConnectionTypes, server # "silent", NEW old \in Records, NEW decisions,
         SaidIn(old, decisions),
         NEW new \in {Connection!Reply(old, server), Connection!Assignment(old, server)}
  PROVE  new \in Records /\ SaidIn(new, decisions \cup ({server} \ {"ok"}))
<1> TRUE \in BOOLEAN /\ FALSE \in BOOLEAN
  OBVIOUS
<1>1. server \in {"ok", "full", "asleep", "ended", "profile"}
  BY DEF ConnectionTypes, Connection!Decisions
<1> USE DEF Records, SaidIn, Connection!Reply, Connection!Assignment
<1>2. CASE server = "ok" \/ new = old
  BY <1>2
<1>3. CASE server = "full"
  BY <1>3
<1>4. CASE server = "asleep"
  BY <1>4
<1>5. CASE server = "ended"
  BY <1>5
<1>6. CASE server = "profile"
  BY <1>6
<1> QED
  BY <1>1, <1>2, <1>3, <1>4, <1>5, <1>6

\* A reason the client gives itself for a decision is one that was said.
LEMMA ReasonIsSaid ==
  ASSUME NEW records \in Records, NEW decisions, SaidIn(records, decisions)
  PROVE  /\ records.requested => Connection!StopReason(records) \in Connection!Decisions \cap decisions
         /\ Connection!Ruled(records) = "none" \/
              Connection!Ruled(records) \in Connection!Decisions \cap decisions
  BY DEF Records, SaidIn, Connection!StopReason, Connection!Ruled, Connection!Decisions

LEMMA NothingRecorded ==
  ASSUME NEW decisions
  PROVE  Connection!NoFlags \in Records /\ SaidIn(Connection!NoFlags, decisions)
<1> TRUE \in BOOLEAN /\ FALSE \in BOOLEAN
  OBVIOUS
<1> QED
  BY DEF Connection!NoFlags, Records, SaidIn

LEMMA WindowStep ==
  ASSUME ConnectionIInv,
         Connection!Turn \/ Connection!Start \/ Connection!Joined \/ Connection!Stop
           \/ Connection!Stopped
  PROVE  ConnectionIInv'
<1> TRUE \in BOOLEAN /\ FALSE \in BOOLEAN
  OBVIOUS
<1>1. CASE Connection!Turn
  BY <1>1 DEF ConnectionIInv, ConnectionTypes, RecordsAreSaid, LeftForReason, NothingLeft,
              Connection!Turn, Connection!DecisionsAreTerminal
<1>2. CASE Connection!Start
  BY <1>2, NothingRecorded
  DEF ConnectionIInv, ConnectionTypes, RecordsAreSaid, LeftForReason, NothingLeft,
      Connection!Start, Connection!DecisionsAreTerminal
<1>3. CASE Connection!Joined
  BY <1>3 DEF ConnectionIInv, ConnectionTypes, RecordsAreSaid, LeftForReason, NothingLeft,
              Connection!Joined, Connection!Joinable, Connection!DecisionsAreTerminal
<1>4. CASE Connection!Stop
  BY <1>4 DEF ConnectionIInv, ConnectionTypes, RecordsAreSaid, LeftForReason, NothingLeft,
              Connection!Stop, Connection!DecisionsAreTerminal
<1>5. CASE Connection!Stopped
  BY <1>5 DEF ConnectionIInv, ConnectionTypes, RecordsAreSaid, LeftForReason, NothingLeft,
              Connection!Stopped, Connection!DecisionsAreTerminal
<1> QED
  BY <1>1, <1>2, <1>3, <1>4, <1>5

\* The steps of the sender that hear from the server.
LEMMA HearingStep ==
  ASSUME ConnectionIInv,
         Connection!SenderProbe \/ Connection!SenderShake \/ Connection!SenderFrame
  PROVE  ConnectionIInv'
<1> DEFINE heard == said \cup ({server} \ {"ok"})
<1>1. CASE Connection!SenderProbe
  <2> DEFINE new == Connection!Reply(flags, server)
  <2>1. SaidIn(flags, said) /\ flags \in Records
    BY <1>1 DEF ConnectionIInv, RecordsAreSaid, ConnectionTypes, Connection!SenderProbe
  <2>2. CASE reason' = "unreachable" /\ sender' = "judge" /\ UNCHANGED <<flags, said>>
    BY <1>1, <2>1, <2>2
    DEF ConnectionIInv, ConnectionTypes, RecordsAreSaid, LeftForReason, NothingLeft, Reasons,
        Connection!SenderProbe, Connection!ui, Connection!DecisionsAreTerminal,
        Connection!Decisions
  <2>3. CASE /\ server # "silent" /\ flags' = new /\ said' = heard
             /\ reason' = Connection!Ruled(new)
             /\ sender' \in {"judge", "exit", "connect"}
    <3>1. new \in Records /\ SaidIn(new, heard)
      BY <2>1, <2>3, ReplyIsSaid DEF ConnectionIInv
    <3>2. Connection!Ruled(new) = "none" \/ Connection!Ruled(new) \in Connection!Decisions \cap heard
      BY <3>1, ReasonIsSaid
    <3> HIDE DEF new, heard
    <3>3. SaidIn(flags, said)'
      BY <2>3, <3>1 DEF SaidIn
    <3> QED
      BY <1>1, <2>3, <3>1, <3>2, <3>3
      DEF ConnectionIInv, ConnectionTypes, RecordsAreSaid, LeftForReason, NothingLeft, Reasons,
          Connection!SenderProbe, Connection!ui, Connection!DecisionsAreTerminal,
          Connection!Decisions
  <2> QED
    BY <1>1, <2>2, <2>3 DEF Connection!SenderProbe
<1>2. CASE Connection!SenderShake
  <2> DEFINE cleared == [Connection!NoFlags EXCEPT !.probeFull = flags.probeFull]
             new == Connection!Reply(cleared, server)
  <2>1. SaidIn(flags, said) /\ flags \in Records
    BY <1>2 DEF ConnectionIInv, RecordsAreSaid, ConnectionTypes, Connection!SenderShake
  <2>2. cleared \in Records /\ SaidIn(cleared, said)
    BY <2>1, NothingRecorded DEF Records, SaidIn, Connection!NoFlags
  <2>3. CASE reason' = "unreachable" /\ sender' = "ended" /\ flags' = cleared
             /\ UNCHANGED <<socket, said>>
    <3> HIDE DEF cleared
    <3>1. SaidIn(flags, said)'
      BY <2>2, <2>3 DEF SaidIn
    <3> QED
      BY <1>2, <2>2, <2>3, <3>1
      DEF ConnectionIInv, ConnectionTypes, RecordsAreSaid, LeftForReason, NothingLeft, Reasons,
          Connection!SenderShake, Connection!ui, Connection!DecisionsAreTerminal,
          Connection!Decisions
  <2>4. CASE /\ server # "silent" /\ flags' = new /\ said' = heard
             /\ socket' = TRUE /\ sender' = "stream" /\ UNCHANGED reason
    <3>1. new \in Records /\ SaidIn(new, heard)
      <4> HIDE DEF cleared
      <4> QED
        BY <2>2, <2>4, ReplyIsSaid DEF ConnectionIInv
    <3> HIDE DEF new
    <3>2. SaidIn(flags, said)'
      BY <2>4, <3>1 DEF SaidIn
    <3> QED
      BY <1>2, <2>4, <3>1, <3>2
      DEF ConnectionIInv, ConnectionTypes, RecordsAreSaid, LeftForReason, NothingLeft, Reasons,
          Connection!SenderShake, Connection!ui, Connection!DecisionsAreTerminal,
          Connection!Decisions
  <2> QED
    BY <1>2, <2>3, <2>4 DEF Connection!SenderShake
<1>3. CASE Connection!SenderFrame
  <2>1. SaidIn(flags, said) /\ flags \in Records
    BY <1>3 DEF ConnectionIInv, RecordsAreSaid, ConnectionTypes, Connection!SenderFrame
  <2>2. PICK new \in {flags, Connection!Reply(flags, server), Connection!Assignment(flags, server)} :
          /\ server = "silent" => new = flags
          /\ flags' = new
          /\ said' = IF new = flags THEN said ELSE said \cup {server}
          /\ sender' = IF Connection!Leaves(new) THEN "leave" ELSE "stream"
          /\ reason' = IF running /\ new.requested THEN Connection!StopReason(new) ELSE reason
    BY <1>3 DEF Connection!SenderFrame
  <2>3. new \in Records /\ SaidIn(new, said') /\ said \subseteq said'
    <3>1. CASE new = flags
      BY <2>1, <2>2, <3>1
    <3>2. CASE new # flags
      <4>1. new \in Records /\ SaidIn(new, heard)
        BY <2>1, <2>2, <3>2, ReplyIsSaid DEF ConnectionIInv
      <4> QED
        BY <2>2, <3>2, <4>1 DEF SaidIn
    <3> QED
      BY <3>1, <3>2
  <2>4. new.requested => Connection!StopReason(new) \in Connection!Decisions \cap said'
    BY <2>3, ReasonIsSaid
  <2>5. Connection!Leaves(new) /\ running => new.requested
    BY DEF Connection!Leaves
  <2> QED
    BY <1>3, <2>2, <2>3, <2>4, <2>5
    DEF ConnectionIInv, ConnectionTypes, RecordsAreSaid, LeftForReason, NothingLeft, Reasons,
        Connection!SenderFrame, Connection!ui, Connection!DecisionsAreTerminal,
        Connection!Decisions
<1> QED
  BY <1>1, <1>2, <1>3

LEMMA SilentStep ==
  ASSUME ConnectionIInv,
         \/ Connection!SenderTop \/ Connection!SenderConnect \/ Connection!SenderLeave
         \/ Connection!SenderEnded \/ Connection!SenderAfter \/ Connection!SenderJudge
         \/ Connection!SenderBackoff \/ Connection!SenderExit \/ Connection!SenderLast
  PROVE  ConnectionIInv'
<1> TRUE \in BOOLEAN /\ FALSE \in BOOLEAN
  OBVIOUS
<1> USE DEF ConnectionIInv, ConnectionTypes, RecordsAreSaid, LeftForReason, NothingLeft, Reasons,
            Connection!DecisionsAreTerminal, Connection!ui, Connection!Decisions
<1>1. CASE Connection!SenderTop
  BY <1>1, NothingRecorded DEF Connection!SenderTop
<1>2. CASE Connection!SenderConnect
  BY <1>2 DEF Connection!SenderConnect
<1>3. CASE Connection!SenderLeave
  BY <1>3 DEF Connection!SenderLeave
<1>4. CASE Connection!SenderEnded
  BY <1>4 DEF Connection!SenderEnded
<1>5. CASE Connection!SenderAfter
  BY <1>5 DEF Connection!SenderAfter
<1>6. CASE Connection!SenderJudge
  BY <1>6 DEF Connection!SenderJudge, Connection!ShouldReconnect
<1>7. CASE Connection!SenderBackoff
  BY <1>7 DEF Connection!SenderBackoff
<1>8. CASE Connection!SenderExit
  BY <1>8 DEF Connection!SenderExit
<1>9. CASE Connection!SenderLast
  BY <1>9 DEF Connection!SenderLast
<1> QED
  BY <1>1, <1>2, <1>3, <1>4, <1>5, <1>6, <1>7, <1>8, <1>9

LEMMA ConnectionStep == ConnectionIInv /\ [Next]_vars => ConnectionIInv'
<1> SUFFICES ASSUME ConnectionIInv, [Next]_vars PROVE ConnectionIInv'
  OBVIOUS
<1>1. CASE UNCHANGED connectionVars
  BY <1>1 DEF connectionVars, ConnectionIInv, ConnectionTypes, RecordsAreSaid, LeftForReason,
              NothingLeft, SaidIn, Connection!DecisionsAreTerminal
<1>2. CASE Connection!Next
  BY <1>2, WindowStep, HearingStep, SilentStep DEF Connection!Next, Connection!Sender
<1> QED
  BY <1>1, <1>2 DEF Next, vars

LEMMA ConnectionStart == Init => ConnectionIInv
<1> TRUE \in BOOLEAN /\ FALSE \in BOOLEAN
  OBVIOUS
<1> QED
  BY NothingRecorded
  DEF Init, Connection!Init, ConnectionIInv, ConnectionTypes, RecordsAreSaid, LeftForReason,
      NothingLeft, Reasons, Connection!DecisionsAreTerminal, Connection!Decisions

\* Only a sender that ended lets stop_connection return.
LEMMA StopLeavesNothing ==
  ASSUME ConnectionIInv, [Next]_vars, window = "wait", window' = "idle"
  PROVE  ~socket /\ ~connected /\ ~connecting /\ ~running /\ shown = "Disconnected"
<1>1. Connection!Stopped
  BY DEF Next, vars, connectionVars, Connection!Next, Connection!Sender, Connection!Turn,
         Connection!Start, Connection!Joined, Connection!Stop, Connection!ui,
         Connection!SenderTop, Connection!SenderProbe, Connection!SenderConnect,
         Connection!SenderShake, Connection!SenderFrame, Connection!SenderLeave,
         Connection!SenderEnded, Connection!SenderAfter, Connection!SenderJudge,
         Connection!SenderBackoff, Connection!SenderExit, Connection!SenderLast
<1> QED
  BY <1>1 DEF ConnectionIInv, NothingLeft, Connection!Stopped, Connection!Joinable

LEMMA ToldStays ==
  ASSUME ConnectionIInv, [Next]_vars, sender = "leave", sender' = "ended", running
  PROVE  reason \in said
  BY DEF ConnectionIInv, LeftForReason

\* A decision of the server that ended an attempt is never retried and was really told, it is
\* not lost between the stream and the thread that judges it, and when stop_connection
\* returns nothing of the connection is left.
THEOREM ConnectionTheorem == Spec => ConnectionDecides
<1>1. Init => ConnectionIInv
  BY ConnectionStart
<1>2. ConnectionIInv /\ [Next]_vars => ConnectionIInv'
  BY ConnectionStep
<1>3. ConnectionIInv => Connection!DecisionsAreTerminal
  BY DEF ConnectionIInv
<1>4. ConnectionIInv /\ [Next]_vars =>
        [sender = "leave" /\ sender' = "ended" /\ running => reason \in said]_(Connection!vars)
  BY ToldStays
<1>5. ConnectionIInv /\ [Next]_vars =>
        [window = "wait" /\ window' = "idle" =>
           ~socket /\ ~connected /\ ~connecting /\ ~running /\ shown = "Disconnected"]_(Connection!vars)
  BY StopLeavesNothing
<1> QED
  BY <1>1, <1>2, <1>3, <1>4, <1>5, PTL
  DEF Spec, ConnectionDecides, Connection!ToldIsNotLost, Connection!StopIsFinal

-----------------------------------------------------------------------------
(***************************************************************************)
(* What the server tells beside its input.  The values it publishes and    *)
(* the motors have an invariant each.                                      *)
(***************************************************************************)

Origins == [seq : Nat, last : Nat, value : Int, told : Int, n : Nat, copies : Nat]

\* What is recorded as sent is behind what is published, or it was sent.
Recorded ==
  /\ origin \in Origins
  /\ flow # "request" =>
       origin.last <= origin.seq /\ (origin.seq = origin.last => origin.told = origin.value)

MotorsOwned ==
  /\ slots \in [Back!Slots -> [last : Int, until : BOOLEAN]]
  /\ playing \in [Back!Slots -> Back!Controllers \cup {Back!None}]
  /\ motor \subseteq Back!Controllers
  /\ Back!MotorIsOwned

ValuesIInv ==
  /\ flow \in Back!Flows /\ session \in Nat /\ Recorded /\ MotorsOwned
  /\ \A p \in net : p.slot \in Back!Slots

LEMMA EventStep ==
  ASSUME Recorded, NEW v \in Int, Back!Event(v)
  PROVE  Recorded'
<1> DEFINE r == [origin EXCEPT !.value = v]
           q == [r EXCEPT !.n = @ + 1]
           new == [q EXCEPT !.seq = @ + 1]
<1>1. origin' = new /\ UNCHANGED flow
  BY DEF Back!Event, Back!Published
<1>2. r \in Origins /\ r.seq = origin.seq /\ r.last = origin.last
  BY DEF Recorded, Origins
<1> HIDE DEF r
<1>3. q \in Origins /\ q.seq = origin.seq /\ q.last = origin.last
  BY <1>2 DEF Origins
<1> HIDE DEF q
<1>4. new \in Origins /\ new.seq = origin.seq + 1 /\ new.last = origin.last
  BY <1>3 DEF Origins
<1> HIDE DEF new
<1>5. origin.last \in Nat /\ origin.seq \in Nat
  BY DEF Recorded, Origins
<1> QED
  BY <1>1, <1>4, <1>5 DEF Recorded

\* A motor that runs after an output is that of the slot, or of one that owned it before and
\* still does.
LEMMA OutputStep ==
  ASSUME MotorsOwned, NEW s \in Back!Slots, NEW on \in BOOLEAN, Back!Output(s, on),
         UNCHANGED playing
  PROVE  MotorsOwned'
<1> DEFINE now == [last |-> playing[s], until |-> on]
<1>1. slots' = [slots EXCEPT ![s] = now] /\ motor' = Back!MotorAfter(s, on)
  BY DEF Back!Output
<1>2. /\ playing[s] \in Int /\ Back!None \notin Back!Controllers
      /\ Back!Controllers \subseteq Int
  BY DEF MotorsOwned, Back!None, Back!Controllers
<1>3. now \in [last : Int, until : BOOLEAN] /\ now.last = playing[s] /\ now.until = on
  BY <1>2
<1> HIDE DEF now
<1>4. slots' \in [Back!Slots -> [last : Int, until : BOOLEAN]]
  BY <1>1, <1>3 DEF MotorsOwned
<1>5. slots'[s] = now /\ \A t \in Back!Slots \ {s} : slots'[t] = slots[t]
  BY <1>1, <1>3 DEF MotorsOwned
<1>6. \A c \in motor' :
        \/ c = playing[s] /\ on
        \/ c \in motor /\ c # playing[s] /\ slots[s].last # c
  BY <1>1, <1>2 DEF Back!MotorAfter, MotorsOwned
<1>7. motor' \subseteq Back!Controllers
  <2>1. playing[s] # Back!None => playing[s] \in Back!Controllers
    BY DEF MotorsOwned
  <2> QED
    BY <1>1, <2>1 DEF Back!MotorAfter, MotorsOwned
<1>8. ASSUME NEW c \in motor'
      PROVE  \E t \in Back!Slots : slots'[t].last = c /\ slots'[t].until
  <2>1. CASE c = playing[s] /\ on
    BY <1>3, <1>5, <2>1
  <2>2. CASE c \in motor /\ c # playing[s] /\ slots[s].last # c
    <3>1. PICK t \in Back!Slots : slots[t].last = c /\ slots[t].until
      BY <2>2 DEF MotorsOwned, Back!MotorIsOwned
    <3> QED
      BY <1>5, <2>2, <3>1
  <2> QED
    BY <1>6, <2>1, <2>2
<1> QED
  BY <1>4, <1>7, <1>8 DEF MotorsOwned, Back!MotorIsOwned

LEMMA ValuesStart == Init => ValuesIInv
<1> TRUE \in BOOLEAN /\ FALSE \in BOOLEAN
  OBVIOUS
<1> SUFFICES ASSUME Back!Init PROVE ValuesIInv
  BY DEF Init
<1>1. requestCircle - 2 \in Nat
  BY NetworkAssumption DEF NetworkAssumption
<1>2. Recorded
  BY <1>1 DEF Back!Init, Recorded, Origins
<1>3. MotorsOwned
  BY DEF Back!Init, MotorsOwned, Back!MotorIsOwned, Back!Slots, Back!Controllers, Back!Quiet,
         Back!None
<1> QED
  BY <1>2, <1>3 DEF Back!Init, ValuesIInv

\* What is published.
LEMMA PublishStep ==
  ASSUME ValuesIInv,
         \/ Back!PublishStatus \/ Back!PublishAssignment \/ Back!RefreshRoster
         \/ Back!PublishRumble
  PROVE  ValuesIInv'
<1>1. PICK v \in Back!Values : Back!Event(v)
  BY DEF Back!PublishStatus, Back!PublishAssignment, Back!RefreshRoster, Back!PublishRumble
<1>2. v \in Int
  BY DEF Back!Values
<1>3. Recorded'
  BY <1>1, <1>2, EventStep DEF ValuesIInv
<1> QED
  BY <1>1, <1>3 DEF ValuesIInv, Back!Event, Back!rumbling, MotorsOwned, Back!MotorIsOwned

LEMMA RumbleStep ==
  ASSUME ValuesIInv,
         Back!ReceiveRumble \/ Back!Timeout \/ Back!EffectOver \/ Back!Remap
  PROVE  ValuesIInv'
<1> TRUE \in BOOLEAN /\ FALSE \in BOOLEAN
  OBVIOUS
<1>1. UNCHANGED <<flow, session, origin>> /\ Recorded'
  BY DEF ValuesIInv, Recorded, Back!ReceiveRumble, Back!Timeout, Back!EffectOver, Back!Remap
<1>2. CASE Back!ReceiveRumble
  <2>1. PICK p \in net :
          /\ net' = net \ {p}
          /\ \/ Back!Output(p.slot, p.value # 0)
             \/ slots' = [slots EXCEPT ![p.slot].until = TRUE] /\ UNCHANGED motor
    BY <1>2 DEF Back!ReceiveRumble
  <2>2. UNCHANGED playing /\ p.slot \in Back!Slots /\ (p.value # 0) \in BOOLEAN
    BY <1>2 DEF Back!ReceiveRumble, ValuesIInv
  <2>3. CASE Back!Output(p.slot, p.value # 0)
    <3>1. MotorsOwned'
      BY <2>2, <2>3, OutputStep DEF ValuesIInv
    <3> QED
      BY <1>1, <2>1, <3>1 DEF ValuesIInv
  <2>4. CASE slots' = [slots EXCEPT ![p.slot].until = TRUE] /\ UNCHANGED motor
    <3>1. /\ slots' \in [Back!Slots -> [last : Int, until : BOOLEAN]]
          /\ \A t \in Back!Slots : /\ slots'[t].last = slots[t].last
                                  /\ slots[t].until => slots'[t].until
      BY <2>4 DEF ValuesIInv, MotorsOwned
    <3> QED
      BY <1>1, <2>1, <2>2, <2>4, <3>1 DEF ValuesIInv, MotorsOwned, Back!MotorIsOwned
  <2> QED
    BY <2>1, <2>3, <2>4
<1>3. CASE Back!Timeout
  <2>1. MotorsOwned'
    BY <1>3, OutputStep DEF ValuesIInv, Back!Timeout
  <2> QED
    BY <1>1, <1>3, <2>1 DEF ValuesIInv, Back!Timeout
<1>4. CASE Back!EffectOver
  BY <1>1, <1>4 DEF ValuesIInv, Back!EffectOver, MotorsOwned, Back!MotorIsOwned
<1>5. CASE Back!Remap
  BY <1>1, <1>5 DEF ValuesIInv, Back!Remap, MotorsOwned, Back!MotorIsOwned
<1> QED
  BY <1>2, <1>3, <1>4, <1>5

LEMMA AgainStep ==
  ASSUME ValuesIInv, Back!Again
  PROVE  ValuesIInv'
<1> DEFINE seq == IF flow = "request" THEN 0 ELSE origin.seq + 2
           last == IF flow \in {"status", "rumble"} THEN origin.seq + 2 ELSE 0
           r == [origin EXCEPT !.seq = seq, !.last = last]
           q == [r EXCEPT !.value = 0]
           k == [q EXCEPT !.told = 0]
           new == [k EXCEPT !.copies = 0]
<1>1. origin' = new /\ UNCHANGED <<flow, slots, motor, playing>> /\ session' = session + 1 /\ net' = {}
  BY DEF Back!Again, Back!rumbling
<1>2. seq \in Nat /\ last \in Nat /\ (flow # "request" => last <= seq)
  BY DEF ValuesIInv, Recorded, Origins
<1> HIDE DEF seq, last
<1>3. new \in Origins /\ new.seq = seq /\ new.last = last /\ new.told = 0 /\ new.value = 0
  <2>1. r \in Origins /\ r.seq = seq /\ r.last = last
    BY <1>2 DEF ValuesIInv, Recorded, Origins
  <2> HIDE DEF r
  <2>2. q \in Origins /\ q.seq = seq /\ q.last = last /\ q.value = 0
    BY <2>1 DEF Origins
  <2> HIDE DEF q
  <2>3. k \in Origins /\ k.seq = seq /\ k.last = last /\ k.value = 0 /\ k.told = 0
    BY <2>2 DEF Origins
  <2> HIDE DEF k
  <2> QED
    BY <2>3 DEF Origins
<1> HIDE DEF new
<1>4. Recorded'
  BY <1>1, <1>2, <1>3 DEF Recorded
<1>5. session' \in Nat
  BY <1>1 DEF ValuesIInv
<1> QED
  BY <1>1, <1>4, <1>5 DEF ValuesIInv, MotorsOwned, Back!MotorIsOwned

LEMMA SendStep ==
  ASSUME ValuesIInv, Back!Flush \/ Back!FlushRequest \/ Back!Request
  PROVE  ValuesIInv'
<1>1. /\ UNCHANGED <<flow, session, slots, motor, playing>>
  BY DEF Back!Flush, Back!FlushRequest, Back!Request, Back!rumbling
<1>2. \A k : Back!Packet(k).slot \in Back!Slots
  BY DEF Back!Packet, Back!Slots
<1>3. CASE Back!Flush
  <2> DEFINE new == [origin EXCEPT !.last = origin.seq, !.told = origin.value]
  <2>1. origin' = new
    BY <1>3 DEF Back!Flush
  <2>2. /\ new \in Origins /\ new.seq = origin.seq /\ new.last = origin.seq
        /\ new.told = origin.value /\ new.value = origin.value /\ origin.seq \in Nat
    BY DEF ValuesIInv, Recorded, Origins
  <2> HIDE DEF new
  <2>3. Recorded'
    BY <1>1, <2>1, <2>2 DEF Recorded
  <2>4. PICK s \in Back!Slots : \A p \in net' : p \in net \/ p.slot = s
    BY <1>3 DEF Back!Flush, Back!Packet
  <2> QED
    BY <1>1, <2>3, <2>4 DEF ValuesIInv, MotorsOwned, Back!MotorIsOwned
<1>4. CASE Back!FlushRequest
  <2>1. Recorded'
    BY <1>1, <1>4 DEF ValuesIInv, Recorded, Origins, Back!FlushRequest
  <2> QED
    BY <1>1, <1>2, <1>4, <2>1 DEF ValuesIInv, MotorsOwned, Back!MotorIsOwned, Back!FlushRequest
<1>5. CASE Back!Request
  <2>1. PICK v \in {0, 1} :
          origin' = [origin EXCEPT !.value = v, !.n = @ + 1, !.seq = Back!Following(@),
                                   !.copies = Back!Copies]
    BY <1>5 DEF Back!Request
  <2> DEFINE w == [origin EXCEPT !.value = v]
             r == [w EXCEPT !.n = @ + 1]
             q == [r EXCEPT !.seq = Back!Following(@)]
             new == [q EXCEPT !.copies = Back!Copies]
  <2>2. origin' = new
    BY <2>1
  <2>3. r \in Origins
    <3>1. w \in Origins
      BY DEF ValuesIInv, Recorded, Origins
    <3> HIDE DEF w
    <3> QED
      BY <3>1 DEF Origins
  <2> HIDE DEF r
  <2>4. q \in Origins
    <3>1. r.seq \in Nat
      BY <2>3 DEF Origins
    <3>2. Back!Following(r.seq) \in Nat
      BY <3>1, NetworkAssumption DEF NetworkAssumption, Back!Following
    <3> QED
      BY <2>3, <3>2 DEF Origins
  <2> HIDE DEF q
  <2>5. new \in Origins
    BY <2>4 DEF Origins, Back!Copies
  <2> HIDE DEF new
  <2>6. flow = "request" /\ net' \subseteq net
    BY <1>5 DEF Back!Request
  <2> QED
    BY <1>1, <2>2, <2>5, <2>6 DEF ValuesIInv, Recorded, MotorsOwned, Back!MotorIsOwned
<1> QED
  BY <1>3, <1>4, <1>5

LEMMA ShowStep ==
  ASSUME ValuesIInv,
         \/ Back!Lose \/ Back!ReceiveRequest \/ Back!ReceiveStatus \/ Back!ReceiveAssignment
         \/ Back!ReceiveRoster \/ Back!ScanOver
  PROVE  ValuesIInv'
<1>1. /\ UNCHANGED <<flow, session, origin, slots, motor, playing>>
      /\ net' \subseteq net
  BY DEF Back!Lose, Back!ReceiveRequest, Back!ReceiveStatus, Back!ReceiveAssignment,
         Back!ReceiveRoster, Back!ScanOver, Back!Shown, Back!rumbling
<1> QED
  BY <1>1 DEF ValuesIInv, Recorded, MotorsOwned, Back!MotorIsOwned

LEMMA ValuesStep == ValuesIInv /\ [Next]_vars => ValuesIInv'
<1> SUFFICES ASSUME ValuesIInv, [Next]_vars PROVE ValuesIInv'
  OBVIOUS
<1>1. CASE UNCHANGED feedbackVars
  BY <1>1 DEF feedbackVars, ValuesIInv, Recorded, MotorsOwned, Back!MotorIsOwned
<1>2. CASE Back!Next
  BY <1>2, PublishStep, RumbleStep, AgainStep, SendStep, ShowStep DEF Back!Next
<1> QED
  BY <1>1, <1>2 DEF Next, vars

-----------------------------------------------------------------------------
(***************************************************************************)
(* Requests to scan.  Their numbers go round a circle without its zero;    *)
(* within one session a client is never half a circle behind.              *)
(***************************************************************************)

LEMMA Modulo ==
  ASSUME NEW w \in Nat \ {0}, NEW x \in Int
  PROVE  /\ 0 <= x /\ x < w => x % w = x
         /\ x < 0 /\ 0 <= x + w => x % w = x + w
         /\ w <= x /\ x < 2 * w => x % w = x - w
  OBVIOUS

\* Two numbers of a circle that are less than half of it apart are told in their order.
LEMMA HalfTells ==
  ASSUME NEW w \in Nat \ {0}, NEW half \in Nat, 2 * half <= w, NEW d \in Int, NEW x \in Int
  PROVE  /\ 0 < d /\ d < half /\ x \in {d, d - w} => x % w \in 1..(half - 1)
         /\ -half <= d /\ d <= 0 /\ x \in {d, d + w} => x % w \notin 1..(half - 1)
<1>1. ASSUME 0 < d, d < half, x = d PROVE x % w = d
  BY <1>1, Modulo
<1>2. ASSUME 0 < d, d < half, x = d - w PROVE x % w = d
  BY <1>2, Modulo
<1>3. ASSUME -half <= d, d < 0, x = d PROVE x % w = d + w
  <2>1. x < 0 /\ 0 <= x + w
    BY <1>3
  <2>2. x % w = x + w
    BY <2>1, Modulo
  <2> QED
    BY <1>3, <2>2
<1>4. ASSUME -half <= d, d < 0, x = d + w PROVE x % w = d + w
  <2>1. 0 <= x /\ x < w
    BY <1>4
  <2>2. x % w = x
    BY <2>1, Modulo
  <2> QED
    BY <1>4, <2>2
<1>5. ASSUME d = 0, x = 0 \/ x = w PROVE x % w = 0
  <2>1. CASE x = 0
    BY <2>1, Modulo
  <2>2. CASE x = w
    <3>1. w <= x /\ x < 2 * w /\ x - w = 0
      BY <2>2
    <3> QED
      BY <3>1, Modulo
  <2> QED
    BY <1>5, <2>1, <2>2
<1>6. ASSUME 0 < d, d < half, x \in {d, d - w} PROVE x % w \in 1..(half - 1)
  <2>1. x % w = d
    BY <1>1, <1>2, <1>6
  <2> QED
    BY <1>6, <2>1
<1>7. ASSUME -half <= d, d <= 0, x \in {d, d + w} PROVE x % w \notin 1..(half - 1)
  <2>1. CASE d = 0
    <3>1. x % w = 0
      BY <1>5, <1>7, <2>1
    <3> QED
      BY <3>1
  <2>2. CASE d < 0
    <3>1. x % w = d + w
      BY <1>3, <1>4, <1>7, <2>2
    <3> QED
      BY <1>7, <2>2, <3>1
  <2> QED
    BY <1>7, <2>1, <2>2
<1> QED
  BY <1>6, <1>7

\* The number of the n-th request of a session that starts with this one.
NumberOf(start, n) ==
  IF start = 0 THEN n ELSE IF n <= 1 THEN requestCircle - 2 + n ELSE n - 1

Starts == {0, requestCircle - 2}

LEMMA Circle ==
  ASSUME NEW start \in Starts, NEW a \in 0..mostEvents, NEW b \in 0..mostEvents
  PROVE  LET ahead == (NumberOf(start, a) - NumberOf(start, b)) % requestCircle IN
         /\ a > b => ahead \in 1..((requestCircle \div 2) - 1)
         /\ a <= b => ahead \notin 1..((requestCircle \div 2) - 1)
<1> DEFINE half == requestCircle \div 2
           x == NumberOf(start, a) - NumberOf(start, b)
<1>1. half \in Nat /\ 2 * half <= requestCircle /\ mostEvents + 1 < half /\ mostEvents \in Nat
      /\ requestCircle \in Nat \ {0}
  BY NetworkAssumption DEF NetworkAssumption
<1> HIDE DEF half
<1>2. x \in Int /\ NumberOf(start, a) \in Int /\ NumberOf(start, b) \in Int
  BY <1>1 DEF NumberOf, Starts
<1>3. ASSUME a > b PROVE x % requestCircle \in 1..(half - 1)
  <2>1. PICK d \in {a - b, a - b + 1, a - b - 1} :
           0 < d /\ d < half /\ x \in {d, d - requestCircle}
    BY <1>1, <1>3 DEF NumberOf, Starts
  <2> HIDE DEF x
  <2>2. d \in Int
    BY <2>1
  <2> QED
    BY <1>1, <1>2, <2>1, <2>2, HalfTells
<1>4. ASSUME a <= b PROVE x % requestCircle \notin 1..(half - 1)
  <2>1. PICK d \in {a - b, a - b + 1, a - b - 1} :
           -half <= d /\ d <= 0 /\ x \in {d, d + requestCircle}
    BY <1>1, <1>4 DEF NumberOf, Starts
  <2> HIDE DEF x
  <2>2. d \in Int
    BY <2>1
  <2> QED
    BY <1>1, <1>2, <2>1, <2>2, HalfTells
<1> HIDE DEF x
<1>5. /\ a > b => x % requestCircle \in 1..(half - 1)
      /\ a <= b => x % requestCircle \notin 1..(half - 1)
  BY <1>3, <1>4
<1> QED
  BY <1>5 DEF x, half

LEMMA Succession ==
  ASSUME NEW start \in Starts, NEW a \in 0..mostEvents
  PROVE  /\ Back!Following(NumberOf(start, a)) = NumberOf(start, a + 1)
         /\ NumberOf(start, a) \in Nat
         /\ NumberOf(start, a) = 0 => a = 0
<1> DEFINE w == requestCircle
           x == NumberOf(start, a)
<1>1. w \in Nat /\ w > 2 * (mostEvents + 1) /\ mostEvents \in Nat /\ a \in Nat /\ a <= mostEvents
  BY NetworkAssumption DEF NetworkAssumption
<1>2. /\ x \in Nat /\ x < w /\ (x = 0 => a = 0)
      /\ x + 1 < w => NumberOf(start, a + 1) = x + 1
      /\ x + 1 = w => NumberOf(start, a + 1) = 1
  BY <1>1 DEF NumberOf, Starts
<1> HIDE DEF x
<1>3. CASE x + 1 < w
  <2>1. (x + 1) % w = x + 1 /\ x + 1 # 0
    BY <1>1, <1>2, <1>3
  <2>2. Back!Following(x) = x + 1
    BY <2>1 DEF Back!Following
  <2> QED
    BY <1>2, <1>3, <2>2 DEF x
<1>4. CASE x + 1 = w
  <2>1. (x + 1) % w = 0
    BY <1>1, <1>2, <1>4
  <2>2. Back!Following(x) = 1
    BY <2>1 DEF Back!Following
  <2> QED
    BY <1>2, <1>4, <2>2 DEF x
<1> QED
  BY <1>1, <1>2, <1>3, <1>4 DEF x

\* What the client knows and what is on the way are events of this session, by their numbers.
Numbered(start) ==
  /\ origin.n \in 0..mostEvents /\ origin.seq = NumberOf(start, origin.n)
  /\ receiver.n \in 0..origin.n /\ receiver.seq = NumberOf(start, receiver.n)
  /\ \A p \in net : p.n \in 1..origin.n /\ p.seq = NumberOf(start, p.n)

\* Each copy of the newest request is sent once.
CopiesSent ==
  /\ origin.copies \in 0..Back!Copies /\ (origin.n = 0 => origin.copies = 0)
  /\ \A p \in net : p.n = origin.n =>
       p.copy \in (origin.copies + 1)..Back!Copies /\ p = Back!Packet(p.copy)

Gone(copy) ==
  IF origin.copies < copy /\ \A p \in net : ~(p.n = origin.n /\ p.copy = copy) THEN 1 ELSE 0

\* As long as the client has not seen it, a copy that was sent is on the way or was lost.
LossCounted ==
  origin.n > 0 /\ receiver.n # origin.n => dropped = Gone(1) + Gone(2) + Gone(3)

Receivers == [seq : Nat, n : Nat, view : Int]

RequestsFollow ==
  /\ receiver \in Receivers /\ \A p \in net : p.value \in Int
  /\ \E start \in Starts : Numbered(start)
  /\ CopiesSent /\ LossCounted

RequestsIInv ==
  /\ session \in Nat \ {0}
  /\ flow = "request" /\ session = 1 => RequestsFollow

LEMMA RequestsStart == Init => RequestsIInv
<1> SUFFICES ASSUME Back!Init, flow = "request" PROVE RequestsIInv
  BY DEF Init, RequestsIInv, Back!Init
<1>1. PICK start \in Starts :
        /\ origin = [seq |-> start, last |-> 0, value |-> 0, told |-> 0, n |-> 0, copies |-> 0]
        /\ receiver = [seq |-> start, n |-> 0, view |-> 0]
  BY DEF Back!Init, Starts
<1>2. start \in Nat /\ mostEvents \in Nat
  BY NetworkAssumption DEF NetworkAssumption, Starts
<1>3. net = {} /\ session = 1
  BY DEF Back!Init
<1>4. receiver \in Receivers
  BY <1>1, <1>2 DEF Receivers
<1>5. Numbered(start)
  BY <1>1, <1>2, <1>3 DEF Numbered, NumberOf, Starts
<1>6. CopiesSent /\ LossCounted
  BY <1>1, <1>3 DEF CopiesSent, LossCounted, Back!Copies
<1> QED
  BY <1>3, <1>4, <1>5, <1>6 DEF RequestsIInv, RequestsFollow

LEMMA RequestStep ==
  ASSUME ValuesIInv, RequestsFollow, Back!Request
  PROVE  RequestsFollow'
<1>1. PICK v \in {0, 1} :
        origin' = [origin EXCEPT !.value = v, !.n = @ + 1, !.seq = Back!Following(@),
                                 !.copies = Back!Copies]
  BY DEF Back!Request
<1>2. PICK start \in Starts : Numbered(start)
  BY DEF RequestsFollow
<1>3. /\ origin'.n = origin.n + 1 /\ origin'.seq = Back!Following(origin.seq)
      /\ origin'.copies = Back!Copies
  BY <1>1 DEF ValuesIInv, Recorded, Origins
<1>4. /\ origin.n < mostEvents /\ net' \subseteq net /\ dropped' = 0 /\ UNCHANGED receiver
      /\ mostEvents \in Nat
  BY NetworkAssumption DEF NetworkAssumption, Back!Request
<1>5. origin'.seq = NumberOf(start, origin'.n)
  BY <1>2, <1>3, Succession DEF Numbered
<1>6. Numbered(start)'
  BY <1>2, <1>3, <1>4, <1>5 DEF Numbered
<1>7. \A p \in net' : p.n # origin'.n
  BY <1>2, <1>3, <1>4 DEF Numbered
<1>8. CopiesSent'
  <2>1. origin.n \in Nat
    BY DEF ValuesIInv, Recorded, Origins
  <2> QED
    BY <1>3, <1>7, <2>1 DEF CopiesSent, Back!Copies
<1>9. Gone(1)' = 0 /\ Gone(2)' = 0 /\ Gone(3)' = 0
  BY <1>3 DEF Gone, Back!Copies
<1>10. LossCounted'
  BY <1>4, <1>9 DEF LossCounted
<1> QED
  BY <1>4, <1>6, <1>8, <1>10 DEF RequestsFollow

LEMMA SendRequestStep ==
  ASSUME ValuesIInv, RequestsFollow, flow = "request", Back!FlushRequest
  PROVE  RequestsFollow'
<1> DEFINE c == origin.copies
<1>1. /\ origin' = [origin EXCEPT !.copies = c - 1] /\ c > 0
      /\ net' = net \cup {Back!Packet(c)} /\ UNCHANGED <<flow, session, dropped, receiver>>
  BY DEF Back!FlushRequest
<1>2. PICK start \in Starts : Numbered(start)
  BY DEF RequestsFollow
<1>3. /\ origin'.copies = c - 1 /\ origin'.n = origin.n /\ origin'.seq = origin.seq
      /\ origin'.value = origin.value /\ origin.value \in Int /\ c \in 1..Back!Copies
      /\ origin.n \in Nat \ {0}
  BY <1>1 DEF ValuesIInv, Recorded, Origins, RequestsFollow, CopiesSent
<1>4. \A k : Back!Packet(k)' = Back!Packet(k)
  BY <1>3 DEF Back!Packet
<1>5. /\ Back!Packet(c).n = origin.n /\ Back!Packet(c).seq = origin.seq
      /\ Back!Packet(c).copy = c /\ Back!Packet(c).value = origin.value
  BY DEF Back!Packet
<1>6. Numbered(start)'
  BY <1>1, <1>2, <1>3, <1>5 DEF Numbered
<1>7. CopiesSent'
  BY <1>1, <1>3, <1>4, <1>5 DEF RequestsFollow, CopiesSent, Back!Copies
<1>8. ASSUME NEW k \in 1..3 PROVE Gone(k)' = Gone(k)
  <2>1. CASE k = c
    <3>1. Back!Packet(c) \in net' /\ Back!Packet(c).n = origin'.n /\ Back!Packet(c).copy = k
      BY <1>1, <1>3, <1>5, <2>1
    <3> QED
      BY <1>3, <2>1, <3>1 DEF Gone
  <2>2. CASE k # c
    <3>1. c < k <=> origin'.copies < k
      BY <1>3, <2>2 DEF Back!Copies
    <3>2. (\A p \in net' : ~(p.n = origin'.n /\ p.copy = k))
            <=> (\A p \in net : ~(p.n = origin.n /\ p.copy = k))
      BY <1>1, <1>3, <1>5, <2>2
    <3> QED
      BY <3>1, <3>2 DEF Gone
  <2> QED
    BY <2>1, <2>2
<1>9. LossCounted'
  BY <1>1, <1>3, <1>8 DEF RequestsFollow, LossCounted
<1> QED
  BY <1>1, <1>3, <1>5, <1>6, <1>7, <1>9 DEF RequestsFollow

LEMMA LoseRequestStep ==
  ASSUME ValuesIInv, RequestsFollow, flow = "request", Back!Lose
  PROVE  RequestsFollow'
<1>1. PICK p \in net : /\ net' = net \ {p} /\ UNCHANGED <<flow, session, origin, receiver>>
                       /\ dropped' = IF p.n = origin.n THEN dropped + 1 ELSE dropped
  BY DEF Back!Lose
<1>2. PICK start \in Starts : Numbered(start)
  BY DEF RequestsFollow
<1>3. Numbered(start)'
  BY <1>1, <1>2 DEF Numbered
<1>4. CopiesSent'
  BY <1>1 DEF RequestsFollow, CopiesSent, Back!Packet
<1>5. CASE p.n # origin.n
  <2>1. \A k : Gone(k)' = Gone(k)
    BY <1>1, <1>5 DEF Gone
  <2>2. LossCounted'
    BY <1>1, <1>5, <2>1 DEF RequestsFollow, LossCounted
  <2> QED
    BY <1>1, <1>3, <1>4, <2>2 DEF RequestsFollow
<1>6. CASE p.n = origin.n
  <2>1. p.copy \in 1..3 /\ origin.copies < p.copy
    BY <1>6 DEF RequestsFollow, CopiesSent, Back!Copies
  <2>2. \A q \in net' : ~(q.n = origin'.n /\ q.copy = p.copy)
    BY <1>1, <1>6 DEF RequestsFollow, CopiesSent
  <2>3. Gone(p.copy) = 0 /\ Gone(p.copy)' = 1
    BY <1>1, <1>6, <2>1, <2>2 DEF Gone
  <2>4. ASSUME NEW k \in 1..3, k # p.copy PROVE Gone(k)' = Gone(k)
    BY <1>1, <2>4 DEF Gone
  <2>5. \A k \in 1..3 : Gone(k) \in Int
    BY DEF Gone
  <2>6. LossCounted'
    BY <1>1, <1>6, <2>1, <2>3, <2>4, <2>5 DEF RequestsFollow, LossCounted
  <2> QED
    BY <1>1, <1>3, <1>4, <2>6 DEF RequestsFollow
<1> QED
  BY <1>5, <1>6

\* A request is shown exactly when the client knows of none that is as new.
LEMMA NewerTells ==
  ASSUME NEW start \in Starts, Numbered(start), NEW p \in net
  PROVE  Back!Newer(p.seq) <=> p.n > receiver.n
<1> DEFINE a == p.n
           b == receiver.n
<1>1. /\ a \in 0..mostEvents /\ b \in 0..mostEvents /\ a > 0
      /\ p.seq = NumberOf(start, a) /\ receiver.seq = NumberOf(start, b)
  BY NetworkAssumption DEF Numbered, NetworkAssumption
<1>2. receiver.seq = 0 => b = 0
  BY <1>1, Succession
<1> HIDE DEF a, b
<1>3. /\ a > b => (p.seq - receiver.seq) % requestCircle \in 1..((requestCircle \div 2) - 1)
      /\ a <= b => (p.seq - receiver.seq) % requestCircle \notin 1..((requestCircle \div 2) - 1)
  BY <1>1, Circle
<1>4. a > b \/ a <= b
  BY <1>1
<1>5. Back!Newer(p.seq) <=> a > b
  BY <1>1, <1>2, <1>3, <1>4 DEF Back!Newer
<1> QED
  BY <1>5 DEF a, b

LEMMA ReceiveRequestStep ==
  ASSUME ValuesIInv, RequestsFollow, flow = "request", Back!ReceiveRequest
  PROVE  RequestsFollow' /\ receiver'.n >= receiver.n
<1>1. PICK p \in net : /\ net' = net \ {p} /\ UNCHANGED <<flow, session, origin, dropped>>
                       /\ receiver' = IF Back!Newer(p.seq)
                                        THEN [seq |-> p.seq, n |-> p.n, view |-> p.value]
                                        ELSE receiver
  BY DEF Back!ReceiveRequest
<1>2. PICK start \in Starts : Numbered(start)
  BY DEF RequestsFollow
<1>3. Back!Newer(p.seq) <=> p.n > receiver.n
  BY <1>2, NewerTells
<1>4. /\ p.n \in 1..origin.n /\ p.seq = NumberOf(start, p.n) /\ p.seq \in Nat /\ p.value \in Int
      /\ receiver.n \in 0..origin.n /\ origin.n \in Nat
  <2>1. p.n \in 0..mostEvents
    BY <1>2, NetworkAssumption DEF Numbered, NetworkAssumption
  <2> QED
    BY <1>2, <2>1, Succession DEF Numbered, RequestsFollow
<1>5. /\ receiver' \in Receivers /\ receiver'.n >= receiver.n
      /\ receiver'.n = receiver.n => receiver' = receiver
      /\ receiver'.n \in 0..origin.n /\ receiver'.n >= p.n
      /\ receiver'.seq = NumberOf(start, receiver'.n)
  <2>1. CASE p.n > receiver.n
    BY <1>1, <1>3, <1>4, <2>1 DEF Receivers
  <2>2. CASE ~(p.n > receiver.n)
    BY <1>1, <1>2, <1>3, <1>4, <2>2 DEF RequestsFollow, Numbered
  <2> QED
    BY <2>1, <2>2
<1>6. Numbered(start)'
  BY <1>1, <1>2, <1>5 DEF Numbered
<1>7. CopiesSent'
  BY <1>1 DEF RequestsFollow, CopiesSent, Back!Packet
<1>8. LossCounted'
  <2>1. SUFFICES ASSUME receiver'.n # origin.n, origin.n > 0
                 PROVE  dropped = Gone(1)' + Gone(2)' + Gone(3)'
    BY <1>1 DEF LossCounted
  <2>2. p.n # origin.n /\ receiver.n # origin.n
    BY <1>4, <1>5, <2>1
  <2>3. \A k : Gone(k)' = Gone(k)
    BY <1>1, <2>2 DEF Gone
  <2> QED
    BY <2>1, <2>2, <2>3 DEF RequestsFollow, LossCounted
<1> QED
  BY <1>1, <1>5, <1>6, <1>7, <1>8 DEF RequestsFollow

LEMMA RequestsRest ==
  ASSUME ValuesIInv, RequestsIInv,
         \/ Back!PublishStatus \/ Back!PublishAssignment \/ Back!RefreshRoster
         \/ Back!PublishRumble \/ Back!Flush \/ Back!ReceiveStatus
         \/ Back!ReceiveAssignment \/ Back!ReceiveRoster \/ Back!ReceiveRumble
         \/ Back!Timeout \/ Back!Remap
  PROVE  flow # "request" /\ RequestsIInv'
<1>1. flow # "request" /\ UNCHANGED <<flow, session>>
  BY DEF Back!PublishStatus, Back!PublishAssignment, Back!RefreshRoster, Back!PublishRumble,
         Back!Flush, Back!ReceiveStatus, Back!ReceiveAssignment, Back!ReceiveRoster,
         Back!ReceiveRumble, Back!Timeout, Back!Remap, Back!Event, Back!Shown
<1> QED
  BY <1>1 DEF RequestsIInv

LEMMA RequestsFlow ==
  Back!Next => UNCHANGED flow /\ (session' = session \/ session' = session + 1)
BY DEF Back!Next, Back!PublishStatus, Back!PublishAssignment, Back!RefreshRoster,
       Back!PublishRumble, Back!Event, Back!Request, Back!Again, Back!Flush, Back!FlushRequest,
       Back!Lose, Back!ReceiveRequest, Back!ReceiveStatus, Back!ReceiveAssignment,
       Back!ReceiveRoster, Back!Shown, Back!ScanOver, Back!ReceiveRumble, Back!Timeout,
       Back!EffectOver, Back!Remap

LEMMA RequestsStep ==
  ASSUME ValuesIInv, RequestsIInv, [Next]_vars
  PROVE  /\ RequestsIInv'
         /\ flow = "request" /\ session = 1 => receiver'.n >= receiver.n
<1>1. CASE UNCHANGED feedbackVars
  <2>1. RequestsIInv'
    BY <1>1 DEF feedbackVars, RequestsIInv, RequestsFollow, Numbered, CopiesSent, LossCounted,
                Gone, Back!Packet
  <2> QED
    BY <1>1, <2>1 DEF feedbackVars, RequestsIInv, RequestsFollow, Receivers
<1>2. CASE /\ Back!Next /\ flow = "request" /\ session = 1
  <2>1. RequestsFollow
    BY <1>2 DEF RequestsIInv
  <2>2. CASE Back!Request
    <3>1. UNCHANGED <<flow, session, receiver>>
      BY <2>2 DEF Back!Request
    <3> QED
      BY <1>2, <2>1, <2>2, <3>1, RequestStep DEF RequestsIInv, RequestsFollow, Receivers
  <2>3. CASE Back!FlushRequest
    <3>1. UNCHANGED <<flow, session, receiver>>
      BY <2>3 DEF Back!FlushRequest
    <3> QED
      BY <1>2, <2>1, <2>3, <3>1, SendRequestStep DEF RequestsIInv, RequestsFollow, Receivers
  <2>4. CASE Back!Lose
    <3>1. UNCHANGED <<flow, session, receiver>>
      BY <2>4 DEF Back!Lose
    <3> QED
      BY <1>2, <2>1, <2>4, <3>1, LoseRequestStep DEF RequestsIInv, RequestsFollow, Receivers
  <2>5. CASE Back!ReceiveRequest
    <3>1. UNCHANGED <<flow, session>>
      BY <2>5 DEF Back!ReceiveRequest
    <3> QED
      BY <1>2, <2>1, <2>5, <3>1, ReceiveRequestStep DEF RequestsIInv
  <2>6. CASE Back!Again
    <3>1. session' = 2 /\ UNCHANGED receiver
      BY <1>2, <2>6 DEF Back!Again
    <3> QED
      BY <2>1, <3>1 DEF RequestsIInv, RequestsFollow, Receivers
  <2>7. CASE Back!ScanOver
    <3>1. receiver' = [receiver EXCEPT !.view = 0]
          /\ UNCHANGED <<flow, session, origin, net, dropped>>
      BY <2>7 DEF Back!ScanOver
    <3>2. receiver' \in Receivers /\ receiver'.n = receiver.n /\ receiver'.seq = receiver.seq
          /\ receiver.n \in Nat
      BY <2>1, <3>1 DEF RequestsFollow, Receivers
    <3> QED
      BY <1>2, <2>1, <3>1, <3>2
      DEF RequestsIInv, RequestsFollow, Numbered, CopiesSent, LossCounted, Gone, Back!Packet
  <2>8. CASE Back!EffectOver
    <3>1. UNCHANGED <<flow, session, origin, net, dropped, receiver>>
      BY <2>8 DEF Back!EffectOver
    <3> QED
      BY <1>2, <2>1, <3>1
      DEF RequestsIInv, RequestsFollow, Receivers, Numbered, CopiesSent, LossCounted, Gone,
          Back!Packet
  <2> QED
    BY <1>2, <2>2, <2>3, <2>4, <2>5, <2>6, <2>7, <2>8, RequestsRest DEF Back!Next
<1>3. CASE Back!Next /\ ~(flow = "request" /\ session = 1)
  <2>1. UNCHANGED flow /\ (session' = session \/ session' = session + 1)
    BY <1>3, RequestsFlow
  <2>2. session \in Nat \ {0}
    BY DEF RequestsIInv
  <2> QED
    BY <1>3, <2>1, <2>2 DEF RequestsIInv
<1> QED
  BY <1>1, <1>2, <1>3 DEF Next, vars

THEOREM FeedbackTheorem == Spec => FeedbackArrives
<1> DEFINE Both == ValuesIInv /\ RequestsIInv
<1>1. Init => Both
  BY ValuesStart, RequestsStart
<1>2. Both /\ [Next]_vars => Both'
  BY ValuesStep, RequestsStep
<1>3. Both => Back!FeedbackInv
  <2> SUFFICES ASSUME Both PROVE Back!FeedbackInv
    OBVIOUS
  <2>1. Back!RecordedIsSent
    BY DEF ValuesIInv, Recorded, Back!RecordedIsSent
  <2>2. Back!SettledIsShown(session = 1)
    <3> SUFFICES ASSUME flow = "request", session = 1, origin.n > 0, origin.copies = 0,
                        net = {}, dropped <= 2, receiver.n # origin.n
                 PROVE  FALSE
      BY DEF Back!SettledIsShown
    <3>1. Gone(1) = 1 /\ Gone(2) = 1 /\ Gone(3) = 1
      BY DEF Gone
    <3>2. dropped = 3
      BY <3>1 DEF RequestsIInv, RequestsFollow, LossCounted
    <3> QED
      BY <3>2
  <2> QED
    BY <2>1, <2>2 DEF ValuesIInv, MotorsOwned, Back!FeedbackInv
<1>4. Both /\ [Next]_vars
        => [session = 1 => receiver'.n >= receiver.n \/ flow # "request"]_(Back!vars)
  BY RequestsStep
<1> HIDE DEF Both
<1> QED
  BY <1>1, <1>2, <1>3, <1>4, PTL DEF Spec, FeedbackArrives, Back!ScanForward

-----------------------------------------------------------------------------
(***************************************************************************)
(* Frames of a pad.  Within one run of the client their numbers count the  *)
(* frames, from the one the run began with.                                *)
(***************************************************************************)

\* The number that counts the n-th frame, for a client that started again after this many.
Counts(base, frame) ==
  /\ frame.n \in Nat /\ frame.run \in {1, 2}
  /\ frame.seq = frame.n - 1 - (IF frame.run = 1 THEN 0 ELSE base)

PadCounted(base) ==
  /\ controls.runs \in {1, 2} /\ controls.seq = sent - (IF controls.runs = 1 THEN 0 ELSE base)
  /\ \A frame \in inputNet : frame.n > 0 /\ frame.run <= controls.runs /\ Counts(base, frame)
  /\ input.run <= controls.runs /\ input.seq \in Int
  /\ input.first => input.n = 0 /\ input.run = 1
  /\ ~input.first => Counts(base, input)

\* What was ignored is at most the window behind.
PadIInv ==
  /\ stream \in {"pad", "mouse"} /\ sent \in Nat
  /\ input.expected \in Int
  /\ input.ignored \subseteq (input.expected - sequenceWindow)..(input.expected - 1)
  /\ input.expected = input.seq + 1 \/ input.first
  /\ stream = "pad" => \E base \in Int : PadCounted(base)

LEMMA SoonHeardHolds == PadIInv => Streams!SoonHeard
<1> SUFFICES ASSUME PadIInv PROVE Streams!Cardinality(input.ignored) <= sequenceWindow
  BY DEF Streams!SoonHeard
<1> DEFINE low == input.expected - sequenceWindow
           high == input.expected - 1
<1>1. low \in Int /\ high \in Int /\ sequenceWindow \in Nat
  BY NetworkAssumption DEF NetworkAssumption, PadIInv
<1>2. low > high \/ high - low + 1 = sequenceWindow
  BY <1>1 DEF PadIInv
<1>3. input.ignored \in SUBSET (low..high)
  BY DEF PadIInv
<1> HIDE DEF low, high
<1>4. IsFiniteSet(low..high) /\ Cardinality(low..high) <= sequenceWindow
  BY <1>1, <1>2, FS_Interval
<1>5. Cardinality(input.ignored) <= Cardinality(low..high)
  BY <1>3, <1>4, FS_Subset
<1>6. Cardinality(input.ignored) \in Nat /\ Cardinality(low..high) \in Nat
  BY <1>3, <1>4, FS_Subset, FS_CardinalityType
<1>7. Streams!Cardinality(input.ignored) = Cardinality(input.ignored)
  BY DEF Streams!Cardinality, Cardinality
<1> QED
  BY <1>1, <1>4, <1>5, <1>6, <1>7

LEMMA PadStart == Init => PadIInv
<1> SUFFICES ASSUME Streams!Init PROVE PadIInv
  BY DEF Init
<1>1. /\ stream \in {"pad", "mouse"} /\ inputNet = {} /\ sent = 0
      /\ input.first /\ input.expected = 0 /\ input.n = 0 /\ input.run = 1 /\ input.ignored = {}
      /\ input.seq = 0
  BY DEF Streams!Init
<1>2. stream = "pad" => controls.seq = 0 /\ controls.runs = 1
  BY DEF Streams!Init
<1>3. stream = "pad" => PadCounted(0)
  BY <1>1, <1>2 DEF PadCounted
<1> QED
  BY <1>1, <1>3 DEF PadIInv

\* A frame in force replaced by an older one of its run is far behind.
LEMMA ReceiveFrameStep ==
  ASSUME PadIInv, Streams!ReceiveFrame
  PROVE  /\ PadIInv'
         /\ input'.n < input.n => input'.run # input.run \/ input.seq - input'.seq >= sequenceWindow
<1>1. PICK packet \in inputNet :
        /\ inputNet' = inputNet \ {packet}
        /\ input' = IF Streams!Stale(packet)
             THEN [input EXCEPT !.ignored = IF packet.n > input.n THEN @ \cup {packet.seq} ELSE @]
             ELSE [first |-> FALSE, expected |-> packet.seq + 1, n |-> packet.n,
                   run |-> packet.run, seq |-> packet.seq, input |-> Streams!Played(packet),
                   ignored |-> {}, seen |-> IF packet.present THEN "recent" ELSE input.seen]
  BY DEF Streams!ReceiveFrame
<1>2. stream = "pad" /\ UNCHANGED <<stream, sent, controls>>
  BY DEF Streams!ReceiveFrame
<1>3. PICK base \in Int : PadCounted(base)
  BY <1>2 DEF PadIInv
<1>4. Counts(base, packet) /\ packet.n > 0 /\ packet.seq \in Int /\ packet.n \in Nat
      /\ sequenceWindow \in Nat
  BY <1>3, NetworkAssumption DEF PadCounted, Counts, NetworkAssumption
<1>5. CASE Streams!Stale(packet)
  <2>1. /\ input'.first = input.first /\ input'.expected = input.expected /\ input'.n = input.n
        /\ input'.run = input.run /\ input'.seq = input.seq
        /\ input'.ignored \subseteq input.ignored \cup {packet.seq}
    BY <1>1, <1>5
  <2>2. packet.seq \in (input.expected - sequenceWindow)..(input.expected - 1)
    BY <1>4, <1>5 DEF Streams!Stale, Streams!SequenceJump, PadIInv
  <2>3. PadCounted(base)'
    BY <1>1, <1>2, <1>3, <2>1 DEF PadCounted, Counts
  <2>4. PadIInv'
    BY <1>2, <2>1, <2>2, <2>3 DEF PadIInv
  <2>5. input.n \in Nat
    BY <1>3 DEF PadCounted, Counts
  <2> QED
    BY <2>1, <2>4, <2>5
<1>6. CASE ~Streams!Stale(packet)
  <2>1. /\ input'.first = FALSE /\ input'.expected = packet.seq + 1 /\ input'.n = packet.n
        /\ input'.run = packet.run /\ input'.seq = packet.seq /\ input'.ignored = {}
    BY <1>1, <1>6
  <2>2. PadCounted(base)'
    BY <1>1, <1>2, <1>3, <1>4, <2>1 DEF PadCounted, Counts
  <2>3. PadIInv'
    BY <1>2, <1>4, <2>1, <2>2 DEF PadIInv
  <2>4. ASSUME packet.n < input.n, packet.run = input.run
        PROVE  input.seq - packet.seq >= sequenceWindow
    <3>1. ~input.first /\ Counts(base, input) /\ input.seq \in Int
      BY <1>3, <1>4, <2>4 DEF PadCounted
    <3>2. packet.seq < input.seq
      BY <1>4, <2>4, <3>1 DEF Counts
    <3>3. input.expected = input.seq + 1
      BY <3>1 DEF PadIInv
    <3>4. input.expected - packet.seq > sequenceWindow
      BY <1>4, <1>6, <3>1, <3>2, <3>3 DEF Streams!Stale, Streams!SequenceJump
    <3> QED
      BY <1>4, <3>1, <3>3, <3>4
  <2> QED
    BY <2>1, <2>3, <2>4
<1> QED
  BY <1>5, <1>6

\* What the client does, and what the network loses.
LEMMA SendFrameStep ==
  ASSUME PadIInv, Streams!SendFrame \/ Streams!Restart \/ Streams!Player \/ Streams!Lose
  PROVE  PadIInv' /\ UNCHANGED input
<1>1. UNCHANGED <<stream, input>>
  BY DEF Streams!SendFrame, Streams!Restart, Streams!Player, Streams!Lose, Streams!Send
<1>2. sent' \in Nat
  <2>1. sent' = sent \/ sent' = sent + 1
    BY DEF Streams!SendFrame, Streams!Restart, Streams!Player, Streams!Lose, Streams!Send
  <2> QED
    BY <2>1 DEF PadIInv
<1>3. SUFFICES ASSUME stream = "pad" PROVE \E base \in Int : PadCounted(base)'
  BY <1>1, <1>2 DEF PadIInv
<1>4. PICK base \in Int : PadCounted(base)
  BY <1>3 DEF PadIInv
<1>5. CASE Streams!SendFrame
  <2> DEFINE frame == [seq |-> controls.seq, run |-> controls.runs, n |-> sent + 1,
                       input |-> controls.input, present |-> controls.present]
  <2>1. /\ inputNet' = inputNet \cup {frame} /\ sent' = sent + 1
        /\ controls'.runs = controls.runs /\ controls'.seq = controls.seq + 1
    BY <1>4, <1>5 DEF Streams!SendFrame, Streams!Send, PadCounted
  <2>2. frame.n > 0 /\ frame.run <= controls.runs /\ Counts(base, frame)
    BY <1>4 DEF PadIInv, PadCounted, Counts
  <2> HIDE DEF frame
  <2>3. PadCounted(base)'
    BY <1>1, <1>4, <2>1, <2>2 DEF PadIInv, PadCounted, Counts
  <2> QED
    BY <2>3
<1>6. CASE Streams!Restart
  <2>1. /\ controls.runs = 1 /\ controls'.runs = 2 /\ controls'.seq = 0
        /\ UNCHANGED <<inputNet, sent>>
    BY <1>6 DEF Streams!Restart
  <2>2. PICK now \in Int : now = sent
    BY DEF PadIInv
  <2>3. PadCounted(now)'
    BY <1>1, <1>4, <2>1, <2>2 DEF PadCounted, Counts
  <2> QED
    BY <2>3
<1>7. CASE Streams!Player \/ Streams!Lose
  <2>1. /\ controls'.runs = controls.runs /\ controls'.seq = controls.seq
        /\ inputNet' \subseteq inputNet /\ UNCHANGED sent
    <3>1. CASE Streams!Lose
      BY <3>1 DEF Streams!Lose
    <3>2. ASSUME NEW held, NEW present,
                 controls' = [controls EXCEPT !.input = held, !.present = present]
          PROVE  controls'.runs = controls.runs /\ controls'.seq = controls.seq
      BY <3>2
    <3>3. CASE Streams!Player
      BY <3>2, <3>3 DEF Streams!Player
    <3> QED
      BY <1>7, <3>1, <3>3
  <2>2. PadCounted(base)'
    BY <1>1, <1>4, <2>1 DEF PadCounted, Counts
  <2> QED
    BY <2>2
<1> QED
  BY <1>5, <1>6, <1>7

LEMMA PadAbsentStep ==
  ASSUME PadIInv, Streams!PadAbsent
  PROVE  PadIInv' /\ input'.n = input.n
<1>1. /\ UNCHANGED <<stream, sent, inputNet, controls>>
      /\ input' = [input EXCEPT !.seen = "old"]
  BY DEF Streams!PadAbsent
<1>2. /\ input'.first = input.first /\ input'.expected = input.expected /\ input'.n = input.n
      /\ input'.run = input.run /\ input'.seq = input.seq /\ input'.ignored = input.ignored
  BY <1>1
<1> QED
  BY <1>1, <1>2 DEF PadIInv, PadCounted, Counts

LEMMA PadStep ==
  ASSUME PadIInv, [Next]_vars
  PROVE  /\ PadIInv'
         /\ input'.n < input.n /\ input' # input
              => input'.run # input.run \/ input.seq - input'.seq >= sequenceWindow
<1>1. CASE UNCHANGED streamsVars
  BY <1>1 DEF streamsVars, PadIInv, PadCounted, Counts
<1>2. CASE \/ Streams!SendMouse \/ Streams!Die \/ Streams!ReceiveMouse \/ Streams!Quiet
           \/ Streams!Feature \/ Streams!Consume
  <2>1. stream = "mouse" /\ UNCHANGED <<stream, input>> /\ sent' \in {sent, sent + 1}
    <3>1. CASE Streams!SendMouse
      BY <3>1 DEF Streams!SendMouse, Streams!Update, Streams!Send
    <3>2. CASE Streams!Die \/ Streams!Quiet \/ Streams!Feature
      BY <3>2 DEF Streams!Die, Streams!Quiet, Streams!Feature
    <3>3. CASE Streams!ReceiveMouse
      BY <3>3 DEF Streams!ReceiveMouse
    <3>4. CASE Streams!Consume
      BY <3>4 DEF Streams!Consume
    <3> QED
      BY <1>2, <3>1, <3>2, <3>3, <3>4
  <2> QED
    BY <2>1 DEF PadIInv
<1>3. CASE Streams!PadAbsent
  <2>1. PadIInv' /\ input'.n = input.n /\ stream = "pad"
    BY <1>3, PadAbsentStep DEF Streams!PadAbsent
  <2>2. input.n \in Nat
    BY <2>1 DEF PadIInv, PadCounted, Counts
  <2> QED
    BY <2>1, <2>2
<1> QED
  BY <1>1, <1>2, <1>3, ReceiveFrameStep, SendFrameStep DEF Streams!Next, Next, vars

-----------------------------------------------------------------------------
(***************************************************************************)
(* The movement of a mouse.                                                *)
(***************************************************************************)

LEMMA MaxOfTwo ==
  ASSUME NEW a \in Int, NEW b \in Int
  PROVE  Streams!Max({a, b}) = IF a >= b THEN a ELSE b
<1> DEFINE top == IF a >= b THEN a ELSE b
           Tops == {x \in {a, b} : \A y \in {a, b} : x >= y}
<1>1. top \in {a, b} /\ (\A y \in {a, b} : top >= y)
  OBVIOUS
<1>2. ASSUME NEW x \in {a, b}, \A y \in {a, b} : x >= y PROVE x = top
  BY <1>2
<1> HIDE DEF top
<1>3. Streams!Max({a, b}) = CHOOSE x \in {a, b} : \A y \in {a, b} : x >= y
  BY DEF Streams!Max
<1>4. Streams!Max({a, b}) = top
  BY <1>1, <1>2, <1>3
<1> QED
  BY <1>4 DEF top

LEMMA MinOfTwo ==
  ASSUME NEW a \in Int, NEW b \in Int
  PROVE  Streams!Min({a, b}) = IF a <= b THEN a ELSE b
<1> DEFINE low == IF a <= b THEN a ELSE b
<1>1. low \in {a, b} /\ (\A y \in {a, b} : low <= y)
  OBVIOUS
<1>2. ASSUME NEW x \in {a, b}, \A y \in {a, b} : x <= y PROVE x = low
  BY <1>2
<1> HIDE DEF low
<1>3. Streams!Min({a, b}) = CHOOSE x \in {a, b} : \A y \in {a, b} : x <= y
  BY DEF Streams!Min
<1>4. Streams!Min({a, b}) = low
  BY <1>1, <1>2, <1>3
<1> QED
  BY <1>4 DEF low

LEMMA ClampIsBetween ==
  ASSUME NEW x \in Int
  PROVE  Streams!Clamp(x, 1, 4) \in 1..4
<1>1. Streams!Min({x, 4}) = IF x <= 4 THEN x ELSE 4
  BY MinOfTwo
<1> DEFINE m == Streams!Min({x, 4})
<1>2. m \in Int /\ m <= 4
  BY <1>1
<1> HIDE DEF m
<1>3. Streams!Max({1, m}) = IF 1 >= m THEN 1 ELSE m
  BY <1>2, MaxOfTwo
<1>4. Streams!Clamp(x, 1, 4) = IF 1 >= m THEN 1 ELSE m
  BY <1>3 DEF Streams!Clamp, m
<1> QED
  BY <1>2, <1>4

\* Rounding keeps what it leaves within one half.
LEMMA RoundedLeaves ==
  ASSUME NEW h \in Int
  PROVE  Streams!Rounded(h) \in Int /\ h - 2 * Streams!Rounded(h) \in -1..1
BY DEF Streams!Rounded

LEMMA SmoothedPlays ==
  ASSUME NEW x \in Int, NEW frames \in Int, frames >= 1
  PROVE  /\ Streams!Smoothed(x, frames) \in Int
         /\ frames = 1 => Streams!Smoothed(x, frames) = x
<1> DEFINE size == IF x >= -x THEN x ELSE -x
           share == IF size \div frames >= 1 THEN size \div frames ELSE 1
<1>1. Streams!Max({x, -x}) = size
  BY MaxOfTwo
<1>2. size \in Int /\ size \div frames \in Int
  OBVIOUS
<1>3. Streams!Max({size \div frames, 1}) = share
  BY <1>2, MaxOfTwo
<1>4. Streams!Smoothed(x, frames) = IF x = 0 THEN 0 ELSE IF x > 0 THEN share ELSE -share
  BY <1>1, <1>3 DEF Streams!Smoothed
<1>5. share \in Int /\ (frames = 1 => share = IF size >= 1 THEN size ELSE 1)
  BY <1>2
<1> HIDE DEF share
<1> QED
  BY <1>4, <1>5

Mice == [active : BOOLEAN, first : BOOLEAN, lastSeq : Int, n : Nat, quiet : BOOLEAN, stamp : Int,
         pending : Int, frames : Nat, left : BOOLEAN, feature : BOOLEAN]

\* What waits is what is owed, and has frames to be played in.
MovementIInv ==
  /\ mouse \in Mice /\ mouse.pending = owed
  /\ mouse.pending # 0 => mouse.frames > 0
  /\ controls.residual \in -1..1 /\ controls.clock \in Int /\ controls.seq \in Int
  /\ DOMAIN controls = {"seq", "runs", "input", "present", "alive", "residual", "flags", "clock"}
  /\ stream = "mouse" => \A packet \in inputNet :
       /\ packet.dx \in Int /\ packet.ts \in Int /\ packet.seq \in Int /\ packet.n \in Nat
       /\ packet.left \in BOOLEAN

LEMMA RestIsAMouse == Streams!Rest \in Mice /\ Streams!Rest.pending = 0
<1> TRUE \in BOOLEAN /\ FALSE \in BOOLEAN
  OBVIOUS
<1> QED
  BY DEF Mice, Streams!Rest

LEMMA MovementStart == Init => MovementIInv
<1> SUFFICES ASSUME Streams!Init PROVE MovementIInv
  BY DEF Init
<1> TRUE \in BOOLEAN /\ FALSE \in BOOLEAN
  OBVIOUS
<1>1. PICK start \in IF stream = "mouse" THEN {0, 2 * halfCircle - 2} ELSE {0} :
        /\ controls = [seq |-> start, runs |-> 1, input |-> "neutral", present |-> TRUE,
                       alive |-> TRUE, residual |-> 0, flags |-> <<FALSE, FALSE>>, clock |-> 1]
        /\ mouse = IF start = 0 THEN Streams!Rest
                   ELSE [Streams!Rest EXCEPT !.first = FALSE, !.lastSeq = start - 1]
  BY DEF Streams!Init
<1>2. start \in Int /\ start - 1 \in Int
  BY NetworkAssumption DEF NetworkAssumption
<1> DEFINE r == [Streams!Rest EXCEPT !.first = FALSE]
           q == [r EXCEPT !.lastSeq = start - 1]
<1>3. Streams!Rest \in Mice /\ Streams!Rest.pending = 0
  BY RestIsAMouse
<1>4. r \in Mice /\ r.pending = 0
  BY <1>3 DEF Mice
<1> HIDE DEF r
<1>5. q \in Mice /\ q.pending = 0
  BY <1>2, <1>4 DEF Mice
<1>6. mouse = Streams!Rest \/ mouse = q
  BY <1>1 DEF r
<1> HIDE DEF q
<1>7. controls.residual = 0 /\ controls.clock = 1 /\ controls.seq = start
  BY <1>1
<1> QED
  BY <1>2, <1>3, <1>5, <1>6, <1>7 DEF Streams!Init, MovementIInv

LEMMA SendMouseStep ==
  ASSUME MovementIInv, sent \in Nat, Streams!SendMouse
  PROVE  /\ MovementIInv' /\ UNCHANGED <<stream, mouse>> /\ stream = "mouse"
         /\ controls'.seq = (controls.seq + 1) % (2 * halfCircle)
         /\ sent < mostPackets /\ sent' = sent + 1
         /\ \A packet \in inputNet' :
              \/ packet \in inputNet
              \/ packet.seq = controls.seq /\ packet.n = sent + 1
<1>1. PICK active \in BOOLEAN, left \in BOOLEAN, due \in BOOLEAN, moved \in {-1, mostMoved},
           frames \in 1..2 : Streams!Update(active, left, due, moved, frames)
  BY DEF Streams!SendMouse
<1>2. UNCHANGED <<stream, mouse, owed>> /\ stream = "mouse"
  BY DEF Streams!SendMouse
<1> DEFINE scaled == moved + controls.residual
           dx     == IF active THEN Streams!Rounded(scaled) ELSE 0
           rest   == IF active THEN scaled - 2 * dx ELSE controls.residual
           packet == [seq |-> controls.seq, n |-> sent + 1, active |-> active, left |-> left,
                      dx |-> dx, ts |-> controls.clock + frames]
           a == [controls EXCEPT !.seq = (@ + 1) % (2 * halfCircle)]
           b == [a EXCEPT !.flags = <<active, left>>]
           c == [b EXCEPT !.clock = @ + frames]
           d == [c EXCEPT !.residual = rest]
<1>3. inputNet' = inputNet \cup {packet} /\ sent < mostPackets /\ sent' = sent + 1
  BY <1>1, <1>2 DEF Streams!Update, Streams!Send
<1>4. controls' = d
  BY <1>1 DEF Streams!Update
<1>5. scaled \in Int /\ 2 * halfCircle \in Nat \ {0}
  BY NetworkAssumption DEF NetworkAssumption, MovementIInv
<1>6. dx \in Int /\ rest \in -1..1
  <2> HIDE DEF scaled
  <2>1. Streams!Rounded(scaled) \in Int /\ scaled - 2 * Streams!Rounded(scaled) \in -1..1
    BY <1>5, RoundedLeaves
  <2> QED
    BY <2>1 DEF MovementIInv
<1> HIDE DEF scaled, dx, rest
<1>7. DOMAIN controls = {"seq", "runs", "input", "present", "alive", "residual", "flags", "clock"}
  BY DEF MovementIInv
<1>8. /\ controls'.seq = (controls.seq + 1) % (2 * halfCircle)
      /\ controls'.clock = controls.clock + frames /\ controls'.residual = rest
      /\ DOMAIN controls' = DOMAIN controls
  <2>1. a.seq = (controls.seq + 1) % (2 * halfCircle) /\ a.clock = controls.clock
        /\ DOMAIN a = DOMAIN controls
    BY <1>7
  <2> HIDE DEF a
  <2>2. b.seq = a.seq /\ b.clock = a.clock /\ DOMAIN b = DOMAIN controls
    BY <1>7, <2>1
  <2> HIDE DEF b
  <2>3. c.seq = b.seq /\ c.clock = b.clock + frames /\ DOMAIN c = DOMAIN controls
    BY <1>7, <2>2
  <2> HIDE DEF c
  <2>4. d.seq = c.seq /\ d.clock = c.clock /\ d.residual = rest /\ DOMAIN d = DOMAIN controls
    BY <1>7, <2>3
  <2> HIDE DEF d
  <2> QED
    BY <1>4, <2>1, <2>2, <2>3, <2>4
<1>9. controls'.seq \in Int /\ controls'.clock \in Int
  BY <1>5, <1>8 DEF MovementIInv
<1>10. /\ packet.seq = controls.seq /\ packet.n = sent + 1 /\ packet.dx = dx
       /\ packet.ts = controls.clock + frames /\ packet.left = left
  OBVIOUS
<1> HIDE DEF packet
<1>11. packet.dx \in Int /\ packet.ts \in Int /\ packet.seq \in Int /\ packet.n \in Nat
       /\ packet.left \in BOOLEAN
  BY <1>6, <1>10 DEF MovementIInv
<1>12. MovementIInv'
  BY <1>2, <1>3, <1>6, <1>8, <1>9, <1>11 DEF MovementIInv
<1> QED
  BY <1>2, <1>3, <1>8, <1>10, <1>12

\* A packet that is taken owes its movement, and gives it frames.
LEMMA ReceiveMouseStep ==
  ASSUME MovementIInv, Streams!ReceiveMouse
  PROVE  /\ MovementIInv' /\ UNCHANGED <<stream, sent, controls>> /\ stream = "mouse"
         /\ \E packet \in inputNet :
              /\ inputNet' = inputNet \ {packet}
              /\ \/ UNCHANGED mouse
                 \/ /\ Streams!NewMouse(packet)
                    /\ mouse'.first = FALSE /\ mouse'.lastSeq = packet.seq /\ mouse'.n = packet.n
<1> TRUE \in BOOLEAN /\ FALSE \in BOOLEAN
  OBVIOUS
<1>1. PICK packet \in inputNet :
        /\ inputNet' = inputNet \ {packet}
        /\ \/ UNCHANGED <<mouse, owed>>
           \/ /\ Streams!Taken(packet)
              /\ mouse' = [Streams!Rest EXCEPT !.first = FALSE, !.lastSeq = packet.seq,
                                               !.n = packet.n, !.feature = mouse.feature]
              /\ owed' = owed - mouse.pending
           \/ /\ Streams!Taken(packet)
              /\ mouse' = [active |-> TRUE, first |-> FALSE, lastSeq |-> packet.seq, n |-> packet.n,
                           quiet |-> FALSE, left |-> packet.left, stamp |-> packet.ts,
                           pending |-> mouse.pending + packet.dx, feature |-> mouse.feature,
                           frames |-> IF packet.dx = 0 THEN mouse.frames
                                      ELSE Streams!Max({mouse.frames, Streams!FramesOf(packet)})]
              /\ owed' = owed + packet.dx
  BY DEF Streams!ReceiveMouse
<1>2. stream = "mouse" /\ UNCHANGED <<stream, sent, controls>>
  BY DEF Streams!ReceiveMouse
<1>3. /\ packet.dx \in Int /\ packet.ts \in Int /\ packet.seq \in Int /\ packet.n \in Nat
      /\ packet.left \in BOOLEAN
  BY <1>2 DEF MovementIInv
<1>4. /\ mouse.feature \in BOOLEAN /\ mouse.pending \in Int /\ mouse.frames \in Nat
      /\ mouse.stamp \in Int /\ mouse.pending = owed
  BY DEF MovementIInv, Mice
<1>5. ASSUME mouse' \in Mice, mouse'.pending = owed', mouse'.pending # 0 => mouse'.frames > 0
      PROVE  MovementIInv'
  BY <1>1, <1>2, <1>5 DEF MovementIInv
<1>6. CASE UNCHANGED <<mouse, owed>>
  <2>1. MovementIInv'
    BY <1>1, <1>2, <1>6 DEF MovementIInv
  <2> QED
    BY <1>1, <1>2, <1>6, <2>1
<1>7. CASE /\ Streams!Taken(packet)
           /\ mouse' = [Streams!Rest EXCEPT !.first = FALSE, !.lastSeq = packet.seq,
                                            !.n = packet.n, !.feature = mouse.feature]
           /\ owed' = owed - mouse.pending
  <2> DEFINE a == [Streams!Rest EXCEPT !.first = FALSE]
             b == [a EXCEPT !.lastSeq = packet.seq]
             c == [b EXCEPT !.n = packet.n]
             d == [c EXCEPT !.feature = mouse.feature]
  <2>1. a \in Mice /\ a.pending = 0 /\ a.first = FALSE
    BY RestIsAMouse DEF Mice
  <2> HIDE DEF a
  <2>2. b \in Mice /\ b.pending = 0 /\ b.first = FALSE /\ b.lastSeq = packet.seq
    BY <1>3, <2>1 DEF Mice
  <2> HIDE DEF b
  <2>3. c \in Mice /\ c.pending = 0 /\ c.first = FALSE /\ c.lastSeq = packet.seq
        /\ c.n = packet.n
    BY <1>3, <2>2 DEF Mice
  <2> HIDE DEF c
  <2>4. d \in Mice /\ d.pending = 0 /\ d.first = FALSE /\ d.lastSeq = packet.seq
        /\ d.n = packet.n
    BY <1>4, <2>3 DEF Mice
  <2> HIDE DEF d
  <2>5. mouse' = d /\ owed' = 0
    BY <1>4, <1>7 DEF a, b, c, d
  <2> QED
    BY <1>1, <1>2, <1>5, <1>7, <2>4, <2>5 DEF Streams!Taken
<1>8. CASE /\ Streams!Taken(packet)
           /\ mouse' = [active |-> TRUE, first |-> FALSE, lastSeq |-> packet.seq, n |-> packet.n,
                        quiet |-> FALSE, left |-> packet.left, stamp |-> packet.ts,
                        pending |-> mouse.pending + packet.dx, feature |-> mouse.feature,
                        frames |-> IF packet.dx = 0 THEN mouse.frames
                                   ELSE Streams!Max({mouse.frames, Streams!FramesOf(packet)})]
           /\ owed' = owed + packet.dx
  <2> DEFINE span == Streams!FramesOf(packet)
             frames == IF packet.dx = 0 THEN mouse.frames ELSE Streams!Max({mouse.frames, span})
  <2>1. span \in 1..4
    BY <1>3, <1>4, ClampIsBetween DEF Streams!FramesOf
  <2> HIDE DEF span
  <2>2. Streams!Max({mouse.frames, span}) = IF mouse.frames >= span THEN mouse.frames ELSE span
    BY <1>4, <2>1, MaxOfTwo
  <2>3. frames \in Nat /\ (packet.dx # 0 => frames > 0) /\ (packet.dx = 0 => frames = mouse.frames)
    BY <1>4, <2>1, <2>2
  <2>4. mouse' = [active |-> TRUE, first |-> FALSE, lastSeq |-> packet.seq, n |-> packet.n,
                  quiet |-> FALSE, left |-> packet.left, stamp |-> packet.ts,
                  pending |-> mouse.pending + packet.dx, feature |-> mouse.feature,
                  frames |-> frames]
    BY <1>8 DEF span
  <2> HIDE DEF frames
  <2>5. mouse.pending + packet.dx \in Int
    BY <1>3, <1>4
  <2>6. mouse' \in Mice /\ mouse'.pending = mouse.pending + packet.dx /\ mouse'.frames = frames
        /\ mouse'.first = FALSE /\ mouse'.lastSeq = packet.seq /\ mouse'.n = packet.n
    BY <1>3, <1>4, <2>3, <2>4, <2>5 DEF Mice
  <2>7. mouse'.pending = owed' /\ (mouse'.pending # 0 => mouse'.frames > 0)
    BY <1>3, <1>4, <1>8, <2>3, <2>6 DEF MovementIInv
  <2> QED
    BY <1>1, <1>2, <1>5, <1>8, <2>6, <2>7 DEF Streams!Taken
<1> QED
  BY <1>1, <1>6, <1>7, <1>8

\* The writer plays a share of what waits, or drops what a rule discards; the last frame
\* plays the rest.
LEMMA ConsumeStep ==
  ASSUME MovementIInv, Streams!Consume
  PROVE  /\ MovementIInv' /\ UNCHANGED <<stream, sent, controls, inputNet>>
         /\ mouse'.first = mouse.first /\ mouse'.lastSeq = mouse.lastSeq /\ mouse'.n = mouse.n
<1> TRUE \in BOOLEAN /\ FALSE \in BOOLEAN
  OBVIOUS
<1> DEFINE span == Streams!Max({mouse.frames, 1})
           dx == Streams!Smoothed(mouse.pending, span)
           next == Streams!Max({mouse.frames - 1, 0})
           rest == mouse.pending - dx
<1>1. UNCHANGED <<stream, sent, controls, inputNet>>
  BY DEF Streams!Consume
<1>2. /\ mouse \in Mice /\ mouse.pending \in Int /\ mouse.frames \in Nat /\ mouse.pending = owed
      /\ mouse.n \in Nat /\ mouse.lastSeq \in Int /\ mouse.first \in BOOLEAN
      /\ mouse.feature \in BOOLEAN
  BY DEF MovementIInv, Mice
<1>3. ASSUME mouse' \in Mice, mouse'.pending = owed', mouse'.pending # 0 => mouse'.frames > 0
      PROVE  MovementIInv'
  BY <1>1, <1>3 DEF MovementIInv
<1>4. /\ span = IF mouse.frames >= 1 THEN mouse.frames ELSE 1
      /\ next = IF mouse.frames >= 1 THEN mouse.frames - 1 ELSE 0
  BY <1>2, MaxOfTwo
<1> HIDE DEF span, next
<1>5. span \in Int /\ span >= 1
  BY <1>2, <1>4
<1>6. dx \in Int /\ (mouse.frames <= 1 => dx = mouse.pending)
  BY <1>2, <1>4, <1>5, SmoothedPlays
<1> HIDE DEF dx
<1>7. rest \in Int /\ next \in Nat /\ (rest # 0 => next > 0) /\ rest = owed - dx
  BY <1>2, <1>4, <1>6
<1>8. \/ mouse' = Streams!Silenced /\ owed' = owed - mouse.pending
      \/ mouse' = [mouse EXCEPT !.pending = 0, !.frames = 0] /\ owed' = owed - mouse.pending
      \/ mouse' = [mouse EXCEPT !.pending = rest, !.frames = next] /\ owed' = owed - dx
  BY DEF Streams!Consume, Streams!Remaining, span, dx, next
<1> HIDE DEF rest
<1>9. ASSUME NEW p \in Int, NEW f \in Nat, mouse' = [mouse EXCEPT !.pending = p, !.frames = f]
      PROVE  /\ mouse' \in Mice /\ mouse'.pending = p /\ mouse'.frames = f
             /\ mouse'.first = mouse.first /\ mouse'.lastSeq = mouse.lastSeq /\ mouse'.n = mouse.n
  <2> DEFINE a == [mouse EXCEPT !.pending = p]
             b == [a EXCEPT !.frames = f]
  <2>1. /\ a \in Mice /\ a.pending = p
        /\ a.first = mouse.first /\ a.lastSeq = mouse.lastSeq /\ a.n = mouse.n
    BY <1>2 DEF Mice
  <2> HIDE DEF a
  <2>2. /\ b \in Mice /\ b.pending = p /\ b.frames = f
        /\ b.first = mouse.first /\ b.lastSeq = mouse.lastSeq /\ b.n = mouse.n
    BY <2>1 DEF Mice
  <2> HIDE DEF b
  <2>3. mouse' = b
    BY <1>9 DEF a, b
  <2> QED
    BY <2>2, <2>3
<1>10. CASE mouse' = Streams!Silenced /\ owed' = owed - mouse.pending
  <2> DEFINE a == [Streams!Rest EXCEPT !.first = mouse.first]
             b == [a EXCEPT !.lastSeq = mouse.lastSeq]
             c == [b EXCEPT !.n = mouse.n]
             d == [c EXCEPT !.feature = mouse.feature]
  <2>1. a \in Mice /\ a.pending = 0 /\ a.first = mouse.first
    BY <1>2, RestIsAMouse DEF Mice
  <2> HIDE DEF a
  <2>2. b \in Mice /\ b.pending = 0 /\ b.first = mouse.first /\ b.lastSeq = mouse.lastSeq
    BY <1>2, <2>1 DEF Mice
  <2> HIDE DEF b
  <2>3. c \in Mice /\ c.pending = 0 /\ c.first = mouse.first /\ c.lastSeq = mouse.lastSeq
        /\ c.n = mouse.n
    BY <1>2, <2>2 DEF Mice
  <2> HIDE DEF c
  <2>4. d \in Mice /\ d.pending = 0 /\ d.first = mouse.first /\ d.lastSeq = mouse.lastSeq
        /\ d.n = mouse.n
    BY <1>2, <2>3 DEF Mice
  <2> HIDE DEF d
  <2>5. mouse' = d /\ owed' = 0
    BY <1>2, <1>10 DEF a, b, c, d, Streams!Silenced
  <2>6. MovementIInv'
    BY <1>3, <2>4, <2>5
  <2> QED
    BY <1>1, <2>4, <2>5, <2>6
<1>11. CASE mouse' = [mouse EXCEPT !.pending = 0, !.frames = 0] /\ owed' = owed - mouse.pending
  <2>1. owed' = 0
    BY <1>2, <1>11
  <2>2. 0 \in Int /\ 0 \in Nat
    OBVIOUS
  <2>3. /\ mouse' \in Mice /\ mouse'.pending = 0
        /\ mouse'.first = mouse.first /\ mouse'.lastSeq = mouse.lastSeq /\ mouse'.n = mouse.n
    BY <1>9, <1>11, <2>2
  <2>4. MovementIInv'
    BY <1>3, <2>1, <2>3
  <2> QED
    BY <1>1, <2>3, <2>4
<1>12. CASE mouse' = [mouse EXCEPT !.pending = rest, !.frames = next] /\ owed' = owed - dx
  BY <1>1, <1>3, <1>7, <1>9, <1>12
<1> QED
  BY <1>8, <1>10, <1>11, <1>12

-----------------------------------------------------------------------------
(***************************************************************************)
(* The numbers of a mouse go round a circle; a client sends fewer packets  *)
(* than half of it.                                                        *)
(***************************************************************************)

\* The number of the n-th packet of a mouse that starts with this one.
Place(start, n) ==
  IF start + n - 1 < 2 * halfCircle THEN start + n - 1 ELSE start + n - 1 - 2 * halfCircle

MouseStarts == {0, 2 * halfCircle - 2}

LEMMA Around ==
  ASSUME NEW start \in MouseStarts, NEW a \in 1..mostPackets, NEW b \in 0..mostPackets,
         start # 0 \/ b > 0
  PROVE  Streams!Newer(Place(start, a), Place(start, b)) <=> a > b
<1> DEFINE w == 2 * halfCircle
           x == Place(start, a) - Place(start, b)
           d == a - b
<1>1. /\ halfCircle \in Nat \ {0} /\ mostPackets \in Nat /\ mostPackets < halfCircle
      /\ w \in Nat \ {0} /\ 2 * halfCircle <= w /\ d \in Int /\ start \in Nat
  BY NetworkAssumption DEF NetworkAssumption, MouseStarts
<1>2. Place(start, a) \in Int /\ Place(start, b) \in Int /\ x \in Int
  BY <1>1 DEF Place
<1>3. ASSUME a > b PROVE x % w \in 1..(halfCircle - 1)
  <2>1. 0 < d /\ d < halfCircle /\ x \in {d, d - w}
    BY <1>1, <1>3 DEF Place, MouseStarts
  <2> HIDE DEF x, w, d
  <2> QED
    BY <1>1, <1>2, <2>1, HalfTells
<1>4. ASSUME a <= b PROVE x % w \notin 1..(halfCircle - 1)
  <2>1. -halfCircle <= d /\ d <= 0 /\ x \in {d, d + w}
    BY <1>1, <1>4 DEF Place, MouseStarts
  <2> HIDE DEF x, w, d
  <2> QED
    BY <1>1, <1>2, <2>1, HalfTells
<1> HIDE DEF x
<1>5. a > b \/ a <= b
  OBVIOUS
<1>6. x % w \in 1..(halfCircle - 1) <=> a > b
  BY <1>3, <1>4, <1>5
<1> QED
  BY <1>6 DEF x, w, Streams!Newer

LEMMA PlaceNext ==
  ASSUME NEW start \in MouseStarts, NEW n \in 1..mostPackets
  PROVE  (Place(start, n) + 1) % (2 * halfCircle) = Place(start, n + 1)
<1> DEFINE w == 2 * halfCircle
           x == Place(start, n)
<1>1. /\ halfCircle \in Nat \ {0} /\ mostPackets \in Nat /\ mostPackets < halfCircle
      /\ w \in Nat \ {0} /\ start \in Nat
  BY NetworkAssumption DEF NetworkAssumption, MouseStarts
<1>2. /\ x \in 0..(w - 1)
      /\ x + 1 < w => Place(start, n + 1) = x + 1
      /\ x + 1 = w => Place(start, n + 1) = 0
  BY <1>1 DEF Place, MouseStarts
<1> HIDE DEF x, w
<1>3. CASE x + 1 < w
  <2>1. ASSUME NEW y \in Int, 0 <= y, y < w PROVE y % w = y
    BY <1>1, <2>1, Modulo
  <2>2. x + 1 \in Int /\ 0 <= x + 1
    BY <1>1, <1>2
  <2>3. (x + 1) % w = x + 1
    BY <1>3, <2>1, <2>2
  <2> QED
    BY <1>2, <1>3, <2>3 DEF x, w
<1>4. CASE x + 1 = w
  <2>1. (x + 1) % w = 0
    <3>1. w % w = 0
      BY <1>1
    <3> QED
      BY <1>4, <3>1
  <2> QED
    BY <1>2, <1>4, <2>1 DEF x, w
<1>5. x + 1 < w \/ x + 1 = w
  BY <1>1, <1>2
<1> QED
  BY <1>3, <1>4, <1>5

\* The numbers on the way and in the session count the packets of the mouse.
MouseNumbered(start) ==
  /\ sent <= mostPackets /\ controls.seq = Place(start, sent + 1)
  /\ \A packet \in inputNet : packet.n \in 1..sent /\ packet.seq = Place(start, packet.n)
  /\ mouse.n \in 0..sent
  /\ IF mouse.first THEN mouse.n = 0
     ELSE mouse.lastSeq = Place(start, mouse.n) /\ (start # 0 \/ mouse.n > 0)

MouseIInv == stream = "mouse" => \E start \in MouseStarts : MouseNumbered(start)

StreamsIInv == PadIInv /\ MovementIInv /\ MouseIInv

LEMMA NewMouseTells ==
  ASSUME NEW start \in MouseStarts, MouseNumbered(start), sent \in Nat, NEW packet \in inputNet
  PROVE  Streams!NewMouse(packet) <=> packet.n > mouse.n
<1>1. packet.n \in 1..mostPackets /\ mouse.n \in 0..mostPackets
  BY NetworkAssumption DEF NetworkAssumption, MouseNumbered
<1>2. CASE mouse.first
  BY <1>1, <1>2 DEF MouseNumbered, Streams!NewMouse
<1>3. CASE ~mouse.first
  <2>1. /\ packet.seq = Place(start, packet.n) /\ mouse.lastSeq = Place(start, mouse.n)
        /\ start # 0 \/ mouse.n > 0
    BY <1>3 DEF MouseNumbered
  <2> QED
    BY <1>1, <1>3, <2>1, Around DEF Streams!NewMouse
<1> QED
  BY <1>2, <1>3

LEMMA MouseStart == Init => MouseIInv
<1> SUFFICES ASSUME Streams!Init, stream = "mouse" PROVE \E start \in MouseStarts : MouseNumbered(start)
  BY DEF Init, MouseIInv
<1>1. PICK start \in MouseStarts :
        /\ controls = [seq |-> start, runs |-> 1, input |-> "neutral", present |-> TRUE,
                       alive |-> TRUE, residual |-> 0, flags |-> <<FALSE, FALSE>>, clock |-> 1]
        /\ mouse = IF start = 0 THEN Streams!Rest
                   ELSE [Streams!Rest EXCEPT !.first = FALSE, !.lastSeq = start - 1]
  BY DEF Streams!Init, MouseStarts
<1>2. inputNet = {} /\ sent = 0 /\ mostPackets \in Nat /\ halfCircle \in Nat /\ halfCircle > 0
  BY NetworkAssumption DEF NetworkAssumption, Streams!Init
<1>3. start \in Nat /\ Place(start, 1) = start /\ (start # 0 => Place(start, 0) = start - 1)
  BY <1>2 DEF Place, MouseStarts
<1>4. /\ mouse.n = 0 /\ (start = 0 => mouse.first)
      /\ start # 0 => ~mouse.first /\ mouse.lastSeq = start - 1
  BY <1>1 DEF Streams!Rest
<1>5. controls.seq = start
  BY <1>1
<1>6. MouseNumbered(start)
  BY <1>2, <1>3, <1>4, <1>5 DEF MouseNumbered
<1> QED
  BY <1>6

LEMMA StreamsStart == Init => StreamsIInv
BY PadStart, MovementStart, MouseStart DEF StreamsIInv

LEMMA MouseStep ==
  ASSUME StreamsIInv, [Next]_vars
  PROVE  /\ MovementIInv' /\ MouseIInv'
         /\ UNCHANGED mouse \/ mouse'.n >= mouse.n
<1>1. CASE UNCHANGED streamsVars
  BY <1>1 DEF streamsVars, StreamsIInv, MovementIInv, MouseIInv, MouseNumbered
<1>2. sent \in Nat /\ MovementIInv /\ mouse.n \in Nat
  BY DEF StreamsIInv, PadIInv, MovementIInv, Mice
<1>3. ASSUME stream = "mouse"
      PROVE  \E start \in MouseStarts : MouseNumbered(start)
  BY <1>3 DEF StreamsIInv, MouseIInv
<1>4. CASE Streams!SendMouse
  <2>1. /\ MovementIInv' /\ UNCHANGED <<stream, mouse>> /\ stream = "mouse"
        /\ controls'.seq = (controls.seq + 1) % (2 * halfCircle)
        /\ sent < mostPackets /\ sent' = sent + 1
        /\ \A packet \in inputNet' :
             \/ packet \in inputNet
             \/ packet.seq = controls.seq /\ packet.n = sent + 1
    BY <1>2, <1>4, SendMouseStep
  <2>2. PICK start \in MouseStarts : MouseNumbered(start)
    BY <1>3, <2>1
  <2>3. sent + 1 \in 1..mostPackets
    BY <1>2, <2>1, NetworkAssumption DEF NetworkAssumption
  <2>4. controls'.seq = Place(start, sent' + 1)
    BY <2>1, <2>2, <2>3, PlaceNext DEF MouseNumbered
  <2>5. MouseNumbered(start)'
    BY <1>2, <2>1, <2>2, <2>3, <2>4 DEF MouseNumbered
  <2> QED
    BY <2>1, <2>5 DEF MouseIInv
<1>5. CASE Streams!ReceiveMouse
  <2>1. /\ MovementIInv' /\ UNCHANGED <<stream, sent, controls>> /\ stream = "mouse"
    BY <1>2, <1>5, ReceiveMouseStep
  <2>2. PICK packet \in inputNet :
          /\ inputNet' = inputNet \ {packet}
          /\ \/ UNCHANGED mouse
             \/ /\ Streams!NewMouse(packet)
                /\ mouse'.first = FALSE /\ mouse'.lastSeq = packet.seq /\ mouse'.n = packet.n
    BY <1>2, <1>5, ReceiveMouseStep
  <2>3. PICK start \in MouseStarts : MouseNumbered(start)
    BY <1>3, <2>1
  <2>4. Streams!NewMouse(packet) <=> packet.n > mouse.n
    BY <1>2, <2>3, NewMouseTells
  <2>5. packet.n \in 1..sent /\ packet.seq = Place(start, packet.n)
    BY <2>3 DEF MouseNumbered
  <2>6. MouseNumbered(start)'
    BY <1>2, <2>1, <2>2, <2>3, <2>5 DEF MouseNumbered
  <2> QED
    BY <1>2, <2>1, <2>2, <2>4, <2>5, <2>6 DEF MouseIInv
<1>6. CASE Streams!Consume
  <2>1. /\ MovementIInv' /\ UNCHANGED <<stream, sent, controls, inputNet>>
        /\ mouse'.first = mouse.first /\ mouse'.lastSeq = mouse.lastSeq /\ mouse'.n = mouse.n
    BY <1>2, <1>6, ConsumeStep
  <2>2. MouseIInv'
    BY <2>1, <1>3 DEF MouseIInv, MouseNumbered
  <2> QED
    BY <1>2, <2>1, <2>2
<1>7. CASE Streams!Quiet \/ Streams!Feature
  <2>1. /\ UNCHANGED <<stream, sent, controls, inputNet, owed>>
        /\ mouse' = [mouse EXCEPT !.quiet = TRUE] \/ mouse' = [mouse EXCEPT !.feature = ~@]
    BY <1>7 DEF Streams!Quiet, Streams!Feature
  <2>2. /\ mouse'.first = mouse.first /\ mouse'.lastSeq = mouse.lastSeq /\ mouse'.n = mouse.n
        /\ mouse'.pending = mouse.pending /\ mouse'.frames = mouse.frames /\ mouse' \in Mice
    BY <1>2, <2>1 DEF MovementIInv, Mice
  <2>3. MovementIInv' /\ MouseIInv'
    BY <1>2, <1>3, <2>1, <2>2 DEF MovementIInv, MouseIInv, MouseNumbered
  <2> QED
    BY <1>2, <2>2, <2>3
<1>8. CASE Streams!Lose
  <2>1. UNCHANGED <<stream, sent, controls, mouse, owed>> /\ inputNet' \subseteq inputNet
    BY <1>8 DEF Streams!Lose
  <2>2. MovementIInv' /\ MouseIInv'
    BY <1>2, <1>3, <2>1 DEF MovementIInv, MouseIInv, MouseNumbered
  <2> QED
    BY <2>1, <2>2
<1>9. CASE Streams!Die
  <2>1. /\ UNCHANGED <<stream, sent, mouse, owed, inputNet>>
        /\ controls' = [controls EXCEPT !.alive = FALSE]
    BY <1>9 DEF Streams!Die
  <2>2. controls'.seq = controls.seq /\ controls'.residual = controls.residual
        /\ controls'.clock = controls.clock /\ DOMAIN controls' = DOMAIN controls
    BY <1>2, <2>1 DEF MovementIInv
  <2>3. MovementIInv' /\ MouseIInv'
    BY <1>2, <1>3, <2>1, <2>2 DEF MovementIInv, MouseIInv, MouseNumbered
  <2> QED
    BY <2>1, <2>3
<1>10. CASE \/ Streams!Player \/ Streams!SendFrame \/ Streams!Restart \/ Streams!ReceiveFrame
            \/ Streams!PadAbsent
  <2>1. stream = "pad" /\ UNCHANGED <<stream, mouse, owed>>
    BY <1>10 DEF Streams!Player, Streams!SendFrame, Streams!Restart, Streams!ReceiveFrame,
                 Streams!PadAbsent
  <2>2. /\ controls'.residual = controls.residual /\ controls'.clock = controls.clock
        /\ controls'.seq \in Int /\ DOMAIN controls' = DOMAIN controls
    <3>1. CASE Streams!ReceiveFrame \/ Streams!PadAbsent
      BY <1>2, <3>1 DEF MovementIInv, Streams!ReceiveFrame, Streams!PadAbsent
    <3>2. CASE Streams!SendFrame
      BY <1>2, <3>2 DEF MovementIInv, Streams!SendFrame
    <3>3. ASSUME NEW held, NEW present,
                 controls' = [controls EXCEPT !.input = held, !.present = present]
          PROVE  /\ controls'.residual = controls.residual /\ controls'.clock = controls.clock
                 /\ controls'.seq = controls.seq /\ DOMAIN controls' = DOMAIN controls
      BY <1>2, <3>3 DEF MovementIInv
    <3>4. CASE Streams!Player
      BY <1>2, <3>3, <3>4 DEF MovementIInv, Streams!Player
    <3>5. CASE Streams!Restart
      BY <1>2, <3>5 DEF MovementIInv, Streams!Restart
    <3> QED
      BY <1>10, <3>1, <3>2, <3>4, <3>5
  <2> QED
    BY <1>2, <2>1, <2>2 DEF MovementIInv, MouseIInv
<1> QED
  BY <1>1, <1>4, <1>5, <1>6, <1>7, <1>8, <1>9, <1>10 DEF Streams!Next, Next, vars

THEOREM StreamsTheorem == Spec => StreamsFollow
<1>1. Init => StreamsIInv
  BY StreamsStart
<1>2. StreamsIInv /\ [Next]_vars => StreamsIInv'
  BY PadStep, MouseStep DEF StreamsIInv
<1>3. StreamsIInv => Streams!SoonHeard /\ Streams!MovementKept /\ Streams!MovementDrains
  BY SoonHeardHolds
  DEF StreamsIInv, MovementIInv, Streams!MovementKept, Streams!MovementDrains
<1>4. StreamsIInv => Streams!NumbersTell
  BY NewMouseTells DEF StreamsIInv, PadIInv, MouseIInv, Streams!NumbersTell
<1>5. StreamsIInv /\ [Next]_vars
        => [input'.n < input.n =>
              input'.run # input.run \/ input.seq - input'.seq >= sequenceWindow]_input
  BY PadStep DEF StreamsIInv
<1>6. StreamsIInv /\ [Next]_vars => [mouse'.n >= mouse.n]_mouse
  BY MouseStep DEF StreamsIInv
<1> QED
  BY <1>1, <1>2, <1>3, <1>4, <1>5, <1>6, PTL
  DEF Spec, StreamsFollow, Streams!OlderNeedsDistance, Streams!MouseForward

-----------------------------------------------------------------------------
(***************************************************************************)
(* Macros in pieces.  Every upload of one run of the client has a number   *)
(* of its own, and a slot collects the chunks of one number.               *)
(***************************************************************************)

\* A datagram carries its command of its text.
Carries(d) ==
  /\ d.of.text \in texts /\ d.of.run \in Nat /\ d.id \in Nat /\ d.of.id = d.id
  /\ d.count = Len(d.of.text) /\ d.index \in 1..d.count /\ d.part = d.of.text[d.index]
  /\ d.kind = "whole" => d.count = 1

\* What the slot has was sent under the slot's number, each chunk at its place.
Collected ==
  /\ upload.active \in BOOLEAN /\ DOMAIN upload = {"active", "id", "count", "got"}
  /\ \A i \in DOMAIN upload.got :
       /\ Carries(upload.got[i]) /\ upload.got[i].index = i
       /\ upload.active /\ upload.got[i].id = upload.id /\ upload.got[i].count = upload.count

\* The uploads of which something is left.
Known == {d.of : d \in uploadNet} \cup {upload.got[i].of : i \in DOMAIN upload.got}

\* Uploads of one run have numbers of their own, of those the run gave out.
Distinct ==
  /\ \A p \in Known : p.run <= uploader.run /\ (p.run = uploader.run => p.id <= uploader.seq)
  /\ \A p, q \in Known : p.run = q.run /\ p.id = q.id => p = q

UploadIInv ==
  /\ uploader \in [run : Nat, seq : Nat, uploads : Nat]
  /\ \A d \in uploadNet : Carries(d)
  /\ Collected /\ Distinct
  /\ Macro!OneUpload

LEMMA UploadStart == Init => UploadIInv
<1> SUFFICES ASSUME Macro!Init PROVE UploadIInv
  BY DEF Init
<1>1. uploadNet = {} /\ upload.got = <<>> /\ DOMAIN upload.got = {} /\ upload.active = FALSE
      /\ DOMAIN upload = {"active", "id", "count", "got"}
  BY DEF Macro!Init, Macro!NoUpload
<1>2. Collected /\ Known = {}
  BY <1>1 DEF Collected, Known
<1>3. Macro!OneUpload
  BY DEF Macro!Init, Macro!NoMacro, Macro!OneUpload
<1>4. uploader \in [run : Nat, seq : Nat, uploads : Nat]
  BY DEF Macro!Init
<1> QED
  BY <1>1, <1>2, <1>3, <1>4 DEF UploadIInv, Distinct

\* A new upload has the next number of its run.
LEMMA UploadStep ==
  ASSUME UploadIInv, NEW text \in texts, Macro!Upload(text)
  PROVE  UploadIInv'
<1> DEFINE kind == IF Len(text) = 1 THEN "whole" ELSE "chunk"
           of == [run |-> uploader.run, id |-> uploader.seq + 1, text |-> text]
           packets == {Macro!Datagram(kind, text, i) : i \in 1..Len(text)}
           more == IF kind = "whole" THEN 1 ELSE 1 + Len(text)
           a == [uploader EXCEPT !.uploads = @ + 1]
           b == [a EXCEPT !.seq = @ + more]
<1>1. /\ uploadNet' = uploadNet \cup packets /\ uploader' = b
      /\ UNCHANGED <<upload, macro>>
  BY DEF Macro!Upload
<1>2. text \in Seq([input : STRING, n : Nat]) /\ Len(text) \in Nat
  BY NetworkAssumption DEF NetworkAssumption
<1>3. uploader.run \in Nat /\ uploader.seq \in Nat /\ uploader.uploads \in Nat
  BY DEF UploadIInv
<1>4. uploader' \in [run : Nat, seq : Nat, uploads : Nat] /\ uploader'.run = uploader.run
      /\ uploader'.seq = uploader.seq + more /\ more >= 1 /\ more \in Nat
  <2>1. a \in [run : Nat, seq : Nat, uploads : Nat] /\ a.run = uploader.run
        /\ a.seq = uploader.seq
    BY DEF UploadIInv
  <2>2. more \in Nat /\ more >= 1
    BY <1>2
  <2> HIDE DEF a, more
  <2>3. b \in [run : Nat, seq : Nat, uploads : Nat] /\ b.run = a.run /\ b.seq = a.seq + more
    BY <2>1, <2>2
  <2> QED
    BY <1>1, <2>1, <2>2, <2>3
<1>5. ASSUME NEW d \in packets PROVE Carries(d) /\ d.of = of
  <2>1. PICK i \in 1..Len(text) : d = Macro!Datagram(kind, text, i)
    OBVIOUS
  <2>2. /\ d.kind = kind /\ d.id = uploader.seq + 1 /\ d.index = i /\ d.count = Len(text)
        /\ d.part = text[i] /\ d.of = of
    BY <2>1 DEF Macro!Datagram, Macro!NextId
  <2>3. of.run = uploader.run /\ of.id = uploader.seq + 1 /\ of.text = text
    OBVIOUS
  <2>4. kind = "whole" => Len(text) = 1
    OBVIOUS
  <2> HIDE DEF of, kind
  <2> QED
    BY <1>2, <1>3, <2>2, <2>3, <2>4 DEF Carries
<1>6. Known' \subseteq Known \cup {of}
  BY <1>1, <1>5 DEF Known
<1>7. of.run = uploader.run /\ of.id = uploader.seq + 1
  OBVIOUS
<1> HIDE DEF of, packets, more
<1>8. \A p \in Known : ~(p.run = of.run /\ p.id = of.id)
  BY <1>3, <1>7 DEF UploadIInv, Distinct
<1>9. \A p \in Known' : p.run <= uploader'.run /\ (p.run = uploader'.run => p.id <= uploader'.seq)
  <2>1. ASSUME NEW p \in Known, p.run = uploader.run PROVE p.id <= uploader'.seq
    <3>1. p.id <= uploader.seq /\ p.id \in Nat
      BY <2>1 DEF UploadIInv, Distinct, Known, Collected, Carries
    <3> QED
      BY <1>3, <1>4, <3>1
  <2>2. \A p \in Known : p.run <= uploader.run
    BY DEF UploadIInv, Distinct
  <2> QED
    BY <1>3, <1>4, <1>6, <1>7, <2>1, <2>2
<1>10. \A p, q \in Known' : p.run = q.run /\ p.id = q.id => p = q
  BY <1>6, <1>8 DEF UploadIInv, Distinct
<1> QED
  BY <1>1, <1>4, <1>5, <1>9, <1>10 DEF UploadIInv, Distinct, Collected, Macro!OneUpload

\* What starts is one upload, or of several runs; or the macro stays what it was.
LEMMA StartPlays ==
  ASSUME Macro!OneUpload, NEW text, NEW ofs,
         \A p, q \in ofs : p.run = q.run => p = q,
         \A p \in ofs : ofs = {p} => text = p.text,
         Macro!Start(text, ofs)
  PROVE  Macro!OneUpload'
<1>1. CASE macro' = Macro!Admitted
  BY <1>1 DEF Macro!Admitted, Macro!OneUpload
<1>2. CASE macro' = [steps |-> Macro!Parse(text).steps, running |-> TRUE, at |-> 0,
                     text |-> text, parts |-> ofs, repeated |-> ofs \subseteq started]
  <2>1. macro'.parts = ofs /\ macro'.text = text
    BY <1>2
  <2> QED
    BY <2>1 DEF Macro!OneUpload
<1> QED
  BY <1>1, <1>2 DEF Macro!Start

\* A chunk joins those of its number.
LEMMA ChunkStep ==
  ASSUME UploadIInv, NEW d \in uploadNet, Macro!HandleChunk(d), uploadNet' \subseteq uploadNet,
         UNCHANGED uploader
  PROVE  UploadIInv'
<1> TRUE \in BOOLEAN /\ FALSE \in BOOLEAN
  OBVIOUS
<1> DEFINE slot == Macro!SlotFor(d)
           got == IF d.index \in DOMAIN slot.got THEN slot.got
                  ELSE [i \in DOMAIN slot.got \cup {d.index} |-> IF i = d.index THEN d ELSE slot.got[i]]
           now == [slot EXCEPT !.got = got]
           text == [i \in 1..slot.count |-> got[i].part]
           ofs == {got[i].of : i \in 1..slot.count}
<1>1. Carries(d)
  BY DEF UploadIInv
<1>2. /\ slot.active = TRUE /\ slot.id = d.id /\ DOMAIN slot = {"active", "id", "count", "got"}
      /\ \A i \in DOMAIN slot.got :
           /\ Carries(slot.got[i]) /\ slot.got[i].index = i
           /\ slot.got[i].id = slot.id /\ slot.got[i].count = slot.count
           /\ slot.got[i].of \in Known
  <2>1. CASE upload.active /\ upload.id = d.id
    BY <2>1 DEF Macro!SlotFor, UploadIInv, Collected, Known
  <2>2. CASE ~(upload.active /\ upload.id = d.id)
    <3>1. slot = [active |-> TRUE, id |-> d.id, count |-> d.count, got |-> <<>>]
      BY <2>2 DEF Macro!SlotFor
    <3>2. DOMAIN slot.got = {}
      BY <3>1
    <3> QED
      BY <3>1, <3>2
  <2> QED
    BY <2>1, <2>2
<1> HIDE DEF slot
<1>3. ASSUME slot.count = d.count
      PROVE  \A i \in DOMAIN got :
               /\ Carries(got[i]) /\ got[i].index = i
               /\ got[i].id = slot.id /\ got[i].count = slot.count
               /\ got[i].of \in Known
  <2>1. d.of \in Known
    BY DEF Known
  <2>2. CASE d.index \in DOMAIN slot.got
    BY <1>2, <2>2
  <2>3. CASE d.index \notin DOMAIN slot.got
    <3>1. DOMAIN got = DOMAIN slot.got \cup {d.index} /\ got[d.index] = d
          /\ \A i \in DOMAIN slot.got : got[i] = slot.got[i]
      BY <2>3
    <3> HIDE DEF got
    <3> QED
      BY <1>1, <1>2, <1>3, <2>1, <3>1
  <2> QED
    BY <2>2, <2>3
<1>4. \/ slot.count # d.count /\ upload' = slot /\ macro' = Macro!Admitted
      \/ /\ slot.count = d.count /\ DOMAIN got = 1..slot.count
         /\ upload' = Macro!NoUpload /\ Macro!Start(text, ofs)
      \/ slot.count = d.count /\ upload' = now /\ macro' = Macro!Admitted
  BY DEF Macro!HandleChunk, Macro!Emptied, slot
<1> HIDE DEF got
<1>5. now.active = slot.active /\ now.id = slot.id /\ now.count = slot.count /\ now.got = got
      /\ DOMAIN now = DOMAIN slot
  BY <1>2
<1> HIDE DEF now
<1>6. ASSUME Known' \subseteq Known PROVE Distinct'
  BY <1>6 DEF UploadIInv, Distinct
<1>7. ASSUME macro' = Macro!Admitted PROVE Macro!OneUpload'
  BY <1>7 DEF UploadIInv, Macro!Admitted, Macro!OneUpload
<1>8. CASE slot.count # d.count /\ upload' = slot /\ macro' = Macro!Admitted
  <2>1. Collected'
    BY <1>2, <1>8 DEF Collected
  <2>2. Known' \subseteq Known
    BY <1>2, <1>8 DEF Known
  <2> QED
    BY <1>6, <1>7, <1>8, <2>1, <2>2 DEF UploadIInv
<1>9. CASE slot.count = d.count /\ upload' = now /\ macro' = Macro!Admitted
  <2>1. Collected'
    BY <1>2, <1>3, <1>5, <1>9 DEF Collected
  <2>2. Known' \subseteq Known
    BY <1>3, <1>5, <1>9 DEF Known
  <2> QED
    BY <1>6, <1>7, <1>9, <2>1, <2>2 DEF UploadIInv
<1>10. CASE /\ slot.count = d.count /\ DOMAIN got = 1..slot.count
            /\ upload' = Macro!NoUpload /\ Macro!Start(text, ofs)
  <2>1. upload'.got = <<>> /\ DOMAIN upload'.got = {} /\ upload'.active = FALSE
        /\ DOMAIN upload' = {"active", "id", "count", "got"}
    BY <1>10 DEF Macro!NoUpload
  <2>2. Collected' /\ Known' \subseteq Known
    BY <2>1 DEF Collected, Known
  <2>3. ASSUME NEW p \in ofs, NEW q \in ofs, p.run = q.run PROVE p = q
    <3>1. PICK i \in 1..slot.count : p = got[i].of
      BY <2>3
    <3>2. PICK j \in 1..slot.count : q = got[j].of
      BY <2>3
    <3>3. \A k \in 1..slot.count : got[k].of \in Known /\ got[k].of.id = slot.id
      BY <1>3, <1>10 DEF Carries
    <3>4. p \in Known /\ q \in Known /\ p.id = slot.id /\ q.id = slot.id
      BY <3>1, <3>2, <3>3
    <3> QED
      BY <2>3, <3>4 DEF UploadIInv, Distinct
  <2>4. ASSUME NEW p \in ofs, ofs = {p} PROVE text = p.text
    <3>1. ASSUME NEW i \in 1..slot.count
          PROVE  got[i].of = p /\ got[i].part = p.text[i] /\ slot.count = Len(p.text)
      <4>1. got[i].of \in ofs
        OBVIOUS
      <4>2. got[i].of = p
        <5> HIDE DEF ofs
        <5> QED
          BY <2>4, <4>1
      <4> QED
        BY <1>3, <1>10, <4>2 DEF Carries
    <3>2. p.text \in texts
      BY <1>3, <1>10, <2>4 DEF Carries
    <3>3. p.text \in Seq([input : STRING, n : Nat])
      BY <3>2, NetworkAssumption DEF NetworkAssumption
    <3>4. \E i \in 1..slot.count : TRUE
      BY <2>4
    <3>5. slot.count = Len(p.text)
      BY <3>1, <3>4
    <3>6. text = [i \in 1..Len(p.text) |-> p.text[i]]
      BY <3>1, <3>5
    <3>7. p.text = [i \in 1..Len(p.text) |-> p.text[i]]
      BY <3>3
    <3> HIDE DEF text
    <3> QED
      BY <3>6, <3>7
  <2>5. Macro!OneUpload'
    <3> HIDE DEF text, ofs
    <3> QED
      BY <1>10, <2>3, <2>4, StartPlays DEF UploadIInv
  <2> QED
    BY <1>6, <2>2, <2>5 DEF UploadIInv
<1> QED
  BY <1>4, <1>8, <1>9, <1>10

LEMMA WholeStep ==
  ASSUME UploadIInv, NEW d \in uploadNet, d.kind = "whole", Macro!Start(<<d.part>>, {d.of}),
         uploadNet' \subseteq uploadNet, UNCHANGED <<uploader, upload>>
  PROVE  UploadIInv'
<1>1. Carries(d)
  BY DEF UploadIInv
<1>2. d.of.text \in Seq([input : STRING, n : Nat])
  BY <1>1, NetworkAssumption DEF Carries, NetworkAssumption
<1>3. Len(d.of.text) = 1 /\ d.part = d.of.text[1]
  BY <1>1, <1>2 DEF Carries
<1>4. <<d.part>> = d.of.text
  BY <1>2, <1>3
<1>5. Macro!OneUpload'
  <2> DEFINE ofs == {d.of}
             text == <<d.part>>
  <2>1. /\ \A p, q \in ofs : p.run = q.run => p = q
        /\ \A p \in ofs : ofs = {p} => text = p.text
    BY <1>4
  <2>2. Macro!Start(text, ofs)
    OBVIOUS
  <2> HIDE DEF ofs, text
  <2> QED
    BY <2>1, <2>2, StartPlays DEF UploadIInv
<1>6. Known' \subseteq Known
  BY DEF Known
<1> QED
  BY <1>5, <1>6 DEF UploadIInv, Distinct, Collected

LEMMA MacroStep == UploadIInv /\ [Next]_vars => UploadIInv'
<1> SUFFICES ASSUME UploadIInv, [Next]_vars PROVE UploadIInv'
  OBVIOUS
<1>1. CASE UNCHANGED <<uploader, uploadNet, upload, macro>>
  BY <1>1 DEF UploadIInv, Collected, Distinct, Known, Macro!OneUpload
<1>2. CASE \E text \in texts : Macro!Upload(text)
  BY <1>2, UploadStep
<1>3. CASE Macro!Restart
  <2> DEFINE a == [uploader EXCEPT !.run = @ + 1]
             b == [a EXCEPT !.seq = 0]
  <2>1. uploader' = b /\ UNCHANGED <<uploadNet, upload, macro>>
    BY <1>3 DEF Macro!Restart
  <2>2. b \in [run : Nat, seq : Nat, uploads : Nat] /\ b.run = uploader.run + 1
    <3>1. a \in [run : Nat, seq : Nat, uploads : Nat] /\ a.run = uploader.run + 1
      BY DEF UploadIInv
    <3> HIDE DEF a
    <3> QED
      BY <3>1
  <2> HIDE DEF b
  <2>3. \A p \in Known : p.run \in Nat /\ p.run <= uploader.run /\ uploader.run \in Nat
    BY DEF UploadIInv, Distinct, Known, Collected, Carries
  <2>4. \A p \in Known : p.run <= uploader'.run /\ p.run # uploader'.run
    BY <2>1, <2>2, <2>3
  <2>5. Known' = Known
    BY <2>1 DEF Known
  <2> QED
    BY <2>1, <2>2, <2>4, <2>5 DEF UploadIInv, Distinct, Collected, Macro!OneUpload
<1>4. CASE Macro!Lose
  <2>1. UNCHANGED <<uploader, upload, macro>> /\ uploadNet' \subseteq uploadNet
    BY <1>4 DEF Macro!Lose
  <2>2. Known' \subseteq Known
    BY <2>1 DEF Known
  <2> QED
    BY <2>1, <2>2 DEF UploadIInv, Distinct, Collected, Macro!OneUpload
<1>5. CASE Macro!Receive
  <2>1. PICK d \in uploadNet :
          /\ uploadNet' \subseteq uploadNet /\ UNCHANGED uploader
          /\ IF d.kind = "whole" THEN Macro!Start(<<d.part>>, {d.of}) /\ UNCHANGED upload
             ELSE Macro!HandleChunk(d)
    BY <1>5 DEF Macro!Receive
  <2> QED
    BY <2>1, ChunkStep, WholeStep
<1>6. CASE Macro!Check \/ Macro!Apply \/ Macro!Tick \/ Macro!Reap \/ Macro!Reset
  <2>1. /\ UNCHANGED <<uploader, uploadNet, upload>>
        /\ macro'.parts = macro.parts /\ macro'.text = macro.text
    <3>1. CASE Macro!Check
      BY <3>1 DEF Macro!Check, Macro!Checked
    <3>2. CASE Macro!Apply
      BY <3>2 DEF Macro!Apply
    <3>3. CASE Macro!Tick
      BY <3>3 DEF Macro!Tick
    <3>4. CASE Macro!Reset
      BY <3>4 DEF Macro!Reset
    <3>5. CASE Macro!Reap
      BY <3>5 DEF Macro!Reap, Macro!Checked
    <3> QED
      BY <1>6, <3>1, <3>2, <3>3, <3>4, <3>5
  <2> QED
    BY <2>1 DEF UploadIInv, Collected, Distinct, Known, Macro!OneUpload
<1> QED
  BY <1>1, <1>2, <1>3, <1>4, <1>5, <1>6 DEF Next, vars, macroVars, Macro!Next

-----------------------------------------------------------------------------
(***************************************************************************)
(* Texts.  What validate_text makes of a text is the text unrolled: the    *)
(* steps of a prefix are those of the blocks that are closed and what      *)
(* follows the last of them, where the next block begins.                  *)
(***************************************************************************)
Commands == [input : STRING, n : Nat]

\* A set of numbers that is not empty has a least one.
LEMMA Least ==
  ASSUME NEW S \in SUBSET Nat, S # {}
  PROVE  \E x \in S : \A y \in S : x <= y
<1>1. IsWellFoundedOn(OpToRel(<, Nat), Nat)
  BY NatLessThanWellFounded
<1>2. PICK x \in S : \A y \in S : <<y, x>> \notin OpToRel(<, Nat)
  BY <1>1, WFMin
<1>3. \A y \in S : ~(y < x)
  BY <1>2 DEF OpToRel
<1> QED
  BY <1>3

\* Induction up to a number, with a set for the statement.
LEMMA Climbs ==
  ASSUME NEW K \in Nat, NEW S, 0 \in S,
         \A n \in 1..K : n - 1 \in S => n \in S
  PROVE  \A n \in 0..K : n \in S
<1> DEFINE Bad == {n \in 0..K : n \notin S}
<1> SUFFICES ASSUME Bad # {} PROVE FALSE
  OBVIOUS
<1>1. PICK n \in Bad : \A m \in Bad : n <= m
  <2>1. Bad \in SUBSET Nat
    OBVIOUS
  <2> HIDE DEF Bad
  <2> QED
    BY <2>1, Least
<1>2. n \in 1..K /\ n - 1 \in 0..K
  BY <1>1
<1>3. n - 1 \notin Bad
  BY <1>1, <1>2
<1> QED
  BY <1>1, <1>2, <1>3

\* A block, n times.
Timeses(run, b, n) ==
  run = [k \in 0..n |-> IF k = 0 THEN <<>> ELSE run[k - 1] \o b]

LEMMA TimesExist ==
  ASSUME NEW b, NEW K \in Nat
  PROVE  \E run : Timeses(run, b, K)
<1> DEFINE S == {n \in 0..K : \E run : Timeses(run, b, n)}
           New(f, k) == f[k - 1] \o b
<1>1. 0 \in S
  <2>1. Timeses([k \in 0..0 |-> <<>>], b, 0)
    BY DEF Timeses
  <2> QED
    BY <2>1
<1>2. ASSUME NEW n \in 1..K, n - 1 \in S
      PROVE  n \in S
  <2>1. PICK r : Timeses(r, b, n - 1)
    BY <1>2
  <2> DEFINE last == New(r, n)
             s == [k \in 0..n |-> IF k = n THEN last ELSE r[k]]
             t == [k \in 0..n |-> IF k = 0 THEN <<>> ELSE New(s, k)]
  <2>2. \A k \in 0..(n - 1) : s[k] = r[k]
    OBVIOUS
  <2>3. ASSUME NEW k \in 0..n PROVE s[k] = t[k]
    <3>1. CASE k = 0
      <4>1. r[0] = <<>>
        BY <2>1 DEF Timeses
      <4> QED
        BY <2>2, <3>1, <4>1
    <3>2. CASE k # 0 /\ k # n
      <4>1. k - 1 \in 0..(n - 1) /\ k \in 0..(n - 1)
        BY <3>2
      <4>2. r[k] = New(r, k)
        BY <2>1, <3>2, <4>1 DEF Timeses
      <4>3. s[k] = r[k] /\ New(s, k) = New(r, k)
        <5>1. s[k] = r[k] /\ s[k - 1] = r[k - 1]
          BY <2>2, <4>1
        <5> HIDE DEF s
        <5> QED
          BY <5>1
      <4>4. t[k] = New(s, k)
        BY <3>2
      <4> HIDE DEF s, t, New
      <4> QED
        BY <4>2, <4>3, <4>4
    <3>3. CASE k = n
      <4>1. New(s, n) = New(r, n) /\ s[n] = last
        <5>1. n - 1 \in 0..(n - 1)
          OBVIOUS
        <5>2. s[n - 1] = r[n - 1] /\ s[n] = last
          BY <2>2, <5>1
        <5> HIDE DEF s
        <5> QED
          BY <5>1, <5>2
      <4>2. t[n] = New(s, n)
        <5>1. n \in 0..n /\ n # 0
          OBVIOUS
        <5> HIDE DEF s, New
        <5> QED
          BY <5>1
      <4> HIDE DEF s, t, New
      <4> QED
        BY <3>3, <4>1, <4>2 DEF New
    <3> QED
      BY <3>1, <3>2, <3>3
  <2>4. s = t
    <3>1. s = [k \in 0..n |-> s[k]] /\ t = [k \in 0..n |-> t[k]]
      OBVIOUS
    <3> HIDE DEF s, t
    <3> QED
      BY <2>3, <3>1
  <2>5. Timeses(s, b, n)
    BY <2>4 DEF Timeses
  <2> QED
    BY <1>2, <2>5
<1> HIDE DEF S
<1>3. K \in S
  BY <1>1, <1>2, Climbs
<1> QED
  BY <1>3 DEF S

\* A text, command after command.
Nothing == [steps |-> <<>>, start |-> 0, ok |-> TRUE]

Parses(run, text, n) ==
  run = [k \in 0..n |-> IF k = 0 THEN Nothing ELSE Macro!Expand(run[k - 1], text[k])]

LEMMA ParsesExist ==
  ASSUME NEW text, NEW K \in Nat
  PROVE  \E run : Parses(run, text, K)
<1> DEFINE S == {n \in 0..K : \E run : Parses(run, text, n)}
           New(f, k) == Macro!Expand(f[k - 1], text[k])
<1>1. 0 \in S
  <2>1. Parses([k \in 0..0 |-> Nothing], text, 0)
    BY DEF Parses
  <2> QED
    BY <2>1
<1>2. ASSUME NEW n \in 1..K, n - 1 \in S
      PROVE  n \in S
  <2>1. PICK r : Parses(r, text, n - 1)
    BY <1>2
  <2> DEFINE last == New(r, n)
             s == [k \in 0..n |-> IF k = n THEN last ELSE r[k]]
             t == [k \in 0..n |-> IF k = 0 THEN Nothing ELSE New(s, k)]
  <2>2. \A k \in 0..(n - 1) : s[k] = r[k]
    OBVIOUS
  <2>3. ASSUME NEW k \in 0..n PROVE s[k] = t[k]
    <3>1. CASE k = 0
      <4>1. r[0] = Nothing
        BY <2>1 DEF Parses
      <4> QED
        BY <2>2, <3>1, <4>1
    <3>2. CASE k # 0 /\ k # n
      <4>1. k - 1 \in 0..(n - 1) /\ k \in 0..(n - 1)
        BY <3>2
      <4>2. r[k] = New(r, k)
        BY <2>1, <3>2, <4>1 DEF Parses
      <4>3. s[k] = r[k] /\ New(s, k) = New(r, k)
        <5>1. s[k] = r[k] /\ s[k - 1] = r[k - 1]
          BY <2>2, <4>1
        <5> HIDE DEF s
        <5> QED
          BY <5>1
      <4>4. t[k] = New(s, k)
        BY <3>2
      <4> HIDE DEF s, t, New
      <4> QED
        BY <4>2, <4>3, <4>4
    <3>3. CASE k = n
      <4>1. New(s, n) = New(r, n) /\ s[n] = last
        <5>1. n - 1 \in 0..(n - 1)
          OBVIOUS
        <5>2. s[n - 1] = r[n - 1] /\ s[n] = last
          BY <2>2, <5>1
        <5> HIDE DEF s
        <5> QED
          BY <5>1, <5>2
      <4>2. t[n] = New(s, n)
        <5>1. n \in 0..n /\ n # 0
          OBVIOUS
        <5> HIDE DEF s, New
        <5> QED
          BY <5>1
      <4> HIDE DEF s, t, New
      <4> QED
        BY <3>3, <4>1, <4>2 DEF New
    <3> QED
      BY <3>1, <3>2, <3>3
  <2>4. s = t
    <3>1. s = [k \in 0..n |-> s[k]] /\ t = [k \in 0..n |-> t[k]]
      OBVIOUS
    <3> HIDE DEF s, t
    <3> QED
      BY <2>3, <3>1
  <2>5. Parses(s, text, n)
    BY <2>4 DEF Parses
  <2> QED
    BY <1>2, <2>5
<1> HIDE DEF S
<1>3. K \in S
  BY <1>1, <1>2, Climbs
<1> QED
  BY <1>3 DEF S

\* A text, unrolled up to a command.
Closes(text, k) == k > 0 => Macro!IsLoop(text[k])

LastLoop(text, l, k) == l \in 0..k /\ Closes(text, l) /\ \A m \in (l + 1)..k : ~Closes(text, m)

Behind(text, k) == CHOOSE l \in 0..(k - 1) : Closes(text, l) /\ \A m \in (l + 1)..(k - 1) : ~Closes(text, m)

Block(text, k) == SubSeq(text, Behind(text, k) + 1, k - 1)

Uptos(run, text, n) ==
  run = [k \in 0..n |->
           IF k = 0 THEN <<>>
           ELSE IF Closes(text, k)
                THEN run[Behind(text, k)] \o Macro!Times(Block(text, k), IF text[k].n > 1 THEN text[k].n ELSE 1)
                ELSE Append(run[k - 1], text[k])]

\* Every command has a last loop before it, or the beginning of the text.
LEMMA BehindFacts ==
  ASSUME NEW text, NEW k \in Nat \ {0}
  PROVE  /\ LastLoop(text, Behind(text, k), k - 1)
         /\ \A l : LastLoop(text, l, k - 1) => l = Behind(text, k)
<1> DEFINE S == {n \in 0..(k - 1) : \E l : LastLoop(text, l, n)}
<1>1. 0 \in S
  <2>1. LastLoop(text, 0, 0)
    BY DEF LastLoop, Closes
  <2> QED
    BY <2>1
<1>2. ASSUME NEW n \in 1..(k - 1), n - 1 \in S PROVE n \in S
  <2>1. PICK l : LastLoop(text, l, n - 1)
    BY <1>2
  <2>2. CASE Closes(text, n)
    <3>1. LastLoop(text, n, n)
      BY <2>2 DEF LastLoop
    <3> QED
      BY <3>1
  <2>3. CASE ~Closes(text, n)
    <3>1. LastLoop(text, l, n)
      BY <2>1, <2>3 DEF LastLoop
    <3> QED
      BY <3>1
  <2> QED
    BY <2>2, <2>3
<1> HIDE DEF S
<1>3. k - 1 \in S
  <2>1. k - 1 \in Nat
    OBVIOUS
  <2> QED
    BY <1>1, <1>2, <2>1, Climbs
<1>4. PICK l : LastLoop(text, l, k - 1)
  BY <1>3 DEF S
<1>5. LastLoop(text, Behind(text, k), k - 1)
  BY <1>4 DEF LastLoop, Behind
<1>6. ASSUME NEW l1, NEW l2, LastLoop(text, l1, k - 1), LastLoop(text, l2, k - 1) PROVE l1 = l2
  <2>1. l1 \in 0..(k - 1) /\ l2 \in 0..(k - 1)
    BY <1>6 DEF LastLoop
  <2>2. ~(l1 < l2) /\ ~(l2 < l1)
    BY <1>6, <2>1 DEF LastLoop
  <2> QED
    BY <2>1, <2>2
<1> QED
  BY <1>5, <1>6

LEMMA UptosExist ==
  ASSUME NEW text, NEW K \in Nat
  PROVE  \E run : Uptos(run, text, K)
<1> DEFINE S == {n \in 0..K : \E run : Uptos(run, text, n)}
           New(f, k) == IF Closes(text, k)
                        THEN f[Behind(text, k)] \o Macro!Times(Block(text, k), IF text[k].n > 1 THEN text[k].n ELSE 1)
                        ELSE Append(f[k - 1], text[k])
<1>1. 0 \in S
  <2>1. Uptos([k \in 0..0 |-> <<>>], text, 0)
    BY DEF Uptos
  <2> QED
    BY <2>1
<1>2. ASSUME NEW n \in 1..K, n - 1 \in S
      PROVE  n \in S
  <2>1. PICK r : Uptos(r, text, n - 1)
    BY <1>2
  <2> DEFINE last == New(r, n)
             s == [k \in 0..n |-> IF k = n THEN last ELSE r[k]]
             t == [k \in 0..n |-> IF k = 0 THEN <<>> ELSE New(s, k)]
  <2>2. \A k \in 0..(n - 1) : s[k] = r[k]
    OBVIOUS
  <2>3. ASSUME NEW k \in 0..n PROVE s[k] = t[k]
    <3>1. CASE k = 0
      <4>1. r[0] = <<>>
        BY <2>1 DEF Uptos
      <4> QED
        BY <2>2, <3>1, <4>1
    <3>2. CASE k # 0 /\ k # n
      <4>1. k - 1 \in 0..(n - 1) /\ k \in 0..(n - 1)
        BY <3>2
      <4>2. r[k] = New(r, k)
        BY <2>1, <3>2, <4>1 DEF Uptos
      <4>3. s[k] = r[k] /\ New(s, k) = New(r, k)
        <5>1. s[k] = r[k] /\ s[k - 1] = r[k - 1]
          BY <2>2, <4>1
        <5>3. Behind(text, k) \in 0..(k - 1)
          BY BehindFacts, <4>1, <3>2 DEF LastLoop
        <5>4. s[Behind(text, k)] = r[Behind(text, k)]
          <6>1. Behind(text, k) \in 0..(n - 1)
            BY <5>3, <4>1, <3>2
          <6> HIDE DEF s
          <6> QED
            BY <2>2, <6>1
        <5> HIDE DEF s
        <5> QED
          BY <5>1, <5>4
      <4>4. t[k] = New(s, k)
        BY <3>2
      <4> HIDE DEF s, t, New
      <4> QED
        BY <4>2, <4>3, <4>4
    <3>3. CASE k = n
      <4>1. New(s, n) = New(r, n) /\ s[n] = last
        <5>1. n - 1 \in 0..(n - 1)
          OBVIOUS
        <5>2. s[n - 1] = r[n - 1] /\ s[n] = last
          BY <2>2, <5>1
        <5>3. Behind(text, n) \in 0..(n - 1)
          BY BehindFacts, <5>1 DEF LastLoop
        <5>4. s[Behind(text, n)] = r[Behind(text, n)]
          <6>1. Behind(text, n) \in 0..(n - 1)
            BY <5>3, <5>1
          <6> HIDE DEF s
          <6> QED
            BY <2>2, <6>1
        <5> HIDE DEF s
        <5> QED
          BY <5>1, <5>2, <5>4
      <4>2. t[n] = New(s, n)
        <5>1. n \in 0..n /\ n # 0
          OBVIOUS
        <5> HIDE DEF s, New
        <5> QED
          BY <5>1
      <4> HIDE DEF s, t, New
      <4> QED
        BY <3>3, <4>1, <4>2 DEF New
    <3> QED
      BY <3>1, <3>2, <3>3
  <2>4. s = t
    <3>1. s = [k \in 0..n |-> s[k]] /\ t = [k \in 0..n |-> t[k]]
      OBVIOUS
    <3> HIDE DEF s, t
    <3> QED
      BY <2>3, <3>1
  <2>5. Uptos(s, text, n)
    BY <2>4 DEF Uptos
  <2> QED
    BY <1>2, <2>5
<1> HIDE DEF S
<1>3. K \in S
  BY <1>1, <1>2, Climbs
<1> QED
  BY <1>3 DEF S

LEMMA Joined ==
  ASSUME NEW s \in Seq(Commands), NEW t \in Seq(Commands), NEW u \in Seq(Commands)
  PROVE  /\ (s \o t) \o u = s \o (t \o u) /\ s \o t \in Seq(Commands)
         /\ Len(s \o t) = Len(s) + Len(t) /\ s \o <<>> = s
         /\ SubSeq(s \o t, Len(s) + 1, Len(s \o t)) = t
<1>1. (s \o t) \o u = s \o (t \o u)
  BY ConcatAssociative
<1>2. s \o t \in Seq(Commands) /\ Len(s \o t) = Len(s) + Len(t) /\ s \o <<>> = s
  OBVIOUS
<1>3. SubSeq(s \o t, Len(s) + 1, Len(s \o t)) = t
  OBVIOUS
<1> QED
  BY <1>1, <1>2, <1>3

LEMMA Regrouped ==
  \A s, t, u \in Seq(Commands) : (s \o t) \o u = s \o (t \o u)
BY Joined

LEMMA Appended ==
  ASSUME NEW s \in Seq(Commands), NEW t \in Seq(Commands), NEW x \in Commands
  PROVE  Append(s \o t, x) = s \o Append(t, x) /\ Len(Append(s \o t, x)) = Len(s \o t) + 1
<1> DEFINE e == <<x>>
           st == s \o t
<1>1. e \in Seq(Commands) /\ st \in Seq(Commands)
  OBVIOUS
<1>2. Append(t, x) = t \o e
  BY AppendIsConcat
<1> HIDE DEF st
<1>3. Len(Append(st, x)) = Len(st) + 1
  BY <1>1
<1>4. Append(st, x) = st \o <<x>>
  BY <1>1, AppendIsConcat
<1>5. Append(st, x) = st \o e
  BY <1>4
<1> HIDE DEF e
<1>6. (s \o t) \o e = s \o (t \o e)
  BY <1>1, Regrouped, Zenon
<1> QED
  BY <1>2, <1>3, <1>5, <1>6 DEF st

LEMMA TimesRun ==
  ASSUME NEW b, NEW n \in Nat
  PROVE  \E run : Timeses(run, b, n) /\ Macro!Times(b, n) = run[n]
<1> DEFINE g == CHOOSE f : Timeses(f, b, n)
<1>1. Timeses(g, b, n)
  BY TimesExist
<1>2. Macro!Times(b, n) = g[n]
  BY DEF Macro!Times, Timeses
<1> HIDE DEF g
<1> QED
  BY <1>1, <1>2

\* The copies one by one, whatever number of them is meant.
LEMMA TimesSame ==
  ASSUME NEW b, NEW n \in Nat, NEW run, Timeses(run, b, n)
  PROVE  \A k \in 0..n : run[k] = Macro!Times(b, k)
<1> SUFFICES ASSUME NEW m \in 0..n PROVE run[m] = Macro!Times(b, m)
  OBVIOUS
<1>1. PICK r : Timeses(r, b, m) /\ Macro!Times(b, m) = r[m]
  BY TimesRun
<1> DEFINE S == {k \in 0..m : run[k] = r[k]}
<1>2. 0 \in S
  BY <1>1 DEF Timeses
<1>3. ASSUME NEW k \in 1..m, k - 1 \in S PROVE k \in S
  <2>1. k \in 0..m /\ k \in 0..n /\ k # 0
    OBVIOUS
  <2>2. run[k] = run[k - 1] \o b /\ r[k] = r[k - 1] \o b
    BY <1>1, <2>1 DEF Timeses
  <2> QED
    BY <1>3, <2>1, <2>2
<1> HIDE DEF S
<1>4. m \in S
  <2>1. m \in Nat /\ m \in 0..m
    OBVIOUS
  <2> QED
    BY <1>2, <1>3, <2>1, Climbs
<1> QED
  BY <1>1, <1>4 DEF S

LEMMA TimesStep ==
  ASSUME NEW b, NEW n \in Nat
  PROVE  Macro!Times(b, 0) = <<>> /\ Macro!Times(b, n + 1) = Macro!Times(b, n) \o b
<1>1. PICK run : Timeses(run, b, n + 1) /\ Macro!Times(b, n + 1) = run[n + 1]
  <2>1. n + 1 \in Nat
    OBVIOUS
  <2> QED
    BY <2>1, TimesRun
<1>2. \A k \in 0..(n + 1) : run[k] = Macro!Times(b, k)
  <2>1. n + 1 \in Nat
    OBVIOUS
  <2> QED
    BY <1>1, <2>1, TimesSame
<1>3. run[0] = <<>> /\ run[n + 1] = run[n] \o b
  <2>1. 0 \in 0..(n + 1) /\ n + 1 \in 0..(n + 1) /\ n + 1 # 0 /\ (n + 1) - 1 = n
    OBVIOUS
  <2>2. run[0] = <<>>
    BY <1>1, <2>1 DEF Timeses
  <2>3. run[n + 1] = run[(n + 1) - 1] \o b
    BY <1>1, <2>1 DEF Timeses
  <2> QED
    BY <2>1, <2>2, <2>3
<1> QED
  <2>1. n \in 0..(n + 1) /\ 0 \in 0..(n + 1)
    OBVIOUS
  <2> QED
    BY <1>1, <1>2, <1>3, <2>1

\* How long the copies are, and that one more may be put before them as well as behind.
LEMMA TimesFacts ==
  ASSUME NEW b \in Seq(Commands), NEW n \in Nat
  PROVE  /\ Macro!Times(b, n) \in Seq(Commands)
         /\ Len(Macro!Times(b, n)) = n * Len(b)
         /\ b \o Macro!Times(b, n) = Macro!Times(b, n + 1)
<1> DEFINE T(k) == Macro!Times(b, k)
           S == {k \in 0..n : T(k) \in Seq(Commands) /\ Len(T(k)) = k * Len(b) /\ b \o T(k) = T(k + 1)}
<1>0. Len(b) \in Nat /\ <<>> \in Seq(Commands) /\ b \o <<>> = b /\ <<>> \o b = b
  OBVIOUS
<1>1. 0 \in S
  <2>1. T(0) = <<>> /\ T(0 + 1) = T(0) \o b
    BY TimesStep
  <2>2. 0 * Len(b) = 0 /\ Len(<<>>) = 0
    BY <1>0
  <2>3. T(0) = <<>> /\ T(0 + 1) = b
    <3> HIDE DEF T
    <3> QED
      BY <1>0, <2>1
  <2>4. T(0) \in Seq(Commands) /\ Len(T(0)) = 0 * Len(b) /\ b \o T(0) = T(0 + 1) /\ 0 \in 0..n
    <3>1. b \o T(0) = T(0 + 1)
      BY <1>0, <2>3
    <3>2. T(0) \in Seq(Commands) /\ Len(T(0)) = 0 * Len(b)
      BY <1>0, <2>2, <2>3
    <3>3. 0 \in 0..n
      OBVIOUS
    <3> QED
      BY <3>1, <3>2, <3>3
  <2> HIDE DEF T
  <2> QED
    BY <2>4
<1>2. ASSUME NEW k \in 1..n, k - 1 \in S PROVE k \in S
  <2> DEFINE p == T(k - 1)
             q == T(k)
             s == T(k + 1)
  <2>1. q = p \o b /\ s = q \o b
    <3>1. k - 1 \in Nat /\ k \in Nat /\ (k - 1) + 1 = k
      OBVIOUS
    <3> QED
      BY <3>1, TimesStep
  <2>2. p \in Seq(Commands) /\ Len(p) = (k - 1) * Len(b) /\ b \o p = q
    <3>1. (k - 1) + 1 = k
      OBVIOUS
    <3> QED
      BY <1>2, <3>1
  <2> HIDE DEF p, q, s
  <2>3. q \in Seq(Commands) /\ Len(q) = Len(p) + Len(b)
    <3> HIDE DEF T, S
    <3> QED
      BY <2>1, <2>2, ConcatProperties
  <2>4. (k - 1) * Len(b) + Len(b) = k * Len(b)
    <3> DEFINE z == Len(b)
    <3>1. z \in Int /\ k \in Int
      BY <1>0
    <3> HIDE DEF z
    <3>2. (k - 1) * z + z = k * z
      BY <3>1
    <3> QED
      BY <3>2 DEF z
  <2>5. b \o q = s
    <3>1. b \o (p \o b) = (b \o p) \o b
      <4> HIDE DEF T, S
      <4> QED
        BY <2>2, Joined
    <3> QED
      BY <2>1, <2>2, <3>1
  <2> QED
    <3>1. q \in Seq(Commands) /\ Len(q) = k * Len(b) /\ b \o q = s /\ k \in 0..n
      BY <2>2, <2>3, <2>4, <2>5
    <3> HIDE DEF T
    <3> QED
      BY <3>1 DEF q, s
<1> HIDE DEF S
<1>3. n \in S
  <2>1. n \in 0..n
    OBVIOUS
  <2> QED
    BY <1>1, <1>2, <2>1, Climbs
<1> QED
  BY <1>3 DEF S

\* What validate_text divides by stands for a product.
LEMMA Room ==
  ASSUME NEW x \in Nat, NEW m \in Nat \ {0}, NEW z \in Nat, z <= x \div m
  PROVE  m * z <= x
<1> DEFINE q == x \div m
<1>1. q \in Nat /\ m * q <= x
  OBVIOUS
<1> HIDE DEF q
<1>2. m * z <= m * q
  <2> DEFINE S == {k \in 0..m : k * z <= k * q}
  <2>1. 0 \in S
    BY <1>1
  <2>2. ASSUME NEW k \in 1..m, k - 1 \in S PROVE k \in S
    <3>1. (k - 1) * z <= (k - 1) * q /\ k \in Int
      BY <2>2
    <3>2. (k - 1) * z = k * z - z /\ (k - 1) * q = k * q - q /\ k * z \in Int /\ k * q \in Int
      BY <1>1, <3>1
    <3>3. z <= q
      BY DEF q
    <3> QED
      BY <1>1, <3>1, <3>2, <3>3
  <2> HIDE DEF S
  <2>3. m \in S
    <3>1. m \in 0..m
      OBVIOUS
    <3> QED
      BY <2>1, <2>2, <3>1, Climbs
  <2> QED
    BY <2>3 DEF S
<1>3. m * z \in Int /\ m * q \in Int
  BY <1>1
<1> QED
  BY <1>1, <1>2, <1>3

\* Expand, for the two kinds of commands.
LEMMA ExpandFacts ==
  ASSUME NEW steps, NEW start, NEW ok, NEW c \in Commands
  PROVE  LET p == [steps |-> steps, start |-> start, ok |-> ok]
             block == SubSeq(steps, start + 1, Len(steps))
             copies == IF c.n > 1 THEN Macro!Times(block, c.n - 1) ELSE <<>>
         IN IF ~Macro!IsLoop(c)
            THEN Macro!Expand(p, c) =
                   IF Len(steps) + 1 <= mostSteps
                   THEN [steps |-> Append(steps, c), start |-> start, ok |-> ok]
                   ELSE [steps |-> steps, start |-> start, ok |-> FALSE]
            ELSE Macro!Expand(p, c) =
                   IF block # <<>> /\ (c.n <= 1 \/ Len(block) <= (mostSteps - Len(steps)) \div (c.n - 1))
                   THEN [steps |-> steps \o copies, start |-> Len(steps \o copies), ok |-> ok]
                   ELSE [steps |-> steps, start |-> start, ok |-> FALSE]
<1> DEFINE p == [steps |-> steps, start |-> start, ok |-> ok]
           block == SubSeq(steps, start + 1, Len(steps))
           copies == IF c.n > 1 THEN Macro!Times(block, c.n - 1) ELSE <<>>
<1>0. p.steps = steps /\ p.start = start /\ p.ok = ok
  OBVIOUS
<1>1. ASSUME NEW x, NEW y PROVE [[p EXCEPT !.steps = x] EXCEPT !.start = y] = [steps |-> x, start |-> y, ok |-> ok]
  <2> DEFINE a == [p EXCEPT !.steps = x]
  <2>1. a = [steps |-> x, start |-> start, ok |-> ok]
    OBVIOUS
  <2> HIDE DEF a
  <2>2. [a EXCEPT !.start = y] = [steps |-> x, start |-> y, ok |-> ok]
    BY <2>1
  <2> QED
    BY <2>2 DEF a
<1>2. ASSUME NEW x PROVE [p EXCEPT !.steps = x] = [steps |-> x, start |-> start, ok |-> ok]
  OBVIOUS
<1>3. [p EXCEPT !.ok = FALSE] = [steps |-> steps, start |-> start, ok |-> FALSE]
  <2>1. ASSUME NEW z PROVE [p EXCEPT !.ok = z] = [steps |-> steps, start |-> start, ok |-> z]
    OBVIOUS
  <2> HIDE DEF p
  <2> QED
    BY <2>1
<1>4. CASE ~Macro!IsLoop(c)
  BY <1>0, <1>2, <1>3, <1>4 DEF Macro!Expand
<1>5. CASE Macro!IsLoop(c)
  BY <1>0, <1>1, <1>3, <1>5 DEF Macro!Expand
<1> QED
  BY <1>4, <1>5

\* What was parsed so far is what was unrolled so far, and the block that a LOOP would
\* repeat begins where the last one ended.
Along(p, u, l, text, k) ==
  /\ LastLoop(text, l, k)
  /\ p = [steps |-> p.steps, start |-> p.start, ok |-> p.ok]
  /\ p.ok => /\ u[l] \in Seq(Commands) /\ u[k] = p.steps
             /\ p.steps = u[l] \o SubSeq(text, l + 1, k)
             /\ p.start = Len(u[l]) /\ Len(p.steps) <= mostSteps

LEMMA Part ==
  ASSUME NEW text \in Seq(Commands), NEW l \in 0..Len(text), NEW k \in l..Len(text)
  PROVE  /\ SubSeq(text, l + 1, k) \in Seq(Commands) /\ Len(SubSeq(text, l + 1, k)) = k - l
         /\ \A i \in 1..(k - l) : SubSeq(text, l + 1, k)[i] = text[l + i]
<1>1. l \in Nat /\ k \in Nat /\ l <= k /\ k <= Len(text) /\ Len(text) \in Nat
  OBVIOUS
<1>2. \A i \in (l + 1)..k : text[i] \in Commands
  BY <1>1
<1>3. l + 1 \in Int /\ k \in Int
  BY <1>1
<1>4. /\ SubSeq(text, l + 1, k) \in Seq(Commands)
      /\ Len(SubSeq(text, l + 1, k)) = IF l + 1 <= k THEN k - (l + 1) + 1 ELSE 0
      /\ \A i \in 1..(k - (l + 1) + 1) : SubSeq(text, l + 1, k)[i] = text[(l + 1) + i - 1]
  BY <1>2, <1>3, SubSeqProperties
<1>5. Len(SubSeq(text, l + 1, k)) = k - l
  BY <1>1, <1>4
<1>6. ASSUME NEW i \in 1..(k - l) PROVE SubSeq(text, l + 1, k)[i] = text[l + i]
  <2>1. i \in 1..(k - (l + 1) + 1) /\ (l + 1) + i - 1 = l + i
    BY <1>1
  <2>2. SubSeq(text, l + 1, k)[i] = text[(l + 1) + i - 1]
    BY <1>4, <2>1
  <2> QED
    BY <2>1, <2>2
<1> QED
  BY <1>4, <1>5, <1>6

LEMMA AlongCommand ==
  ASSUME NEW text \in Seq(Commands), NEW k \in 1..Len(text), NEW u, NEW p, NEW l,
         Along(p, u, l, text, k - 1), ~Closes(text, k),
         u[k] = Append(u[k - 1], text[k])
  PROVE  Along(Macro!Expand(p, text[k]), u, l, text, k)
<1> DEFINE c == text[k]
           q == Macro!Expand(p, c)
<1>0. c \in Commands /\ ~Macro!IsLoop(c) /\ Len(text) \in Nat /\ l \in 0..(k - 1)
  BY DEF Closes, Along, LastLoop
<1>1. LastLoop(text, l, k)
  BY DEF Along, LastLoop
<1>2. p = [steps |-> p.steps, start |-> p.start, ok |-> p.ok]
  BY DEF Along
<1>3. q = IF Len(p.steps) + 1 <= mostSteps
          THEN [steps |-> Append(p.steps, c), start |-> p.start, ok |-> p.ok]
          ELSE [steps |-> p.steps, start |-> p.start, ok |-> FALSE]
  <2> DEFINE x == p.steps
             y == p.start
             z == p.ok
  <2> HIDE DEF x, y, z, c
  <2>1. Macro!Expand([steps |-> x, start |-> y, ok |-> z], c) =
          IF Len(x) + 1 <= mostSteps
          THEN [steps |-> Append(x, c), start |-> y, ok |-> z]
          ELSE [steps |-> x, start |-> y, ok |-> FALSE]
    BY <1>0, ExpandFacts
  <2> QED
    BY <1>2, <2>1 DEF x, y, z
<1> HIDE DEF q
<1>4. CASE ~(Len(p.steps) + 1 <= mostSteps)
  <2>1. q = [steps |-> p.steps, start |-> p.start, ok |-> FALSE]
    BY <1>3, <1>4
  <2>2. q.steps = p.steps /\ q.start = p.start /\ q.ok = FALSE
    BY <2>1
  <2> QED
    BY <1>1, <2>1, <2>2 DEF Along, q
<1>5. CASE Len(p.steps) + 1 <= mostSteps
  <2>1. q = [steps |-> Append(p.steps, c), start |-> p.start, ok |-> p.ok]
    BY <1>3, <1>5
  <2>2. q.steps = Append(p.steps, c) /\ q.start = p.start /\ q.ok = p.ok
    BY <2>1
  <2>3. q = [steps |-> q.steps, start |-> q.start, ok |-> q.ok]
    BY <2>1, <2>2
  <2>4. ASSUME q.ok
        PROVE  /\ u[l] \in Seq(Commands) /\ u[k] = q.steps
               /\ q.steps = u[l] \o SubSeq(text, l + 1, k)
               /\ q.start = Len(u[l]) /\ Len(q.steps) <= mostSteps
    <3>1. /\ u[l] \in Seq(Commands) /\ u[k - 1] = p.steps
          /\ p.steps = u[l] \o SubSeq(text, l + 1, k - 1)
          /\ p.start = Len(u[l])
      BY <2>2, <2>4 DEF Along
    <3> DEFINE A == u[l]
               B == SubSeq(text, l + 1, k - 1)
    <3>2. B \in Seq(Commands) /\ SubSeq(text, l + 1, k) = Append(B, c)
      <4>1. l + 1 \in 1..Len(text) /\ k \in 1..Len(text) /\ l + 1 <= k
        BY <1>0
      <4>2. B \in Seq(Commands)
        BY <1>0, <4>1
      <4>3. Len(B) = (k - 1) - l /\ \A i \in 1..((k - 1) - l) : B[i] = text[l + i]
        BY <1>0, <4>1, Part
      <4> DEFINE x == SubSeq(text, l + 1, k)
                 y == Append(B, c)
      <4>4. Len(x) = k - l /\ \A i \in 1..(k - l) : x[i] = text[l + i]
        BY <1>0, <4>1, Part
      <4>5. x \in Seq(Commands)
        BY <1>0, <4>1
      <4> HIDE DEF B, x
      <4>6. y \in Seq(Commands) /\ Len(y) = k - l /\ \A i \in 1..(k - l) : y[i] = text[l + i]
        <5>1. y \in Seq(Commands) /\ Len(y) = Len(B) + 1 /\ y[Len(B) + 1] = c /\ \A i \in 1..Len(B) : y[i] = B[i]
          BY <1>0, <4>2
        <5> HIDE DEF y, c
        <5>2. c = text[l + (k - l)]
          BY <1>0 DEF c
        <5>3. Len(B) = (k - 1) - l /\ k - l \in Nat /\ (k - 1) - l \in Nat /\ k - l = ((k - 1) - l) + 1
          BY <1>0, <4>3
        <5>4. ASSUME NEW i \in 1..(k - l) PROVE y[i] = text[l + i]
          <6>1. CASE i = k - l
            BY <5>1, <5>2, <5>3, <6>1
          <6>2. CASE i # k - l
            <7>1. i \in 1..((k - 1) - l)
              BY <5>3, <6>2
            <7> QED
              BY <4>3, <5>1, <5>3, <7>1
          <6> QED
            BY <6>1, <6>2
        <5> QED
          BY <5>1, <5>3, <5>4
      <4> HIDE DEF y
      <4>7. x = y
        <5>1. \A i \in 1..Len(x) : x[i] = y[i]
          BY <4>4, <4>6
        <5> QED
          BY <4>4, <4>5, <4>6, <5>1, SeqEqual
      <4> QED
        BY <4>2, <4>7 DEF x, y
    <3> HIDE DEF A, B
    <3>3. A \in Seq(Commands) /\ p.steps = A \o B
      BY <3>1 DEF A, B
    <3>4. Append(A \o B, c) = A \o Append(B, c) /\ Len(Append(A \o B, c)) = Len(A \o B) + 1
      <4>1. c \in Commands /\ A \in Seq(Commands) /\ B \in Seq(Commands)
        BY <1>0, <3>2, <3>3
      <4> HIDE DEF c
      <4> QED
        BY <4>1, Appended
    <3> QED
      BY <1>5, <2>2, <3>1, <3>2, <3>3, <3>4 DEF A
  <2> QED
    BY <1>1, <2>3, <2>4 DEF Along, q
<1> QED
  BY <1>4, <1>5

LEMMA AlongLoop ==
  ASSUME NEW text \in Seq(Commands), NEW k \in 1..Len(text), NEW u, NEW p, NEW l,
         Along(p, u, l, text, k - 1), Closes(text, k), mostSteps \in Nat,
         u[k] = u[Behind(text, k)] \o Macro!Times(Block(text, k), IF text[k].n > 1 THEN text[k].n ELSE 1)
  PROVE  Along(Macro!Expand(p, text[k]), u, k, text, k)
<1> DEFINE c == text[k]
           q == Macro!Expand(p, c)
           block == SubSeq(p.steps, p.start + 1, Len(p.steps))
           copies == IF c.n > 1 THEN Macro!Times(block, c.n - 1) ELSE <<>>
           Fits == block # <<>> /\ (c.n <= 1 \/ Len(block) <= (mostSteps - Len(p.steps)) \div (c.n - 1))
<1>0. c \in Commands /\ Macro!IsLoop(c) /\ Len(text) \in Nat /\ l \in 0..(k - 1) /\ c.n \in Nat
  <2>1. c \in Commands /\ Len(text) \in Nat
    OBVIOUS
  <2>2. Macro!IsLoop(c) /\ l \in 0..(k - 1)
    BY DEF Closes, Along, LastLoop
  <2>3. c.n \in Nat
    BY <2>1 DEF Commands
  <2> QED
    BY <2>1, <2>2, <2>3
<1>1. LastLoop(text, k, k) /\ l = Behind(text, k)
  <2>1. l = Behind(text, k)
    BY BehindFacts DEF Along
  <2> QED
    BY <2>1 DEF LastLoop
<1>2. p = [steps |-> p.steps, start |-> p.start, ok |-> p.ok]
  BY DEF Along
<1>3. q = IF Fits
          THEN [steps |-> p.steps \o copies, start |-> Len(p.steps \o copies), ok |-> p.ok]
          ELSE [steps |-> p.steps, start |-> p.start, ok |-> FALSE]
  <2> DEFINE x == p.steps
             y == p.start
             z == p.ok
  <2> HIDE DEF x, y, z, c
  <2>1. Macro!Expand([steps |-> x, start |-> y, ok |-> z], c) =
          LET blk == SubSeq(x, y + 1, Len(x))
              cps == IF c.n > 1 THEN Macro!Times(blk, c.n - 1) ELSE <<>>
          IN IF blk # <<>> /\ (c.n <= 1 \/ Len(blk) <= (mostSteps - Len(x)) \div (c.n - 1))
             THEN [steps |-> x \o cps, start |-> Len(x \o cps), ok |-> z]
             ELSE [steps |-> x, start |-> y, ok |-> FALSE]
    BY <1>0, ExpandFacts
  <2> QED
    BY <1>2, <2>1 DEF x, y, z
<1> HIDE DEF q
<1>4. CASE ~Fits
  <2>1. q = [steps |-> p.steps, start |-> p.start, ok |-> FALSE]
    BY <1>3, <1>4
  <2>2. q.steps = p.steps /\ q.start = p.start /\ q.ok = FALSE
    BY <2>1
  <2> QED
    BY <1>1, <2>1, <2>2 DEF Along, q
<1>5. CASE Fits
  <2> HIDE DEF Fits
  <2>1. q = [steps |-> p.steps \o copies, start |-> Len(p.steps \o copies), ok |-> p.ok]
    BY <1>3, <1>5
  <2>2. q.steps = p.steps \o copies /\ q.start = Len(p.steps \o copies) /\ q.ok = p.ok
    BY <2>1
  <2>3. q = [steps |-> q.steps, start |-> q.start, ok |-> q.ok]
    BY <2>1, <2>2
  <2> HIDE DEF copies, block
  <2>4. ASSUME q.ok
        PROVE  /\ u[k] \in Seq(Commands) /\ u[k] = q.steps
               /\ q.steps = u[k] \o SubSeq(text, k + 1, k)
               /\ q.start = Len(u[k]) /\ Len(q.steps) <= mostSteps
    <3> DEFINE A == u[l]
               B == SubSeq(text, l + 1, k - 1)
    <3>1. A \in Seq(Commands) /\ p.steps = A \o B /\ p.start = Len(A) /\ Len(p.steps) <= mostSteps
      BY <2>2, <2>4 DEF Along
    <3>2. B \in Seq(Commands)
      BY <1>0
    <3>3. Block(text, k) = B
      BY <1>1 DEF Block
    <3> HIDE DEF A, B
    <3>4. block = B
      BY <3>1, <3>2, Joined DEF block
    <3>5. CASE ~(c.n > 1)
      <4>1. copies = <<>>
        BY <3>5 DEF copies
      <4>2. Macro!Times(B, 1) = B
        <5>1. Macro!Times(B, 0) = <<>> /\ Macro!Times(B, 0 + 1) = Macro!Times(B, 0) \o B
          BY TimesStep
        <5>2. <<>> \o B = B /\ 0 + 1 = 1
          BY <3>2
        <5>3. Macro!Times(B, 1) = Macro!Times(B, 0) \o B
          BY <5>1, <5>2
        <5> QED
          BY <5>1, <5>2, <5>3
      <4>3. u[k] = A \o B
        BY <1>1, <3>3, <3>5, <4>2 DEF A
      <4>4. q.steps = A \o B /\ q.start = Len(A \o B)
        BY <2>2, <3>1, <3>2, <4>1, Joined
      <4>5. (A \o B) \o SubSeq(text, k + 1, k) = A \o B /\ A \o B \in Seq(Commands)
        <5>1. SubSeq(text, k + 1, k) = <<>>
          BY <1>0
        <5>2. A \o B \in Seq(Commands)
          BY <3>1, <3>2, Joined
        <5> QED
          BY <5>1, <5>2
      <4> QED
        BY <3>1, <4>3, <4>4, <4>5
    <3>6. CASE c.n > 1
      <4> DEFINE m == c.n - 1
                 T == Macro!Times(B, m)
      <4>0. m \in Nat \ {0} /\ m + 1 = c.n
        BY <1>0, <3>6
      <4>1. copies = T
        BY <3>4, <3>6 DEF copies
      <4>2. T \in Seq(Commands) /\ Len(T) = m * Len(B) /\ B \o T = Macro!Times(B, m + 1)
        BY <3>2, <4>0, TimesFacts
      <4>3. u[k] = A \o Macro!Times(B, m + 1)
        BY <1>1, <3>3, <3>6, <4>0 DEF A
      <4>4. m * Len(B) <= mostSteps - Len(p.steps)
        <5>1. Len(B) <= (mostSteps - Len(p.steps)) \div m
          BY <1>0, <1>5, <3>4, <3>6 DEF Fits
        <5>2. mostSteps - Len(p.steps) \in Nat /\ Len(B) \in Nat
          <6>1. p.steps \in Seq(Commands)
            BY <3>1, <3>2, Joined
          <6> QED
            BY <3>1, <3>2, <6>1
        <5> HIDE DEF m
        <5> QED
          BY <4>0, <5>1, <5>2, Room
      <4> HIDE DEF m, T
      <4>5. (A \o B) \o T = A \o (B \o T) /\ (A \o B) \o T \in Seq(Commands)
            /\ Len((A \o B) \o T) = Len(A \o B) + Len(T) /\ A \o B \in Seq(Commands)
        <5>1. A \in Seq(Commands) /\ B \in Seq(Commands) /\ T \in Seq(Commands)
          BY <3>1, <3>2, <4>2
        <5>2. (A \o B) \o T = A \o (B \o T)
          BY <5>1, Regrouped
        <5> DEFINE D == A \o B
        <5>3. D \in Seq(Commands)
          BY <5>1, Joined
        <5>4. D \o T \in Seq(Commands) /\ Len(D \o T) = Len(D) + Len(T)
          <6> HIDE DEF D
          <6> QED
            BY <5>1, <5>3, Joined
        <5> QED
          BY <5>2, <5>3, <5>4
      <4>6. q.steps = (A \o B) \o T /\ q.start = Len((A \o B) \o T) /\ u[k] = (A \o B) \o T
        BY <2>2, <3>1, <4>1, <4>2, <4>3, <4>5
      <4>7. ((A \o B) \o T) \o SubSeq(text, k + 1, k) = (A \o B) \o T
        <5>1. SubSeq(text, k + 1, k) = <<>>
          BY <1>0
        <5> QED
          BY <4>5, <5>1, ConcatEmptySeq
      <4>8. Len((A \o B) \o T) <= mostSteps
        <5>1. Len(A \o B) \in Nat /\ Len(T) \in Nat
          BY <4>2, <4>5
        <5> QED
          BY <3>1, <4>2, <4>4, <4>5, <5>1
      <4> QED
        BY <4>5, <4>6, <4>7, <4>8
    <3> QED
      BY <3>5, <3>6
  <2> QED
    BY <1>1, <2>3, <2>4 DEF Along, q
<1> QED
  BY <1>4, <1>5

LEMMA Runs ==
  ASSUME NEW text \in Seq(Commands)
  PROVE  /\ \E run : Parses(run, text, Len(text)) /\ Macro!Parse(text) = run[Len(text)]
         /\ \E run : Uptos(run, text, Len(text)) /\ Macro!Unrolled(text) = run[Len(text)]
<1> DEFINE g == CHOOSE f : Parses(f, text, Len(text))
           h == CHOOSE f : Uptos(f, text, Len(text))
<1>1. Parses(g, text, Len(text))
  BY ParsesExist
<1>2. Macro!Parse(text) = g[Len(text)]
  BY DEF Macro!Parse, Parses, Nothing
<1>3. Uptos(h, text, Len(text))
  BY UptosExist
<1>4. Macro!Unrolled(text) = h[Len(text)]
  BY DEF Macro!Unrolled, Uptos, Closes, Behind, Block
<1> HIDE DEF g, h
<1> QED
  BY <1>1, <1>2, <1>3, <1>4

LEMMA ParseUnrolls ==
  ASSUME NEW text \in Seq(Commands), Macro!Parse(text).ok, mostSteps \in Nat
  PROVE  Macro!Parse(text).steps = Macro!Unrolled(text) /\ Len(Macro!Parse(text).steps) <= mostSteps
<1> DEFINE N == Len(text)
<1>1. PICK p : Parses(p, text, N) /\ Macro!Parse(text) = p[N]
  BY Runs
<1>2. PICK u : Uptos(u, text, N) /\ Macro!Unrolled(text) = u[N]
  BY Runs
<1>3. N \in Nat
  OBVIOUS
<1> DEFINE S == {k \in 0..N : \E l : Along(p[k], u, l, text, k)}
<1>4. 0 \in S
  <2>1. p[0] = [steps |-> <<>>, start |-> 0, ok |-> TRUE] /\ u[0] = <<>>
    BY <1>1, <1>2, <1>3 DEF Parses, Uptos, Nothing
  <2>2. p[0].steps = <<>> /\ p[0].start = 0 /\ p[0].ok = TRUE
    BY <2>1
  <2>3. LastLoop(text, 0, 0)
    BY DEF LastLoop, Closes
  <2>4. SubSeq(text, 0 + 1, 0) = <<>> /\ <<>> \o <<>> = <<>> /\ Len(<<>>) = 0 /\ <<>> \in Seq(Commands)
    OBVIOUS
  <2>5. Along(p[0], u, 0, text, 0)
    <3>1. 0 <= mostSteps
      OBVIOUS
    <3> QED
      BY <2>1, <2>2, <2>3, <2>4, <3>1 DEF Along
  <2> QED
    BY <1>3, <2>5
<1>5. ASSUME NEW k \in 1..N, k - 1 \in S PROVE k \in S
  <2>1. PICK l : Along(p[k - 1], u, l, text, k - 1)
    BY <1>5
  <2>2. k \in 0..N /\ k # 0
    BY <1>3
  <2>3. p[k] = Macro!Expand(p[k - 1], text[k])
    BY <1>1, <2>2 DEF Parses
  <2>4. u[k] = IF Closes(text, k)
               THEN u[Behind(text, k)] \o Macro!Times(Block(text, k), IF text[k].n > 1 THEN text[k].n ELSE 1)
               ELSE Append(u[k - 1], text[k])
    BY <1>2, <2>2 DEF Uptos
  <2>5. CASE Closes(text, k)
    <3>1. Along(p[k], u, k, text, k)
      BY <2>1, <2>3, <2>4, <2>5, AlongLoop
    <3> QED
      BY <2>2, <3>1
  <2>6. CASE ~Closes(text, k)
    <3>1. Along(p[k], u, l, text, k)
      BY <2>1, <2>3, <2>4, <2>6, AlongCommand
    <3> QED
      BY <2>2, <3>1
  <2> QED
    BY <2>5, <2>6
<1> HIDE DEF S
<1>6. N \in S
  <2>1. N \in 0..N
    BY <1>3
  <2> QED
    BY <1>3, <1>4, <1>5, <2>1, Climbs
<1>7. PICK l : Along(p[N], u, l, text, N)
  BY <1>6 DEF S
<1> QED
  BY <1>1, <1>2, <1>7 DEF Along

-----------------------------------------------------------------------------
(***************************************************************************)
(* Macros, once.  Of an upload that was not started, what the slot has and *)
(* is still on the way was delivered again; of one that was started,       *)
(* everything that is left.  So nothing starts twice unless every datagram *)
(* of it came twice.                                                       *)
(***************************************************************************)
Pending(o) == {i \in 1..Len(o.text) : \E d \in uploadNet : d.of = o /\ d.index = i}

Held(o) == {i \in 1..Len(o.text) : i \in DOMAIN upload.got /\ upload.got[i].of = o}

Repeats(o) == IF o \in started THEN Pending(o) \cup Held(o) ELSE Pending(o) \cap Held(o)

Counted == \A o : o.text \in texts => Cardinality(Repeats(o)) <= again

LEMMA TextFacts == texts \subseteq Seq(Commands)
BY NetworkAssumption DEF NetworkAssumption, Commands

LEMMA PartOf ==
  ASSUME NEW d, Carries(d)
  PROVE  d.part \in Commands /\ d.of.text \in Seq(Commands)
<1> DEFINE t == d.of.text
<1>1. t \in Seq(Commands) /\ d.index \in 1..Len(t) /\ d.part = t[d.index]
  BY TextFacts DEF Carries
<1> QED
  BY <1>1

\* A command of a text is in one datagram, and a text of one command is not in chunks.
Apart ==
  /\ \A d, e \in uploadNet : d.of = e.of /\ d.index = e.index => d = e
  /\ \A d \in uploadNet : d.kind # "whole" => d.count # 1
  /\ \A i \in DOMAIN upload.got : upload.got[i].count # 1

\* What was started has a number the client gave out.
Given ==
  \A p \in started : p.run \in Nat /\ p.id \in Nat /\ p.run <= uploader.run
                     /\ (p.run = uploader.run => p.id <= uploader.seq)

PartsKnown ==
  IsFiniteSet(macro.parts) /\ macro.text \in Seq(Commands) /\ Macro!Played

OnceIInv ==
  /\ UploadIInv
  /\ again \in Nat /\ Counted /\ Apart /\ Given /\ PartsKnown /\ Macro!StartedOnce

LEMMA Few ==
  ASSUME NEW o, o.text \in texts
  PROVE  /\ Len(o.text) \in Nat
         /\ \A S : S \subseteq 1..Len(o.text) => IsFiniteSet(S) /\ Cardinality(S) \in Nat
<1>1. Len(o.text) \in Nat
  BY NetworkAssumption DEF NetworkAssumption
<1>2. IsFiniteSet(1..Len(o.text))
  BY <1>1, FS_Interval
<1> QED
  BY <1>1, <1>2, FS_Subset, FS_CardinalityType

LEMMA OneMore ==
  ASSUME NEW T, IsFiniteSet(T), NEW S, NEW x, S \subseteq T \cup {x}
  PROVE  Cardinality(S) <= Cardinality(T) + 1 /\ Cardinality(S) \in Nat /\ Cardinality(T) \in Nat
<1>1. IsFiniteSet(T \cup {x}) /\ Cardinality(T \cup {x}) <= Cardinality(T) + 1
  <2>1. CASE x \in T
    <3>1. T \cup {x} = T /\ Cardinality(T) \in Nat
      BY <2>1, FS_CardinalityType
    <3> QED
      BY <3>1
  <2>2. CASE x \notin T
    <3>1. IsFiniteSet(T \cup {x}) /\ Cardinality(T \cup {x}) = Cardinality(T) + 1 /\ Cardinality(T) \in Nat
      BY <2>2, FS_AddElement, FS_CardinalityType
    <3> QED
      BY <3>1
  <2> QED
    BY <2>1, <2>2
<1>2. Cardinality(S) <= Cardinality(T \cup {x}) /\ IsFiniteSet(S)
  BY <1>1, FS_Subset
<1>3. Cardinality(S) \in Nat /\ Cardinality(T) \in Nat /\ Cardinality(T \cup {x}) \in Nat
  BY <1>1, <1>2, FS_CardinalityType
<1> QED
  BY <1>1, <1>2, <1>3

LEMMA OnceStart == Init => OnceIInv
<1> SUFFICES ASSUME Init PROVE OnceIInv
  OBVIOUS
<1>1. UploadIInv
  BY UploadStart
<1>2. uploadNet = {} /\ upload.got = <<>> /\ started = {} /\ again = 0
      /\ macro.parts = {} /\ macro.repeated = FALSE /\ macro.text = <<>> /\ DOMAIN upload.got = {}
  BY DEF Init, Macro!Init, Macro!NoUpload, Macro!NoMacro
<1>3. \A o : Pending(o) = {} /\ Held(o) = {}
  BY <1>2 DEF Pending, Held
<1>4. Counted
  <2>1. \A o : Repeats(o) = {}
    BY <1>2, <1>3 DEF Repeats
  <2>2. Cardinality({}) = 0
    BY FS_EmptySet
  <2> QED
    <3>1. \A o : Cardinality(Repeats(o)) = 0
      BY <2>1, <2>2
    <3> QED
      BY <1>2, <3>1 DEF Counted
<1>5. Apart /\ Given /\ again \in Nat
  BY <1>2 DEF Apart, Given
<1>6. PartsKnown /\ Macro!StartedOnce
  <2>1. IsFiniteSet({}) /\ <<>> \in Seq(Commands)
    BY FS_EmptySet
  <2>2. macro.steps = <<>>
    BY DEF Init, Macro!Init, Macro!NoMacro
  <2>3. Macro!Unrolled(<<>>) = <<>> /\ mostSteps \in Nat
    <3>1. <<>> \in Seq(Commands) /\ Len(<<>>) = 0
      OBVIOUS
    <3>2. PICK u : Uptos(u, <<>>, 0) /\ Macro!Unrolled(<<>>) = u[0]
      BY <3>1, Runs
    <3> QED
      BY <3>2, NetworkAssumption DEF Uptos, NetworkAssumption
  <2>4. Macro!Played
    <3>1. Len(<<>>) <= mostSteps
      BY <2>3
    <3> QED
      BY <1>2, <2>2, <2>3, <3>1 DEF Macro!Played
  <2> QED
    BY <1>2, <2>1, <2>4 DEF PartsKnown, Macro!Played, Macro!StartedOnce
<1> QED
  BY <1>1, <1>4, <1>5, <1>6 DEF OnceIInv

\* What does not add to the datagrams or to the slot.
LEMMA CountedLess ==
  ASSUME Counted, again \in Nat, UNCHANGED <<started, again>>,
         \A o : o.text \in texts => Pending(o)' \subseteq Pending(o) /\ Held(o)' \subseteq Held(o)
  PROVE  Counted'
<1> SUFFICES ASSUME NEW o, o.text \in texts PROVE Cardinality(Repeats(o)') <= again'
  BY DEF Counted
<1>1. Repeats(o)' \subseteq Repeats(o)
  BY DEF Repeats
<1>2. Repeats(o) \subseteq 1..Len(o.text)
  BY DEF Repeats, Pending, Held
<1>3. Cardinality(Repeats(o)) <= again
  BY DEF Counted
<1>4. IsFiniteSet(Repeats(o)) /\ Cardinality(Repeats(o)) \in Nat
  BY <1>2, Few
<1>5. Cardinality(Repeats(o)') <= Cardinality(Repeats(o)) /\ Cardinality(Repeats(o)') \in Nat
  BY <1>1, <1>4, FS_Subset, FS_CardinalityType
<1> QED
  BY <1>3, <1>4, <1>5

\* A delivery adds one datagram, to those delivered again only if it is.
LEMMA CountedReceive ==
  ASSUME Counted, again \in Nat, NEW d \in uploadNet, Carries(d), NEW twice \in BOOLEAN,
         again' = IF twice THEN again + 1 ELSE again,
         \A o : Pending(o)' \subseteq Pending(o),
         twice \/ d.index \notin Pending(d.of)',
         \A o : Held(o)' \subseteq Held(o) \cup (IF o = d.of THEN {d.index} ELSE {}),
         started \subseteq started',
         \A o \in started' \ started :
           /\ \A i \in 1..Len(o.text) : i \in Held(o) \cup (IF o = d.of THEN {d.index} ELSE {})
           /\ Held(o)' = {}
  PROVE  Counted'
<1> SUFFICES ASSUME NEW o, o.text \in texts PROVE Cardinality(Repeats(o)') <= again'
  BY DEF Counted
<1> DEFINE T == Repeats(o)
           j == d.index
<1>1. T \subseteq 1..Len(o.text) /\ IsFiniteSet(T) /\ Cardinality(T) \in Nat
  <2>1. T \subseteq 1..Len(o.text)
    BY DEF Repeats, Pending, Held
  <2> QED
    BY <2>1, Few
<1>2. Cardinality(T) <= again
  BY DEF Counted
<1>3. d.index \in Pending(d.of)
  BY DEF Pending, Carries
<1>4. T' \subseteq T \cup (IF twice THEN {j} ELSE {})
  <2>1. CASE o \in started
    BY <1>3, <2>1 DEF Repeats
  <2>2. CASE o \notin started'
    BY <1>3, <2>2 DEF Repeats
  <2>3. CASE o \in started' \ started
    <3>1. T' = Pending(o)'
      BY <2>3 DEF Repeats
    <3>2. Pending(o)' \subseteq 1..Len(o.text)
      BY DEF Pending
    <3> QED
      BY <1>3, <2>3, <3>1, <3>2 DEF Repeats
  <2> QED
    BY <2>1, <2>2, <2>3
<1> HIDE DEF T
<1>5. CASE twice
  <2>1. T' \subseteq T \cup {j}
    BY <1>4, <1>5
  <2>2. Cardinality(T') <= Cardinality(T) + 1 /\ Cardinality(T') \in Nat
    BY <1>1, <2>1, OneMore
  <2>3. Cardinality(T') <= again + 1
    BY <1>1, <1>2, <2>2
  <2> QED
    BY <1>5, <2>3 DEF T
<1>6. CASE ~twice
  <2>1. T' \subseteq T
    BY <1>4, <1>6
  <2>2. Cardinality(T') <= Cardinality(T) /\ Cardinality(T') \in Nat
    BY <1>1, <2>1, FS_Subset, FS_CardinalityType
  <2>3. Cardinality(T') <= again
    BY <1>1, <1>2, <2>2
  <2> QED
    BY <1>6, <2>3 DEF T
<1> QED
  BY <1>5, <1>6

\* What starting a macro does to the history.
LEMMA SameCardinality == \A S : Macro!Cardinality(S) = Cardinality(S)
BY DEF Macro!Cardinality, Cardinality

LEMMA StartOnce ==
  ASSUME NEW text \in Seq(Commands), NEW ofs, IsFiniteSet(ofs), Macro!Start(text, ofs), PartsKnown
  PROVE  \/ macro' = Macro!Admitted /\ started' = started
         \/ /\ macro'.parts = ofs /\ macro'.text = text /\ macro'.repeated = (ofs \subseteq started)
            /\ PartsKnown'
            /\ started' = started \/ \E o : ofs = {o} /\ started' = started \cup {o}
<1>1. CASE macro' = Macro!Admitted /\ UNCHANGED started
  BY <1>1
<1>2. CASE /\ Macro!Valid(text)
           /\ macro' = [steps |-> Macro!Parse(text).steps, running |-> TRUE, at |-> 0,
                        text |-> text, parts |-> ofs, repeated |-> ofs \subseteq started]
           /\ started' = IF Cardinality(ofs) = 1 THEN started \cup ofs ELSE started
  <2>1. macro'.parts = ofs /\ macro'.text = text /\ macro'.repeated = (ofs \subseteq started)
    BY <1>2
  <2>2. PartsKnown'
    <3>1. Macro!Parse(text).ok /\ mostSteps \in Nat
      BY <1>2, NetworkAssumption DEF Macro!Valid, NetworkAssumption
    <3>2. Macro!Parse(text).steps = Macro!Unrolled(text) /\ Len(Macro!Parse(text).steps) <= mostSteps
      BY <3>1, ParseUnrolls
    <3>3. macro'.steps = Macro!Parse(text).steps
      BY <1>2
    <3>5. Macro!Played'
      BY <2>1, <3>2, <3>3 DEF Macro!Played
    <3> QED
      BY <2>1, <3>5 DEF PartsKnown
  <2>3. started' = started \/ \E o : ofs = {o} /\ started' = started \cup {o}
    <3>1. Cardinality(ofs) = 1 => \E o : ofs = {o}
      BY FS_Singleton
    <3> QED
      BY <1>2, <3>1
  <2> QED
    BY <2>1, <2>2, <2>3
<1>3. \/ macro' = Macro!Admitted /\ UNCHANGED started
      \/ /\ Macro!Valid(text)
         /\ macro' = [steps |-> Macro!Parse(text).steps, running |-> TRUE, at |-> 0,
                      text |-> text, parts |-> ofs, repeated |-> ofs \subseteq started]
         /\ started' = IF Cardinality(ofs) = 1 THEN started \cup ofs ELSE started
  <2>1. CASE Macro!Valid(text)
    BY <2>1, SameCardinality DEF Macro!Start
  <2>2. CASE ~Macro!Valid(text)
    BY <2>2 DEF Macro!Start
  <2> QED
    BY <2>1, <2>2
<1> QED
  BY <1>1, <1>2, <1>3

LEMMA AdmittedOnce ==
  ASSUME PartsKnown, Macro!StartedOnce, macro' = Macro!Admitted \/ UNCHANGED macro,
         again \in Nat, again' \in Nat, again <= again'
  PROVE  PartsKnown' /\ Macro!StartedOnce'
<1>1. /\ macro'.parts = macro.parts /\ macro'.text = macro.text /\ macro'.repeated = macro.repeated
      /\ macro'.steps = macro.steps
  <2>1. \/ macro' = macro
        \/ macro' = [macro EXCEPT !.running = FALSE]
    BY DEF Macro!Admitted
  <2>2. CASE macro' = macro
    BY <2>2
  <2>3. CASE macro' = [macro EXCEPT !.running = FALSE]
    BY <2>3
  <2> QED
    BY <2>1, <2>2, <2>3
<1>2. Len(macro.text) \in Nat
  BY DEF PartsKnown
<1> QED
  BY <1>1, <1>2 DEF PartsKnown, Macro!Played, Macro!StartedOnce

\* A chunk joins the slot, and completes an upload or not.
LEMMA OnceChunk ==
  ASSUME OnceIInv, NEW d \in uploadNet, d.kind # "whole", Macro!HandleChunk(d), NEW twice \in BOOLEAN,
         again' = IF twice THEN again + 1 ELSE again,
         uploadNet' = IF twice THEN uploadNet ELSE uploadNet \ {d}, UNCHANGED uploader
  PROVE  OnceIInv'
<1> TRUE \in BOOLEAN /\ FALSE \in BOOLEAN
  OBVIOUS
<1>0. OnceIInv /\ UploadIInv /\ Collected /\ Apart /\ again \in Nat /\ again' \in Nat /\ again <= again'
      /\ uploadNet' \subseteq uploadNet
  BY DEF OnceIInv, UploadIInv
<1>1. UploadIInv'
  BY <1>0, ChunkStep
<1> DEFINE slot == Macro!SlotFor(d)
           got == IF d.index \in DOMAIN slot.got THEN slot.got
                  ELSE [i \in DOMAIN slot.got \cup {d.index} |-> IF i = d.index THEN d ELSE slot.got[i]]
           now == [slot EXCEPT !.got = got]
           text == [i \in 1..slot.count |-> got[i].part]
           ofs == {got[i].of : i \in 1..slot.count}
<1>2. /\ DOMAIN slot = {"active", "id", "count", "got"}
      /\ \A i \in DOMAIN slot.got : i \in DOMAIN upload.got /\ slot.got[i] = upload.got[i]
      /\ \A i \in DOMAIN slot.got : slot.got[i].count = slot.count
  <2>1. CASE upload.active /\ upload.id = d.id
    BY <1>0, <2>1 DEF Macro!SlotFor, Collected
  <2>2. CASE ~(upload.active /\ upload.id = d.id)
    <3>1. slot = [active |-> TRUE, id |-> d.id, count |-> d.count, got |-> <<>>]
      BY <2>2 DEF Macro!SlotFor
    <3>2. DOMAIN slot.got = {}
      BY <3>1
    <3> QED
      BY <3>1, <3>2
  <2> QED
    BY <2>1, <2>2
<1>3. \/ slot.count # d.count /\ upload' = slot /\ macro' = Macro!Admitted /\ UNCHANGED started
      \/ /\ slot.count = d.count /\ DOMAIN got = 1..slot.count
         /\ upload' = Macro!NoUpload /\ Macro!Start(text, ofs)
      \/ slot.count = d.count /\ upload' = now /\ macro' = Macro!Admitted /\ UNCHANGED started
  BY DEF Macro!HandleChunk, Macro!Emptied, slot
<1> HIDE DEF slot
<1>4. /\ DOMAIN got = DOMAIN slot.got \cup {d.index}
      /\ \A i \in DOMAIN got : (i = d.index /\ got[i] = d) \/ (i \in DOMAIN slot.got /\ got[i] = slot.got[i])
  <2>1. CASE d.index \in DOMAIN slot.got
    BY <2>1
  <2>2. CASE d.index \notin DOMAIN slot.got
    <3>1. DOMAIN got = DOMAIN slot.got \cup {d.index} /\ got[d.index] = d
          /\ \A i \in DOMAIN slot.got : got[i] = slot.got[i]
      BY <2>2
    <3> HIDE DEF got
    <3> QED
      BY <3>1
  <2> QED
    BY <2>1, <2>2
<1> HIDE DEF got
<1>5. now.count = slot.count /\ now.got = got
  BY <1>2
<1> HIDE DEF now
<1>6. Carries(d) /\ \A i \in DOMAIN upload.got : Carries(upload.got[i])
  BY <1>0 DEF UploadIInv, Collected
\* What the slot has afterwards, whatever upload it is asked about.
<1>7. ASSUME NEW o, NEW i \in 1..Len(o.text), i \in DOMAIN got, got[i].of = o
      PROVE  i \in Held(o) \cup (IF o = d.of THEN {d.index} ELSE {})
  BY <1>2, <1>4, <1>7 DEF Held
<1>8. \A o : Held(o)' \subseteq Held(o) \cup (IF o = d.of THEN {d.index} ELSE {})
  <2>1. CASE upload' = slot
    BY <1>2, <2>1 DEF Held
  <2>2. CASE upload' = now
    BY <1>5, <1>7, <2>2 DEF Held
  <2>3. CASE upload' = Macro!NoUpload
    <3>1. DOMAIN upload'.got = {}
      BY <2>3 DEF Macro!NoUpload
    <3> QED
      BY <3>1 DEF Held
  <2> QED
    BY <1>3, <2>1, <2>2, <2>3
<1>9. /\ \A o : Pending(o)' \subseteq Pending(o)
      /\ twice \/ d.index \notin Pending(d.of)'
  <2>1. \A o : Pending(o)' \subseteq Pending(o)
    BY <1>0 DEF Pending
  <2>2. ASSUME ~twice PROVE d.index \notin Pending(d.of)'
    BY <1>0, <2>2 DEF Pending, Apart
  <2> QED
    BY <2>1, <2>2
<1>10. Apart'
  <2>1. \A i \in DOMAIN slot.got : slot.got[i].count # 1
    BY <1>0, <1>2 DEF Apart
  <2>2. d.count # 1
    BY <1>0 DEF Apart
  <2>3. \A i \in DOMAIN got : got[i].count # 1
    BY <1>4, <2>1, <2>2
  <2>4. \A i \in DOMAIN upload'.got : upload'.got[i].count # 1
    <3>1. CASE upload' = slot
      BY <2>1, <3>1
    <3>2. CASE upload' = now
      BY <1>5, <2>3, <3>2
    <3>3. CASE upload' = Macro!NoUpload
      <4>1. DOMAIN upload'.got = {}
        BY <3>3 DEF Macro!NoUpload
      <4> QED
        BY <4>1
    <3> QED
      BY <1>3, <3>1, <3>2, <3>3
  <2> QED
    BY <1>0, <2>4 DEF Apart
<1>11. CASE macro' = Macro!Admitted /\ UNCHANGED started
  <2>1. Counted'
    BY <1>0, <1>6, <1>8, <1>9, <1>11, CountedReceive DEF OnceIInv
  <2>2. Given'
    BY <1>0, <1>11 DEF OnceIInv, Given
  <2>3. PartsKnown' /\ Macro!StartedOnce'
    BY <1>0, <1>11, AdmittedOnce DEF OnceIInv
  <2> QED
    BY <1>0, <1>1, <1>10, <2>1, <2>2, <2>3 DEF OnceIInv
<1>12. CASE /\ slot.count = d.count /\ DOMAIN got = 1..slot.count
            /\ upload' = Macro!NoUpload /\ Macro!Start(text, ofs)
  <2>1. \A i \in 1..slot.count : /\ Carries(got[i]) /\ got[i].index = i /\ got[i].count = slot.count
                                 /\ got[i].of \in Known
    <3>1. \A i \in DOMAIN slot.got : /\ Carries(slot.got[i]) /\ slot.got[i].index = i
                                     /\ slot.got[i].count = slot.count /\ slot.got[i].of \in Known
      BY <1>0, <1>2 DEF Collected, Known
    <3>2. d.of \in Known
      BY DEF Known
    <3> QED
      BY <1>4, <1>6, <1>12, <3>1, <3>2
  <2>2. slot.count \in Nat /\ IsFiniteSet(ofs)
    <3>1. slot.count \in Nat
      <4>1. d.of.text \in Seq(Commands)
        BY <1>6, PartOf
      <4>2. Len(d.of.text) \in Nat
        BY <4>1
      <4> QED
        BY <1>6, <1>12, <4>2 DEF Carries
    <3>2. IsFiniteSet(1..slot.count)
      BY <3>1, FS_Interval
    <3> DEFINE f == [i \in 1..slot.count |-> got[i].of]
    <3>3. ofs = {f[i] : i \in 1..slot.count}
      OBVIOUS
    <3>4. f \in Surjection(1..slot.count, ofs)
      BY <3>3 DEF Surjection
    <3> QED
      BY <3>1, <3>2, <3>4, FS_Surjection
  <2>3. text \in Seq(Commands)
    <3>1. ASSUME NEW i \in 1..slot.count PROVE got[i].part \in Commands
      <4>1. Carries(got[i])
        BY <2>1
      <4> QED
        BY <4>1, PartOf
    <3>2. slot.count \in Nat
      BY <2>2
    <3> QED
      BY <3>1, <3>2
  <2>4. Len(text) = slot.count
    BY <2>2
  <2>5. \/ macro' = Macro!Admitted /\ started' = started
        \/ /\ macro'.parts = ofs /\ macro'.text = text /\ macro'.repeated = (ofs \subseteq started)
           /\ PartsKnown'
           /\ started' = started \/ \E o : ofs = {o} /\ started' = started \cup {o}
    <3> HIDE DEF text, ofs
    <3> QED
      BY <1>0, <1>12, <2>2, <2>3, StartOnce DEF OnceIInv
  \* A single upload is complete with what the slot had and the datagram.
  <2>6. ASSUME NEW o, ofs = {o}
        PROVE  /\ o \in Known /\ o.text \in texts /\ Len(o.text) = slot.count
               /\ \A i \in 1..Len(o.text) : i \in Held(o) \cup (IF o = d.of THEN {d.index} ELSE {})
    <3>1. \A i \in 1..slot.count : got[i].of = o
      <4>1. \A i \in 1..slot.count : got[i].of \in ofs
        OBVIOUS
      <4> HIDE DEF ofs
      <4> QED
        BY <2>6, <4>1
    <3>2. PICK i \in 1..slot.count : TRUE
      BY <2>6
    <3>3. o \in Known /\ o.text \in texts /\ Len(o.text) = slot.count
      BY <2>1, <3>1, <3>2 DEF Carries
    <3> QED
      BY <1>7, <1>12, <3>1, <3>3
  <2>7. \A o : Held(o)' = {}
    <3>1. DOMAIN upload'.got = {}
      BY <1>12 DEF Macro!NoUpload
    <3> QED
      BY <3>1 DEF Held
  <2> HIDE DEF text, ofs
  <2>8. CASE macro' = Macro!Admitted /\ started' = started
    BY <1>11, <2>8
  <2>9. CASE /\ macro'.parts = ofs /\ macro'.text = text /\ macro'.repeated = (ofs \subseteq started)
             /\ PartsKnown'
             /\ started' = started \/ \E o : ofs = {o} /\ started' = started \cup {o}
    <3>1. started \subseteq started' /\ \A o \in started' \ started : ofs = {o}
      BY <2>9
    <3>2. Counted'
      <4>1. \A o \in started' \ started :
              /\ \A i \in 1..Len(o.text) : i \in Held(o) \cup (IF o = d.of THEN {d.index} ELSE {})
              /\ Held(o)' = {}
        BY <2>6, <2>7, <3>1
      <4> QED
        BY <1>0, <1>6, <1>8, <1>9, <3>1, <4>1, CountedReceive DEF OnceIInv
    <3>3. Given'
      <4>1. ASSUME NEW o \in started' \ started
            PROVE  o.run \in Nat /\ o.id \in Nat /\ o.run <= uploader.run
                   /\ (o.run = uploader.run => o.id <= uploader.seq)
        <5>1. o \in Known
          BY <2>6, <3>1
        <5>2. o.run \in Nat /\ o.id \in Nat
          <6>1. CASE \E e \in uploadNet : e.of = o
            BY <1>0, <6>1 DEF Carries, UploadIInv
          <6>2. CASE \E i \in DOMAIN upload.got : upload.got[i].of = o
            BY <1>0, <6>2 DEF Carries, UploadIInv, Collected
          <6> QED
            BY <5>1, <6>1, <6>2 DEF Known
        <5>3. Distinct
          BY <1>0 DEF UploadIInv
        <5>4. o.run <= uploader.run /\ (o.run = uploader.run => o.id <= uploader.seq)
          BY <5>1, <5>3 DEF Distinct
        <5> QED
          BY <5>2, <5>4
      <4> QED
        BY <1>0, <4>1 DEF OnceIInv, Given
    <3>4. Macro!StartedOnce'
      <4> SUFFICES ASSUME ofs \subseteq started, Cardinality(ofs) = 1 PROVE Len(text) <= again'
        <5>1. /\ macro'.parts = ofs /\ macro'.text = text /\ (macro'.repeated => ofs \subseteq started)
          BY <2>9
        <5> QED
          BY <5>1, SameCardinality DEF Macro!StartedOnce
      <4>1. PICK o : ofs = {o}
        BY <2>2, FS_Singleton
      <4>2. o \in started /\ o.text \in texts /\ Len(o.text) = slot.count
        BY <2>6, <4>1
      <4>3. 1..Len(o.text) \subseteq Repeats(o)
        <5>1. d.index \in Pending(d.of)
          BY <1>6 DEF Pending, Carries
        <5> QED
          BY <2>6, <4>1, <4>2, <5>1 DEF Repeats
      <4>4. Repeats(o) \subseteq 1..Len(o.text)
        BY DEF Repeats, Pending, Held
      <4>5. Cardinality(1..Len(o.text)) = Len(o.text)
        <5>1. Len(o.text) \in Nat
          BY <2>2, <4>2
        <5> QED
          BY <5>1, FS_Interval
      <4>6. Cardinality(Repeats(o)) <= again
        BY <1>0, <4>2 DEF OnceIInv, Counted
      <4>7. Repeats(o) = 1..Len(o.text)
        BY <4>3, <4>4
      <4> QED
        BY <1>0, <2>2, <2>4, <4>2, <4>5, <4>6, <4>7
    <3> QED
      BY <1>0, <1>1, <1>10, <2>9, <3>2, <3>3, <3>4 DEF OnceIInv
  <2> QED
    BY <2>5, <2>8, <2>9
<1> QED
  BY <1>3, <1>11, <1>12

\* An upload in one datagram.
LEMMA OnceWhole ==
  ASSUME OnceIInv, NEW d \in uploadNet, d.kind = "whole", Macro!Start(<<d.part>>, {d.of}), NEW twice \in BOOLEAN,
         again' = IF twice THEN again + 1 ELSE again,
         uploadNet' = IF twice THEN uploadNet ELSE uploadNet \ {d}, UNCHANGED <<uploader, upload>>
  PROVE  OnceIInv'
<1>0. OnceIInv /\ UploadIInv /\ Collected /\ Apart /\ again \in Nat /\ again' \in Nat /\ again <= again'
      /\ uploadNet' \subseteq uploadNet
  BY DEF OnceIInv, UploadIInv
<1>1. UploadIInv'
  BY <1>0, WholeStep
<1>2. Carries(d) /\ d.part \in Commands
  BY <1>0, PartOf DEF UploadIInv
<1>3. Len(d.of.text) = 1 /\ d.index = 1
  BY <1>2 DEF Carries
<1>4. /\ \A o : Pending(o)' \subseteq Pending(o) /\ Held(o)' = Held(o)
      /\ twice \/ d.index \notin Pending(d.of)'
  <2>1. \A o : Pending(o)' \subseteq Pending(o) /\ Held(o)' = Held(o)
    BY <1>0 DEF Pending, Held
  <2>2. ASSUME ~twice PROVE d.index \notin Pending(d.of)'
    BY <1>0, <2>2 DEF Pending, Apart
  <2> QED
    BY <2>1, <2>2
<1>5. Held(d.of) = {}
  <2>1. ASSUME NEW i \in DOMAIN upload.got, upload.got[i].of = d.of PROVE FALSE
    <3>1. Carries(upload.got[i]) /\ upload.got[i].count # 1
      BY <1>0, <2>1 DEF Collected, Apart
    <3> QED
      BY <1>3, <2>1, <3>1 DEF Carries
  <2> QED
    BY <2>1 DEF Held
<1>6. Apart'
  BY <1>0 DEF Apart
<1> DEFINE text == <<d.part>>
           ofs == {d.of}
<1>7. IsFiniteSet(ofs) /\ text \in Seq(Commands) /\ Len(text) = 1 /\ Macro!Start(text, ofs)
  <2>1. IsFiniteSet({d.of})
    BY FS_Singleton
  <2>2. text \in Seq(Commands) /\ Len(text) = 1
    BY <1>2
  <2> QED
    BY <2>1, <2>2
<1>8. ofs = {d.of}
  OBVIOUS
<1> HIDE DEF text, ofs
<1>9. \/ macro' = Macro!Admitted /\ started' = started
      \/ /\ macro'.parts = ofs /\ macro'.text = text /\ macro'.repeated = (ofs \subseteq started)
         /\ PartsKnown'
         /\ started' = started \/ \E o : ofs = {o} /\ started' = started \cup {o}
  BY <1>0, <1>7, StartOnce DEF OnceIInv
<1>10. started' = started \/ started' = started \cup {d.of}
  BY <1>8, <1>9
<1>11. Counted'
  <2>1. started \subseteq started' /\ \A o \in started' \ started : o = d.of
    BY <1>10
  <2>2. \A o \in started' \ started :
          /\ \A i \in 1..Len(o.text) : i \in Held(o) \cup (IF o = d.of THEN {d.index} ELSE {})
          /\ Held(o)' = {}
    <3>1. \A i \in 1..Len(d.of.text) : i \in {d.index}
      BY <1>3
    <3>2. Held(d.of)' = {}
      BY <1>4, <1>5
    <3> QED
      BY <2>1, <3>1, <3>2
  <2>3. \A o : Held(o)' \subseteq Held(o) \cup (IF o = d.of THEN {d.index} ELSE {})
    BY <1>4
  <2> QED
    BY <1>0, <1>2, <1>4, <2>1, <2>2, <2>3, CountedReceive DEF OnceIInv
<1>12. Given'
  <2>1. d.of \in Known /\ d.of.run \in Nat /\ d.of.id \in Nat
    BY <1>2 DEF Known, Carries
  <2>2. d.of.run <= uploader.run /\ (d.of.run = uploader.run => d.of.id <= uploader.seq)
    BY <1>0, <2>1 DEF UploadIInv, Distinct
  <2> QED
    BY <1>0, <1>10, <2>1, <2>2 DEF OnceIInv, Given
<1>13. PartsKnown' /\ Macro!StartedOnce'
  <2>1. CASE macro' = Macro!Admitted
    BY <1>0, <2>1, AdmittedOnce DEF OnceIInv
  <2>2. CASE /\ macro'.parts = ofs /\ macro'.text = text /\ macro'.repeated = (ofs \subseteq started)
             /\ PartsKnown'
    <3> SUFFICES ASSUME macro'.repeated PROVE Len(text) <= again'
      BY <2>2 DEF Macro!StartedOnce
    <3>1. d.of \in started /\ d.of.text \in texts
      BY <1>2, <1>8, <2>2 DEF Carries
    <3>2. d.index \in Repeats(d.of) /\ Repeats(d.of) \subseteq 1..Len(d.of.text)
      BY <1>2, <3>1 DEF Repeats, Pending, Held, Carries
    <3>3. Repeats(d.of) = {1}
      BY <1>3, <3>2
    <3>4. Cardinality({1}) = 1
      BY FS_Singleton
    <3>5. 1 <= again
      <4>1. Cardinality(Repeats(d.of)) <= again
        BY <1>0, <3>1 DEF OnceIInv, Counted
      <4> QED
        BY <3>3, <3>4, <4>1
    <3> QED
      BY <1>0, <1>7, <3>5
  <2> QED
    BY <1>9, <2>1, <2>2
<1> QED
  BY <1>0, <1>1, <1>6, <1>11, <1>12, <1>13 DEF OnceIInv

\* A new upload, of which nothing was ever started or delivered.
LEMMA OnceUpload ==
  ASSUME OnceIInv, NEW text \in texts, Macro!Upload(text)
  PROVE  OnceIInv'
<1> DEFINE kind == IF Len(text) = 1 THEN "whole" ELSE "chunk"
           of == [run |-> uploader.run, id |-> uploader.seq + 1, text |-> text]
           packets == {Macro!Datagram(kind, text, i) : i \in 1..Len(text)}
           more == IF kind = "whole" THEN 1 ELSE 1 + Len(text)
           a == [uploader EXCEPT !.uploads = @ + 1]
           b == [a EXCEPT !.seq = @ + more]
<1>0. OnceIInv /\ UploadIInv
  BY DEF OnceIInv
<1>1. UploadIInv'
  BY <1>0, UploadStep
<1>2. /\ uploadNet' = uploadNet \cup packets /\ uploader' = b
      /\ UNCHANGED <<upload, macro, started, again>>
  BY DEF Macro!Upload
<1>3. uploader.run \in Nat /\ uploader.seq \in Nat /\ Len(text) \in Nat
  BY <1>0, TextFacts DEF UploadIInv
<1>4. uploader'.run = uploader.run /\ uploader'.seq \in Nat /\ uploader.seq <= uploader'.seq
  <2>1. a \in [run : Nat, seq : Nat, uploads : Nat] /\ a.run = uploader.run /\ a.seq = uploader.seq
    BY <1>0 DEF UploadIInv
  <2>2. more \in Nat
    BY <1>3
  <2> HIDE DEF a, more
  <2>3. b.run = a.run /\ b.seq = a.seq + more
    BY <2>1
  <2> QED
    BY <1>2, <1>3, <2>1, <2>2, <2>3
<1>5. ASSUME NEW d \in packets
      PROVE  d.of = of /\ (d.kind # "whole" => d.count # 1) /\ d = Macro!Datagram(kind, text, d.index)
  <2>1. PICK i \in 1..Len(text) : d = Macro!Datagram(kind, text, i)
    OBVIOUS
  <2>2. d.kind = kind /\ d.index = i /\ d.count = Len(text) /\ d.of = of
    BY <2>1 DEF Macro!Datagram, Macro!NextId
  <2>3. kind # "whole" => Len(text) # 1
    OBVIOUS
  <2> HIDE DEF of, kind
  <2> QED
    BY <2>1, <2>2, <2>3
<1>6. of.run = uploader.run /\ of.id = uploader.seq + 1
  OBVIOUS
<1> HIDE DEF packets, of, b, kind
<1>7. of \notin Known /\ of \notin started
  <2>1. of \notin Known
    BY <1>0, <1>3, <1>6 DEF UploadIInv, Distinct
  <2>2. of \notin started
    BY <1>0, <1>3, <1>6 DEF OnceIInv, Given
  <2> QED
    BY <2>1, <2>2
<1>8. Apart'
  <2>1. \A d \in uploadNet : d.of # of
    BY <1>7 DEF Known
  <2>2. \A d, e \in uploadNet' : d.of = e.of /\ d.index = e.index => d = e
    BY <1>0, <1>2, <1>5, <2>1 DEF OnceIInv, Apart
  <2> QED
    BY <1>0, <1>2, <1>5, <2>2 DEF OnceIInv, Apart
<1>9. Counted'
  <2> SUFFICES ASSUME NEW o, o.text \in texts PROVE Cardinality(Repeats(o)') <= again'
    BY DEF Counted
  <2>1. CASE o = of
    <3>1. Held(o)' = {}
      BY <1>2, <1>7, <2>1 DEF Held, Known
    <3>2. Repeats(o)' = {}
      BY <1>2, <1>7, <2>1, <3>1 DEF Repeats
    <3> QED
      BY <1>0, <1>2, <3>2, FS_EmptySet DEF OnceIInv
  <2>2. CASE o # of
    <3>1. Pending(o)' = Pending(o) /\ Held(o)' = Held(o)
      BY <1>2, <1>5, <2>2 DEF Pending, Held
    <3>2. Repeats(o)' = Repeats(o)
      BY <1>2, <3>1 DEF Repeats
    <3> QED
      BY <1>0, <1>2, <3>2 DEF OnceIInv, Counted
  <2> QED
    BY <2>1, <2>2
<1>10. Given'
  <2> SUFFICES ASSUME NEW p \in started
               PROVE  p.run \in Nat /\ p.id \in Nat /\ p.run <= uploader'.run
                      /\ (p.run = uploader'.run => p.id <= uploader'.seq)
    BY <1>2 DEF Given
  <2>1. p.run \in Nat /\ p.id \in Nat /\ p.run <= uploader.run /\ (p.run = uploader.run => p.id <= uploader.seq)
    BY <1>0 DEF OnceIInv, Given
  <2> QED
    BY <1>3, <1>4, <2>1
<1> QED
  BY <1>0, <1>1, <1>2, <1>8, <1>9, <1>10 DEF OnceIInv, PartsKnown, Macro!Played, Macro!StartedOnce

LEMMA OnceStep == OnceIInv /\ [Next]_vars => OnceIInv'
<1> SUFFICES ASSUME OnceIInv, [Next]_vars PROVE OnceIInv'
  OBVIOUS
<1>0. UploadIInv' /\ UploadIInv
  BY MacroStep DEF OnceIInv
<1>1. CASE UNCHANGED <<uploader, uploadNet, upload, macro, started, again>>
  BY <1>0, <1>1 DEF OnceIInv, Counted, Repeats, Pending, Held, Apart, Given, PartsKnown, Macro!Played, Macro!StartedOnce
<1>2. CASE \E text \in texts : Macro!Upload(text)
  BY <1>2, OnceUpload
<1>3. CASE Macro!Restart
  <2>1. UNCHANGED <<uploadNet, upload, macro, started, again>>
    BY <1>3 DEF Macro!Restart
  <2>2. uploader'.run = uploader.run + 1 /\ uploader.run \in Nat
    <3> DEFINE a == [uploader EXCEPT !.run = @ + 1]
               b == [a EXCEPT !.seq = 0]
    <3>1. uploader' = b
      BY <1>3 DEF Macro!Restart
    <3>2. a \in [run : Nat, seq : Nat, uploads : Nat] /\ a.run = uploader.run + 1 /\ uploader.run \in Nat
      BY <1>0 DEF UploadIInv
    <3> HIDE DEF a
    <3> QED
      BY <3>1, <3>2
  <2>3. Given'
    <3> SUFFICES ASSUME NEW p \in started
                 PROVE  p.run \in Nat /\ p.id \in Nat /\ p.run <= uploader'.run
                        /\ (p.run = uploader'.run => p.id <= uploader'.seq)
      BY <2>1 DEF Given
    <3>1. p.run \in Nat /\ p.id \in Nat /\ p.run <= uploader.run
      BY DEF OnceIInv, Given
    <3> QED
      BY <2>2, <3>1
  <2> QED
    BY <1>0, <2>1, <2>3
    DEF OnceIInv, Counted, Repeats, Pending, Held, Apart, PartsKnown, Macro!Played, Macro!StartedOnce
<1>4. CASE Macro!Lose
  <2>1. UNCHANGED <<uploader, upload, macro, started, again>> /\ uploadNet' \subseteq uploadNet
    BY <1>4 DEF Macro!Lose
  <2>2. Counted'
    <3>1. \A o : Pending(o)' \subseteq Pending(o) /\ Held(o)' \subseteq Held(o)
      BY <2>1 DEF Pending, Held
    <3> QED
      BY <2>1, <3>1, CountedLess DEF OnceIInv
  <2> QED
    BY <1>0, <2>1, <2>2 DEF OnceIInv, Apart, Given, PartsKnown, Macro!Played, Macro!StartedOnce
<1>5. CASE Macro!Receive
  <2>1. PICK d \in uploadNet, twice \in BOOLEAN :
          /\ again' = IF twice THEN again + 1 ELSE again
          /\ uploadNet' = IF twice THEN uploadNet ELSE uploadNet \ {d}
          /\ UNCHANGED uploader
          /\ IF d.kind = "whole" THEN Macro!Start(<<d.part>>, {d.of}) /\ UNCHANGED upload
             ELSE Macro!HandleChunk(d)
    BY <1>5 DEF Macro!Receive
  <2>2. CASE d.kind = "whole"
    BY <2>1, <2>2, OnceWhole
  <2>3. CASE d.kind # "whole"
    BY <2>1, <2>3, OnceChunk
  <2> QED
    BY <2>2, <2>3
<1>6. CASE Macro!Check \/ Macro!Apply \/ Macro!Tick \/ Macro!Reap \/ Macro!Reset
  <2>1. /\ UNCHANGED <<uploader, uploadNet, upload, started, again>>
        /\ macro'.parts = macro.parts /\ macro'.text = macro.text /\ macro'.repeated = macro.repeated
        /\ macro'.steps = macro.steps
    <3>1. CASE Macro!Check
      BY <3>1 DEF Macro!Check, Macro!Checked
    <3>2. CASE Macro!Apply
      BY <3>2 DEF Macro!Apply
    <3>3. CASE Macro!Tick
      BY <3>3 DEF Macro!Tick
    <3>4. CASE Macro!Reset
      BY <3>4 DEF Macro!Reset
    <3>5. CASE Macro!Reap
      BY <3>5 DEF Macro!Reap, Macro!Checked
    <3> QED
      BY <1>6, <3>1, <3>2, <3>3, <3>4, <3>5
  <2>2. Counted' /\ again' \in Nat
    BY <2>1 DEF OnceIInv, Counted, Repeats, Pending, Held
  <2>3. Apart' /\ Given'
    BY <2>1 DEF OnceIInv, Apart, Given
  <2>4. PartsKnown'
    BY <2>1 DEF OnceIInv, PartsKnown, Macro!Played
  <2>5. Macro!StartedOnce'
    BY <2>1 DEF OnceIInv, Macro!StartedOnce
  <2> QED
    BY <1>0, <2>2, <2>3, <2>4, <2>5 DEF OnceIInv
<1> QED
  BY <1>1, <1>2, <1>3, <1>4, <1>5, <1>6 DEF Next, vars, macroVars, Macro!Next

\* Macros are never made of two uploads of one run, an upload plays once unless all of it was
\* delivered again, and what plays is its text with the loops unrolled (handle_macro_chunk,
\* server_macro_start, validate_text).
THEOREM MacroTheorem == Spec => []MacrosPlay
<1>1. Init => OnceIInv
  BY OnceStart
<1>2. OnceIInv /\ [Next]_vars => OnceIInv'
  BY OnceStep
<1>3. OnceIInv => MacrosPlay
  BY DEF OnceIInv, UploadIInv, PartsKnown, MacrosPlay, Macro!MacroInv
<1> QED
  BY <1>1, <1>2, <1>3, PTL DEF Spec
=============================================================================
