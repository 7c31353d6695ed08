---------------------------- MODULE GadgetProofs ----------------------------
(***************************************************************************)
(* Proofs about the parts between the server and the console, for any set  *)
(* of endpoints, any number of opened files, any length of the queues and  *)
(* any number of kernel events.                                            *)
(* A behaviour of MCGadget is one of its parts with the others at rest, so *)
(* that each theorem is about the part it names.                           *)
(***************************************************************************)
EXTENDS MCGadget, Sequences, SequenceTheorems, FiniteSetTheorems, TLAPS

-----------------------------------------------------------------------------
(***************************************************************************)
(* The USB gadget.  RequiredFresh, ReadyHasEndpoints and HaltedIsOpen say  *)
(* nothing while the gadget is down or between two steps of a request;     *)
(* UsbIInv says what holds there: which handles a teardown has left, and   *)
(* what the event thread has in hand.                                      *)
(***************************************************************************)

\* The owner only meets a running gadget when it is idle, and leaves no handle of a
\* required endpoint once it has closed the file and cleared the handles.
OwnerLeaves ==
  /\ io => owner = "idle" /\ fd # 0
  /\ owner \in {"clear", "join", "open"} => fd = 0
  /\ owner # "clear" => \A e \in required : handle[e] \in {0, fd}

AllOpen == \A e \in required : handle[e] # 0

\* Between two events, and while an audio endpoint or the configuration is pending.
PumpKnows ==
  io =>
    /\ pump = "configure" => AllOpen
    /\ pump \in Usb!Audio /\ ~revived => AllOpen
    /\ pump \in {"enable", "configure"} => halted = {}

\* The states in which the console is told of a configuration.
Live == {"Configured", "HidReady", "AudioPlaybackActive", "AudioCaptureActive"}

ReadyOpen == io /\ ~revived /\ pump \in {"check", "fetch"} /\ gstate \in Live => AllOpen

UsbIInv == Usb!TypeOK /\ OwnerLeaves /\ PumpKnows /\ ReadyOpen /\ Usb!HaltedIsOpen

\* The states are numbered as S2GadgetState does.
LEMMA Ranks ==
  /\ Usb!Rank("Stopped") = 1 /\ Usb!Rank("DeviceInitialized") = 2 /\ Usb!Rank("Connected") = 3
  /\ Usb!Rank("Addressed") = 4 /\ Usb!Rank("Configured") = 5 /\ Usb!Rank("HidReady") = 6
  /\ Usb!Rank("AudioPlaybackActive") = 7 /\ Usb!Rank("AudioCaptureActive") = 8
  /\ Usb!Rank("Resetting") = 9 /\ Usb!Rank("Failed") = 10
<1> DEFINE Order == Usb!Order
<1>1. /\ DOMAIN Order = 1..10
      /\ Order[1] = "Stopped" /\ Order[2] = "DeviceInitialized" /\ Order[3] = "Connected"
      /\ Order[4] = "Addressed" /\ Order[5] = "Configured" /\ Order[6] = "HidReady"
      /\ Order[7] = "AudioPlaybackActive" /\ Order[8] = "AudioCaptureActive"
      /\ Order[9] = "Resetting" /\ Order[10] = "Failed"
  BY DEF Usb!Order
<1> HIDE DEF Order
<1>2. \A m, n \in 1..10 : Order[m] = Order[n] => m = n
  BY <1>1
<1>3. ASSUME NEW n \in 1..10 PROVE (CHOOSE m \in DOMAIN Order : Order[m] = Order[n]) = n
  BY <1>1, <1>2
<1>4. \A s : Usb!Rank(s) = CHOOSE m \in DOMAIN Order : Order[m] = s
  BY DEF Usb!Rank, Order
<1> QED
  BY <1>1, <1>3, <1>4

StateNames == {"Stopped", "DeviceInitialized", "Connected", "Addressed", "Resetting", "Failed"}
              \cup Live

\* What the comparisons of states come to.
LEMMA ReadyMeans ==
  /\ {Usb!Order[n] : n \in DOMAIN Usb!Order} = StateNames
  /\ \A s \in StateNames :
       /\ (Usb!Rank(s) >= Usb!Rank("HidReady") /\ Usb!Rank(s) < Usb!Rank("Resetting"))
            => s \in Live
       /\ (Usb!Rank(s) >= Usb!Rank("Configured") /\ Usb!Rank(s) < Usb!Rank("Resetting"))
            <=> s \in Live
       /\ Usb!AtLeastReady(s) => s \in Live \cup {"Resetting", "Failed"}
<1>1. {Usb!Order[n] : n \in DOMAIN Usb!Order} = StateNames
  <2>1. DOMAIN Usb!Order = 1..10
    BY DEF Usb!Order
  <2>2. \A n \in 1..10 : Usb!Order[n] \in StateNames
    BY DEF Usb!Order, StateNames, Live
  <2>3. \A s \in StateNames : \E n \in 1..10 : Usb!Order[n] = s
    <3>1. ASSUME NEW n \in 1..10, NEW s, Usb!Order[n] = s
          PROVE  \E m \in 1..10 : Usb!Order[m] = s
      BY <3>1
    <3>2. /\ Usb!Order[1] = "Stopped" /\ Usb!Order[2] = "DeviceInitialized"
          /\ Usb!Order[3] = "Connected" /\ Usb!Order[4] = "Addressed"
          /\ Usb!Order[5] = "Configured" /\ Usb!Order[6] = "HidReady"
          /\ Usb!Order[7] = "AudioPlaybackActive" /\ Usb!Order[8] = "AudioCaptureActive"
          /\ Usb!Order[9] = "Resetting" /\ Usb!Order[10] = "Failed"
      BY DEF Usb!Order
    <3> QED
      BY <3>1, <3>2 DEF StateNames, Live
  <2> QED
    BY <2>1, <2>2, <2>3
<1>2. ASSUME NEW s \in StateNames
      PROVE  /\ (Usb!Rank(s) >= Usb!Rank("HidReady") /\ Usb!Rank(s) < Usb!Rank("Resetting"))
                  => s \in Live
             /\ (Usb!Rank(s) >= Usb!Rank("Configured") /\ Usb!Rank(s) < Usb!Rank("Resetting"))
                  <=> s \in Live
             /\ Usb!AtLeastReady(s) => s \in Live \cup {"Resetting", "Failed"}
  BY Ranks DEF StateNames, Live, Usb!AtLeastReady
<1> QED
  BY <1>1, <1>2

\* raw_ep_disable drops a handle or, of a worker that stays busy, keeps it.
LEMMA WithoutFacts ==
  ASSUME NEW E \in SUBSET Usb!Endpoints, NEW S, 0 \in S, NEW b \in [Usb!Endpoints -> S],
         NEW h \in Usb!Without(E, b)
  PROVE  /\ h \in [Usb!Endpoints -> S]
         /\ \A e \in Usb!Endpoints : h[e] \in {0, b[e]} /\ (e \notin E => h[e] = b[e])
         /\ fd = 0 => \A e \in E : h[e] = 0
BY DEF Usb!Without

\* What enable_all_endpoints stores.
LEMMA OpenedFacts ==
  ASSUME Usb!TypeOK, NEW E \in SUBSET required, NEW b \in [Usb!Endpoints -> 0..maxFiles]
  PROVE  /\ Usb!Opened(E, b) \in [Usb!Endpoints -> 0..maxFiles]
         /\ \A e \in required : Usb!Opened(E, b)[e] = IF e \in E THEN fd ELSE 0
         /\ \A e \in Usb!Audio : e \notin required => Usb!Opened(E, b)[e] = b[e]
BY GadgetAssumption DEF Usb!Opened, Usb!TypeOK, Usb!Endpoints

\* Types are kept, whatever handles stay behind.
LEMMA UsbTypes == Usb!TypeOK /\ [Usb!Next]_usbVars => Usb!TypeOK'
<1> SUFFICES ASSUME Usb!TypeOK, [Usb!Next]_usbVars PROVE Usb!TypeOK'
  OBVIOUS
<1> DEFINE Handles == [Usb!Endpoints -> 0..maxFiles]
<1>0. /\ 0 \in 0..maxFiles /\ handle \in Handles /\ Usb!NoHandles \in Handles
      /\ fd \in 0..maxFiles /\ files \in 0..maxFiles /\ alt \in [Usb!Audio -> {0, 1}]
      /\ Usb!NoAlts \in [Usb!Audio -> {0, 1}]
  BY GadgetAssumption DEF Usb!TypeOK, Usb!NoHandles, Usb!NoAlts
<1>1. ASSUME NEW E \in SUBSET Usb!Endpoints, NEW b \in Handles, NEW h \in Usb!Without(E, b)
      PROVE  h \in Handles
  BY <1>0, <1>1, WithoutFacts
<1>2. Usb!Without(Usb!Endpoints, handle) \subseteq Handles
  BY <1>0, <1>1
<1>3. \A e \in Usb!Audio : Usb!Without({e}, handle) \subseteq Handles
  BY <1>0, <1>1 DEF Usb!Endpoints
<1>4. {Usb!Order[n] : n \in DOMAIN Usb!Order} = StateNames
  BY ReadyMeans
<1>5. \A a : Usb!AudioState(a) \in StateNames
  BY DEF Usb!AudioState, StateNames, Live
<1> USE DEF Usb!TypeOK, StateNames, Live
<1>6. CASE Usb!EnableAll
  <2>1. PICK E \in SUBSET required, kept \in Usb!Without(Usb!Endpoints, handle) :
          \/ handle' = Usb!Opened(E, kept) /\ pump' = "configure" /\ UNCHANGED gstate
          \/ handle' \in Usb!Without(Usb!Endpoints, Usb!Opened(E, kept)) /\ pump' = "check"
             /\ gstate' = "Failed"
    BY <1>6 DEF Usb!EnableAll
  <2>2. kept \in Handles /\ Usb!Opened(E, kept) \in Handles
    BY <1>2, OpenedFacts
  <2>3. handle' \in Handles
    BY <1>1, <2>1, <2>2
  <2> QED
    BY <1>0, <1>4, <1>6, <2>1, <2>3 DEF Usb!EnableAll, Usb!settings
<1>7. CASE Usb!Configure
  BY <1>0, <1>2, <1>4, <1>7 DEF Usb!Configure, Usb!DisableAll, Usb!settings
<1>8. CASE Usb!StateEvent \/ Usb!SetConfiguration
  BY <1>0, <1>4, <1>8 DEF Usb!StateEvent, Usb!SetConfiguration, Usb!settings
<1>9. CASE Usb!ResetEvent
  BY <1>0, <1>2, <1>4, <1>9
  DEF Usb!ResetEvent, Usb!ResetConnection, Usb!DisableAll, Usb!ForgetSettings
<1>10. ASSUME NEW e \in Usb!Audio, Usb!AudioOff(e) PROVE Usb!TypeOK'
  BY <1>0, <1>3, <1>4, <1>5, <1>10 DEF Usb!AudioOff, Usb!settings, Usb!Revive
<1>11. ASSUME NEW e \in Usb!Audio, Usb!AudioAgain(e) \/ Usb!AudioOn(e) PROVE Usb!TypeOK'
  BY <1>0, <1>4, <1>5, <1>11 DEF Usb!AudioAgain, Usb!AudioOn, Usb!settings, Usb!Revive
<1>12. ASSUME NEW e \in Usb!Audio, Usb!StoreAudio(e) PROVE Usb!TypeOK'
  BY <1>0, <1>4, <1>5, <1>12 DEF Usb!StoreAudio, Usb!settings, Usb!Endpoints
<1>13. CASE Usb!SetFeature
  BY <1>0, <1>4, <1>13 DEF Usb!SetFeature, Usb!Endpoints
<1>14. CASE Usb!CheckRunning \/ Usb!Interrupted
  BY <1>0, <1>4, <1>14 DEF Usb!CheckRunning, Usb!Interrupted, Usb!settings
<1>15. CASE Usb!FetchFails
  BY <1>0, <1>2, <1>4, <1>15 DEF Usb!FetchFails, Usb!DisableAll, Usb!settings
<1>16. CASE Usb!StartSetup \/ Usb!StartTeardown \/ Usb!ClearHandles \/ Usb!OpenFails
  BY <1>0, <1>4, <1>16 DEF Usb!StartSetup, Usb!StartTeardown, Usb!ClearHandles, Usb!OpenFails,
     Usb!settings
<1>17. CASE Usb!TeardownDisable
  BY <1>0, <1>2, <1>4, <1>17 DEF Usb!TeardownDisable, Usb!DisableAll, Usb!settings
<1>18. CASE Usb!TeardownClose \/ Usb!TeardownEnd
  BY <1>0, <1>4, <1>18 DEF Usb!TeardownClose, Usb!TeardownEnd, Usb!settings
<1>19. CASE Usb!Open
  <2>1. files' = files + 1 /\ files' \in 0..maxFiles /\ fd \in 0..files' /\ files' \in 0..files'
    BY <1>19, GadgetAssumption DEF Usb!Open
  <2> QED
    BY <1>0, <1>4, <1>19, <2>1 DEF Usb!Open, Usb!ForgetSettings, Usb!settings
<1>20. CASE UNCHANGED usbVars
  BY <1>20 DEF usbVars
<1> QED
  BY <1>6, <1>7, <1>8, <1>9, <1>10, <1>11, <1>12, <1>13, <1>14, <1>15, <1>16, <1>17, <1>18,
     <1>19, <1>20 DEF Usb!Next, Usb!Pump, Usb!Console, Usb!Owner

\* The event thread and the owner keep to what UsbIInv says of handles, halts and states.
LEMMA UsbStep == UsbIInv /\ [Usb!Next]_usbVars => UsbIInv'
<1> SUFFICES ASSUME UsbIInv, [Usb!Next]_usbVars PROVE UsbIInv'
  OBVIOUS
<1> DEFINE Handles == [Usb!Endpoints -> 0..maxFiles]
           Rest == OwnerLeaves /\ PumpKnows /\ ReadyOpen /\ Usb!HaltedIsOpen
<1>0. /\ Usb!TypeOK /\ Usb!TypeOK' /\ handle \in Handles /\ handle' \in Handles
      /\ 0 \in 0..maxFiles /\ 0 \notin {1} /\ files \in Nat /\ fd \in Nat /\ fd <= files
      /\ required \subseteq Usb!Endpoints /\ required \cap Usb!Audio = {}
      /\ Usb!Audio = {"audioOut", "audioIn"}
  BY UsbTypes, GadgetAssumption DEF UsbIInv, Usb!TypeOK, Usb!Endpoints, Usb!Audio
<1> SUFFICES Rest'
  BY <1>0 DEF UsbIInv
<1>1. ASSUME NEW E \in SUBSET Usb!Endpoints, NEW b \in Handles, NEW h \in Usb!Without(E, b)
      PROVE  /\ \A e \in required : h[e] \in {0, b[e]} /\ (e \notin E => h[e] = b[e])
  <2>1. \A e \in Usb!Endpoints : h[e] \in {0, b[e]} /\ (e \notin E => h[e] = b[e])
    BY <1>0, <1>1 DEF Usb!Without
  <2> QED
    BY <1>0, <2>1, Zenon
<1>2. \A h \in Usb!Without(Usb!Endpoints, handle) : \A e \in required : h[e] \in {0, handle[e]}
  BY <1>0, <1>1
<1>3. \A a \in Usb!Audio : \A h \in Usb!Without({a}, handle) : \A e \in required : h[e] = handle[e]
  <2> SUFFICES ASSUME NEW a \in Usb!Audio, NEW h \in Usb!Without({a}, handle), NEW e \in required
               PROVE  h[e] = handle[e]
    OBVIOUS
  <2>1. {a} \subseteq Usb!Endpoints /\ e \notin {a}
    BY <1>0 DEF Usb!Endpoints
  <2> QED
    BY <1>0, <1>1, <2>1
<1>4. gstate \in StateNames /\ (Usb!AtLeastReady(gstate) => gstate \in Live \cup {"Resetting", "Failed"})
  BY <1>0, ReadyMeans DEF Usb!TypeOK
<1> USE DEF UsbIInv, OwnerLeaves, PumpKnows, ReadyOpen, AllOpen, Usb!HaltedIsOpen, Usb!HaltTold,
            Usb!settings
<1>5. CASE Usb!EnableAll
  <2>1. PICK E \in SUBSET required, kept \in Usb!Without(Usb!Endpoints, handle) :
          /\ E # {} => fd # 0
          /\ \/ /\ E = required /\ handle' = Usb!Opened(E, kept) /\ pump' = "configure"
                /\ UNCHANGED gstate
             \/ /\ handle' \in Usb!Without(Usb!Endpoints, Usb!Opened(E, kept))
                /\ pump' = "check" /\ gstate' = "Failed"
    BY <1>5 DEF Usb!EnableAll
  <2>2. kept \in Handles
    BY <1>0, WithoutFacts
  <2>3. /\ Usb!Opened(E, kept) \in Handles
        /\ \A e \in required : Usb!Opened(E, kept)[e] = IF e \in E THEN fd ELSE 0
    BY <1>0, <2>2, OpenedFacts
  <2>4. \A h \in Usb!Without(Usb!Endpoints, Usb!Opened(E, kept)) :
          \A e \in required : h[e] \in {0, fd}
    BY <1>1, <2>3
  <2>5. \A e \in required : handle'[e] \in {0, fd}
    BY <2>1, <2>3, <2>4
  <2>6. pump = "enable" /\ UNCHANGED <<fd, io, halted, revived, owner>>
    BY <1>5 DEF Usb!EnableAll
  <2>7. pump' = "configure" => AllOpen'
    BY <2>1, <2>3, <2>6
  <2> QED
    BY <1>0, <2>1, <2>5, <2>6, <2>7 DEF Live
<1>6. CASE Usb!Configure
  BY <1>0, <1>2, <1>6 DEF Usb!Configure, Usb!DisableAll, Live
<1>7. CASE Usb!StateEvent \/ Usb!SetConfiguration
  BY <1>0, <1>7 DEF Usb!StateEvent, Usb!SetConfiguration, Usb!Handling, Live
<1>8. CASE Usb!ResetEvent
  BY <1>0, <1>2, <1>8 DEF Usb!ResetEvent, Usb!ResetConnection, Usb!DisableAll, Usb!ForgetSettings,
     Usb!Handling, Live
<1>9. ASSUME NEW e \in Usb!Audio, Usb!AudioOff(e) PROVE Rest'
  BY <1>0, <1>3, <1>4, <1>9 DEF Usb!AudioOff, Usb!Revive, Usb!Handling, Usb!InterfaceAccepted
<1>10. ASSUME NEW e \in Usb!Audio, Usb!AudioAgain(e) \/ Usb!AudioOn(e) PROVE Rest'
  BY <1>0, <1>4, <1>10 DEF Usb!AudioAgain, Usb!AudioOn, Usb!Revive, Usb!Handling,
     Usb!InterfaceAccepted
<1>11. ASSUME NEW e \in Usb!Audio, Usb!StoreAudio(e) PROVE Rest'
  <2>1. \A r \in required : handle'[r] = handle[r]
    BY <1>0, <1>11 DEF Usb!StoreAudio
  <2> QED
    BY <1>0, <1>11, <2>1 DEF Usb!StoreAudio
<1>12. CASE Usb!SetFeature
  BY <1>0, <1>12 DEF Usb!SetFeature, Usb!Handling
<1>13. CASE Usb!CheckRunning \/ Usb!Interrupted
  BY <1>0, <1>13 DEF Usb!CheckRunning, Usb!Interrupted
<1>14. CASE Usb!FetchFails
  BY <1>0, <1>2, <1>14 DEF Usb!FetchFails, Usb!DisableAll
<1>15. CASE Usb!StartSetup \/ Usb!StartTeardown \/ Usb!OpenFails
  BY <1>0, <1>15 DEF Usb!StartSetup, Usb!StartTeardown, Usb!OpenFails
<1>16. CASE Usb!TeardownDisable
  BY <1>0, <1>2, <1>16 DEF Usb!TeardownDisable, Usb!DisableAll
<1>17. CASE Usb!TeardownClose \/ Usb!TeardownEnd
  BY <1>0, <1>17 DEF Usb!TeardownClose, Usb!TeardownEnd
<1>18. CASE Usb!ClearHandles
  BY <1>0, <1>18 DEF Usb!ClearHandles, Usb!NoHandles
<1>19. CASE Usb!Open
  BY <1>0, <1>19 DEF Usb!Open, Usb!ForgetSettings, Live
<1>20. CASE UNCHANGED usbVars
  BY <1>20 DEF usbVars
<1> QED
  BY <1>5, <1>6, <1>7, <1>8, <1>9, <1>10, <1>11, <1>12, <1>13, <1>14, <1>15, <1>16, <1>17, <1>18,
     <1>19, <1>20 DEF Usb!Next, Usb!Pump, Usb!Console, Usb!Owner

LEMMA UsbInit == Usb!Init => UsbIInv
<1> SUFFICES ASSUME Usb!Init PROVE UsbIInv
  OBVIOUS
<1>1. "Stopped" \in {Usb!Order[n] : n \in DOMAIN Usb!Order}
  BY ReadyMeans DEF StateNames
<1>2. Usb!TypeOK
  <2>1. 0 \in 0..0 /\ 0 \in 0..maxFiles
    BY GadgetAssumption
  <2>2. Usb!NoHandles \in [Usb!Endpoints -> 0..maxFiles] /\ Usb!NoAlts \in [Usb!Audio -> {0, 1}]
    BY <2>1 DEF Usb!NoHandles, Usb!NoAlts
  <2> QED
    BY <1>1, <2>1, <2>2 DEF Usb!Init, Usb!TypeOK
<1> QED
  BY <1>2 DEF Usb!Init, UsbIInv, OwnerLeaves, PumpKnows, ReadyOpen, Usb!HaltedIsOpen,
     Usb!NoHandles, Usb!Endpoints

\* What the invariant says of a running gadget.
LEMMA UsbMeans == UsbIInv => UsbSafe
<1> SUFFICES ASSUME UsbIInv PROVE UsbSafe
  OBVIOUS
<1>1. gstate \in StateNames /\ Usb!TypeOK /\ Usb!HaltedIsOpen
  BY ReadyMeans DEF UsbIInv, Usb!TypeOK
<1>2. Usb!IoReady \/ Usb!ConfigurationTold = 1 => gstate \in Live
  BY <1>1, ReadyMeans DEF Usb!IoReady, Usb!ConfigurationTold, Usb!AtLeastReady
<1>3. Usb!ReadyHasEndpoints
  BY <1>2 DEF UsbIInv, ReadyOpen, AllOpen, Usb!ReadyHasEndpoints
<1>4. Usb!RequiredFresh
  BY DEF UsbIInv, OwnerLeaves, Usb!RequiredFresh
<1> QED
  BY <1>1, <1>3, <1>4 DEF UsbSafe

\* While the gadget runs its handles are those of the open file, reports are streamed and a
\* configuration told only when the endpoints are there, and a halt never outlives its
\* endpoint, however often the gadget is torn down under the event thread.
THEOREM UsbTheorem == Spec => []UsbSafe
<1>1. Init => UsbIInv
  BY UsbInit DEF Init
<1>2. UsbIInv /\ [Next]_vars => UsbIInv'
  BY UsbStep DEF Next, vars
<1> QED
  BY <1>1, <1>2, UsbMeans, PTL DEF Spec

-----------------------------------------------------------------------------
(***************************************************************************)
(* The queues.  Numbers are only ever handed on in the order in which they *)
(* were given, from the console's transfer to the written reply, so that   *)
(* every stage has lower ones than the stage before it; the one exception  *)
(* is the reply that stays at the front of its queue while it is sent.     *)
(* And what a queue holds is of the connection it is stamped with, or was  *)
(* in hand when the connection ended.                                      *)
(***************************************************************************)

Command == commands \cup {"report"}

\* What the queues hold, and what the threads have in hand.
Item    == [id : Nat, cmd : Command, conn : Nat, late : BOOLEAN]
Entry   == {e \in [id : Nat, cmd : Command, conn : Nat, generation : Nat] :
              e.conn = e.generation}
Reply   == {r \in [item : Item, generation : Nat] : r.item.late \/ r.item.conn = r.generation}
Written == {w \in [id : Nat, cmd : Command, conn : Nat, late : BOOLEAN, on : Nat] :
              w.late \/ w.conn = w.on}

Idle    == [pc |-> "idle"]
Readers == {Idle} \cup [pc : {"read"}, generation : Nat]
             \cup [pc : {"check", "push"}, generation : Nat,
                   item : [id : Nat, cmd : Command, conn : Nat]]
Writers == {Idle} \cup [pc : {"answer", "submit"}, item : Item]
Senders == {Idle} \cup [pc : {"attempt", "write", "remove"}, item : Item, generation : Nat,
                        attempts : Nat]

QueueTypes ==
  /\ traffic \in {"vendor", "output", "input"} /\ generation \in Nat
  /\ event \in {"idle", "disable", "clear", "native", "enable"}
  /\ outQueue \in Seq(Entry) /\ replies \in Seq(Reply) /\ reports \in Seq(Reply)
  /\ streaming \in [on : BOOLEAN, conn : Nat, late : BOOLEAN]
  /\ reader \in Readers /\ writer \in Writers /\ sender \in Senders
  /\ received \in Seq([cmd : Command, conn : Nat]) /\ written \in Seq(Written)
  /\ lastReport \in Nat

\* The stamps of what is in hand.
Stamped ==
  /\ reader.pc = "read" => reader.generation <= generation
  /\ reader.pc = "check" => /\ reader.generation <= reader.item.conn
                            /\ reader.item.conn <= generation
  /\ reader.pc = "push" => reader.item.conn = reader.generation
  /\ writer.pc \in {"answer", "submit"} => writer.item.late \/ writer.item.conn = generation
  /\ sender.pc \in {"attempt", "write"} => sender.item.late \/ sender.item.conn = sender.generation
  /\ sender.pc = "write" => sender.item.late \/ sender.item.conn = generation

\* The numbers at each stage.
ReadIds  == IF reader.pc \in {"check", "push"} THEN {reader.item.id} ELSE {}
OutIds   == {outQueue[n].id : n \in DOMAIN outQueue}
WriteIds == IF writer.pc \in {"answer", "submit"} THEN {writer.item.id} ELSE {}
ReplyIds == {replies[n].item.id : n \in DOMAIN replies}
ReportIds == {reports[n].item.id : n \in DOMAIN reports}
SendIds  == IF sender.pc \in {"attempt", "write"} THEN {sender.item.id} ELSE {}
DoneIds  == {written[n].id : n \in DOMAIN written}

HandIds  == IF sender.pc # "idle" THEN {sender.item.id} ELSE {}

\* Every number of the one stage is lower than those of the other.
Below(A, B) == \A a \in A : \A b \in B : a < b

\* The reply being sent is the one at the front, or no longer queued.
InHand ==
  sender.pc # "idle" =>
    \A n \in DOMAIN replies :
      \/ sender.item.id < replies[n].item.id
      \/ /\ n = 1 /\ sender.item.id = replies[n].item.id
         /\ sender.generation = replies[n].generation /\ sender.item.cmd = replies[n].item.cmd

Queued ==
  /\ \A m, n \in DOMAIN outQueue : m < n => outQueue[m].id < outQueue[n].id
  /\ \A m, n \in DOMAIN replies : m < n => replies[m].item.id < replies[n].item.id
  /\ \A m, n \in DOMAIN reports : m < n => reports[m].item.id < reports[n].item.id

Stages ==
  /\ Below(OutIds, ReadIds) /\ Below(WriteIds, OutIds \cup ReadIds)
  /\ Below(ReplyIds \cup HandIds, WriteIds \cup OutIds \cup ReadIds)
  /\ Below(DoneIds, SendIds \cup WriteIds \cup OutIds \cup ReadIds)
  /\ Below(SendIds \cup DoneIds, ReportIds)
  /\ sender.pc = "remove" => \A i \in DoneIds : i <= sender.item.id
  /\ sender.pc # "remove" => Below(DoneIds, ReplyIds)

InOrder == Queued /\ Queues!Ordered /\ Stages /\ InHand

\* A number is the one of a transfer with this command, or of a report.
Numbered(i, cmd) == IF traffic = "input" THEN i \in 1..lastReport
                    ELSE i \in DOMAIN received /\ received[i].cmd = cmd

Origin ==
  /\ reader.pc \in {"check", "push"} => Numbered(reader.item.id, reader.item.cmd)
  /\ \A n \in DOMAIN outQueue : Numbered(outQueue[n].id, outQueue[n].cmd)
  /\ writer.pc \in {"answer", "submit"} => Numbered(writer.item.id, writer.item.cmd)
  /\ \A n \in DOMAIN replies : Numbered(replies[n].item.id, replies[n].item.cmd)
  /\ \A n \in DOMAIN reports : Numbered(reports[n].item.id, reports[n].item.cmd)
  /\ sender.pc # "idle" => Numbered(sender.item.id, sender.item.cmd)
  /\ \A n \in DOMAIN written : Numbered(written[n].id, written[n].cmd)

\* The endpoints in use, and who is at rest without them.
InUse ==
  /\ traffic = "input" => reader = Idle /\ writer = Idle /\ outQueue = <<>> /\ replies = <<>>
  /\ traffic # "input" => reports = <<>>

QueuesIInv == QueueTypes /\ Stamped /\ InOrder /\ Origin /\ InUse /\ Queues!StreamingAskedFor

\* A queue of limited length: the oldest entry makes room for a new one, which goes behind
\* the others.
Behind(q, e) == Append(Queues!Room(q, queueLimit), e)

IsBehind(q, e, r) ==
  \E k \in {0, 1}, l \in Nat \ {0} :
    /\ DOMAIN r = 1..l /\ r[l] = e
    /\ \A n \in 1..(l - 1) : n + k \in DOMAIN q /\ r[n] = q[n + k]

LEMMA RoomFacts ==
  ASSUME NEW S, NEW q \in Seq(S), NEW e \in S
  PROVE  Behind(q, e) \in Seq(S) /\ IsBehind(q, e, Behind(q, e))
<1> DEFINE w == Queues!Room(q, queueLimit)
           r == Append(w, e)
<1> SUFFICES r \in Seq(S) /\ IsBehind(q, e, r)
  BY DEF Behind
<1>0. DOMAIN q = 1..Len(q) /\ Len(q) \in Nat
  BY LenProperties
<1>1. CASE Len(q) >= queueLimit
  <2>1. w = Tail(q) /\ q # <<>>
    BY <1>1, GadgetAssumption, EmptySeq DEF Queues!Room
  <2>2. w \in Seq(S) /\ Len(w) = Len(q) - 1 /\ \A n \in 1..Len(w) : w[n] = q[n + 1]
    BY <2>1, HeadTailProperties
  <2> HIDE DEF w
  <2> USE DEF IsBehind
  <2>3. /\ Append(w, e) \in Seq(S) /\ Len(Append(w, e)) = Len(q) /\ Append(w, e)[Len(q)] = e
        /\ \A n \in 1..(Len(q) - 1) : Append(w, e)[n] = q[n + 1]
    BY <2>2, AppendProperties, LenProperties
  <2>4. Len(q) \in Nat \ {0} /\ DOMAIN Append(w, e) = 1..Len(q)
    BY <1>0, <2>1, <2>3, LenProperties, EmptySeq
  <2>5. \A n \in 1..(Len(q) - 1) : n + 1 \in DOMAIN q
    BY <1>0
  <2> QED
    BY <2>3, <2>4, <2>5
<1>2. CASE ~(Len(q) >= queueLimit)
  <2>1. r = Append(q, e)
    BY <1>2 DEF Queues!Room
  <2>2. /\ r \in Seq(S) /\ Len(r) = Len(q) + 1 /\ r[Len(q) + 1] = e
        /\ \A n \in 1..Len(q) : r[n] = q[n]
    BY <1>0, <2>1, AppendProperties, LenProperties
  <2>3. DOMAIN r = 1..(Len(q) + 1) /\ Len(q) + 1 \in Nat \ {0}
    BY <1>0, <2>2, LenProperties
  <2>4. \A n \in 1..((Len(q) + 1) - 1) : n + 0 \in DOMAIN q /\ r[n] = q[n + 0]
    BY <1>0, <2>2
  <2> QED
    BY <2>2, <2>3, <2>4 DEF IsBehind
<1> QED
  BY <1>1, <1>2

\* What was in hand when the connection ended is marked, and nothing else changes.
LEMMA LateFacts ==
  /\ \A w \in Writers : LET v == Queues!Late(w) IN
       /\ v \in Writers /\ v.pc = w.pc
       /\ w.pc \in {"answer", "submit"} => /\ v.item.late /\ v.item.id = w.item.id
                                           /\ v.item.cmd = w.item.cmd
  /\ \A w \in Senders : LET v == Queues!Late(w) IN
       /\ v \in Senders /\ v.pc = w.pc
       /\ w.pc # "idle" => /\ v.item.id = w.item.id /\ v.item.cmd = w.item.cmd
                           /\ v.generation = w.generation
                           /\ v.item.late \/ (v.item.late = w.item.late /\ v.item.conn = w.item.conn)
       /\ w.pc = "write" => v.item.late
<1>1. ASSUME NEW w \in Writers
      PROVE  LET v == Queues!Late(w) IN
             /\ v \in Writers /\ v.pc = w.pc
             /\ w.pc \in {"answer", "submit"} => /\ v.item.late /\ v.item.id = w.item.id
                                                 /\ v.item.cmd = w.item.cmd
  <2>1. CASE w = Idle
    BY <2>1 DEF Idle, Queues!Late, Writers
  <2>2. CASE w \in [pc : {"answer", "submit"}, item : Item]
    <3>1. Queues!Late(w) = [w EXCEPT !.item.late = TRUE]
      BY <2>2 DEF Queues!Late
    <3>2. w.item \in Item
      BY <2>2
    <3>3. [w.item EXCEPT !.late = TRUE] \in Item
      BY <3>2 DEF Item
    <3> QED
      BY <2>2, <3>1, <3>2, <3>3 DEF Writers, Item
  <2> QED
    BY <2>1, <2>2 DEF Writers
<1>2. ASSUME NEW w \in Senders
      PROVE  LET v == Queues!Late(w) IN
             /\ v \in Senders /\ v.pc = w.pc
             /\ w.pc # "idle" => /\ v.item.id = w.item.id /\ v.item.cmd = w.item.cmd
                                 /\ v.generation = w.generation
                                 /\ v.item.late \/ (v.item.late = w.item.late /\ v.item.conn = w.item.conn)
             /\ w.pc = "write" => v.item.late
  <2>1. CASE w.pc = "write"
    <3>1. w \in [pc : {"attempt", "write", "remove"}, item : Item, generation : Nat,
                 attempts : Nat]
      BY <2>1 DEF Senders, Idle
    <3>2. Queues!Late(w) = [w EXCEPT !.item.late = TRUE]
      BY <2>1 DEF Queues!Late
    <3>3. w.item \in Item
      BY <3>1
    <3>4. [w.item EXCEPT !.late = TRUE] \in Item
      BY <3>3 DEF Item
    <3> QED
      BY <3>1, <3>2, <3>3, <3>4 DEF Senders, Item
  <2>2. CASE w.pc # "write"
    <3>1. w.pc \notin {"answer", "submit", "write"}
      BY <2>2 DEF Senders, Idle
    <3> QED
      BY <2>2, <3>1 DEF Queues!Late
  <2> QED
    BY <2>1, <2>2
<1> QED
  BY <1>1, <1>2

\* What a step leaves of what a worker has in hand.
LEMMA CheckFacts ==
  ASSUME QueueTypes, Queues!CheckRead
  PROVE  /\ reader.pc = "check" /\ reader.generation \in Nat /\ reader.item.conn \in Nat
         /\ \/ reader' = Idle
            \/ /\ reader'.pc = "push" /\ reader'.item = reader.item
               /\ reader'.generation = reader.generation /\ reader.generation = generation
<1>1. /\ reader.pc = "check" /\ reader.generation \in Nat /\ reader.item.conn \in Nat
      /\ [reader EXCEPT !.pc = "push"] =
           [pc |-> "push", generation |-> reader.generation, item |-> reader.item]
  <2>1. reader \in Readers /\ reader.pc = "check"
    BY DEF QueueTypes, Queues!CheckRead
  <2>2. reader \in [pc : {"check", "push"}, generation : Nat,
                    item : [id : Nat, cmd : Command, conn : Nat]]
    BY <2>1 DEF Readers, Idle
  <2> QED
    BY <2>1, <2>2
<1>2. CASE reader.generation = generation
  <2>1. reader' = [reader EXCEPT !.pc = "push"]
    BY <1>2 DEF Queues!CheckRead
  <2> QED
    BY <1>1, <1>2, <2>1
<1>3. CASE reader.generation # generation
  BY <1>1, <1>3 DEF Queues!CheckRead, Queues!Idle, Idle
<1> QED
  BY <1>2, <1>3

LEMMA AnswerFacts ==
  QueueTypes /\ Queues!Answer
    => /\ writer = [pc |-> "answer", item |-> writer.item] /\ writer.item \in Item
       /\ writer' = Idle \/ writer' = [pc |-> "submit", item |-> writer.item]
BY DEF QueueTypes, Queues!Answer, Queues!Idle, Writers, Idle

LEMMA SendFacts ==
  ASSUME QueueTypes, (Queues!Attempt \/ Queues!Write)
  PROVE  /\ sender \in [pc : {"attempt", "write", "remove"}, item : Item, generation : Nat,
                        attempts : Nat]
         /\ sender'.item = sender.item /\ sender'.generation = sender.generation
         /\ sender.pc \in {"attempt", "write"} /\ sender'.pc \in {"attempt", "write", "remove"}
         /\ sender'.pc = "write" => sender.generation = generation
         /\ \/ UNCHANGED written
            \/ /\ sender.pc = "write" /\ sender'.pc = "remove"
               /\ written' = Append(written,
                    [id |-> sender.item.id, cmd |-> sender.item.cmd, conn |-> sender.item.conn,
                     late |-> sender.item.late, on |-> generation])
<1> DEFINE Sent == [id |-> sender.item.id, cmd |-> sender.item.cmd, conn |-> sender.item.conn,
                    late |-> sender.item.late, on |-> generation]
<1>1. /\ sender \in [pc : {"attempt", "write", "remove"}, item : Item, generation : Nat,
                     attempts : Nat]
      /\ sender.pc \in {"attempt", "write"}
  BY DEF Queues!Attempt, Queues!Write, QueueTypes, Senders, Idle
<1>2. ASSUME NEW pc, NEW a
      PROVE  LET s == [sender EXCEPT !.pc = pc, !.attempts = a]
                 t == [sender EXCEPT !.pc = pc]
             IN  /\ s.pc = pc /\ s.item = sender.item /\ s.generation = sender.generation
                 /\ t.pc = pc /\ t.item = sender.item /\ t.generation = sender.generation
  BY <1>1
<1> HIDE DEF Sent
<1>3. CASE Queues!Attempt
  <2>1. CASE link /\ sender.generation = generation
    BY <1>1, <1>2, <1>3, <2>1 DEF Queues!Attempt
  <2>2. CASE ~(link /\ sender.generation = generation)
    BY <1>1, <1>2, <1>3, <2>2 DEF Queues!Attempt
  <2> QED
    BY <2>1, <2>2
<1>4. CASE Queues!Write
  <2>1. /\ \/ sender' = [sender EXCEPT !.pc = "remove"]
           \/ sender' = [sender EXCEPT !.pc = "attempt", !.attempts = @ + 1] /\ UNCHANGED written
        /\ written' = Append(written, Sent) \/ UNCHANGED written
    BY <1>4 DEF Queues!Write, Sent
  <2>2. /\ sender'.item = sender.item /\ sender'.generation = sender.generation
        /\ sender'.pc \in {"attempt", "remove"}
        /\ UNCHANGED written \/ sender'.pc = "remove"
    BY <1>1, <2>1
  <2> QED
    BY <1>1, <1>4, <2>1, <2>2 DEF Queues!Write
<1> QED
  BY <1>3, <1>4

\* What is polled is an entry of this connection, and what was before it is gone.
LEMMA PollFacts ==
  ASSUME QueueTypes, Queues!Poll
  PROVE  \E n \in DOMAIN outQueue :
           /\ outQueue[n] \in Entry
           /\ \/ UNCHANGED writer
              \/ /\ writer' = [pc |-> "answer",
                               item |-> [id |-> outQueue[n].id, cmd |-> outQueue[n].cmd,
                                         conn |-> outQueue[n].conn, late |-> FALSE]]
                 /\ outQueue[n].conn = generation
           /\ outQueue' \in Seq(Entry) /\ DOMAIN outQueue' = 1..(Len(outQueue) - n)
           /\ \A k \in DOMAIN outQueue' : n + k \in DOMAIN outQueue /\ outQueue'[k] = outQueue[n + k]
<1>1. /\ DOMAIN outQueue = 1..Len(outQueue) /\ Len(outQueue) \in Nat
      /\ \A i \in 1..Len(outQueue) : outQueue[i] \in Entry
  BY ElementOfSeq, LenProperties DEF QueueTypes
<1>2. PICK n \in 1..Len(outQueue) :
        /\ IF outQueue[n].generation = generation
           THEN writer' = [pc |-> "answer",
                           item |-> [id |-> outQueue[n].id, cmd |-> outQueue[n].cmd,
                                     conn |-> outQueue[n].conn, late |-> FALSE]]
           ELSE UNCHANGED writer
        /\ outQueue' = SubSeq(outQueue, n + 1, Len(outQueue))
  BY DEF Queues!Poll
<1>3. outQueue[n].conn = outQueue[n].generation
  BY <1>1 DEF Entry
<1>4. /\ outQueue' \in Seq(Entry) /\ DOMAIN outQueue' = 1..(Len(outQueue) - n)
      /\ \A k \in 1..(Len(outQueue) - n) : outQueue'[k] = outQueue[n + k]
  <2>1. \A i \in (n + 1)..Len(outQueue) : outQueue[i] \in Entry
    BY <1>1
  <2> QED
    BY <1>1, <1>2, <2>1, SubSeqProperties DEF QueueTypes
<1>5. ASSUME NEW k \in 1..(Len(outQueue) - n) PROVE n + k \in DOMAIN outQueue
  BY <1>1
<1> QED
  BY <1>1, <1>2, <1>3, <1>4, <1>5

\* What is pushed goes behind the others.
LEMMA PushFacts ==
  ASSUME QueueTypes, Stamped, Queues!Push
  PROVE  /\ reader' = Idle /\ reader.pc = "push"
         /\ reader \in [pc : {"check", "push"}, generation : Nat,
                        item : [id : Nat, cmd : Command, conn : Nat]]
         /\ \/ UNCHANGED outQueue
            \/ /\ outQueue' \in Seq(Entry)
               /\ IsBehind(outQueue, Queues!Entry(reader), outQueue')
<1>1. /\ reader' = Idle /\ reader.pc = "push"
      /\ reader \in [pc : {"check", "push"}, generation : Nat,
                     item : [id : Nat, cmd : Command, conn : Nat]]
  BY DEF Queues!Push, Queues!Idle, Idle, QueueTypes, Readers
<1>2. Queues!Entry(reader) \in Entry
  BY <1>1 DEF Queues!Entry, Entry, Stamped
<1>3. UNCHANGED outQueue \/ outQueue' = Behind(outQueue, Queues!Entry(reader))
  BY DEF Queues!Push, Behind
<1> QED
  BY <1>1, <1>2, <1>3, RoomFacts DEF QueueTypes

\* Types are kept: what a queue is given is of the connection it is stamped with.
LEMMA QueuesTypes == QueueTypes /\ Stamped /\ [Queues!Next]_queuesVars => QueueTypes'
<1> SUFFICES ASSUME QueueTypes, Stamped, [Queues!Next]_queuesVars PROVE QueueTypes'
  OBVIOUS
<1> USE DEF Queues!queues, Queues!history
<1>0. /\ <<>> \in Seq(Entry) /\ <<>> \in Seq(Reply) /\ Idle \in Readers /\ Idle \in Writers
      /\ Idle \in Senders /\ Queues!Idle = Idle
      /\ Queues!NoStream \in [on : BOOLEAN, conn : Nat, late : BOOLEAN]
      /\ generation \in Nat /\ lastReport \in Nat
  BY DEF Readers, Writers, Senders, Idle, Queues!Idle, Queues!NoStream, QueueTypes
<1>1. CASE Queues!BusReset \/ Queues!SetConfiguration
  <2>1. /\ generation' = generation + 1 /\ event' \in {"disable", "clear"}
        /\ writer' = Queues!Late(writer) /\ sender' = Queues!Late(sender)
        /\ UNCHANGED <<traffic, outQueue, replies, reports, streaming, reader, received, written,
                       lastReport>>
    BY <1>1 DEF Queues!BusReset, Queues!SetConfiguration, Queues!Bump
  <2>2. writer' \in Writers /\ sender' \in Senders
    BY <2>1, LateFacts DEF QueueTypes
  <2> QED
    BY <2>1, <2>2 DEF QueueTypes
<1>2. CASE \/ Queues!DisableEndpoints \/ Queues!ClearQueues \/ Queues!ResetPort
           \/ Queues!CloseOpenEndpoints \/ Queues!EnableEndpoints
  BY <1>0, <1>2 DEF QueueTypes, Queues!DisableEndpoints, Queues!ClearQueues, Queues!ResetPort,
     Queues!CloseOpenEndpoints, Queues!EnableEndpoints
<1>3. CASE Queues!BeginRead
  <2>1. reader' \in Readers
    BY <1>0, <1>3 DEF Queues!BeginRead, Readers
  <2> QED
    BY <1>3, <2>1 DEF QueueTypes, Queues!BeginRead
<1>4. CASE Queues!Read
  <2>1. reader' \in Readers /\ received' \in Seq([cmd : Command, conn : Nat])
    <3>1. CASE reader' = Queues!Idle /\ UNCHANGED received
      BY <1>0, <3>1 DEF QueueTypes
    <3>2. ASSUME NEW c \in commands,
                 received' = Append(received, [cmd |-> c, conn |-> generation]),
                 reader' = [pc |-> "check", generation |-> reader.generation,
                            item |-> [id |-> Len(received) + 1, cmd |-> c, conn |-> generation]]
          PROVE  reader' \in Readers /\ received' \in Seq([cmd : Command, conn : Nat])
      <4>1. reader.generation \in Nat
        BY <1>4 DEF Queues!Read, QueueTypes, Readers, Idle
      <4>2. [cmd |-> c, conn |-> generation] \in [cmd : Command, conn : Nat]
        BY <1>0 DEF Command
      <4>3. received' \in Seq([cmd : Command, conn : Nat]) /\ Len(received) \in Nat
        BY <3>2, <4>2, AppendProperties, LenProperties DEF QueueTypes
      <4>4. [id |-> Len(received) + 1, cmd |-> c, conn |-> generation]
              \in [id : Nat, cmd : Command, conn : Nat]
        BY <1>0, <4>3 DEF Command
      <4> QED
        BY <3>2, <4>1, <4>3, <4>4 DEF Readers
    <3> QED
      BY <1>4, <3>1, <3>2 DEF Queues!Read
  <2> QED
    BY <1>4, <2>1 DEF QueueTypes, Queues!Read
<1>5. CASE Queues!CheckRead
  <2>1. reader \in [pc : {"check", "push"}, generation : Nat,
                    item : [id : Nat, cmd : Command, conn : Nat]]
    BY <1>5 DEF Queues!CheckRead, QueueTypes, Readers, Idle
  <2>2. [reader EXCEPT !.pc = "push"] \in Readers
    BY <2>1 DEF Readers
  <2> QED
    BY <1>0, <1>5, <2>2 DEF QueueTypes, Queues!CheckRead
<1>6. CASE Queues!Push
  BY <1>0, <1>6, PushFacts DEF QueueTypes, Queues!Push
<1>7. CASE Queues!Poll
  <2>1. outQueue' \in Seq(Entry)
    BY <1>7, PollFacts
  <2>2. PICK n \in DOMAIN outQueue :
          /\ outQueue[n] \in Entry
          /\ \/ UNCHANGED writer
             \/ writer' = [pc |-> "answer",
                           item |-> [id |-> outQueue[n].id, cmd |-> outQueue[n].cmd,
                                     conn |-> outQueue[n].conn, late |-> FALSE]]
    BY <1>7, PollFacts
  <2>3. [id |-> outQueue[n].id, cmd |-> outQueue[n].cmd, conn |-> outQueue[n].conn,
         late |-> FALSE] \in Item
    BY <2>2 DEF Item, Entry
  <2>4. \A i \in Item : [pc |-> "answer", item |-> i] \in Writers
    BY DEF Writers
  <2>5. writer' \in Writers
    BY <2>2, <2>3, <2>4 DEF QueueTypes
  <2> QED
    BY <1>7, <2>1, <2>5 DEF QueueTypes, Queues!Poll
<1>8. CASE Queues!Answer
  <2>1. writer' \in Writers
    BY <1>8, AnswerFacts DEF Writers
  <2>2. streaming' \in [on : BOOLEAN, conn : Nat, late : BOOLEAN]
    BY <1>8, AnswerFacts DEF Queues!Answer, QueueTypes, Item
  <2> QED
    BY <1>0, <1>8, <2>1, <2>2 DEF QueueTypes, Queues!Answer
<1>9. CASE Queues!Submit
  <2>1. writer.item \in Item /\ (writer.item.late \/ writer.item.conn = generation)
    BY <1>9 DEF Queues!Submit, QueueTypes, Stamped, Writers, Idle
  <2>2. [item |-> writer.item, generation |-> generation] \in Reply
    BY <1>0, <2>1 DEF Reply
  <2>3. replies' \in Seq(Reply)
    BY <1>9, <2>2, AppendProperties DEF QueueTypes, Queues!Submit
  <2> QED
    BY <1>0, <1>9, <2>3 DEF QueueTypes, Queues!Submit
<1>10. CASE Queues!SubmitReport
  <2>1. [id |-> lastReport + 1, cmd |-> "report", conn |-> generation, late |-> FALSE] \in Item
    BY <1>0 DEF Item, Command
  <2>2. [item |-> [id |-> lastReport + 1, cmd |-> "report", conn |-> generation, late |-> FALSE],
         generation |-> generation] \in Reply
    BY <1>0, <2>1 DEF Reply
  <2>3. reports' \in Seq(Reply)
    BY <1>10, <2>2, RoomFacts DEF QueueTypes, Queues!SubmitReport, Behind
  <2> QED
    BY <1>10, <2>3 DEF QueueTypes, Queues!SubmitReport
<1>11. CASE Queues!TakeReply
  <2>1. Head(replies) \in Reply
    BY <1>11, HeadTailProperties DEF Queues!TakeReply, QueueTypes
  <2>2. sender' \in Senders
    BY <1>11, <2>1 DEF Queues!TakeReply, Senders, Reply
  <2> QED
    BY <1>11, <2>2 DEF QueueTypes, Queues!TakeReply
<1>12. CASE Queues!TakeReport
  <2>1. reports[Len(reports)] \in Reply
    BY <1>12, ElementOfSeq, LenProperties, EmptySeq DEF Queues!TakeReport, QueueTypes
  <2>2. sender' \in Senders
    BY <1>12, <2>1 DEF Queues!TakeReport, Senders, Reply
  <2> QED
    BY <1>0, <1>12, <2>2 DEF QueueTypes, Queues!TakeReport
<1>13. CASE Queues!Attempt \/ Queues!Write
  <2>1. sender \in [pc : {"attempt", "write", "remove"}, item : Item, generation : Nat,
                    attempts : Nat]
    BY <1>13, SendFacts
  <2>2. \A pc \in {"attempt", "write", "remove"} :
          /\ [sender EXCEPT !.pc = pc] \in Senders
          /\ [sender EXCEPT !.pc = pc, !.attempts = @ + 1] \in Senders
    <3>1. sender.attempts + 1 \in Nat
      BY <2>1
    <3>2. ASSUME NEW pc \in {"attempt", "write", "remove"}, NEW a \in Nat
          PROVE  [sender EXCEPT !.pc = pc, !.attempts = a] \in Senders
      BY <2>1, <3>2 DEF Senders
    <3>3. ASSUME NEW pc \in {"attempt", "write", "remove"}
          PROVE  [sender EXCEPT !.pc = pc] \in Senders
      BY <2>1, <3>3 DEF Senders
    <3> QED
      BY <3>1, <3>2, <3>3
  <2>3. sender' \in Senders
    BY <1>13, <2>2 DEF Queues!Attempt, Queues!Write
  <2>4. ASSUME sender.pc = "write"
        PROVE  [id |-> sender.item.id, cmd |-> sender.item.cmd, conn |-> sender.item.conn,
                late |-> sender.item.late, on |-> generation] \in Written
    <3>1. sender.item \in Item /\ (sender.item.late \/ sender.item.conn = generation)
      BY <2>1, <2>4 DEF Stamped
    <3> QED
      BY <1>0, <3>1 DEF Written, Item
  <2>5. written' \in Seq(Written)
    <3> DEFINE w == [id |-> sender.item.id, cmd |-> sender.item.cmd, conn |-> sender.item.conn,
                     late |-> sender.item.late, on |-> generation]
    <3>1. UNCHANGED written \/ (written' = Append(written, w) /\ sender.pc = "write")
      BY <1>13, SendFacts
    <3>2. sender.pc = "write" => w \in Written
      BY <2>4
    <3>3. written \in Seq(Written)
      BY DEF QueueTypes
    <3> HIDE DEF w
    <3>4. w \in Written => Append(written, w) \in Seq(Written)
      BY <3>3, AppendProperties
    <3> QED
      BY <3>1, <3>2, <3>3, <3>4
  <2> QED
    BY <1>13, <2>3, <2>5 DEF QueueTypes, Queues!Attempt, Queues!Write
<1>14. CASE Queues!RemovePending
  <2>1. replies # <<>> => Tail(replies) \in Seq(Reply)
    BY HeadTailProperties DEF QueueTypes
  <2>2. replies' \in Seq(Reply)
    BY <1>14, <2>1 DEF QueueTypes, Queues!RemovePending
  <2> QED
    BY <1>0, <1>14, <2>2 DEF QueueTypes, Queues!RemovePending
<1>15. CASE UNCHANGED queuesVars
  BY <1>15 DEF queuesVars, QueueTypes
<1> QED
  BY <1>1, <1>2, <1>3, <1>4, <1>5, <1>6, <1>7, <1>8, <1>9, <1>10, <1>11, <1>12, <1>13, <1>14,
     <1>15 DEF Queues!Next, Queues!EventThread, Queues!Reader, Queues!Writer, Queues!Sender

\* The stamps are kept: an entry is of the connection that a worker found twice, and an
\* item that outlives its connection is marked.
LEMMA QueuesStamps ==
  QueueTypes /\ Stamped /\ Queues!StreamingAskedFor /\ [Queues!Next]_queuesVars
    => Stamped' /\ Queues!StreamingAskedFor'
<1> SUFFICES ASSUME QueueTypes, Stamped, Queues!StreamingAskedFor, [Queues!Next]_queuesVars
             PROVE  Stamped' /\ Queues!StreamingAskedFor'
  OBVIOUS
<1> DEFINE Result == Stamped' /\ Queues!StreamingAskedFor'
<1> SUFFICES Result
  OBVIOUS
<1> USE DEF Queues!queues, Queues!history, Queues!StreamingAskedFor
<1>0. /\ generation \in Nat /\ reader \in Readers /\ writer \in Writers /\ sender \in Senders
      /\ Queues!Idle = Idle /\ Idle.pc = "idle"
  BY DEF QueueTypes, Idle, Queues!Idle
<1>1. CASE Queues!BusReset \/ Queues!SetConfiguration
  <2>1. /\ generation' = generation + 1 /\ event' \in {"disable", "clear"}
        /\ writer' = Queues!Late(writer) /\ sender' = Queues!Late(sender) /\ reader' = reader
    BY <1>1 DEF Queues!BusReset, Queues!SetConfiguration, Queues!Bump
  <2>2. writer'.pc \in {"answer", "submit"} => writer'.item.late
    BY <1>0, <2>1, LateFacts
  <2>3. /\ sender'.pc = sender.pc /\ (sender'.pc = "write" => sender'.item.late)
        /\ sender'.pc \in {"attempt", "write"} =>
             /\ sender'.generation = sender.generation
             /\ \/ sender'.item.late
                \/ sender'.item.late = sender.item.late /\ sender'.item.conn = sender.item.conn
    BY <1>0, <2>1, LateFacts
  <2>4. /\ reader.pc = "read" => reader.generation <= generation'
        /\ reader.pc = "check" => reader.item.conn <= generation'
    <3>1. /\ reader.pc = "read" => reader.generation \in Nat
          /\ reader.pc = "check" => reader.item.conn \in Nat
      BY <1>0 DEF Readers, Idle
    <3> QED
      BY <1>0, <2>1, <3>1 DEF Stamped
  <2> QED
    BY <2>1, <2>2, <2>3, <2>4 DEF Stamped
<1>2. CASE \/ Queues!DisableEndpoints \/ Queues!ClearQueues \/ Queues!ResetPort
           \/ Queues!CloseOpenEndpoints \/ Queues!EnableEndpoints
  BY <1>2 DEF Stamped, Queues!DisableEndpoints, Queues!ClearQueues, Queues!ResetPort,
     Queues!CloseOpenEndpoints, Queues!EnableEndpoints, Queues!NoStream
<1>3. CASE Queues!BeginRead
  BY <1>0, <1>3 DEF Stamped, Queues!BeginRead
<1>4. CASE Queues!Read
  <2>1. \/ reader' = Idle
        \/ /\ reader'.pc = "check" /\ reader'.generation = reader.generation
           /\ reader'.item.conn = generation
    <3>1. CASE reader' = Queues!Idle
      BY <1>0, <3>1
    <3>2. ASSUME NEW c, reader' = [pc |-> "check", generation |-> reader.generation,
                                   item |-> [id |-> Len(received) + 1, cmd |-> c,
                                             conn |-> generation]]
          PROVE  /\ reader'.pc = "check" /\ reader'.generation = reader.generation
                 /\ reader'.item.conn = generation
      BY <3>2
    <3> QED
      BY <1>4, <3>1, <3>2 DEF Queues!Read
  <2>2. reader.generation <= generation
    BY <1>4 DEF Stamped, Queues!Read
  <2>3. UNCHANGED <<generation, event, streaming, writer, sender>>
    BY <1>4 DEF Queues!Read
  <2> QED
    BY <1>0, <2>1, <2>2, <2>3 DEF Stamped
<1>5. CASE Queues!CheckRead
  BY <1>0, <1>5, CheckFacts DEF Stamped, Queues!CheckRead
<1>6. CASE Queues!Push
  BY <1>0, <1>6 DEF Stamped, Queues!Push
<1>7. CASE Queues!Poll
  <2>1. writer'.pc \in {"answer", "submit"} => writer'.item.conn = generation \/ UNCHANGED writer
    BY <1>7, PollFacts
  <2> QED
    BY <1>7, <2>1 DEF Stamped, Queues!Poll
<1>8. CASE Queues!Answer
  <2>1. writer.item.late \/ writer.item.conn = generation
    BY <1>8 DEF Stamped, Queues!Answer
  <2> QED
    BY <1>0, <1>8, <2>1, AnswerFacts DEF Stamped, Queues!Answer
<1>9. CASE Queues!Submit \/ Queues!SubmitReport \/ Queues!RemovePending
  BY <1>0, <1>9 DEF Stamped, Queues!Submit, Queues!SubmitReport, Queues!RemovePending
<1>10. CASE Queues!TakeReply
  <2>1. Head(replies) \in Reply
    BY <1>10, HeadTailProperties DEF Queues!TakeReply, QueueTypes
  <2> QED
    BY <1>10, <2>1 DEF Stamped, Queues!TakeReply, Reply
<1>11. CASE Queues!TakeReport
  <2>1. reports[Len(reports)] \in Reply
    BY <1>11, ElementOfSeq, LenProperties, EmptySeq DEF Queues!TakeReport, QueueTypes
  <2> QED
    BY <1>11, <2>1 DEF Stamped, Queues!TakeReport, Reply
<1>12. CASE Queues!Attempt \/ Queues!Write
  <2>1. /\ sender'.item = sender.item /\ sender'.generation = sender.generation
        /\ sender.pc \in {"attempt", "write"} /\ sender'.pc \in {"attempt", "write", "remove"}
        /\ sender'.pc = "write" => sender.generation = generation
    BY <1>12, SendFacts
  <2> QED
    BY <1>12, <2>1 DEF Stamped, Queues!Attempt, Queues!Write
<1>13. CASE UNCHANGED queuesVars
  BY <1>13 DEF queuesVars, Stamped
<1> QED
  BY <1>1, <1>2, <1>3, <1>4, <1>5, <1>6, <1>7, <1>8, <1>9, <1>10, <1>11, <1>12, <1>13
     DEF Queues!Next, Queues!EventThread, Queues!Reader, Queues!Writer, Queues!Sender

\* Transfers and reports keep their numbers.
LEMMA NumberedStays ==
  QueueTypes /\ [Queues!Next]_queuesVars
    => traffic' = traffic /\ \A i, cmd : Numbered(i, cmd) => Numbered(i, cmd)'
<1> SUFFICES ASSUME QueueTypes, [Queues!Next]_queuesVars
             PROVE  traffic' = traffic /\ \A i, cmd : Numbered(i, cmd) => Numbered(i, cmd)'
  OBVIOUS
<1> USE DEF Queues!queues, Queues!history
<1>1. /\ traffic' = traffic
      /\ received' = received \/ \E e : received' = Append(received, e) /\ e \in [cmd : Command, conn : Nat]
      /\ lastReport' = lastReport \/ lastReport' = lastReport + 1
  <2>1. CASE Queues!Read
    <3>1. \A c \in commands : [cmd |-> c, conn |-> generation] \in [cmd : Command, conn : Nat]
      BY DEF QueueTypes, Command
    <3> QED
      BY <2>1, <3>1 DEF Queues!Read
  <2>2. CASE Queues!EventThread
    BY <2>2 DEF Queues!EventThread, Queues!BusReset, Queues!SetConfiguration, Queues!Bump,
       Queues!DisableEndpoints, Queues!ClearQueues, Queues!ResetPort, Queues!CloseOpenEndpoints,
       Queues!EnableEndpoints
  <2>3. CASE Queues!BeginRead \/ Queues!CheckRead \/ Queues!Push
    BY <2>3 DEF Queues!BeginRead, Queues!CheckRead, Queues!Push
  <2>4. CASE Queues!Writer
    BY <2>4 DEF Queues!Writer, Queues!Poll, Queues!Answer, Queues!Submit, Queues!SubmitReport
  <2>5. CASE Queues!Sender
    BY <2>5 DEF Queues!Sender, Queues!TakeReply, Queues!TakeReport, Queues!Attempt, Queues!Write,
       Queues!RemovePending
  <2>6. CASE UNCHANGED queuesVars
    BY <2>6 DEF queuesVars
  <2> QED
    BY <2>1, <2>2, <2>3, <2>4, <2>5, <2>6 DEF Queues!Next, Queues!Reader
<1>2. \A i \in DOMAIN received : i \in DOMAIN received' /\ received'[i] = received[i]
  <2>1. ASSUME NEW e \in [cmd : Command, conn : Nat], received' = Append(received, e)
        PROVE  \A i \in DOMAIN received : i \in DOMAIN received' /\ received'[i] = received[i]
    BY <2>1, AppendProperties, LenProperties DEF QueueTypes
  <2> QED
    BY <1>1, <2>1
<1>3. 1..lastReport \subseteq 1..lastReport'
  BY <1>1 DEF QueueTypes
<1> QED
  BY <1>1, <1>2, <1>3 DEF Numbered

\* Nothing is invented on the way, and the endpoints that are not in use stay empty.
LEMMA QueuesOrigin ==
  QueueTypes /\ Stamped /\ Origin /\ InUse /\ [Queues!Next]_queuesVars => Origin' /\ InUse'
<1> SUFFICES ASSUME QueueTypes, Stamped, Origin, InUse, [Queues!Next]_queuesVars
             PROVE  Origin' /\ InUse'
  OBVIOUS
<1> DEFINE Result == Origin' /\ InUse'
<1> SUFFICES Result
  OBVIOUS
<1> USE DEF Queues!queues, Queues!history
<1>0. /\ reader \in Readers /\ writer \in Writers /\ sender \in Senders
      /\ Queues!Idle = Idle /\ Idle.pc = "idle" /\ DOMAIN <<>> = {}
      /\ traffic' = traffic /\ \A i, cmd : Numbered(i, cmd) => Numbered(i, cmd)'
  BY NumberedStays DEF QueueTypes, Idle, Queues!Idle
<1>1. CASE Queues!BusReset \/ Queues!SetConfiguration
  <2>1. /\ writer' = Queues!Late(writer) /\ sender' = Queues!Late(sender)
        /\ UNCHANGED <<outQueue, replies, reports, reader, written>>
    BY <1>1 DEF Queues!BusReset, Queues!SetConfiguration, Queues!Bump
  <2>2. /\ writer'.pc = writer.pc
        /\ writer'.pc \in {"answer", "submit"} => /\ writer'.item.id = writer.item.id
                                                  /\ writer'.item.cmd = writer.item.cmd
    BY <1>0, <2>1, LateFacts
  <2>3. /\ sender'.pc = sender.pc
        /\ sender'.pc # "idle" => /\ sender'.item.id = sender.item.id
                                  /\ sender'.item.cmd = sender.item.cmd
    BY <1>0, <2>1, LateFacts
  <2>4. writer = Idle => writer' = Idle
    BY <2>1 DEF Idle, Queues!Late
  <2> QED
    BY <1>0, <2>1, <2>2, <2>3, <2>4 DEF Origin, InUse
<1>2. CASE \/ Queues!DisableEndpoints \/ Queues!ClearQueues \/ Queues!ResetPort
           \/ Queues!CloseOpenEndpoints \/ Queues!EnableEndpoints
  <2>1. /\ outQueue' \in {outQueue, <<>>} /\ replies' \in {replies, <<>>}
        /\ reports' \in {reports, <<>>} /\ UNCHANGED <<reader, writer, sender, written>>
    BY <1>2 DEF Queues!DisableEndpoints, Queues!ClearQueues, Queues!ResetPort,
       Queues!CloseOpenEndpoints, Queues!EnableEndpoints
  <2> QED
    BY <1>0, <2>1 DEF Origin, InUse
<1>3. CASE Queues!BeginRead
  BY <1>0, <1>3 DEF Origin, InUse, Queues!BeginRead
<1>4. CASE Queues!Read
  <2>1. UNCHANGED <<outQueue, replies, reports, writer, sender, written>>
    BY <1>4 DEF Queues!Read
  <2>2. traffic # "input"
    BY <1>0, <1>4 DEF Queues!Read, InUse
  <2>3. reader'.pc \in {"check", "push"} => Numbered(reader.item.id, reader.item.cmd)'
    <3>1. CASE reader' = Queues!Idle
      BY <1>0, <3>1
    <3>2. ASSUME NEW c \in commands,
                 received' = Append(received, [cmd |-> c, conn |-> generation]),
                 reader' = [pc |-> "check", generation |-> reader.generation,
                            item |-> [id |-> Len(received) + 1, cmd |-> c, conn |-> generation]]
          PROVE  Numbered(reader.item.id, reader.item.cmd)'
      <4>1. [cmd |-> c, conn |-> generation] \in [cmd : Command, conn : Nat]
        BY DEF QueueTypes, Command
      <4>2. /\ DOMAIN received' = 1..(Len(received) + 1) /\ Len(received) \in Nat
            /\ received'[Len(received) + 1] = [cmd |-> c, conn |-> generation]
        BY <3>2, <4>1, AppendProperties, LenProperties DEF QueueTypes
      <4>3. reader'.item.id = Len(received) + 1 /\ reader'.item.cmd = c
        BY <3>2
      <4>4. Len(received) + 1 \in DOMAIN received' /\ received'[Len(received) + 1].cmd = c
        BY <4>2
      <4> QED
        BY <1>0, <2>2, <4>3, <4>4 DEF Numbered
    <3> QED
      BY <1>4, <3>1, <3>2 DEF Queues!Read
  <2> QED
    BY <1>0, <2>1, <2>2, <2>3 DEF Origin, InUse
<1>5. CASE Queues!CheckRead
  <2>1. reader # Idle /\ UNCHANGED <<outQueue, replies, reports, writer, sender, written>>
    BY <1>0, <1>5 DEF Queues!CheckRead
  <2> QED
    BY <1>0, <1>5, <2>1, CheckFacts DEF Origin, InUse
<1>6. CASE Queues!Push
  <2>1. /\ UNCHANGED <<replies, reports, writer, sender, written>> /\ reader' = Idle
        /\ traffic # "input" /\ Numbered(reader.item.id, reader.item.cmd)
    BY <1>0, <1>6 DEF Queues!Push, InUse, Origin
  <2>2. \A n \in DOMAIN outQueue' : \/ outQueue'[n] = Queues!Entry(reader)
                                    \/ \E m \in DOMAIN outQueue : outQueue'[n] = outQueue[m]
    BY <1>6, PushFacts DEF IsBehind
  <2>3. \A n \in DOMAIN outQueue' : Numbered(outQueue'[n].id, outQueue'[n].cmd)
    BY <2>1, <2>2 DEF Origin, Queues!Entry
  <2> QED
    BY <1>0, <2>1, <2>3 DEF Origin, InUse
<1>7. CASE Queues!Poll
  <2>1. traffic # "input" /\ UNCHANGED <<replies, reports, reader, sender, written>>
    BY <1>7 DEF Queues!Poll, InUse
  <2>2. PICK n \in DOMAIN outQueue :
          \/ UNCHANGED writer
          \/ writer' = [pc |-> "answer",
                        item |-> [id |-> outQueue[n].id, cmd |-> outQueue[n].cmd,
                                  conn |-> outQueue[n].conn, late |-> FALSE]]
    BY <1>7, PollFacts
  <2>3. writer'.pc \in {"answer", "submit"} => Numbered(writer'.item.id, writer'.item.cmd)
    <3>1. CASE UNCHANGED writer
      BY <3>1 DEF Origin
    <3>2. CASE writer' = [pc |-> "answer",
                          item |-> [id |-> outQueue[n].id, cmd |-> outQueue[n].cmd,
                                    conn |-> outQueue[n].conn, late |-> FALSE]]
      BY <3>2 DEF Origin
    <3> QED
      BY <2>2, <3>1, <3>2
  <2>4. \A k \in DOMAIN outQueue' : \E m \in DOMAIN outQueue : outQueue'[k] = outQueue[m]
    BY <1>7, PollFacts
  <2> QED
    BY <1>0, <2>1, <2>3, <2>4 DEF Origin, InUse
<1>8. CASE Queues!Answer
  <2>1. /\ UNCHANGED <<outQueue, replies, reports, reader, sender, written>>
        /\ writer.pc = "answer" /\ writer # Idle
    BY <1>0, <1>8 DEF Queues!Answer
  <2> QED
    BY <1>0, <1>8, <2>1, AnswerFacts DEF Origin, InUse
<1>9. CASE Queues!Submit
  <2>1. /\ UNCHANGED <<outQueue, reports, reader, sender, written>> /\ writer' = Idle
        /\ writer.pc = "submit" /\ traffic # "input"
    BY <1>0, <1>9 DEF Queues!Submit, InUse
  <2>2. \A n \in DOMAIN replies' : \/ replies'[n].item = writer.item
                                   \/ \E m \in DOMAIN replies : replies'[n] = replies[m]
    <3> DEFINE r == [item |-> writer.item, generation |-> generation]
    <3>1. r \in Reply
      BY <2>1 DEF QueueTypes, Stamped, Writers, Idle, Reply
    <3>2. replies' = replies \/ replies' = Append(replies, r)
      BY <1>9 DEF Queues!Submit
    <3> HIDE DEF r
    <3>3. \A n \in DOMAIN Append(replies, r) :
            \/ Append(replies, r)[n] = r
            \/ \E m \in DOMAIN replies : Append(replies, r)[n] = replies[m]
      BY <3>1, AppendProperties, LenProperties DEF QueueTypes
    <3>4. r.item = writer.item
      BY DEF r
    <3> QED
      BY <3>2, <3>3, <3>4
  <2> QED
    BY <1>0, <2>1, <2>2 DEF Origin, InUse
<1>10. CASE Queues!SubmitReport
  <2> DEFINE r == [item |-> [id |-> lastReport + 1, cmd |-> "report", conn |-> generation,
                             late |-> FALSE], generation |-> generation]
  <2>1. /\ UNCHANGED <<outQueue, replies, reader, writer, sender, written>>
        /\ traffic = "input" /\ lastReport' = lastReport + 1
        /\ reports' = Behind(reports, r)
    BY <1>10 DEF Queues!SubmitReport, Behind
  <2>2. r \in Reply
    <3>1. r.item \in Item
      BY DEF QueueTypes, Item, Command
    <3> QED
      BY <3>1 DEF Reply, QueueTypes
  <2>3. r.item.id = lastReport + 1
    OBVIOUS
  <2> HIDE DEF r
  <2>4. \A n \in DOMAIN reports' : reports'[n] = r \/ \E m \in DOMAIN reports : reports'[n] = reports[m]
    <3>1. IsBehind(reports, r, reports')
      BY <2>1, <2>2, RoomFacts DEF QueueTypes
    <3> QED
      BY <3>1 DEF IsBehind
  <2>5. lastReport + 1 \in 1..lastReport'
    BY <2>1 DEF QueueTypes
  <2>6. (\A n \in DOMAIN reports : Numbered(reports[n].item.id, reports[n].item.cmd))'
    BY <1>0, <2>1, <2>3, <2>4, <2>5 DEF Origin, Numbered
  <2> QED
    BY <1>0, <2>1, <2>6 DEF Origin, InUse
<1>11. CASE Queues!TakeReply \/ Queues!TakeReport
  <2>1. /\ UNCHANGED <<outQueue, replies, reader, writer, written>> /\ reports' \in {reports, <<>>}
        /\ \/ /\ replies # <<>> /\ sender'.item = Head(replies).item
           \/ /\ reports # <<>> /\ sender'.item = reports[Len(reports)].item
    BY <1>11 DEF Queues!TakeReply, Queues!TakeReport
  <2>2. /\ replies # <<>> => 1 \in DOMAIN replies /\ Head(replies) = replies[1]
        /\ reports # <<>> => Len(reports) \in DOMAIN reports
    BY HeadTailProperties, LenProperties, EmptySeq DEF QueueTypes
  <2> QED
    BY <1>0, <2>1, <2>2 DEF Origin, InUse
<1>12. CASE Queues!Attempt \/ Queues!Write
  <2>1. /\ UNCHANGED <<outQueue, replies, reports, reader, writer>>
        /\ sender.pc # "idle" /\ sender'.item = sender.item
    BY <1>12, SendFacts DEF Queues!Attempt, Queues!Write
  <2>2. \A n \in DOMAIN written' :
          \/ written'[n].id = sender.item.id /\ written'[n].cmd = sender.item.cmd
          \/ n \in DOMAIN written /\ written'[n] = written[n]
    <3> DEFINE w == [id |-> sender.item.id, cmd |-> sender.item.cmd, conn |-> sender.item.conn,
                     late |-> sender.item.late, on |-> generation]
    <3>1. UNCHANGED written \/ (written' = Append(written, w) /\ sender.pc = "write")
      BY <1>12, SendFacts
    <3>2. w.id = sender.item.id /\ w.cmd = sender.item.cmd
      OBVIOUS
    <3>3. sender.pc = "write" => w \in Written
      <4>1. sender.item \in Item
        BY <1>12, SendFacts
      <4> QED
        BY <4>1 DEF Stamped, QueueTypes, Written, Item
    <3> HIDE DEF w
    <3>4. ASSUME w \in Written, written' = Append(written, w)
          PROVE  \A n \in DOMAIN written' : written'[n] = w \/ (n \in DOMAIN written /\ written'[n] = written[n])
      BY <3>4, AppendProperties, LenProperties DEF QueueTypes
    <3> QED
      BY <3>1, <3>2, <3>3, <3>4
  <2> QED
    BY <1>0, <2>1, <2>2 DEF Origin, InUse
<1>13. CASE Queues!RemovePending
  <2>1. /\ UNCHANGED <<outQueue, reports, reader, writer, written>> /\ sender' = Idle
        /\ replies' = replies \/ (replies # <<>> /\ replies' = Tail(replies))
    BY <1>0, <1>13 DEF Queues!RemovePending
  <2>2. \A n \in DOMAIN replies' : \E m \in DOMAIN replies : replies'[n] = replies[m]
    <3>1. ASSUME replies # <<>>
          PROVE  \A n \in DOMAIN Tail(replies) : n + 1 \in DOMAIN replies /\ Tail(replies)[n] = replies[n + 1]
      <4>1. /\ Tail(replies) \in Seq(Reply) /\ Len(Tail(replies)) = Len(replies) - 1
            /\ \A n \in 1..Len(Tail(replies)) : Tail(replies)[n] = replies[n + 1]
        BY <3>1, HeadTailProperties DEF QueueTypes
      <4>2. /\ DOMAIN replies = 1..Len(replies) /\ Len(replies) \in Nat
            /\ DOMAIN Tail(replies) = 1..Len(Tail(replies))
        BY <4>1, LenProperties DEF QueueTypes
      <4> QED
        BY <4>1, <4>2
    <3> QED
      BY <2>1, <3>1
  <2>3. traffic = "input" => replies' = <<>>
    BY <2>1 DEF InUse
  <2> QED
    BY <1>0, <2>1, <2>2, <2>3 DEF Origin, InUse
<1>14. CASE UNCHANGED queuesVars
  BY <1>0, <1>14 DEF queuesVars, Origin, InUse
<1> QED
  BY <1>1, <1>2, <1>3, <1>4, <1>5, <1>6, <1>7, <1>8, <1>9, <1>10, <1>11, <1>12, <1>13, <1>14
     DEF Queues!Next, Queues!EventThread, Queues!Reader, Queues!Writer, Queues!Sender

\* The numbers are numbers, and those of the console's transfers have been given.
LEMMA IdsGiven ==
  ASSUME QueueTypes, Origin
  PROVE  /\ ReadIds \subseteq Nat /\ OutIds \subseteq Nat /\ WriteIds \subseteq Nat
         /\ ReplyIds \subseteq Nat /\ ReportIds \subseteq Nat /\ HandIds \subseteq Nat
         /\ SendIds \subseteq HandIds /\ DoneIds \subseteq Nat
         /\ traffic # "input" => \A i \in OutIds \cup WriteIds \cup ReplyIds \cup HandIds \cup DoneIds :
                                  i <= Len(received)
         /\ traffic = "input" => \A i \in ReportIds \cup HandIds \cup DoneIds : i <= lastReport
<1>1. ASSUME NEW i, NEW cmd, Numbered(i, cmd)
      PROVE  /\ i \in Nat
             /\ traffic = "input" => i <= lastReport
             /\ traffic # "input" => i <= Len(received)
  <2>1. DOMAIN received = 1..Len(received) /\ Len(received) \in Nat /\ lastReport \in Nat
    BY LenProperties DEF QueueTypes
  <2> QED
    BY <1>1, <2>1 DEF Numbered
<1>2. /\ \A i \in ReadIds \cup OutIds \cup WriteIds : \E cmd : Numbered(i, cmd)
      /\ \A i \in ReplyIds \cup ReportIds : \E cmd : Numbered(i, cmd)
      /\ \A i \in HandIds \cup DoneIds : \E cmd : Numbered(i, cmd)
  <2>1. \A i \in ReadIds \cup WriteIds \cup HandIds : \E cmd : Numbered(i, cmd)
    BY DEF Origin, ReadIds, WriteIds, HandIds
  <2>2. \A i \in OutIds \cup DoneIds : \E cmd : Numbered(i, cmd)
    BY DEF Origin, OutIds, DoneIds
  <2>3. \A i \in ReplyIds \cup ReportIds : \E cmd : Numbered(i, cmd)
    BY DEF Origin, ReplyIds, ReportIds
  <2> QED
    BY <2>1, <2>2, <2>3
<1>3. SendIds \subseteq HandIds
  BY DEF SendIds, HandIds
<1> QED
  BY <1>1, <1>2, <1>3

\* The order is kept: a number is passed on only to the end of the next stage.
LEMMA QueuesOrder ==
  QueueTypes /\ Stamped /\ Origin /\ InUse /\ InOrder /\ [Queues!Next]_queuesVars => InOrder'
<1> SUFFICES ASSUME QueueTypes, Stamped, Origin, InUse, InOrder, [Queues!Next]_queuesVars
             PROVE  InOrder'
  OBVIOUS
<1> USE DEF Queues!queues, Queues!history
<1>0. /\ reader \in Readers /\ writer \in Writers /\ sender \in Senders
      /\ Queues!Idle = Idle /\ Idle.pc = "idle" /\ DOMAIN <<>> = {}
  BY DEF QueueTypes, Idle, Queues!Idle
<1>1. CASE Queues!BusReset \/ Queues!SetConfiguration
  <2>1. /\ writer' = Queues!Late(writer) /\ sender' = Queues!Late(sender)
        /\ UNCHANGED <<outQueue, replies, reports, reader, written>>
    BY <1>1 DEF Queues!BusReset, Queues!SetConfiguration, Queues!Bump
  <2>2. /\ writer'.pc = writer.pc
        /\ writer.pc \in {"answer", "submit"} => writer'.item.id = writer.item.id
        /\ sender'.pc = sender.pc
        /\ sender.pc # "idle" => /\ sender'.item.id = sender.item.id
                                 /\ sender'.item.cmd = sender.item.cmd
                                 /\ sender'.generation = sender.generation
    BY <1>0, <2>1, LateFacts
  <2>3. /\ ReadIds' = ReadIds /\ OutIds' = OutIds /\ WriteIds' = WriteIds /\ ReplyIds' = ReplyIds
        /\ ReportIds' = ReportIds /\ HandIds' = HandIds /\ SendIds' = SendIds /\ DoneIds' = DoneIds
    BY <2>1, <2>2 DEF ReadIds, OutIds, WriteIds, ReplyIds, ReportIds, HandIds, SendIds, DoneIds
  <2>4. Queued' /\ Queues!Ordered'
    BY <2>1 DEF InOrder, Queued, Queues!Ordered
  <2>5. Stages'
    BY <2>2, <2>3 DEF InOrder, Stages, Below
  <2>6. InHand'
    BY <2>1, <2>2 DEF InOrder, InHand
  <2> QED
    BY <2>4, <2>5, <2>6 DEF InOrder
<1>2. CASE \/ Queues!DisableEndpoints \/ Queues!ClearQueues \/ Queues!ResetPort
           \/ Queues!CloseOpenEndpoints \/ Queues!EnableEndpoints
  <2>1. /\ outQueue' \in {outQueue, <<>>} /\ replies' \in {replies, <<>>}
        /\ reports' \in {reports, <<>>} /\ UNCHANGED <<reader, writer, sender, written>>
    BY <1>2 DEF Queues!DisableEndpoints, Queues!ClearQueues, Queues!ResetPort,
       Queues!CloseOpenEndpoints, Queues!EnableEndpoints
  <2>2. Queued' /\ Queues!Ordered'
    BY <1>0, <2>1 DEF InOrder, Queued, Queues!Ordered
  <2>3. /\ ReadIds' = ReadIds /\ OutIds' \subseteq OutIds /\ WriteIds' = WriteIds
        /\ ReplyIds' \subseteq ReplyIds /\ ReportIds' \subseteq ReportIds /\ HandIds' = HandIds
        /\ SendIds' = SendIds /\ DoneIds' = DoneIds
    BY <1>0, <2>1 DEF ReadIds, OutIds, WriteIds, ReplyIds, ReportIds, HandIds, SendIds, DoneIds
  <2>4. Stages'
    BY <2>1, <2>3 DEF InOrder, Stages, Below
  <2>5. InHand'
    BY <1>0, <2>1 DEF InOrder, InHand
  <2> QED
    BY <2>2, <2>4, <2>5 DEF InOrder
<1>3. CASE Queues!BeginRead \/ Queues!CheckRead
  <2>1. UNCHANGED <<outQueue, replies, reports, writer, sender, written>>
    BY <1>3 DEF Queues!BeginRead, Queues!CheckRead
  <2>2. ReadIds' \subseteq ReadIds
    <3>1. CASE Queues!BeginRead
      BY <3>1 DEF Queues!BeginRead, ReadIds
    <3>2. CASE Queues!CheckRead
      BY <1>0, <3>2, CheckFacts DEF ReadIds
    <3> QED
      BY <1>3, <3>1, <3>2
  <2>3. /\ OutIds' = OutIds /\ WriteIds' = WriteIds /\ ReplyIds' = ReplyIds
        /\ ReportIds' = ReportIds /\ HandIds' = HandIds /\ SendIds' = SendIds /\ DoneIds' = DoneIds
    BY <2>1 DEF OutIds, WriteIds, ReplyIds, ReportIds, HandIds, SendIds, DoneIds
  <2>4. Stages'
    BY <2>1, <2>2, <2>3 DEF InOrder, Stages, Below
  <2> QED
    BY <2>1, <2>4 DEF InOrder, Queued, Queues!Ordered, InHand
<1>4. CASE Queues!Read
  <2>1. UNCHANGED <<outQueue, replies, reports, writer, sender, written>>
    BY <1>4 DEF Queues!Read
  <2>2. /\ OutIds' = OutIds /\ WriteIds' = WriteIds /\ ReplyIds' = ReplyIds
        /\ ReportIds' = ReportIds /\ HandIds' = HandIds /\ SendIds' = SendIds /\ DoneIds' = DoneIds
    BY <2>1 DEF OutIds, WriteIds, ReplyIds, ReportIds, HandIds, SendIds, DoneIds
  <2>3. ReadIds' \subseteq {Len(received) + 1}
    <3>1. CASE reader' = Queues!Idle
      BY <1>0, <3>1 DEF ReadIds
    <3>2. ASSUME NEW c, reader' = [pc |-> "check", generation |-> reader.generation,
                                   item |-> [id |-> Len(received) + 1, cmd |-> c,
                                             conn |-> generation]]
          PROVE  ReadIds' \subseteq {Len(received) + 1}
      BY <3>2 DEF ReadIds
    <3> QED
      BY <1>4, <3>1, <3>2 DEF Queues!Read
  <2>4. traffic # "input"
    BY <1>0, <1>4 DEF Queues!Read, InUse
  <2>5. Below(OutIds \cup WriteIds \cup ReplyIds \cup HandIds \cup DoneIds, ReadIds')
    <3>1. Len(received) \in Nat
      BY LenProperties DEF QueueTypes
    <3>2. \A i \in OutIds \cup WriteIds \cup ReplyIds \cup HandIds \cup DoneIds :
            i \in Nat /\ i <= Len(received)
      BY <2>4, IdsGiven
    <3> QED
      BY <2>3, <3>1, <3>2 DEF Below
  <2>6. Stages'
    BY <2>1, <2>2, <2>5 DEF InOrder, Stages, Below
  <2> QED
    BY <2>1, <2>6 DEF InOrder, Queued, Queues!Ordered, InHand
<1>5. CASE Queues!Push
  <2>1. UNCHANGED <<replies, reports, writer, sender, written>> /\ reader' = Idle
    BY <1>0, <1>5 DEF Queues!Push
  <2>2. /\ ReadIds' = {} /\ WriteIds' = WriteIds /\ ReplyIds' = ReplyIds
        /\ ReportIds' = ReportIds /\ HandIds' = HandIds /\ SendIds' = SendIds /\ DoneIds' = DoneIds
    BY <1>0, <2>1 DEF ReadIds, WriteIds, ReplyIds, ReportIds, HandIds, SendIds, DoneIds
  <2>3. ReadIds = {reader.item.id}
    BY <1>5 DEF Queues!Push, ReadIds
  <2>4. /\ OutIds' \subseteq OutIds \cup ReadIds
        /\ \A m, n \in DOMAIN outQueue' : m < n => outQueue'[m].id < outQueue'[n].id
    <3>1. CASE UNCHANGED outQueue
      BY <3>1 DEF OutIds, InOrder, Queued
    <3>2. CASE IsBehind(outQueue, Queues!Entry(reader), outQueue')
      <4>1. PICK k \in {0, 1}, l \in Nat \ {0} :
              /\ DOMAIN outQueue' = 1..l /\ outQueue'[l] = Queues!Entry(reader)
              /\ \A n \in 1..(l - 1) : n + k \in DOMAIN outQueue /\ outQueue'[n] = outQueue[n + k]
        BY <3>2 DEF IsBehind
      <4>2. outQueue'[l].id = reader.item.id
        BY <4>1 DEF Queues!Entry
      <4>3. \A n \in 1..(l - 1) : outQueue'[n].id \in OutIds
        BY <4>1 DEF OutIds
      <4>4. \A n \in 1..l : n = l \/ n \in 1..(l - 1)
        OBVIOUS
      <4>5. OutIds' \subseteq OutIds \cup ReadIds
        BY <2>3, <4>1, <4>2, <4>3, <4>4 DEF OutIds
      <4>6. ASSUME NEW m \in 1..l, NEW n \in 1..l, m < n
            PROVE  outQueue'[m].id < outQueue'[n].id
        <5>1. m \in 1..(l - 1)
          BY <4>6
        <5>2. CASE n = l
          BY <2>3, <4>2, <4>3, <5>1, <5>2 DEF InOrder, Stages, Below
        <5>3. CASE n \in 1..(l - 1)
          <6>1. m + k < n + k
            BY <4>6, <5>1, <5>3
          <6> QED
            BY <4>1, <5>1, <5>3, <6>1 DEF InOrder, Queued
        <5> QED
          BY <4>4, <5>2, <5>3
      <4> QED
        BY <4>1, <4>5, <4>6
    <3> QED
      BY <1>5, <3>1, <3>2, PushFacts
  <2>5. Stages'
    BY <2>1, <2>2, <2>4 DEF InOrder, Stages, Below
  <2> QED
    BY <2>1, <2>4, <2>5 DEF InOrder, Queued, Queues!Ordered, InHand
<1>6. CASE Queues!Poll
  <2>1. UNCHANGED <<replies, reports, reader, sender, written>> /\ writer = Idle
    BY <1>0, <1>6 DEF Queues!Poll
  <2>2. PICK n \in DOMAIN outQueue :
          /\ \/ UNCHANGED writer
             \/ writer' = [pc |-> "answer",
                           item |-> [id |-> outQueue[n].id, cmd |-> outQueue[n].cmd,
                                     conn |-> outQueue[n].conn, late |-> FALSE]]
          /\ DOMAIN outQueue' = 1..(Len(outQueue) - n)
          /\ \A k \in DOMAIN outQueue' : n + k \in DOMAIN outQueue /\ outQueue'[k] = outQueue[n + k]
    BY <1>6, PollFacts
  <2>3. n \in Nat
    BY LenProperties DEF QueueTypes
  <2>4. WriteIds' \subseteq {outQueue[n].id} /\ outQueue[n].id \in OutIds
    BY <1>0, <2>1, <2>2 DEF WriteIds, OutIds
  <2>5. OutIds' \subseteq OutIds /\ Below(WriteIds', OutIds')
    <3>1. \A k \in DOMAIN outQueue' : outQueue'[k].id \in OutIds /\ outQueue[n].id < outQueue'[k].id
      <4> SUFFICES ASSUME NEW k \in DOMAIN outQueue'
                   PROVE  outQueue'[k].id \in OutIds /\ outQueue[n].id < outQueue'[k].id
        OBVIOUS
      <4>1. n < n + k /\ n + k \in DOMAIN outQueue
        BY <2>2, <2>3
      <4> QED
        BY <2>2, <4>1 DEF OutIds, InOrder, Queued
    <3> QED
      BY <2>4, <3>1 DEF OutIds, Below
  <2>6. /\ ReadIds' = ReadIds /\ ReplyIds' = ReplyIds
        /\ ReportIds' = ReportIds /\ HandIds' = HandIds /\ SendIds' = SendIds /\ DoneIds' = DoneIds
    BY <2>1 DEF ReadIds, ReplyIds, ReportIds, HandIds, SendIds, DoneIds
  <2>7. Stages'
    BY <2>1, <2>4, <2>5, <2>6 DEF InOrder, Stages, Below
  <2>8. \A j, k \in DOMAIN outQueue' : j < k => outQueue'[j].id < outQueue'[k].id
    <3> SUFFICES ASSUME NEW j \in DOMAIN outQueue', NEW k \in DOMAIN outQueue', j < k
                 PROVE  outQueue'[j].id < outQueue'[k].id
      OBVIOUS
    <3>1. n + j < n + k
      BY <2>2, <2>3
    <3> QED
      BY <2>2, <3>1 DEF InOrder, Queued
  <2> QED
    BY <2>1, <2>7, <2>8 DEF InOrder, Queued, Queues!Ordered, InHand
<1>7. CASE Queues!Answer
  <2>1. UNCHANGED <<outQueue, replies, reports, reader, sender, written>>
    BY <1>7 DEF Queues!Answer
  <2>2. WriteIds' \subseteq WriteIds
    <3>1. writer.pc = "answer"
      BY <1>7 DEF Queues!Answer
    <3>2. writer'.pc \in {"answer", "submit"} => writer'.item = writer.item
      BY <1>0, <1>7, AnswerFacts
    <3> QED
      BY <3>1, <3>2 DEF WriteIds
  <2>3. /\ ReadIds' = ReadIds /\ OutIds' = OutIds /\ ReplyIds' = ReplyIds
        /\ ReportIds' = ReportIds /\ HandIds' = HandIds /\ SendIds' = SendIds /\ DoneIds' = DoneIds
    BY <2>1 DEF ReadIds, OutIds, ReplyIds, ReportIds, HandIds, SendIds, DoneIds
  <2>4. Stages'
    BY <2>1, <2>2, <2>3 DEF InOrder, Stages, Below
  <2> QED
    BY <2>1, <2>4 DEF InOrder, Queued, Queues!Ordered, InHand
<1>8. CASE Queues!Submit
  <2> DEFINE r == [item |-> writer.item, generation |-> generation]
  <2>1. /\ UNCHANGED <<outQueue, reports, reader, sender, written>> /\ writer' = Idle
        /\ writer.pc = "submit" /\ (UNCHANGED replies \/ replies' = Append(replies, r))
    BY <1>0, <1>8 DEF Queues!Submit
  <2>2. r \in Reply /\ r.item = writer.item
    BY <2>1 DEF QueueTypes, Stamped, Writers, Idle, Reply
  <2> HIDE DEF r
  <2>3. /\ ReadIds' = ReadIds /\ OutIds' = OutIds /\ WriteIds' = {} /\ WriteIds = {r.item.id}
        /\ ReportIds' = ReportIds /\ HandIds' = HandIds /\ SendIds' = SendIds /\ DoneIds' = DoneIds
    BY <1>0, <2>1, <2>2 DEF ReadIds, OutIds, WriteIds, ReportIds, HandIds, SendIds, DoneIds
  <2>4. /\ ReplyIds' \subseteq ReplyIds \cup WriteIds
        /\ \A m, n \in DOMAIN replies' : m < n => replies'[m].item.id < replies'[n].item.id
        /\ InHand'
    <3>1. CASE UNCHANGED replies
      BY <2>1, <3>1 DEF ReplyIds, InOrder, Queued, InHand
    <3>2. CASE replies' = Append(replies, r)
      <4> DEFINE l == Len(replies) + 1
      <4>1. /\ DOMAIN replies' = 1..l /\ l \in Nat /\ replies'[l] = r
            /\ \A n \in 1..(l - 1) : n \in DOMAIN replies /\ replies'[n] = replies[n]
        BY <2>2, <3>2, AppendProperties, LenProperties DEF QueueTypes
      <4> HIDE DEF l
      <4>2. \A n \in 1..l : n = l \/ n \in 1..(l - 1)
        BY <4>1
      <4>3. \A n \in 1..(l - 1) : replies'[n].item.id \in ReplyIds /\ replies'[n].item.id < r.item.id
        <5>1. Below(ReplyIds, {r.item.id})
          BY <2>3 DEF InOrder, Stages, Below
        <5> QED
          BY <4>1, <5>1 DEF ReplyIds, Below
      <4>4. ReplyIds' \subseteq ReplyIds \cup WriteIds
        BY <2>3, <4>1, <4>2, <4>3 DEF ReplyIds
      <4>5. ASSUME NEW m \in 1..l, NEW n \in 1..l, m < n
            PROVE  replies'[m].item.id < replies'[n].item.id
        <5>1. m \in 1..(l - 1)
          BY <4>1, <4>5
        <5> QED
          BY <4>1, <4>2, <4>3, <4>5, <5>1 DEF InOrder, Queued
      <4>6. InHand'
        <5>1. sender.pc # "idle" => sender.item.id < r.item.id
          BY <2>3 DEF InOrder, Stages, Below, HandIds
        <5> SUFFICES ASSUME sender.pc # "idle", NEW n \in DOMAIN replies'
                     PROVE  \/ sender.item.id < replies'[n].item.id
                            \/ /\ n = 1 /\ sender.item.id = replies'[n].item.id
                               /\ sender.generation = replies'[n].generation
                               /\ sender.item.cmd = replies'[n].item.cmd
          BY <2>1 DEF InHand
        <5>2. CASE n = l
          BY <4>1, <5>1, <5>2
        <5>3. CASE n \in 1..(l - 1)
          BY <4>1, <5>3 DEF InOrder, InHand
        <5> QED
          BY <4>1, <4>2, <5>2, <5>3
      <4> QED
        BY <4>1, <4>4, <4>5, <4>6
    <3> QED
      BY <2>1, <3>1, <3>2
  <2>5. Stages'
    BY <2>1, <2>3, <2>4 DEF InOrder, Stages, Below
  <2> QED
    BY <2>1, <2>4, <2>5 DEF InOrder, Queued, Queues!Ordered
<1>9. CASE Queues!SubmitReport
  <2> DEFINE r == [item |-> [id |-> lastReport + 1, cmd |-> "report", conn |-> generation,
                             late |-> FALSE], generation |-> generation]
  <2>1. /\ UNCHANGED <<outQueue, replies, reader, writer, sender, written>>
        /\ traffic = "input" /\ reports' = Behind(reports, r)
    BY <1>9 DEF Queues!SubmitReport, Behind
  <2>2. r \in Reply /\ r.item.id = lastReport + 1
    <3>1. r.item \in Item
      BY DEF QueueTypes, Item, Command
    <3> QED
      BY <3>1 DEF Reply, QueueTypes
  <2> HIDE DEF r
  <2>3. /\ ReadIds' = ReadIds /\ OutIds' = OutIds /\ WriteIds' = WriteIds /\ ReplyIds' = ReplyIds
        /\ HandIds' = HandIds /\ SendIds' = SendIds /\ DoneIds' = DoneIds
    BY <2>1 DEF ReadIds, OutIds, WriteIds, ReplyIds, HandIds, SendIds, DoneIds
  <2>4. \A i \in ReportIds \cup SendIds \cup DoneIds : i < r.item.id
    <3>1. \A i \in ReportIds \cup SendIds \cup DoneIds : i \in Nat /\ i <= lastReport
      BY <2>1, IdsGiven
    <3> QED
      BY <2>2, <3>1 DEF QueueTypes
  <2>5. PICK k \in {0, 1}, l \in Nat \ {0} :
          /\ DOMAIN reports' = 1..l /\ reports'[l] = r
          /\ \A n \in 1..(l - 1) : n + k \in DOMAIN reports /\ reports'[n] = reports[n + k]
    <3>1. IsBehind(reports, r, reports')
      BY <2>1, <2>2, RoomFacts DEF QueueTypes
    <3> QED
      BY <3>1 DEF IsBehind
  <2>6. \A n \in 1..l : n = l \/ n \in 1..(l - 1)
    OBVIOUS
  <2>7. \A n \in 1..(l - 1) : reports'[n].item.id \in ReportIds /\ reports'[n].item.id < r.item.id
    BY <2>4, <2>5 DEF ReportIds
  <2>8. ReportIds' \subseteq ReportIds \cup {r.item.id}
    BY <2>5, <2>6, <2>7 DEF ReportIds
  <2>9. ASSUME NEW m \in 1..l, NEW n \in 1..l, m < n
        PROVE  reports'[m].item.id < reports'[n].item.id
    <3>1. m \in 1..(l - 1)
      BY <2>9
    <3>2. CASE n = l
      BY <2>5, <2>7, <3>1, <3>2
    <3>3. CASE n \in 1..(l - 1)
      <4>1. m + k < n + k
        BY <2>9, <3>1, <3>3
      <4> QED
        BY <2>5, <3>1, <3>3, <4>1 DEF InOrder, Queued
    <3> QED
      BY <2>6, <3>2, <3>3
  <2>10. Stages'
    BY <2>1, <2>3, <2>4, <2>8 DEF InOrder, Stages, Below
  <2> QED
    BY <2>1, <2>5, <2>9, <2>10 DEF InOrder, Queued, Queues!Ordered, InHand
<1>10. CASE Queues!TakeReply
  <2>1. /\ UNCHANGED <<outQueue, replies, reports, reader, writer, written>>
        /\ sender = Idle /\ replies # <<>>
        /\ sender' = [pc |-> "attempt", item |-> Head(replies).item,
                      generation |-> Head(replies).generation, attempts |-> 0]
    BY <1>0, <1>10 DEF Queues!TakeReply
  <2>2. 1 \in DOMAIN replies /\ Head(replies) = replies[1] /\ \A n \in DOMAIN replies : n = 1 \/ 1 < n
    BY <2>1, HeadTailProperties, LenProperties, EmptySeq DEF QueueTypes
  <2>3. /\ sender'.pc = "attempt" /\ sender'.item = replies[1].item
        /\ sender'.generation = replies[1].generation
    BY <2>1, <2>2
  <2>4. HandIds' = {replies[1].item.id} /\ SendIds' = {replies[1].item.id}
    BY <2>3 DEF HandIds, SendIds
  <2>5. replies[1].item.id \in ReplyIds /\ reports = <<>> /\ HandIds = {} /\ SendIds = {}
    BY <1>0, <2>1, <2>2 DEF ReplyIds, InUse, HandIds, SendIds
  <2>6. /\ ReadIds' = ReadIds /\ OutIds' = OutIds /\ WriteIds' = WriteIds /\ ReplyIds' = ReplyIds
        /\ ReportIds' = {} /\ DoneIds' = DoneIds
    BY <1>0, <2>1, <2>5 DEF ReadIds, OutIds, WriteIds, ReplyIds, ReportIds, DoneIds
  <2>7. Below(DoneIds, ReplyIds)
    BY <1>0, <2>1 DEF InOrder, Stages
  <2>8. Stages'
    BY <2>3, <2>4, <2>5, <2>6, <2>7 DEF InOrder, Stages, Below
  <2>9. InHand'
    BY <2>1, <2>2, <2>3 DEF InOrder, Queued, InHand
  <2> QED
    BY <2>1, <2>8, <2>9 DEF InOrder, Queued, Queues!Ordered
<1>11. CASE Queues!TakeReport
  <2> DEFINE l == Len(reports)
  <2>1. /\ UNCHANGED <<outQueue, replies, reader, writer, written>> /\ reports' = <<>>
        /\ sender = Idle /\ reports # <<>>
        /\ sender' = [pc |-> "attempt", item |-> reports[l].item,
                      generation |-> reports[l].generation, attempts |-> 0]
    BY <1>0, <1>11 DEF Queues!TakeReport
  <2>2. l \in DOMAIN reports
    BY <2>1, LenProperties, EmptySeq DEF QueueTypes
  <2> HIDE DEF l
  <2>3. traffic = "input" /\ reader = Idle /\ writer = Idle /\ outQueue = <<>> /\ replies = <<>>
    BY <2>1 DEF InUse
  <2>4. sender'.pc = "attempt" /\ SendIds' = {reports[l].item.id} /\ reports[l].item.id \in ReportIds
    BY <2>1, <2>2 DEF SendIds, ReportIds
  <2>5. /\ ReadIds' = {} /\ OutIds' = {} /\ WriteIds' = {} /\ ReplyIds' = {} /\ ReportIds' = {}
        /\ DoneIds' = DoneIds
    BY <1>0, <2>1, <2>3 DEF ReadIds, OutIds, WriteIds, ReplyIds, ReportIds, DoneIds
  <2>6. Stages'
    BY <2>4, <2>5 DEF InOrder, Stages, Below
  <2> QED
    BY <1>0, <2>1, <2>3, <2>6 DEF InOrder, Queued, Queues!Ordered, InHand
<1>12. CASE Queues!Attempt \/ Queues!Write
  <2> DEFINE w == [id |-> sender.item.id, cmd |-> sender.item.cmd, conn |-> sender.item.conn,
                   late |-> sender.item.late, on |-> generation]
  <2>1. /\ sender.item \in Item
        /\ sender'.item = sender.item /\ sender'.generation = sender.generation
        /\ sender.pc \in {"attempt", "write"} /\ sender'.pc \in {"attempt", "write", "remove"}
        /\ \/ UNCHANGED written
           \/ sender.pc = "write" /\ sender'.pc = "remove" /\ written' = Append(written, w)
    BY <1>12, SendFacts
  <2>2. UNCHANGED <<outQueue, replies, reports, reader, writer>>
    BY <1>12 DEF Queues!Attempt, Queues!Write
  <2>3. w.id = sender.item.id /\ (sender.pc = "write" => w \in Written)
    BY <2>1 DEF Stamped, QueueTypes, Written, Item
  <2> HIDE DEF w
  <2>4. /\ ReadIds' = ReadIds /\ OutIds' = OutIds /\ WriteIds' = WriteIds /\ ReplyIds' = ReplyIds
        /\ ReportIds' = ReportIds /\ HandIds' = HandIds /\ HandIds = {sender.item.id}
        /\ SendIds = HandIds /\ SendIds' \subseteq HandIds
    BY <2>1, <2>2 DEF ReadIds, OutIds, WriteIds, ReplyIds, ReportIds, HandIds, SendIds
  <2>5. InHand'
    BY <2>1, <2>2 DEF InOrder, InHand
  <2>6. \A i \in DoneIds : i \in Nat /\ i < sender.item.id
    BY <2>1, <2>4, IdsGiven DEF InOrder, Stages, Below
  <2>7. CASE UNCHANGED written
    <3>1. DoneIds' = DoneIds
      BY <2>7 DEF DoneIds
    <3>2. \A i \in DoneIds : i <= sender.item.id
      BY <2>1, <2>6 DEF Item
    <3>3. Stages'
      BY <2>1, <2>4, <3>1, <3>2 DEF InOrder, Stages, Below
    <3> QED
      BY <2>2, <2>5, <2>7, <3>3 DEF InOrder, Queued, Queues!Ordered
  <2>8. CASE sender.pc = "write" /\ sender'.pc = "remove" /\ written' = Append(written, w)
    <3> DEFINE l == Len(written) + 1
    <3>1. /\ DOMAIN written' = 1..l /\ l \in Nat /\ written'[l] = w
          /\ \A n \in 1..(l - 1) : n \in DOMAIN written /\ written'[n] = written[n]
      BY <2>3, <2>8, AppendProperties, LenProperties DEF QueueTypes
    <3> HIDE DEF l
    <3>2. \A n \in 1..l : n = l \/ n \in 1..(l - 1)
      BY <3>1
    <3>3. \A n \in 1..(l - 1) : written'[n].id \in DoneIds
      BY <3>1 DEF DoneIds
    <3>4. DoneIds' \subseteq DoneIds \cup {sender.item.id}
      BY <2>3, <3>1, <3>2, <3>3 DEF DoneIds
    <3>5. \A i \in DoneIds' : i <= sender'.item.id
      BY <2>1, <2>6, <3>4 DEF Item
    <3>6. SendIds' = {}
      BY <2>8 DEF SendIds
    <3>7. Stages'
      BY <2>4, <2>8, <3>4, <3>5, <3>6 DEF InOrder, Stages, Below
    <3>8. ASSUME NEW m \in 1..l, NEW n \in 1..l, m < n PROVE written'[m].id < written'[n].id
      <4>1. m \in 1..(l - 1)
        BY <3>1, <3>8
      <4> QED
        BY <2>3, <2>6, <3>1, <3>2, <3>3, <3>8, <4>1 DEF InOrder, Queues!Ordered
    <3>9. Queues!Ordered'
      BY <3>1, <3>8 DEF Queues!Ordered
    <3> QED
      BY <2>2, <2>5, <3>7, <3>9 DEF InOrder, Queued
  <2> QED
    BY <2>1, <2>7, <2>8
<1>13. CASE Queues!RemovePending
  <2>1. /\ UNCHANGED <<outQueue, reports, reader, writer, written>> /\ sender' = Idle
        /\ sender.pc = "remove"
        /\ \/ /\ UNCHANGED replies
              /\ ~ /\ replies # <<>> /\ Head(replies).generation = sender.generation
                   /\ Head(replies).item.cmd = sender.item.cmd
           \/ replies # <<>> /\ replies' = Tail(replies)
    BY <1>0, <1>13 DEF Queues!RemovePending
  <2>2. /\ ReadIds' = ReadIds /\ OutIds' = OutIds /\ WriteIds' = WriteIds
        /\ ReportIds' = ReportIds /\ HandIds' = {} /\ SendIds' = {} /\ SendIds = {}
        /\ DoneIds' = DoneIds
    BY <1>0, <2>1 DEF ReadIds, OutIds, WriteIds, ReportIds, HandIds, SendIds, DoneIds
  <2>3. /\ DOMAIN replies = 1..Len(replies) /\ Len(replies) \in Nat
        /\ replies # <<>> => /\ Head(replies) = replies[1] /\ 1 \in DOMAIN replies
                             /\ DOMAIN Tail(replies) = 1..(Len(replies) - 1)
                             /\ \A n \in 1..(Len(replies) - 1) : Tail(replies)[n] = replies[n + 1]
    BY HeadTailProperties, LenProperties, EmptySeq DEF QueueTypes
  <2>4. /\ \A n \in DOMAIN replies' : /\ sender.item.id < replies'[n].item.id
                                      /\ replies'[n].item.id \in ReplyIds
        /\ \A m, n \in DOMAIN replies' : m < n => replies'[m].item.id < replies'[n].item.id
    <3>1. CASE /\ UNCHANGED replies
               /\ ~ /\ replies # <<>> /\ Head(replies).generation = sender.generation
                    /\ Head(replies).item.cmd = sender.item.cmd
      <4>1. \A n \in DOMAIN replies : replies # <<>>
        BY <1>0
      <4> QED
        BY <2>1, <2>3, <3>1, <4>1, ZenonT(40) DEF InOrder, InHand, Queued, ReplyIds
    <3>2. CASE replies # <<>> /\ replies' = Tail(replies)
      <4>1. \A n \in DOMAIN replies' : n + 1 \in DOMAIN replies /\ n + 1 # 1 /\ replies'[n] = replies[n + 1]
        BY <2>3, <3>2
      <4>2. \A m, n \in DOMAIN replies' : m < n => m + 1 < n + 1
        BY <2>3, <3>2
      <4> QED
        BY <2>1, <4>1, <4>2 DEF InOrder, InHand, Queued, ReplyIds
    <3> QED
      BY <2>1, <3>1, <3>2
  <2>5. ReplyIds' \subseteq ReplyIds
    BY <2>4 DEF ReplyIds
  <2>6. Below(DoneIds, ReplyIds')
    <3>1. \A i \in DoneIds : i \in Nat /\ i <= sender.item.id
      BY <2>1, IdsGiven DEF InOrder, Stages
    <3>2. sender.item.id \in Nat
      BY <1>0, <2>1 DEF Senders, Idle, Item
    <3>3. \A j \in ReplyIds' : j \in Nat /\ sender.item.id < j
      BY <2>4, <2>5, IdsGiven DEF ReplyIds
    <3> QED
      BY <3>1, <3>2, <3>3 DEF Below
  <2>7. Stages'
    BY <1>0, <2>1, <2>2, <2>5, <2>6 DEF InOrder, Stages, Below
  <2> QED
    BY <1>0, <2>1, <2>4, <2>7 DEF InOrder, Queued, Queues!Ordered, InHand
<1>14. CASE UNCHANGED queuesVars
  BY <1>14
  DEF queuesVars, InOrder, Queued, Queues!Ordered, Stages, InHand, Below, ReadIds, OutIds,
     WriteIds, ReplyIds, ReportIds, HandIds, SendIds, DoneIds
<1> QED
  BY <1>1, <1>2, <1>3, <1>4, <1>5, <1>6, <1>7, <1>8, <1>9, <1>10, <1>11, <1>12, <1>13, <1>14
     DEF Queues!Next, Queues!EventThread, Queues!Reader, Queues!Writer, Queues!Sender

LEMMA QueuesInit == Queues!Init => QueuesIInv
<1> SUFFICES ASSUME Queues!Init PROVE QueuesIInv
  OBVIOUS
<1> USE DEF Queues!Init
<1>0. DOMAIN <<>> = {} /\ Idle.pc = "idle" /\ Queues!Idle = Idle
  BY DEF Idle, Queues!Idle
<1>1. QueueTypes
  <2>1. \A S : <<>> \in Seq(S)
    OBVIOUS
  <2>2. 0 \in Nat /\ 1 \in Nat /\ Queues!NoStream \in [on : BOOLEAN, conn : Nat, late : BOOLEAN]
    BY DEF Queues!NoStream
  <2> QED
    BY <1>0, <2>1, <2>2 DEF QueueTypes, Readers, Writers, Senders
<1>2. Stamped /\ Origin /\ InUse /\ Queues!StreamingAskedFor
  BY <1>0 DEF Stamped, Origin, InUse, Queues!StreamingAskedFor, Queues!NoStream
<1>3. InOrder
  <2>1. /\ ReadIds = {} /\ OutIds = {} /\ WriteIds = {} /\ ReplyIds = {} /\ ReportIds = {}
        /\ HandIds = {} /\ SendIds = {} /\ DoneIds = {}
    BY <1>0 DEF ReadIds, OutIds, WriteIds, ReplyIds, ReportIds, HandIds, SendIds, DoneIds
  <2> QED
    BY <1>0, <2>1 DEF InOrder, Queued, Queues!Ordered, Stages, Below, InHand
<1> QED
  BY <1>1, <1>2, <1>3 DEF QueuesIInv

LEMMA QueuesStep == QueuesIInv /\ [Queues!Next]_queuesVars => QueuesIInv'
BY QueuesTypes, QueuesStamps, QueuesOrigin, QueuesOrder DEF QueuesIInv

\* What is written is of this connection or was in hand, and has the number of a transfer
\* or of a report.
LEMMA QueuesMeans == QueuesIInv => QueuesSafe
<1> SUFFICES ASSUME QueuesIInv PROVE QueuesSafe
  OBVIOUS
<1>1. \A n \in DOMAIN written : written[n] \in Written
  BY ElementOfSeq, LenProperties DEF QueuesIInv, QueueTypes
<1>2. Queues!OnlyInHandCrosses
  BY <1>1 DEF Queues!OnlyInHandCrosses, Written
<1>3. Queues!Ordered /\ Queues!StreamingAskedFor
  BY DEF QueuesIInv, InOrder
<1>4. Queues!AnsweredOnce /\ Queues!ReportsInOrder
  BY <1>3 DEF Queues!AnsweredOnce, Queues!ReportsInOrder, QueuesIInv, Origin, Numbered
<1> QED
  BY <1>2, <1>3, <1>4 DEF QueuesSafe

\* Of what was asked or reported on one USB connection only the item in hand reaches the
\* next; every reply that is written answers a transfer of its own, in order, and no older
\* report follows a newer one: for every length of the queues, with any number of resets,
\* retries and lost entries.
THEOREM QueuesTheorem == Spec => []QueuesSafe
<1>1. Init => QueuesIInv
  BY QueuesInit DEF Init
<1>2. QueuesIInv /\ [Next]_vars => QueuesIInv'
  BY QueuesStep DEF Next, vars
<1> QED
  BY <1>1, <1>2, QueuesMeans, PTL DEF Spec

-----------------------------------------------------------------------------
(***************************************************************************)
(* The Bluetooth adapter.  What the wizard gives back at its end depends   *)
(* on what each of its steps knows: the adapter has the name it is         *)
(* commanded by, or it was away and came back with its settings reset.     *)
(***************************************************************************)

Macs    == {"own", "joycon", "other", "none"}
Adapter == [name : names \cup {"none"}, up : BOOLEAN, bredr : BOOLEAN, adv : BOOLEAN,
            scan : BOOLEAN, mac : Macs]

WakeTypes ==
  /\ adapter \in Adapter /\ bluez \in BOOLEAN /\ left \in BOOLEAN
  /\ store \in SUBSET {"own", "other"} /\ orig \in Macs
  /\ saved \in [hci : names \cup {"none"}, orig : Macs]
  /\ saved # Wake!NoConfig => saved.hci \in names
  /\ proc \in {"none", "wizard", "server", "stopping"}
  /\ proc # "none" => hci \in names
  /\ worker # "idle" => local \in names

\* Where each process may be, and when the thread of a burst runs.
WakePlaces ==
  /\ proc = "none" => at = "no"
  /\ proc = "wizard" => at \in {"reset", "wait", "prepare", "listen", "heard", "save", "restore",
                                "bluez", "done"}
  /\ proc = "server" => at \in {"bluetooth", "wake", "restore", "bluez", "run"}
  /\ proc = "stopping" => at \in {"stop", "quiet"}
  /\ worker \in {"idle", "find", "set", "enable", "burst", "clean"}
  /\ worker # "idle" => at \in {"run", "stop", "quiet"}

\* The wizard, once it has reset the adapter.
Borrowed ==
  proc = "wizard" =>
    /\ at # "reset" => ~adapter.adv
    /\ at \notin {"reset", "heard"} => ~adapter.scan
    /\ at = "wait" => adapter.bredr
    /\ at \in {"prepare", "listen", "heard", "save"} => adapter.name = hci
    /\ at = "restore" => adapter.name = hci \/ (adapter.bredr /\ left)
    /\ at \in {"bluez", "done"} => adapter.bredr /\ (adapter.name = hci \/ left)
    /\ at = "done" => bluez /\ (adapter.name = hci => adapter.up)
    /\ store = {"own"} => orig = "own"
    /\ at \in {"bluez", "done"} /\ ~left /\ store = {"own"} => adapter.mac = "own"

\* The beacon, whatever process runs.
Beacon ==
  /\ adapter.adv /\ ~left => worker \in {"burst", "clean"}
  /\ adapter.name = "none" => ~adapter.adv

WakeIInv == WakeTypes /\ WakePlaces /\ Borrowed /\ Beacon

\* A command sets what it names, on the adapter that has the name it is sent to.
Put(f, x) == IF x \in DOMAIN f THEN f[x] ELSE adapter[x]

LEMMA ToldFacts ==
  ASSUME adapter \in Adapter, NEW n, NEW f
  PROVE  /\ adapter.name # n => Wake!Told(n, f) = adapter
         /\ adapter.name = n =>
              Wake!Told(n, f) = [name |-> Put(f, "name"), up |-> Put(f, "up"),
                                 bredr |-> Put(f, "bredr"), adv |-> Put(f, "adv"),
                                 scan |-> Put(f, "scan"), mac |-> Put(f, "mac")]
<1>1. DOMAIN adapter = {"name", "up", "bredr", "adv", "scan", "mac"}
  BY DEF Adapter
<1> QED
  BY <1>1 DEF Wake!Told, Put

\* The commands that are sent.
Is(n, x, v) == IF adapter.name = n THEN v ELSE adapter[x]

LEMMA Commands ==
  ASSUME adapter \in Adapter, NEW n
  PROVE  /\ \A b : Wake!Told(n, [up |-> b]) =
              [name |-> adapter.name, up |-> Is(n, "up", b), bredr |-> adapter.bredr,
               adv |-> adapter.adv, scan |-> adapter.scan, mac |-> adapter.mac]
         /\ \A b : Wake!Told(n, [scan |-> b]) =
              [name |-> adapter.name, up |-> adapter.up, bredr |-> adapter.bredr,
               adv |-> adapter.adv, scan |-> Is(n, "scan", b), mac |-> adapter.mac]
         /\ \A b : Wake!Told(n, [adv |-> b]) =
              [name |-> adapter.name, up |-> adapter.up, bredr |-> adapter.bredr,
               adv |-> Is(n, "adv", b), scan |-> adapter.scan, mac |-> adapter.mac]
         /\ \A b, c, d : Wake!Told(n, [up |-> b, adv |-> c, scan |-> d]) =
              [name |-> adapter.name, up |-> Is(n, "up", b), bredr |-> adapter.bredr,
               adv |-> Is(n, "adv", c), scan |-> Is(n, "scan", d), mac |-> adapter.mac]
         /\ \A b, c, d, e : Wake!Told(n, [up |-> b, bredr |-> c, adv |-> d, scan |-> e]) =
              [name |-> adapter.name, up |-> Is(n, "up", b), bredr |-> Is(n, "bredr", c),
               adv |-> Is(n, "adv", d), scan |-> Is(n, "scan", e), mac |-> adapter.mac]
         /\ \A b, c, d, e : Wake!Told(n, [up |-> b, adv |-> c, bredr |-> d, mac |-> e]) =
              [name |-> adapter.name, up |-> Is(n, "up", b), bredr |-> Is(n, "bredr", d),
               adv |-> Is(n, "adv", c), scan |-> adapter.scan, mac |-> Is(n, "mac", e)]
<1>1. CASE adapter.name # n
  <2>1. \A f : Wake!Told(n, f) = adapter
    BY <1>1, ToldFacts
  <2>2. adapter = [name |-> adapter.name, up |-> adapter.up, bredr |-> adapter.bredr,
                   adv |-> adapter.adv, scan |-> adapter.scan, mac |-> adapter.mac]
    BY DEF Adapter
  <2> QED
    BY <1>1, <2>1, <2>2 DEF Is
<1>2. CASE adapter.name = n
  <2>1. \A f : Wake!Told(n, f) = [name |-> Put(f, "name"), up |-> Put(f, "up"),
                                 bredr |-> Put(f, "bredr"), adv |-> Put(f, "adv"),
                                 scan |-> Put(f, "scan"), mac |-> Put(f, "mac")]
    BY <1>2, ToldFacts
  <2> QED
    BY <1>2, <2>1 DEF Put, Is
<1> QED
  BY <1>1, <1>2

\* A driver that restarts puts the settings of the controller back.
LEMMA ResetFacts ==
  ASSUME NEW r \in Adapter
  PROVE  [r EXCEPT !.name = "none", !.bredr = TRUE, !.adv = FALSE, !.scan = FALSE] =
           [name |-> "none", up |-> r.up, bredr |-> TRUE, adv |-> FALSE, scan |-> FALSE,
            mac |-> r.mac]
<1> DEFINE q == [r EXCEPT !.name = "none", !.bredr = TRUE, !.adv = FALSE, !.scan = FALSE]
<1>1. DOMAIN r = {"name", "up", "bredr", "adv", "scan", "mac"}
  BY DEF Adapter
<1>2. DOMAIN q = {"name", "up", "bredr", "adv", "scan", "mac"}
  BY <1>1
<1>3. /\ q.name = "none" /\ q.bredr = TRUE /\ q.adv = FALSE /\ q.scan = FALSE
      /\ q.up = r.up /\ q.mac = r.mac
  BY <1>1
<1>4. q = [x \in DOMAIN q |-> q[x]]
  OBVIOUS
<1> HIDE DEF q
<1>5. q = [name |-> q.name, up |-> q.up, bredr |-> q.bredr, adv |-> q.adv, scan |-> q.scan,
           mac |-> q.mac]
  BY <1>2, <1>4
<1> QED
  BY <1>3, <1>5 DEF q

\* What a step of the adapter's part preserves.
LEMMA WakeStep == WakeIInv /\ [Wake!Next]_wakeVars => WakeIInv'
<1> SUFFICES ASSUME WakeIInv, [Wake!Next]_wakeVars
             PROVE  WakeIInv'
  OBVIOUS
<1> USE GadgetAssumption DEF GadgetAssumption, Wake!ours, Wake!thread, Wake!bounds, Wake!Fault
<1>t. adapter \in Adapter /\ orig \in Macs
  BY DEF WakeIInv, WakeTypes
<1>f. /\ adapter.name \in names \cup {"none"} /\ adapter.up \in BOOLEAN /\ adapter.bredr \in BOOLEAN
      /\ adapter.adv \in BOOLEAN /\ adapter.scan \in BOOLEAN /\ adapter.mac \in Macs
  BY <1>t DEF Adapter
<1>g. adapter = [name |-> adapter.name, up |-> adapter.up, bredr |-> adapter.bredr,
                 adv |-> adapter.adv, scan |-> adapter.scan, mac |-> adapter.mac]
  BY <1>t DEF Adapter
<1>1. CASE Wake!StartWizard
  <2>2. WakeTypes'
    BY <1>1 DEF WakeIInv, WakeTypes, WakePlaces, Adapter, Macs, Wake!StartWizard
  <2>3. WakePlaces'
    BY <1>1 DEF WakeIInv, WakePlaces, Adapter, Macs, Wake!StartWizard
  <2>4. Borrowed'
    BY <1>1 DEF WakeIInv, WakeTypes, WakePlaces, Borrowed, Beacon, Adapter, Macs, Wake!StartWizard
  <2>5. Beacon'
    BY <1>1 DEF WakeIInv, WakeTypes, WakePlaces, Borrowed, Beacon, Adapter, Macs, Wake!StartWizard
  <2> QED
    BY <2>2, <2>3, <2>4, <2>5 DEF WakeIInv
<1>2. CASE Wake!StartServer
  <2>2. WakeTypes'
    BY <1>2 DEF WakeIInv, WakeTypes, WakePlaces, Adapter, Macs, Wake!StartServer, Wake!NoConfig
  <2>3. WakePlaces'
    BY <1>2 DEF WakeIInv, WakePlaces, Adapter, Macs, Wake!StartServer, Wake!NoConfig
  <2>4. Borrowed'
    BY <1>2
    DEF WakeIInv, WakeTypes, WakePlaces, Borrowed, Beacon, Adapter, Macs, Wake!StartServer, Wake!NoConfig
  <2>5. Beacon'
    BY <1>2
    DEF WakeIInv, WakeTypes, WakePlaces, Borrowed, Beacon, Adapter, Macs, Wake!StartServer, Wake!NoConfig
  <2> QED
    BY <2>2, <2>3, <2>4, <2>5 DEF WakeIInv
<1>3. CASE Wake!Reset
  <2>1. adapter' = [name |-> "none", up |-> Is(hci, "up", FALSE), bredr |-> TRUE,
                    adv |-> FALSE, scan |-> FALSE, mac |-> adapter.mac]
    <3>1. Wake!Told(hci, [up |-> FALSE]) =
            [name |-> adapter.name, up |-> Is(hci, "up", FALSE), bredr |-> adapter.bredr,
             adv |-> adapter.adv, scan |-> adapter.scan, mac |-> adapter.mac]
      BY <1>t, Commands
    <3>2. Is(hci, "up", FALSE) \in BOOLEAN
      BY <1>f DEF Is
    <3>3. [name |-> adapter.name, up |-> Is(hci, "up", FALSE), bredr |-> adapter.bredr,
           adv |-> adapter.adv, scan |-> adapter.scan, mac |-> adapter.mac] \in Adapter
      BY <1>f, <3>2 DEF Adapter
    <3> QED
      BY <1>3, <3>1, <3>3, ResetFacts DEF Wake!Reset
  <2>b. Is(hci, "up", FALSE) \in BOOLEAN
    BY <1>t, <1>f DEF Is
  <2>a. adapter' \in Adapter
    BY <1>t, <1>f, <2>1, <2>b DEF Adapter
  <2>2. WakeTypes'
    BY <2>a, <1>3 DEF WakeIInv, WakeTypes, WakePlaces, Wake!Reset
  <2>3. WakePlaces'
    BY <2>1, <1>3 DEF WakeIInv, WakePlaces, Adapter, Macs, Wake!Reset, Is
  <2>4. Borrowed'
    BY <2>1, <1>3
    DEF WakeIInv, WakeTypes, WakePlaces, Borrowed, Beacon, Adapter, Macs, Wake!Reset, Is
  <2>5. Beacon'
    BY <2>1, <1>3
    DEF WakeIInv, WakeTypes, WakePlaces, Borrowed, Beacon, Adapter, Macs, Wake!Reset, Is
  <2> QED
    BY <2>2, <2>3, <2>4, <2>5 DEF WakeIInv
<1>4. CASE Wake!Wait
  <2>2. WakeTypes'
    <3>1. hci' \in names
      BY <1>4, <1>f DEF WakeIInv, WakeTypes, WakePlaces, Wake!Wait, Wake!Seen
    <3> QED
      BY <1>4, <3>1 DEF WakeIInv, WakeTypes, Wake!Wait
  <2>3. WakePlaces'
    BY <1>4 DEF WakeIInv, WakePlaces, Adapter, Macs, Wake!Wait, Wake!Seen
  <2>4. Borrowed'
    BY <1>4
    DEF WakeIInv, WakeTypes, WakePlaces, Borrowed, Beacon, Adapter, Macs, Wake!Wait, Wake!Seen
  <2>5. Beacon'
    BY <1>4
    DEF WakeIInv, WakeTypes, WakePlaces, Borrowed, Beacon, Adapter, Macs, Wake!Wait, Wake!Seen
  <2> QED
    BY <2>2, <2>3, <2>4, <2>5 DEF WakeIInv
<1>5. CASE Wake!Prepare
  <2>1. adapter' = [name |-> adapter.name, up |-> Is(hci, "up", TRUE), bredr |-> Is(hci, "bredr", FALSE),
                    adv |-> Is(hci, "adv", FALSE), scan |-> Is(hci, "scan", FALSE), mac |-> adapter.mac]
    <3>1. \A b, c, d, e : Wake!Told(hci, [up |-> b, bredr |-> c, adv |-> d, scan |-> e]) =
              [name |-> adapter.name, up |-> Is(hci, "up", b), bredr |-> Is(hci, "bredr", c),
               adv |-> Is(hci, "adv", d), scan |-> Is(hci, "scan", e), mac |-> adapter.mac]
      BY <1>t, Commands
    <3> QED
      BY <1>5, <3>1, Zenon DEF Wake!Prepare
  <2>b. /\ Is(hci, "up", TRUE) \in BOOLEAN
        /\ Is(hci, "bredr", FALSE) \in BOOLEAN
        /\ Is(hci, "adv", FALSE) \in BOOLEAN
        /\ Is(hci, "scan", FALSE) \in BOOLEAN
    BY <1>t, <1>f DEF Is
  <2>a. adapter' \in Adapter
    BY <1>t, <1>f, <2>1, <2>b DEF Adapter
  <2>2. WakeTypes'
    BY <2>a, <1>5 DEF WakeIInv, WakeTypes, WakePlaces, Wake!Prepare
  <2>3. WakePlaces'
    BY <2>1, <1>5 DEF WakeIInv, WakePlaces, Adapter, Macs, Wake!Prepare, Is
  <2>4. Borrowed'
    BY <2>1, <1>5
    DEF WakeIInv, WakeTypes, WakePlaces, Borrowed, Beacon, Adapter, Macs, Wake!Prepare, Is
  <2>5. Beacon'
    BY <2>1, <1>5
    DEF WakeIInv, WakeTypes, WakePlaces, Borrowed, Beacon, Adapter, Macs, Wake!Prepare, Is
  <2> QED
    BY <2>2, <2>3, <2>4, <2>5 DEF WakeIInv
<1>6. CASE Wake!Listen
  <2>1. adapter' = [name |-> adapter.name, up |-> adapter.up, bredr |-> adapter.bredr,
                    adv |-> adapter.adv, scan |-> Is(hci, "scan", TRUE), mac |-> adapter.mac]
    BY <1>6, <1>t, Commands DEF Wake!Listen
  <2>b. Is(hci, "scan", TRUE) \in BOOLEAN
    BY <1>t, <1>f DEF Is
  <2>a. adapter' \in Adapter
    BY <1>t, <1>f, <2>1, <2>b DEF Adapter
  <2>2. WakeTypes'
    BY <2>a, <1>6 DEF WakeIInv, WakeTypes, WakePlaces, Wake!Listen
  <2>3. WakePlaces'
    BY <2>1, <1>6 DEF WakeIInv, WakePlaces, Adapter, Macs, Wake!Listen, Is
  <2>4. Borrowed'
    BY <2>1, <1>6
    DEF WakeIInv, WakeTypes, WakePlaces, Borrowed, Beacon, Adapter, Macs, Wake!Listen, Is
  <2>5. Beacon'
    BY <2>1, <1>6
    DEF WakeIInv, WakeTypes, WakePlaces, Borrowed, Beacon, Adapter, Macs, Wake!Listen, Is
  <2> QED
    BY <2>2, <2>3, <2>4, <2>5 DEF WakeIInv
<1>7. CASE Wake!Heard
  <2>1. adapter' = [name |-> adapter.name, up |-> adapter.up, bredr |-> adapter.bredr,
                    adv |-> adapter.adv, scan |-> Is(hci, "scan", FALSE), mac |-> adapter.mac]
    BY <1>7, <1>t, Commands DEF Wake!Heard
  <2>b. Is(hci, "scan", FALSE) \in BOOLEAN
    BY <1>t, <1>f DEF Is
  <2>a. adapter' \in Adapter
    BY <1>t, <1>f, <2>1, <2>b DEF Adapter
  <2>2. WakeTypes'
    BY <2>a, <1>7 DEF WakeIInv, WakeTypes, WakePlaces, Wake!Heard
  <2>3. WakePlaces'
    BY <2>1, <1>7 DEF WakeIInv, WakePlaces, Adapter, Macs, Wake!Heard, Is
  <2>4. Borrowed'
    BY <2>1, <1>7
    DEF WakeIInv, WakeTypes, WakePlaces, Borrowed, Beacon, Adapter, Macs, Wake!Heard, Is
  <2>5. Beacon'
    BY <2>1, <1>7
    DEF WakeIInv, WakeTypes, WakePlaces, Borrowed, Beacon, Adapter, Macs, Wake!Heard, Is
  <2> QED
    BY <2>2, <2>3, <2>4, <2>5 DEF WakeIInv
<1>8. CASE Wake!Save
  <2>2. WakeTypes'
    BY <1>8 DEF WakeIInv, WakeTypes, WakePlaces, Adapter, Macs, Wake!Save, Wake!NoConfig
  <2>3. WakePlaces'
    BY <1>8 DEF WakeIInv, WakePlaces, Adapter, Macs, Wake!Save, Wake!NoConfig
  <2>4. Borrowed'
    BY <1>8
    DEF WakeIInv, WakeTypes, WakePlaces, Borrowed, Beacon, Adapter, Macs, Wake!Save, Wake!NoConfig
  <2>5. Beacon'
    BY <1>8
    DEF WakeIInv, WakeTypes, WakePlaces, Borrowed, Beacon, Adapter, Macs, Wake!Save, Wake!NoConfig
  <2> QED
    BY <2>2, <2>3, <2>4, <2>5 DEF WakeIInv
<1>9. CASE Wake!WizardEnds
  <2>2. WakeTypes'
    BY <1>9 DEF WakeIInv, WakeTypes, WakePlaces, Adapter, Macs, Wake!WizardEnds
  <2>3. WakePlaces'
    BY <1>9 DEF WakeIInv, WakePlaces, Adapter, Macs, Wake!WizardEnds
  <2>4. Borrowed'
    BY <1>9 DEF WakeIInv, WakeTypes, WakePlaces, Borrowed, Beacon, Adapter, Macs, Wake!WizardEnds
  <2>5. Beacon'
    BY <1>9 DEF WakeIInv, WakeTypes, WakePlaces, Borrowed, Beacon, Adapter, Macs, Wake!WizardEnds
  <2> QED
    BY <2>2, <2>3, <2>4, <2>5 DEF WakeIInv
<1>10. CASE Wake!Restore
  <2>1. adapter' = [name |-> adapter.name, up |-> Is(hci, "up", FALSE), bredr |-> Is(hci, "bredr", TRUE),
                    adv |-> Is(hci, "adv", FALSE), scan |-> adapter.scan, mac |-> Is(hci, "mac", orig)]
    <3>1. \A b, c, d, e : Wake!Told(hci, [up |-> b, adv |-> c, bredr |-> d, mac |-> e]) =
              [name |-> adapter.name, up |-> Is(hci, "up", b), bredr |-> Is(hci, "bredr", d),
               adv |-> Is(hci, "adv", c), scan |-> adapter.scan, mac |-> Is(hci, "mac", e)]
      BY <1>t, Commands
    <3> QED
      BY <1>10, <3>1, Zenon DEF Wake!Restore, Wake!Restored
  <2>b. /\ Is(hci, "up", FALSE) \in BOOLEAN
        /\ Is(hci, "bredr", TRUE) \in BOOLEAN
        /\ Is(hci, "adv", FALSE) \in BOOLEAN
        /\ Is(hci, "mac", orig) \in Macs
    BY <1>t, <1>f DEF Is
  <2>a. adapter' \in Adapter
    BY <1>t, <1>f, <2>1, <2>b DEF Adapter
  <2>2. WakeTypes'
    BY <2>a, <1>10 DEF WakeIInv, WakeTypes, WakePlaces, Wake!Restore
  <2>3. WakePlaces'
    BY <2>1, <1>10 DEF WakeIInv, WakePlaces, Adapter, Macs, Wake!Restore, Is
  <2>4. Borrowed'
    BY <2>1, <1>10
    DEF WakeIInv, WakeTypes, WakePlaces, Borrowed, Beacon, Adapter, Macs, Wake!Restore, Is
  <2>5. Beacon'
    BY <2>1, <1>10
    DEF WakeIInv, WakeTypes, WakePlaces, Borrowed, Beacon, Adapter, Macs, Wake!Restore, Is
  <2> QED
    BY <2>2, <2>3, <2>4, <2>5 DEF WakeIInv
<1>11. CASE Wake!RestartBluez
  <2>1. adapter' = [name |-> adapter.name, up |-> Is(hci, "up", TRUE), bredr |-> adapter.bredr,
                    adv |-> adapter.adv, scan |-> adapter.scan, mac |-> adapter.mac]
    BY <1>11, <1>t, Commands DEF Wake!RestartBluez
  <2>b. Is(hci, "up", TRUE) \in BOOLEAN
    BY <1>t, <1>f DEF Is
  <2>a. adapter' \in Adapter
    BY <1>t, <1>f, <2>1, <2>b DEF Adapter
  <2>2. WakeTypes'
    BY <2>a, <1>11 DEF WakeIInv, WakeTypes, WakePlaces, Wake!RestartBluez
  <2>3. WakePlaces'
    BY <2>1, <1>11 DEF WakeIInv, WakePlaces, Adapter, Macs, Wake!RestartBluez, Is
  <2>4. Borrowed'
    BY <2>1, <1>11
    DEF WakeIInv, WakeTypes, WakePlaces, Borrowed, Beacon, Adapter, Macs, Wake!RestartBluez, Is
  <2>5. Beacon'
    BY <2>1, <1>11
    DEF WakeIInv, WakeTypes, WakePlaces, Borrowed, Beacon, Adapter, Macs, Wake!RestartBluez, Is
  <2> QED
    BY <2>2, <2>3, <2>4, <2>5 DEF WakeIInv
<1>12. CASE Wake!EnterBluetooth
  <2>1. CASE adapter.name = hci /\ adapter.mac = "joycon"
    BY <1>12, <2>1 DEF WakeIInv, WakeTypes, WakePlaces, Borrowed, Beacon, Wake!EnterBluetooth
  <2>2. CASE ~(adapter.name = hci /\ adapter.mac = "joycon")
    <3>1. adapter' = [name |-> adapter.name, up |-> Is(hci, "up", TRUE), bredr |-> adapter.bredr,
                      adv |-> adapter.adv, scan |-> adapter.scan, mac |-> adapter.mac]
      BY <1>12, <1>t, <2>2, Commands DEF Wake!EnterBluetooth
    <3>2. Is(hci, "up", TRUE) \in BOOLEAN
      BY <1>t, <1>f DEF Is
    <3>3. adapter' \in Adapter
      BY <1>t, <1>f, <3>1, <3>2 DEF Adapter
    <3>4. WakeTypes'
      BY <3>3, <1>12, <2>2 DEF WakeIInv, WakeTypes, WakePlaces, Wake!EnterBluetooth
    <3>5. WakePlaces'
      BY <1>12, <2>2 DEF WakeIInv, WakePlaces, Wake!EnterBluetooth
    <3>6. Borrowed'
      BY <1>12, <2>2 DEF WakeIInv, WakePlaces, Borrowed, Wake!EnterBluetooth
    <3>7. adapter'.adv = adapter.adv /\ adapter'.name = adapter.name
      BY <3>1
    <3>8. Beacon'
      BY <1>12, <2>2, <3>7 DEF WakeIInv, Beacon, WakePlaces, Wake!EnterBluetooth
    <3> QED
      BY <3>4, <3>5, <3>6, <3>8 DEF WakeIInv
  <2> QED
    BY <2>1, <2>2
<1>13. CASE Wake!EnterWake
  <2>1. adapter' = [name |-> adapter.name, up |-> Is(Wake!Seen(hci), "up", TRUE), bredr |-> adapter.bredr,
                    adv |-> adapter.adv, scan |-> adapter.scan, mac |-> adapter.mac]
    BY <1>13, <1>t, Commands DEF Wake!EnterWake
  <2>b. Is(Wake!Seen(hci), "up", TRUE) \in BOOLEAN
    BY <1>t, <1>f DEF Is
  <2>a. adapter' \in Adapter
    BY <1>t, <1>f, <2>1, <2>b DEF Adapter
  <2>2. WakeTypes'
    BY <1>f, <2>a, <1>13 DEF WakeIInv, WakeTypes, WakePlaces, Wake!EnterWake, Wake!Seen
  <2>3. WakePlaces'
    BY <2>1, <1>13 DEF WakeIInv, WakePlaces, Adapter, Macs, Wake!EnterWake, Is, Wake!Seen
  <2>4. Borrowed'
    BY <2>1, <1>13
    DEF WakeIInv, WakeTypes, WakePlaces, Borrowed, Beacon, Adapter, Macs, Wake!EnterWake, Is, Wake!Seen
  <2>5. Beacon'
    BY <2>1, <1>13
    DEF WakeIInv, WakeTypes, WakePlaces, Borrowed, Beacon, Adapter, Macs, Wake!EnterWake, Is, Wake!Seen
  <2> QED
    BY <2>2, <2>3, <2>4, <2>5 DEF WakeIInv
<1>14. CASE Wake!QuietDown
  <2>1. adapter' = [name |-> adapter.name, up |-> adapter.up, bredr |-> adapter.bredr,
                    adv |-> Is(hci, "adv", FALSE), scan |-> adapter.scan, mac |-> adapter.mac]
    BY <1>14, <1>t, Commands DEF Wake!QuietDown
  <2>b. Is(hci, "adv", FALSE) \in BOOLEAN
    BY <1>t, <1>f DEF Is
  <2>a. adapter' \in Adapter
    BY <1>t, <1>f, <2>1, <2>b DEF Adapter
  <2>2. WakeTypes'
    BY <2>a, <1>14 DEF WakeIInv, WakeTypes, WakePlaces, Wake!QuietDown
  <2>3. WakePlaces'
    BY <2>1, <1>14 DEF WakeIInv, WakePlaces, Adapter, Macs, Wake!QuietDown, Is
  <2>4. Borrowed'
    BY <2>1, <1>14
    DEF WakeIInv, WakeTypes, WakePlaces, Borrowed, Beacon, Adapter, Macs, Wake!QuietDown, Is
  <2>5. Beacon'
    BY <2>1, <1>14
    DEF WakeIInv, WakeTypes, WakePlaces, Borrowed, Beacon, Adapter, Macs, Wake!QuietDown, Is
  <2> QED
    BY <2>2, <2>3, <2>4, <2>5 DEF WakeIInv
<1>15. CASE Wake!End
  <2>2. WakeTypes'
    BY <1>15 DEF WakeIInv, WakeTypes, WakePlaces, Adapter, Macs, Wake!End
  <2>3. WakePlaces'
    BY <1>15 DEF WakeIInv, WakePlaces, Adapter, Macs, Wake!End
  <2>4. Borrowed'
    BY <1>15 DEF WakeIInv, WakeTypes, WakePlaces, Borrowed, Beacon, Adapter, Macs, Wake!End
  <2>5. Beacon'
    BY <1>15 DEF WakeIInv, WakeTypes, WakePlaces, Borrowed, Beacon, Adapter, Macs, Wake!End
  <2> QED
    BY <2>2, <2>3, <2>4, <2>5 DEF WakeIInv
<1>16. CASE Wake!Advertise
  <2>2. WakeTypes'
    BY <1>16 DEF WakeIInv, WakeTypes, WakePlaces, Adapter, Macs, Wake!Advertise
  <2>3. WakePlaces'
    BY <1>16 DEF WakeIInv, WakePlaces, Adapter, Macs, Wake!Advertise
  <2>4. Borrowed'
    BY <1>16 DEF WakeIInv, WakeTypes, WakePlaces, Borrowed, Beacon, Adapter, Macs, Wake!Advertise
  <2>5. Beacon'
    BY <1>16 DEF WakeIInv, WakeTypes, WakePlaces, Borrowed, Beacon, Adapter, Macs, Wake!Advertise
  <2> QED
    BY <2>2, <2>3, <2>4, <2>5 DEF WakeIInv
<1>17. CASE Wake!WorkerFind
  <2>1. adapter' = [name |-> adapter.name, up |-> Is(Wake!Seen(local), "up", TRUE), bredr |-> adapter.bredr,
                    adv |-> Is(Wake!Seen(local), "adv", FALSE), scan |-> Is(Wake!Seen(local), "scan", FALSE), mac |-> adapter.mac]
    BY <1>17, <1>t, Commands DEF Wake!WorkerFind
  <2>b. /\ Is(Wake!Seen(local), "up", TRUE) \in BOOLEAN
        /\ Is(Wake!Seen(local), "adv", FALSE) \in BOOLEAN
        /\ Is(Wake!Seen(local), "scan", FALSE) \in BOOLEAN
    BY <1>t, <1>f DEF Is
  <2>a. adapter' \in Adapter
    BY <1>t, <1>f, <2>1, <2>b DEF Adapter
  <2>2. WakeTypes'
    BY <1>f, <2>a, <1>17 DEF WakeIInv, WakeTypes, WakePlaces, Wake!WorkerFind, Wake!Seen
  <2>3. WakePlaces'
    BY <2>1, <1>17 DEF WakeIInv, WakePlaces, Adapter, Macs, Wake!WorkerFind, Is, Wake!Seen
  <2>4. Borrowed'
    BY <2>1, <1>17
    DEF WakeIInv, WakeTypes, WakePlaces, Borrowed, Beacon, Adapter, Macs, Wake!WorkerFind, Is, Wake!Seen
  <2>5. Beacon'
    BY <2>1, <1>17
    DEF WakeIInv, WakeTypes, WakePlaces, Borrowed, Beacon, Adapter, Macs, Wake!WorkerFind, Is, Wake!Seen
  <2> QED
    BY <2>2, <2>3, <2>4, <2>5 DEF WakeIInv
<1>18. CASE Wake!WorkerSet
  <2>2. WakeTypes'
    BY <1>18 DEF WakeIInv, WakeTypes, WakePlaces, Adapter, Macs, Wake!WorkerSet
  <2>3. WakePlaces'
    BY <1>18 DEF WakeIInv, WakePlaces, Adapter, Macs, Wake!WorkerSet
  <2>4. Borrowed'
    BY <1>18 DEF WakeIInv, WakeTypes, WakePlaces, Borrowed, Beacon, Adapter, Macs, Wake!WorkerSet
  <2>5. Beacon'
    BY <1>18 DEF WakeIInv, WakeTypes, WakePlaces, Borrowed, Beacon, Adapter, Macs, Wake!WorkerSet
  <2> QED
    BY <2>2, <2>3, <2>4, <2>5 DEF WakeIInv
<1>19. CASE Wake!WorkerEnable
  <2>1. adapter' = [name |-> adapter.name, up |-> adapter.up, bredr |-> adapter.bredr,
                    adv |-> Is(local, "adv", TRUE), scan |-> adapter.scan, mac |-> adapter.mac]
    BY <1>19, <1>t, Commands DEF Wake!WorkerEnable
  <2>b. Is(local, "adv", TRUE) \in BOOLEAN
    BY <1>t, <1>f DEF Is
  <2>a. adapter' \in Adapter
    BY <1>t, <1>f, <2>1, <2>b DEF Adapter
  <2>2. WakeTypes'
    BY <2>a, <1>19 DEF WakeIInv, WakeTypes, WakePlaces, Wake!WorkerEnable
  <2>3. WakePlaces'
    BY <2>1, <1>19 DEF WakeIInv, WakePlaces, Adapter, Macs, Wake!WorkerEnable, Is
  <2>4. Borrowed'
    BY <2>1, <1>19
    DEF WakeIInv, WakeTypes, WakePlaces, Borrowed, Beacon, Adapter, Macs, Wake!WorkerEnable, Is
  <2>5. Beacon'
    BY <2>1, <1>19
    DEF WakeIInv, WakeTypes, WakePlaces, Borrowed, Beacon, Adapter, Macs, Wake!WorkerEnable, Is
  <2> QED
    BY <2>2, <2>3, <2>4, <2>5 DEF WakeIInv
<1>20. CASE Wake!WorkerBurst
  <2>1. adapter' = [name |-> adapter.name, up |-> adapter.up, bredr |-> adapter.bredr,
                    adv |-> Is(local, "adv", FALSE), scan |-> adapter.scan, mac |-> adapter.mac]
    BY <1>20, <1>t, Commands DEF Wake!WorkerBurst
  <2>b. Is(local, "adv", FALSE) \in BOOLEAN
    BY <1>t, <1>f DEF Is
  <2>a. adapter' \in Adapter
    BY <1>t, <1>f, <2>1, <2>b DEF Adapter
  <2>2. WakeTypes'
    BY <2>a, <1>20 DEF WakeIInv, WakeTypes, WakePlaces, Wake!WorkerBurst
  <2>3. WakePlaces'
    BY <2>1, <1>20 DEF WakeIInv, WakePlaces, Adapter, Macs, Wake!WorkerBurst, Is
  <2>4. Borrowed'
    BY <2>1, <1>20
    DEF WakeIInv, WakeTypes, WakePlaces, Borrowed, Beacon, Adapter, Macs, Wake!WorkerBurst, Is
  <2>5. Beacon'
    BY <2>1, <1>20
    DEF WakeIInv, WakeTypes, WakePlaces, Borrowed, Beacon, Adapter, Macs, Wake!WorkerBurst, Is
  <2> QED
    BY <2>2, <2>3, <2>4, <2>5 DEF WakeIInv
<1>21. CASE Wake!WorkerClean
  <2>1. adapter' = [name |-> adapter.name, up |-> adapter.up, bredr |-> adapter.bredr,
                    adv |-> Is(hci, "adv", FALSE), scan |-> adapter.scan, mac |-> adapter.mac]
    BY <1>21, <1>t, Commands DEF Wake!WorkerClean, Wake!Cleaned
  <2>b. Is(hci, "adv", FALSE) \in BOOLEAN
    BY <1>t, <1>f DEF Is
  <2>a. adapter' \in Adapter
    BY <1>t, <1>f, <2>1, <2>b DEF Adapter
  <2>2. WakeTypes'
    BY <2>a, <1>21 DEF WakeIInv, WakeTypes, WakePlaces, Wake!WorkerClean
  <2>3. WakePlaces'
    BY <2>1, <1>21 DEF WakeIInv, WakePlaces, Adapter, Macs, Wake!WorkerClean, Is
  <2>4. Borrowed'
    BY <2>1, <1>21
    DEF WakeIInv, WakeTypes, WakePlaces, Borrowed, Beacon, Adapter, Macs, Wake!WorkerClean, Is
  <2>5. Beacon'
    BY <2>1, <1>21
    DEF WakeIInv, WakeTypes, WakePlaces, Borrowed, Beacon, Adapter, Macs, Wake!WorkerClean, Is
  <2> QED
    BY <2>2, <2>3, <2>4, <2>5 DEF WakeIInv
<1>22. CASE Wake!Stop
  <2>2. WakeTypes'
    BY <1>22 DEF WakeIInv, WakeTypes, WakePlaces, Adapter, Macs, Wake!Stop
  <2>3. WakePlaces'
    BY <1>22 DEF WakeIInv, WakePlaces, Adapter, Macs, Wake!Stop
  <2>4. Borrowed'
    BY <1>22 DEF WakeIInv, WakeTypes, WakePlaces, Borrowed, Beacon, Adapter, Macs, Wake!Stop
  <2>5. Beacon'
    BY <1>22 DEF WakeIInv, WakeTypes, WakePlaces, Borrowed, Beacon, Adapter, Macs, Wake!Stop
  <2> QED
    BY <2>2, <2>3, <2>4, <2>5 DEF WakeIInv
<1>23. CASE Wake!Reappear
  <2>1. PICK n \in names :
           adapter' = [name |-> n, up |-> bluez \/ adapter.up, bredr |-> adapter.bredr,
                       adv |-> adapter.adv, scan |-> adapter.scan, mac |-> adapter.mac]
    BY <1>23, <1>g DEF Wake!Reappear
  <2>b. (bluez \/ adapter.up) \in BOOLEAN
    OBVIOUS
  <2>a. adapter' \in Adapter
    BY <1>f, <2>1, <2>b DEF Adapter
  <2>2. WakeTypes'
    BY <1>23, <2>a DEF WakeIInv, WakeTypes, WakePlaces, Wake!Reappear
  <2>3. WakePlaces'
    BY <2>1, <1>23 DEF WakeIInv, WakePlaces, Adapter, Macs, Wake!Reappear, Wake!Seen
  <2>4. Borrowed'
    BY <2>1, <1>23
    DEF WakeIInv, WakeTypes, WakePlaces, Borrowed, Beacon, Adapter, Macs, Wake!Reappear, Wake!Seen
  <2>5. Beacon'
    BY <2>1, <1>23
    DEF WakeIInv, WakeTypes, WakePlaces, Borrowed, Beacon, Adapter, Macs, Wake!Reappear, Wake!Seen
  <2> QED
    BY <2>2, <2>3, <2>4, <2>5 DEF WakeIInv
<1>24. CASE Wake!Replug
  <2>2. WakeTypes'
    BY <1>24, ZenonT(40) DEF WakeIInv, WakeTypes, WakePlaces, Adapter, Macs, Wake!Replug
  <2>3. WakePlaces'
    BY <1>24 DEF WakeIInv, WakePlaces, Adapter, Macs, Wake!Replug
  <2>4. Borrowed'
    BY <1>24 DEF WakeIInv, WakeTypes, WakePlaces, Borrowed, Beacon, Adapter, Macs, Wake!Replug
  <2>5. Beacon'
    BY <1>24 DEF WakeIInv, WakeTypes, WakePlaces, Borrowed, Beacon, Adapter, Macs, Wake!Replug
  <2> QED
    BY <2>2, <2>3, <2>4, <2>5 DEF WakeIInv
<1>25. CASE Wake!Kill
  <2>2. WakeTypes'
    BY <1>25 DEF WakeIInv, WakeTypes, WakePlaces, Adapter, Macs, Wake!Kill
  <2>3. WakePlaces'
    BY <1>25 DEF WakeIInv, WakePlaces, Adapter, Macs, Wake!Kill
  <2>4. Borrowed'
    BY <1>25 DEF WakeIInv, WakeTypes, WakePlaces, Borrowed, Beacon, Adapter, Macs, Wake!Kill
  <2>5. Beacon'
    BY <1>25 DEF WakeIInv, WakeTypes, WakePlaces, Borrowed, Beacon, Adapter, Macs, Wake!Kill
  <2> QED
    BY <2>2, <2>3, <2>4, <2>5 DEF WakeIInv
<1>26. CASE UNCHANGED wakeVars
  BY <1>26 DEF WakeIInv, WakeTypes, WakePlaces, Borrowed, Beacon, wakeVars
<1> QED
  BY <1>1, <1>2, <1>3, <1>4, <1>5, <1>6, <1>7, <1>8, <1>9, <1>10, <1>11, <1>12, <1>13, <1>14, <1>15, <1>16, <1>17, <1>18, <1>19, <1>20, <1>21, <1>22, <1>23, <1>24, <1>25, <1>26
     DEF Wake!Next, Wake!Wizard, Wake!Main, Wake!Worker

LEMMA WakeInit == Wake!Init => WakeIInv
<1> USE GadgetAssumption DEF GadgetAssumption
<1> SUFFICES ASSUME Wake!Init
             PROVE  WakeIInv
  OBVIOUS
<1>1. PICK n \in names, a \in {"own", "joycon"} :
        adapter = [name |-> n, up |-> TRUE, bredr |-> TRUE, adv |-> FALSE, scan |-> FALSE, mac |-> a]
  BY DEF Wake!Init
<1>2. adapter \in Adapter
  BY <1>1 DEF Adapter, Macs
<1>3. /\ saved \in [hci : names \cup {"none"}, orig : Macs]
      /\ saved # Wake!NoConfig => saved.hci \in names
  <2>1. saved = [hci |-> "none", orig |-> "none"] \/ saved = [hci |-> adapter.name, orig |-> "own"]
    BY DEF Wake!Init, Wake!NoConfig
  <2> QED
    BY <1>1, <2>1 DEF Wake!NoConfig, Macs
<1>4. WakeTypes
  BY <1>2, <1>3 DEF Wake!Init, WakeTypes, Macs
<1> QED
  BY <1>1, <1>4 DEF Wake!Init, WakeIInv, WakePlaces, Borrowed, Beacon

LEMMA WakeMeans == WakeIInv => WakeInv
<1> SUFFICES ASSUME WakeIInv
             PROVE  WakeInv
  OBVIOUS
<1>1. at = "done" => proc = "wizard"
  BY DEF WakeIInv, WakeTypes, WakePlaces
<1> QED
  BY <1>1
  DEF WakeIInv, Borrowed, Beacon, WakeInv, Wake!WakeInv, Wake!GivenBack, Wake!BeaconInBurst

\* WakeInv: whatever failed, was renamed or was killed before, a wizard that is done has given
\* the adapter back, and no beacon is on the air outside a burst.
THEOREM WakeTheorem == Spec => []WakeInv
<1>1. Init => WakeIInv
  BY WakeInit DEF Init
<1>2. WakeIInv /\ [Next]_vars => WakeIInv'
  BY WakeStep DEF Next, vars
<1> QED
  BY <1>1, <1>2, WakeMeans, PTL DEF Spec

-----------------------------------------------------------------------------
(***************************************************************************)
(* The kernel driver.  Its safety properties are one conjunct each of an   *)
(* inductive invariant; it adds who waits for a transfer, who refers to    *)
(* the device in which state, and that nothing is queued before the bind.  *)
(***************************************************************************)

DriverTypes ==
  /\ state \in Driver!States
  /\ bound \in BOOLEAN /\ freed \in BOOLEAN /\ refused \in BOOLEAN
  /\ refs \in SUBSET {"open", "run", "bind"}
  /\ ep0 \in {"none", "queued", "done"} /\ transfer \in {"none", "queued", "done"}
  /\ ep \in [enabled : BOOLEAN, disabling : BOOLEAN, urb : BOOLEAN]
  /\ control \in {"init", "run", "registered", "fetch", "in", "out", "stall", "wait", "enable",
                  "disable", "disabling", "exited"}
  /\ rawWorker \in {"idle", "wait", "exited"}

\* The data endpoint has a transfer, and may not be disabled, as long as its worker waits.
TransferWaits ==
  /\ transfer = "none" <=> rawWorker # "wait"
  /\ ep.urb <=> rawWorker = "wait"
  /\ ep.disabling <=> control = "disabling"
  /\ rawWorker = "wait" => ep.enabled /\ ~ep.disabling /\ state # "CLOSED"

\* The file holds a reference until it is closed; the driver holds one more for a
\* registration, under which it was bound.
DeviceHeld ==
  /\ freed <=> refs = {}
  /\ state = "CLOSED" <=> refs = {}
  /\ state # "CLOSED" => "open" \in refs
  /\ "bind" \in refs => bound /\ (control = "registered" \/ "run" \in refs)
  /\ state = "REGISTERING" => control = "registered"
  /\ control = "registered" => state # "CLOSED"

OneWay == pending \in {{}, {"in"}, {"out"}}

BusEvents == {"connect", "in", "out", "inNoData", "reset", "suspend"}

\* raw_queue_event tests the room in the queue, gadget_bind does not need to.
QueueFits ==
  /\ rawQueue \in Seq(BusEvents) /\ Len(rawQueue) <= queueSize
  /\ ~bound => rawQueue = <<>>

DriverIInv == DriverTypes /\ TransferWaits /\ DeviceHeld /\ OneWay /\ QueueFits

LEMMA DriverStart == Driver!Init => DriverIInv
<1> SUFFICES ASSUME Driver!Init PROVE DriverIInv
  OBVIOUS
<1>1. TRUE \in BOOLEAN /\ FALSE \in BOOLEAN
  OBVIOUS
<1>2. DriverTypes /\ TransferWaits /\ DeviceHeld /\ OneWay
  BY <1>1 DEF Driver!Init, DriverTypes, TransferWaits, DeviceHeld, OneWay, Driver!States,
              Driver!Disabled
<1>3. QueueFits
  BY GadgetAssumption DEF GadgetAssumption, Driver!Init, QueueFits
<1> QED
  BY <1>2, <1>3 DEF DriverIInv

LEMMA QueueStep ==
  ASSUME DriverIInv, [Next]_vars
  PROVE  QueueFits'
<1> USE GadgetAssumption DEF GadgetAssumption, DriverIInv, QueueFits, BusEvents
<1>1. ASSUME NEW e \in BusEvents, Driver!QueueEvent(e), bound, UNCHANGED bound
      PROVE  QueueFits'
  <2>1. CASE Len(rawQueue) < queueSize
    <3>1. rawQueue' = Append(rawQueue, e)
      BY <1>1, <2>1 DEF Driver!QueueEvent
    <3>2. Append(rawQueue, e) \in Seq(BusEvents) /\ Len(Append(rawQueue, e)) = Len(rawQueue) + 1
      OBVIOUS
    <3>3. Len(rawQueue) + 1 <= queueSize
      BY <2>1
    <3> QED
      BY <1>1, <3>1, <3>2, <3>3
  <2>2. CASE ~(Len(rawQueue) < queueSize)
    BY <1>1, <2>2 DEF Driver!QueueEvent
  <2> QED
    BY <2>1, <2>2
<1>2. CASE Driver!GadgetBind
  <2>1. rawQueue = <<>> /\ rawQueue' = Append(rawQueue, "connect") /\ bound' = TRUE
    BY <1>2 DEF Driver!GadgetBind
  <2>2. Append(rawQueue, "connect") \in Seq(BusEvents) /\ Len(Append(rawQueue, "connect")) = 1
    BY <2>1
  <2> QED
    BY <2>1, <2>2
<1>3. CASE Driver!GadgetSetup
  <2>1. PICK e \in {"in", "out", "inNoData"} : Driver!QueueEvent(e)
    BY <1>3 DEF Driver!GadgetSetup
  <2>2. bound /\ UNCHANGED bound
    BY <1>3 DEF Driver!GadgetSetup, DeviceHeld
  <2> QED
    BY <1>1, <2>1, <2>2
<1>4. CASE Driver!GadgetEvent
  <2>1. PICK e \in {"reset", "suspend"} : Driver!QueueEvent(e)
    BY <1>4 DEF Driver!GadgetEvent
  <2>2. bound /\ UNCHANGED bound
    BY <1>4 DEF Driver!GadgetEvent, DeviceHeld
  <2> QED
    BY <1>1, <2>1, <2>2
<1>5. CASE Driver!EventFetch
  <2>1. rawQueue' = rawQueue \/ (rawQueue # <<>> /\ rawQueue' = Tail(rawQueue))
    BY <1>5 DEF Driver!EventFetch
  <2>2. UNCHANGED bound
    BY <1>5 DEF Driver!EventFetch, Driver!life
  <2> QED
    BY <2>1, <2>2
<1>6. CASE UNCHANGED <<bound, rawQueue>>
  BY <1>6
<1> QED
  BY <1>2, <1>3, <1>4, <1>5, <1>6
  DEF Next, vars, driverVars, Driver!Next, Driver!Controller, Driver!Control, Driver!life,
      Driver!IoctlInit, Driver!IoctlRun, Driver!Registered, Driver!Ep0Complete,
      Driver!EpComplete, Driver!Ep0Io, Driver!Ep0Done, Driver!Ep0Stall, Driver!EpEnable,
      Driver!EpDisable, Driver!EpDisabled, Driver!EpIo, Driver!EpIoDone, Driver!Release

\* What a step changes in the data endpoint.
Endpoint == [enabled : BOOLEAN, disabling : BOOLEAN, urb : BOOLEAN]

LEMMA EndpointFacts ==
  ASSUME NEW e \in Endpoint, NEW x \in BOOLEAN
  PROVE  /\ LET r == [e EXCEPT !.enabled = x] IN
            r \in Endpoint /\ r.enabled = x /\ r.disabling = e.disabling /\ r.urb = e.urb
         /\ LET r == [e EXCEPT !.disabling = x] IN
            r \in Endpoint /\ r.enabled = e.enabled /\ r.disabling = x /\ r.urb = e.urb
         /\ LET r == [e EXCEPT !.urb = x] IN
            r \in Endpoint /\ r.enabled = e.enabled /\ r.disabling = e.disabling /\ r.urb = x
  BY DEF Endpoint

LEMMA DriverStep == DriverIInv /\ [Next]_vars => DriverIInv'
<1> SUFFICES ASSUME DriverIInv, [Next]_vars PROVE DriverIInv'
  OBVIOUS
<1> DEFINE Keeps == DriverTypes' /\ TransferWaits' /\ DeviceHeld' /\ OneWay'
<1>0. TRUE \in BOOLEAN /\ FALSE \in BOOLEAN
  OBVIOUS
<1>queue. QueueFits'
  BY QueueStep
<1>ep. ep \in Endpoint
  BY DEF DriverIInv, DriverTypes, Endpoint
<1>ep2. (ep' \in Endpoint) <=> (ep' \in [enabled : BOOLEAN, disabling : BOOLEAN, urb : BOOLEAN])
  BY DEF Endpoint
<1> USE <1>0 DEF DriverIInv, DriverTypes, TransferWaits, DeviceHeld, OneWay, Driver!States,
                 Driver!endpoint, Driver!threads, Driver!life
<1>1. ASSUME Driver!IoctlInit PROVE Keeps BY <1>1 DEF Driver!IoctlInit
<1>2. ASSUME Driver!IoctlRun PROVE Keeps BY <1>2 DEF Driver!IoctlRun
<1>3. ASSUME Driver!GadgetBind PROVE Keeps BY <1>3 DEF Driver!GadgetBind
<1>4. ASSUME Driver!Registered PROVE Keeps
  <2>1. UNCHANGED <<bound, freed, refused, pending, ep0, ep, transfer, rawWorker>>
    BY <1>4 DEF Driver!Registered
  <2>2. CASE bound /\ state' = "RUNNING" /\ refs' = refs \cup {"run"} /\ control' = "fetch"
    <3>1. DriverTypes' /\ OneWay'
      BY <2>1, <2>2
    <3>2. TransferWaits'
      BY <1>4, <2>1, <2>2 DEF Driver!Registered
    <3>3. DeviceHeld'
      BY <1>4, <2>1, <2>2 DEF Driver!Registered
    <3> QED BY <3>1, <3>2, <3>3
  <2>3. CASE ~bound /\ state' = "FAILED" /\ refs' = refs /\ control' = "exited"
    <3>1. DriverTypes' /\ OneWay'
      BY <2>1, <2>3
    <3>2. TransferWaits'
      BY <1>4, <2>1, <2>3 DEF Driver!Registered
    <3>3. DeviceHeld'
      BY <1>4, <2>1, <2>3 DEF Driver!Registered
    <3> QED BY <3>1, <3>2, <3>3
  <2> QED BY <1>4, <2>2, <2>3 DEF Driver!Registered
<1>5. ASSUME Driver!GadgetSetup PROVE Keeps BY <1>5 DEF Driver!GadgetSetup, Driver!QueueEvent
<1>6. ASSUME Driver!GadgetEvent PROVE Keeps BY <1>6 DEF Driver!GadgetEvent, Driver!QueueEvent
<1>7. ASSUME Driver!Ep0Complete PROVE Keeps
  <2>1. /\ UNCHANGED <<state, bound, refs, freed, refused, ep, transfer, control, rawWorker>>
        /\ ep0' = "done"
        /\ pending' = pending \ {IF "in" \in pending THEN "in" ELSE "out"}
    BY <1>7 DEF Driver!Ep0Complete
  <2>2. DriverTypes'
    BY <2>1
  <2>3. TransferWaits' /\ DeviceHeld'
    BY <2>1
  <2>4. OneWay'
    BY <2>1
  <2> QED BY <2>2, <2>3, <2>4
<1>8. ASSUME Driver!EpComplete PROVE Keeps BY <1>8 DEF Driver!EpComplete
<1>9. ASSUME Driver!EventFetch PROVE Keeps
  <2>1. ASSUME NEW e
        PROVE  Driver!Handler(e) \subseteq {"in", "out", "stall", "disable", "fetch"}
    BY DEF Driver!Handler
  <2>2. /\ UNCHANGED <<state, bound, refs, freed, pending, ep0, ep, transfer, rawWorker>>
        /\ control = "fetch"
        /\ control' \in {"in", "out", "stall", "disable", "fetch", "exited"}
    BY <1>9, <2>1 DEF Driver!EventFetch
  <2>3. refused' \in BOOLEAN
    BY <1>9 DEF Driver!EventFetch
  <2>4. DriverTypes'
    BY <2>2, <2>3
  <2>5. TransferWaits'
    BY <2>2
  <2>6. DeviceHeld' /\ OneWay'
    BY <2>2
  <2> QED BY <2>4, <2>5, <2>6
<1>10. ASSUME Driver!Ep0Io PROVE Keeps BY <1>10 DEF Driver!Ep0Io
<1>11. ASSUME Driver!Ep0Done PROVE Keeps BY <1>11 DEF Driver!Ep0Done
<1>12. ASSUME Driver!Ep0Stall PROVE Keeps
  <2>1. /\ UNCHANGED <<state, bound, refs, freed, refused, ep0, ep, transfer, rawWorker>>
        /\ control = "stall" /\ control' = "fetch"
        /\ pending' = pending \/ pending' = pending \ {IF "in" \in pending THEN "in" ELSE "out"}
    BY <1>12 DEF Driver!Ep0Stall
  <2>2. DriverTypes'
    BY <2>1
  <2>3. TransferWaits' /\ DeviceHeld'
    BY <2>1
  <2>4. OneWay'
    BY <2>1
  <2> QED BY <2>2, <2>3, <2>4
<1>13. ASSUME Driver!EpEnable PROVE Keeps
  <2>1. /\ UNCHANGED <<state, bound, refs, freed, refused, pending, ep0, transfer, rawWorker>>
        /\ control = "enable" /\ control' = "fetch"
        /\ ep' = ep \/ ep' = [ep EXCEPT !.enabled = TRUE]
    BY <1>13 DEF Driver!EpEnable
  <2>2. /\ ep' \in Endpoint /\ ep'.disabling = ep.disabling /\ ep'.urb = ep.urb
        /\ ep.enabled => ep'.enabled
    <3>1. CASE ep' = ep
      BY <1>ep, <3>1
    <3>2. CASE ep' = [ep EXCEPT !.enabled = TRUE]
      BY <1>0, <1>ep, <3>2, EndpointFacts
    <3> QED BY <2>1, <3>1, <3>2
  <2>3. DriverTypes'
    BY <1>ep2, <2>1, <2>2
  <2>4. TransferWaits'
    BY <2>1, <2>2
  <2>5. DeviceHeld' /\ OneWay'
    BY <2>1
  <2> QED BY <2>3, <2>4, <2>5
<1>14. ASSUME Driver!EpDisable PROVE Keeps
  <2>1. UNCHANGED <<state, bound, refs, freed, refused, pending, ep0, transfer, rawWorker>>
    BY <1>14 DEF Driver!EpDisable
  <2>2. CASE ~ep.urb /\ ep' = [ep EXCEPT !.disabling = TRUE] /\ control' = "disabling"
    <3>1. rawWorker # "wait"
      BY <2>2
    <3>2. ep' \in Endpoint /\ ep'.enabled = ep.enabled /\ ep'.disabling /\ ep'.urb = ep.urb
      BY <1>0, <1>ep, <2>2, EndpointFacts
    <3>3. DriverTypes'
      BY <1>ep2, <2>1, <2>2, <3>2
    <3>4. TransferWaits'
      BY <2>1, <2>2, <3>1, <3>2
    <3>5. DeviceHeld' /\ OneWay'
      BY <1>14, <2>1, <2>2 DEF Driver!EpDisable
    <3> QED BY <3>3, <3>4, <3>5
  <2>3. CASE ep' = ep /\ control' = "fetch"
    <3>1. DriverTypes' /\ TransferWaits'
      BY <1>14, <2>1, <2>3 DEF Driver!EpDisable
    <3>2. DeviceHeld' /\ OneWay'
      BY <1>14, <2>1, <2>3 DEF Driver!EpDisable
    <3> QED BY <3>1, <3>2
  <2> QED BY <1>14, <2>2, <2>3 DEF Driver!EpDisable
<1>15. ASSUME Driver!EpDisabled PROVE Keeps
  <2> DEFINE e == [ep EXCEPT !.enabled = FALSE]
  <2>1. /\ UNCHANGED <<state, bound, refs, freed, refused, pending, ep0, transfer, rawWorker>>
        /\ control = "disabling" /\ control' = "fetch" /\ ep' = [e EXCEPT !.disabling = FALSE]
    BY <1>15 DEF Driver!EpDisabled
  <2>2. e \in Endpoint /\ e.urb = ep.urb
    BY <1>0, <1>ep, EndpointFacts
  <2> HIDE DEF e
  <2>3. ep' \in Endpoint /\ ep'.disabling = FALSE /\ ep'.urb = ep.urb
    BY <1>0, <2>1, <2>2, EndpointFacts
  <2>4. rawWorker # "wait"
    BY <2>1
  <2>5. DriverTypes'
    BY <1>ep2, <2>1, <2>3
  <2>6. TransferWaits'
    BY <2>1, <2>3, <2>4
  <2>7. DeviceHeld' /\ OneWay'
    BY <2>1
  <2> QED BY <2>5, <2>6, <2>7
<1>16. ASSUME Driver!EpIo PROVE Keeps
  <2>1. /\ UNCHANGED <<state, bound, refs, freed, refused, pending, ep0, control>>
        /\ state = "RUNNING" /\ ep.enabled /\ ~ep.disabling
        /\ ep' = [ep EXCEPT !.urb = TRUE] /\ transfer' = "queued" /\ rawWorker' = "wait"
    BY <1>16 DEF Driver!EpIo, Driver!Usable
  <2>2. ep' \in Endpoint /\ ep'.enabled = ep.enabled /\ ep'.disabling = ep.disabling /\ ep'.urb
    BY <1>0, <1>ep, <2>1, EndpointFacts
  <2>3. DriverTypes'
    BY <1>ep2, <2>1, <2>2
  <2>4. TransferWaits'
    BY <2>1, <2>2
  <2>5. DeviceHeld' /\ OneWay'
    BY <2>1
  <2> QED BY <2>3, <2>4, <2>5
<1>17. ASSUME Driver!EpIoDone PROVE Keeps
  <2>1. /\ UNCHANGED <<state, bound, refs, freed, refused, pending, ep0, control>>
        /\ ep' = [ep EXCEPT !.urb = FALSE] /\ transfer' = "none" /\ rawWorker' = "idle"
    BY <1>17 DEF Driver!EpIoDone
  <2>2. ep' \in Endpoint /\ ep'.disabling = ep.disabling /\ ep'.urb = FALSE
    BY <1>0, <1>ep, <2>1, EndpointFacts
  <2>3. DriverTypes'
    BY <1>ep2, <2>1, <2>2
  <2>4. TransferWaits'
    BY <2>1, <2>2
  <2>5. DeviceHeld' /\ OneWay'
    BY <2>1
  <2> QED BY <2>3, <2>4, <2>5
<1>18. ASSUME Driver!Release PROVE Keeps
  <2>1. /\ UNCHANGED <<bound, refused, pending, ep0, transfer>>
        /\ state' = "CLOSED" /\ control' = "exited" /\ rawWorker' = "exited"
        /\ control # "registered" /\ control # "disabling" /\ rawWorker # "wait"
        /\ state # "CLOSED" /\ freed' = (refs' = {})
    BY <1>18 DEF Driver!Release, Driver!InIoctl
  <2>2. refs' = {}
    BY <1>18, <2>1 DEF Driver!Release
  <2>3. ep' = Driver!Disabled
    BY <1>18, <2>2 DEF Driver!Release
  <2>4. ep' \in Endpoint /\ ep'.urb = FALSE /\ ep'.disabling = FALSE
    BY <1>0, <2>3 DEF Endpoint, Driver!Disabled
  <2>5. freed' = TRUE /\ transfer' = "none"
    BY <2>1, <2>2
  <2>6. DriverTypes' /\ OneWay'
    BY <1>ep2, <2>1, <2>2, <2>4, <2>5
  <2>7. TransferWaits'
    BY <2>1, <2>4, <2>5
  <2>8. DeviceHeld'
    BY <2>1, <2>2, <2>5
  <2> QED BY <2>6, <2>7, <2>8
<1>19. ASSUME UNCHANGED driverVars PROVE Keeps BY <1>19 DEF driverVars
<1> QED
  BY <1>1, <1>2, <1>3, <1>4, <1>5, <1>6, <1>7, <1>8, <1>9, <1>10, <1>11, <1>12, <1>13,
     <1>14, <1>15, <1>16, <1>17, <1>18, <1>19, <1>queue
  DEF Next, vars, Driver!Next, Driver!Controller, Driver!Control

LEMMA DriverAlways == Spec => []DriverIInv
<1>1. Init => DriverIInv
  BY DriverStart DEF Init
<1> QED
  BY <1>1, DriverStep, PTL DEF Spec

\* The controller never works on a request that could be freed with its endpoint or with
\* the device (raw_process_ep_io, raw_ioctl_ep_disable, dev_free).
LEMMA TransferSafe == DriverIInv => Driver!RequestOutlivesTransfer
  BY DEF DriverIInv, DriverTypes, TransferWaits, DeviceHeld, Driver!RequestOutlivesTransfer

\* The device is freed with its last reference (kref_put, dev_free).
LEMMA FreedWithLast == DriverIInv => Driver!FreedLast
  BY DEF DriverIInv, DeviceHeld, Driver!FreedLast

\* A control request never waits in both directions (ep0_in_pending, ep0_out_pending).
LEMMA OneRequest == DriverIInv => Driver!OneDirection
<1>1. Driver!Cardinality(pending) = Cardinality(pending)
  BY DEF Driver!Cardinality, Cardinality
<1> SUFFICES ASSUME DriverIInv PROVE Cardinality(pending) <= 1
  BY <1>1 DEF Driver!OneDirection
<1>2. CASE pending = {}
  BY <1>2, FS_EmptySet
<1>3. CASE \E d \in {"in", "out"} : pending = {d}
  <2>1. PICK d : pending = {d}
    BY <1>3
  <2> QED
    BY <2>1, FS_Singleton
<1> QED
  BY <1>2, <1>3 DEF DriverIInv, OneWay

\* The kernel module's state is well formed and its queue of events in bounds, a request is
\* freed after its transfer and the device with its last reference, and endpoint 0 waits in
\* one direction at most, whatever the length of the queue.
THEOREM DriverTheorem == Spec => []DriverSafe
<1>1. DriverIInv => Driver!TypeOK
  BY DEF DriverIInv, DriverTypes, OneWay, QueueFits, Driver!TypeOK, Driver!States
<1>2. DriverIInv => DriverSafe
  BY <1>1, TransferSafe, FreedWithLast, OneRequest DEF DriverSafe
<1> QED
  BY <1>2, DriverAlways, PTL
=============================================================================
