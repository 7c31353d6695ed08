-------------------------- MODULE SessionsProofs --------------------------
(***************************************************************************)
(* Proofs about Sessions, for any number of endpoints, slots and releasing *)
(* threads and any interleaving of them.                                   *)
(*                                                                         *)
(* OneSessionPerEndpoint, InputFromOwner and DormantOnlyByMacro are not    *)
(* inductive: what the UDP loop does with a slot is right only because of  *)
(* what it found out before.  LookupStaysTrue says that this knowledge     *)
(* survives the steps of the other threads.                                *)
(***************************************************************************)
EXTENDS Sessions, TLAPS

\* A session of a UDP client has an endpoint for an address, the packet being handled
\* is of the kind its place in the loop says, and a releaser that stops macros is at
\* a slot.
Shape ==
  /\ \A i \in Slots : session[i].active /\ session[i].source = "Udp" =>
       session[i].addr \in Endpoints
  /\ udp.pc = "allocate" => udp.slot = NoSlot
  /\ udp.pc \in {"forget", "drop"} <=> udp.kind = "disconnect"

\* The parts of the invariant other than the types.
Core == /\ Shape /\ LookupStaysTrue /\ OneSessionPerEndpoint
        /\ InputFromOwner /\ DormantOnlyByMacro

IInv == TypeOK /\ Core

\* Slot numbers, and the places of a release walking the table.
LEMMA SlotFacts == /\ Slots \subseteq Nat /\ NoSlot \notin Slots /\ 1 \in Slots
                   /\ \A i \in Slots : i \in 0..(MaxClients + 1) /\ i + 1 \in 0..(MaxClients + 1)
                   /\ 1 \in 0..(MaxClients + 1) /\ NoSlot \in 0..(MaxClients + 1)
  BY SessionsAssumption DEF Slots, NoSlot

\* The initial state satisfies the invariant.
LEMMA InitInv == Init => IInv
<1> SUFFICES ASSUME Init PROVE IInv
  OBVIOUS
<1> USE SlotFacts DEF Init, UdpIdle, SweepIdle
<1>1. TypeOK
  BY DEF TypeOK, Session, EmptySession, Sources, PacketKinds, UdpPcs
<1>2. Shape
  BY DEF Shape, EmptySession
<1>3. \A i \in Slots : ~session[i].active
  BY DEF EmptySession
<1> QED
  BY <1>1, <1>2, <1>3 DEF IInv, Core, LookupStaysTrue, OneSessionPerEndpoint, InputFromOwner,
                          DormantOnlyByMacro, OwnedByUdp

\* Every step keeps every variable in its type.
LEMMA TypeInductive == TypeOK /\ [Next]_vars => TypeOK'
<1> SUFFICES ASSUME TypeOK, [Next]_vars PROVE TypeOK'
  OBVIOUS
<1> USE SlotFacts
<1>e. EmptySession \in Session
  BY DEF EmptySession, Session, Sources
<1>n. \A e \in Endpoints \cup {NoOne} : \A b \in BOOLEAN : NewSession("Udp", e, b) \in Session
  BY DEF NewSession, Session, Sources, Clients
<1>u. \A i \in Slots : \A s \in Session : [session EXCEPT ![i] = s] \in [Slots -> Session]
  BY DEF TypeOK
<1>h. ASSUME NEW i \in Slots, NEW c \in Clients \cup {NoOne}
      PROVE  Heard(session[i]) \in Session /\ Reporting(session[i], c) \in Session
  <2>1. session[i] \in Session
    BY DEF TypeOK
  <2>2. Heard(session[i]) \in Session
    BY <2>1 DEF Heard, Session
  <2>3. Reporting(session[i], c) \in Session
    BY <2>1 DEF Reporting, Session
  <2> QED
    BY <2>2, <2>3
<1>i. ASSUME NEW i \in Slots, NEW b \in BOOLEAN
      PROVE  [session EXCEPT ![i].idle = b] \in [Slots -> Session]
  <2>1. session[i] \in Session
    BY DEF TypeOK
  <2>2. [session[i] EXCEPT !.idle = b] \in Session
    BY <2>1 DEF Session
  <2> QED
    BY <2>2, <1>u
<1>m. UdpIdle.pc = "idle" /\ UdpIdle \in [pc : UdpPcs, kind : PacketKinds,
                              from : Endpoints \cup {NoOne}, slot : Slots \cup {NoSlot}]
  BY DEF UdpIdle, UdpPcs, PacketKinds
<1>f. ForgetDormant(udp.from) \in [Slots -> Endpoints \cup {NoOne}]
  BY DEF ForgetDormant, TypeOK
<1>c. ASSUME NEW i \in Slots, CloseSlot(i)
      PROVE  session' \in [Slots -> Session] /\ macro' \in [Slots -> Clients \cup {NoOne}]
  BY <1>c, <1>e, <1>u DEF CloseSlot, TypeOK
<1>1. ASSUME NEW e \in Endpoints, ReceiveController(e) PROVE TypeOK'
  BY <1>1 DEF ReceiveController, ReceiveKnown, ReceiveNew, TypeOK, UdpPcs, PacketKinds
<1>2. ASSUME NEW e \in Endpoints, ReceiveMacro(e) PROVE TypeOK'
  <2>1. session' \in [Slots -> Session]
    BY <1>2, <1>h, <1>u DEF ReceiveMacro, TypeOK
  <2> QED
    BY <1>2, <2>1 DEF ReceiveMacro, TypeOK, UdpPcs, PacketKinds
<1>3. ASSUME NEW e \in Endpoints, ReceiveDisconnect(e) PROVE TypeOK'
  BY <1>3 DEF ReceiveDisconnect, TypeOK, UdpPcs, PacketKinds
<1>4. ASSUME NEW e \in Endpoints, Crash(e) \/ Return(e) PROVE TypeOK'
  BY <1>4 DEF Crash, Return, TypeOK
<1>5. CASE Allocate
  <2>1. session' \in [Slots -> Session]
    BY <1>5, <1>n, <1>u, ZenonT(40) DEF Allocate, TypeOK
  <2> QED
    BY <1>5, <2>1, <1>m DEF Allocate, TypeOK, UdpPcs
<1>6. CASE Welcome
  BY <1>6, <1>f DEF Welcome, TypeOK, UdpPcs
<1>7. CASE Apply
  <2>0. udp.slot \in Slots
    BY <1>7 DEF Apply, TypeOK
  <2>1. udp.from \in Endpoints \cup {NoOne} /\ udp.from \in Clients \cup {NoOne}
        /\ session[udp.slot].byMacro \in BOOLEAN
    BY <2>0 DEF TypeOK, Session, Clients
  <2>2. session' \in [Slots -> Session]
    <3>1. CASE UNCHANGED session
      BY <3>1 DEF TypeOK
    <3>2. CASE session' = [session EXCEPT
                 ![udp.slot] = NewSession("Udp", udp.from, session[udp.slot].byMacro)]
      BY <3>2, <2>0, <2>1, <1>n, <1>u
    <3>3. CASE session' = [session EXCEPT
                 ![udp.slot] = Reporting(session[udp.slot], udp.from)]
      BY <3>3, <2>0, <2>1, <1>h, <1>u
    <3> QED
      BY <1>7, <3>1, <3>2, <3>3 DEF Apply
  <2> QED
    BY <1>7, <2>2, <1>m DEF Apply, TypeOK
<1>8. CASE RefusePair
  BY <1>8, <1>c, <1>m DEF RefusePair, TypeOK
<1>9. CASE StartMacro
  BY <1>9, <1>m DEF StartMacro, TypeOK, Clients
<1>10. CASE DisconnectForget
  BY <1>10, <1>f, <1>m DEF DisconnectForget, TypeOK, UdpPcs
<1>11. CASE DisconnectDrop
  BY <1>11, <1>c, <1>m DEF DisconnectDrop, TypeOK
<1>12. ASSUME NEW i \in Slots, Silence(i) PROVE TypeOK'
  BY <1>12, <1>i DEF Silence, TypeOK
<1>13. CASE PortLive \/ WriterLook
  <2>1. CASE PortLive
    BY <2>1 DEF PortLive, TypeOK
  <2>2. CASE WriterLook
    <3>1. writer \in Slots /\ (session' = session \/ session' = [session EXCEPT ![writer] = EmptySession])
      BY <2>2 DEF WriterLook
    <3>2. session' \in [Slots -> Session]
      BY <3>1, <1>e, <1>u DEF TypeOK
    <3>3. writer' \in Slots \cup {NoSlot}
      BY <2>2, SessionsAssumption DEF WriterLook, Slots
    <3> QED
      BY <2>2, <3>2, <3>3 DEF WriterLook, TypeOK
  <2> QED
    BY <1>13, <2>1, <2>2
<1>14. ASSUME NEW i \in Slots, MacroEnds(i) PROVE TypeOK'
  BY <1>14 DEF MacroEnds, TypeOK
<1>15. ASSUME NEW r \in Releasers, BeginRelease(r) PROVE TypeOK'
  BY <1>15 DEF BeginRelease, TypeOK
<1>16. ASSUME NEW r \in Releasers, ReleaseSlot(r) PROVE TypeOK'
  <2> DEFINE i == sweep[r].at
  <2>0. i \in Slots
    BY <1>16 DEF ReleaseSlot
  <2>1. session' \in [Slots -> Session]
    BY <1>16, <2>0, <1>e, <1>u DEF ReleaseSlot, TypeOK
  <2>2. dormant' \in [Slots -> Endpoints \cup {NoOne}]
    <3>1. session[i].addr \in Endpoints \cup {NoOne}
      BY <2>0 DEF TypeOK, Session
    <3> QED
      BY <1>16, <2>0, <3>1 DEF ReleaseSlot, TypeOK
  <2>3. sweep' \in [Releasers -> [at : 0..(MaxClients + 1), stopping : BOOLEAN,
                                 released : BOOLEAN]]
    <3> DEFINE Sweep == [at : 0..(MaxClients + 1), stopping : BOOLEAN, released : BOOLEAN]
    <3>1. sweep \in [Releasers -> Sweep] /\ i + 1 \in 0..(MaxClients + 1)
      BY <2>0 DEF TypeOK
    <3>2. NextSlot(r) \in Sweep
      BY <3>1 DEF NextSlot
    <3>3. [at |-> i, stopping |-> TRUE, released |-> TRUE] \in Sweep
      BY <3>1
    <3>4. \A t \in Sweep : [sweep EXCEPT ![r] = t] \in [Releasers -> Sweep]
      BY <3>1
    <3> HIDE DEF Sweep
    <3> QED
      BY <1>16, <3>2, <3>3, <3>4 DEF ReleaseSlot, Sweep
  <2> QED
    BY <1>16, <2>1, <2>2, <2>3 DEF ReleaseSlot, TypeOK
<1>17. ASSUME NEW r \in Releasers, ReleaseStopMacros(r) PROVE TypeOK'
  <2> DEFINE i == sweep[r].at
             Sweep == [at : 0..(MaxClients + 1), stopping : BOOLEAN, released : BOOLEAN]
  <2>1. i \in Slots /\ i + 1 \in 0..(MaxClients + 1) /\ sweep \in [Releasers -> Sweep]
    BY <1>17, SlotFacts DEF ReleaseStopMacros, TypeOK
  <2>2. NextSlot(r) \in Sweep
    BY <2>1 DEF NextSlot
  <2>3. sweep' \in [Releasers -> Sweep]
    <3> HIDE DEF Sweep
    <3> QED
      BY <1>17, <2>1, <2>2 DEF ReleaseStopMacros
  <2>4. macro' \in [Slots -> Clients \cup {NoOne}]
    BY <1>17, <2>1 DEF ReleaseStopMacros, TypeOK
  <2> QED
    BY <1>17, <2>3, <2>4 DEF ReleaseStopMacros, TypeOK
<1>18. ASSUME NEW r \in Releasers, EndRelease(r) PROVE TypeOK'
  BY <1>18 DEF EndRelease, SweepIdle, TypeOK
<1>19. CASE UNCHANGED vars
  BY <1>19 DEF vars, TypeOK
<1> QED
  BY <1>1, <1>2, <1>3, <1>4, <1>5, <1>6, <1>7, <1>8, <1>9, <1>10, <1>11, <1>12, <1>13,
     <1>14, <1>15, <1>16, <1>17, <1>18, <1>19 DEF Next, UdpStep, ReleaseStep

-----------------------------------------------------------------------------
(***************************************************************************)
(* The invariant, step by step.                                            *)
(***************************************************************************)

\* What a step that neither touches sessions, nor the dormant table, nor the UDP loop
\* does to the invariant: nothing.
LEMMA CoreFrame ==
  ASSUME Core, UNCHANGED <<session, dormant, udp>>
  PROVE  Core'
  BY DEF Core, Shape, LookupStaysTrue, OneSessionPerEndpoint, InputFromOwner,
         DormantOnlyByMacro, OwnedByUdp, Dormant

\* Emptying a slot takes sessions away and changes no other.
LEMMA EmptyOwned ==
  ASSUME TypeOK, NEW i \in Slots,
         session' = [session EXCEPT ![i] = EmptySession]
  PROVE  /\ ~session'[i].active
         /\ \A j \in Slots : j # i => session'[j] = session[j]
         /\ \A j \in Slots : \A e \in Endpoints :
              OwnedByUdp(j, e)' => OwnedByUdp(j, e) /\ j # i
  BY DEF TypeOK, EmptySession, OwnedByUdp

\* Emptying a slot keeps the parts of the invariant about sessions, if no entry is
\* added to the dormant table.
LEMMA EmptySessionKeeps ==
  ASSUME TypeOK, Core, NEW i \in Slots,
         session' = [session EXCEPT ![i] = EmptySession],
         UNCHANGED dormant
  PROVE  /\ OneSessionPerEndpoint' /\ InputFromOwner' /\ DormantOnlyByMacro'
         /\ UNCHANGED udp => Core'
         /\ udp' = UdpIdle => Core'
<1> USE DEF Core
<1>1. /\ ~session'[i].active
      /\ \A j \in Slots : j # i => session'[j] = session[j]
      /\ \A j \in Slots : \A e \in Endpoints : OwnedByUdp(j, e)' => OwnedByUdp(j, e) /\ j # i
  BY EmptyOwned
<1>2. OneSessionPerEndpoint'
  BY <1>1 DEF OneSessionPerEndpoint
<1>3. InputFromOwner'
  BY <1>1 DEF InputFromOwner
<1>4. DormantOnlyByMacro'
  BY <1>1 DEF DormantOnlyByMacro, Dormant
<1>5. ASSUME UNCHANGED udp PROVE Core'
  <2>1. Shape'
    BY <1>1, <1>5 DEF Shape
  <2>2. LookupStaysTrue'
    BY <1>1, <1>5 DEF LookupStaysTrue, Dormant, OwnedByUdp
  <2> QED
    BY <1>2, <1>3, <1>4, <2>1, <2>2
<1>6. ASSUME udp' = UdpIdle PROVE Core'
  <2>1. Shape'
    BY <1>1, <1>6 DEF Shape, UdpIdle
  <2>2. LookupStaysTrue'
    BY <1>6 DEF LookupStaysTrue, UdpIdle
  <2> QED
    BY <1>2, <1>3, <1>4, <2>1, <2>2
<1> QED
  BY <1>2, <1>3, <1>4, <1>5, <1>6

\* Packets at the door: the loop learns where the sender's session is.
LEMMA ReceiveKeeps ==
  ASSUME TypeOK, Core, NEW e \in Endpoints,
         ReceiveController(e) \/ ReceiveMacro(e) \/ ReceiveDisconnect(e)
  PROVE  Core'
<1> USE DEF Core
<1>0. udp.pc = "idle" /\ UNCHANGED dormant
  BY DEF ReceiveController, ReceiveKnown, ReceiveNew, ReceiveMacro, ReceiveDisconnect
<1>1. /\ \A j \in Slots : session'[j].active = session[j].active
                         /\ session'[j].source = session[j].source
                         /\ session'[j].addr = session[j].addr
                         /\ session'[j].report = session[j].report
                         /\ session'[j].byMacro = session[j].byMacro
  <2>1. CASE UNCHANGED session
    BY <2>1
  <2>2. ASSUME NEW i \in Slots, session' = [session EXCEPT ![i] = Heard(session[i])]
        PROVE  <1>1
    BY <2>2 DEF TypeOK, Session, Heard
  <2> QED
    BY <2>1, <2>2 DEF ReceiveController, ReceiveKnown, ReceiveNew, ReceiveMacro, ReceiveDisconnect
<1>2. \A j \in Slots : \A f \in Endpoints : OwnedByUdp(j, f)' <=> OwnedByUdp(j, f)
  BY <1>1 DEF OwnedByUdp
<1>3. OneSessionPerEndpoint' /\ InputFromOwner' /\ DormantOnlyByMacro'
  BY <1>0, <1>1, <1>2 DEF OneSessionPerEndpoint, InputFromOwner, DormantOnlyByMacro, Dormant
<1>4. Shape'
  BY <1>1 DEF Shape, ReceiveController, ReceiveKnown, ReceiveNew, ReceiveMacro, ReceiveDisconnect
<1>5. LookupStaysTrue'
  <2>1. udp'.from = e
    BY DEF ReceiveController, ReceiveKnown, ReceiveNew, ReceiveMacro, ReceiveDisconnect
  <2>2. \A j \in Slots : OwnedByUdp(j, e) => j = udp'.slot
    BY DEF ReceiveController, ReceiveKnown, ReceiveNew, ReceiveMacro, ReceiveDisconnect,
           HasSession, OneSessionPerEndpoint
  <2>3. udp'.slot \in Slots => OwnedByUdp(udp'.slot, e)
    BY SlotFacts DEF ReceiveController, ReceiveKnown, ReceiveNew, ReceiveMacro, ReceiveDisconnect
  <2>4. udp'.pc = "allocate" /\ udp'.kind # "macro" => ~Dormant(e)
    BY DEF ReceiveController, ReceiveKnown, ReceiveNew, ReceiveMacro, ReceiveDisconnect
  <2>5. Dormant(e)' <=> Dormant(e)
    BY <1>0 DEF Dormant
  <2> QED
    BY <1>2, <2>1, <2>2, <2>3, <2>4, <2>5 DEF LookupStaysTrue
<1> QED
  BY <1>3, <1>4, <1>5

\* A slot is given to an endpoint that has none.
LEMMA AllocateKeeps ==
  ASSUME TypeOK, Core, Allocate
  PROVE  Core'
<1> USE DEF Core
<1>p. PICK e \in Endpoints : e = udp.from
  BY DEF Allocate, LookupStaysTrue
<1>0. /\ udp.pc = "allocate" /\ e = udp.from /\ ~HasSession(e)
      /\ udp.kind # "macro" => ~Dormant(e)
      /\ UNCHANGED dormant
  BY <1>p, SlotFacts DEF Allocate, LookupStaysTrue, Shape, HasSession
<1>1. CASE UNCHANGED session /\ udp' = UdpIdle
  BY <1>0, <1>1 DEF Shape, LookupStaysTrue, OneSessionPerEndpoint, InputFromOwner,
         DormantOnlyByMacro, OwnedByUdp, Dormant, UdpIdle
<1>2. ASSUME NEW i \in Slots,
             session' = [session EXCEPT ![i] = NewSession("Udp", e, udp.kind = "macro")],
             udp' = [udp EXCEPT !.pc = IF udp.kind = "macro" THEN "macro" ELSE "welcome",
                                !.slot = i]
      PROVE  Core'
  <2>1. /\ session'[i] = NewSession("Udp", e, udp.kind = "macro")
        /\ \A j \in Slots : j # i => session'[j] = session[j]
    BY <1>2 DEF TypeOK
  <2>2. /\ \A f \in Endpoints : OwnedByUdp(i, f)' <=> f = e
        /\ \A j \in Slots : \A f \in Endpoints :
             j # i => (OwnedByUdp(j, f)' <=> OwnedByUdp(j, f) /\ f # e)
    BY <1>0, <2>1 DEF OwnedByUdp, NewSession, HasSession
  <2>3. /\ udp'.from = e /\ udp'.slot = i /\ udp'.pc \in {"macro", "welcome"}
        /\ udp'.kind = udp.kind
    BY <1>0, <1>2 DEF TypeOK
  <2>4. Shape'
    BY <1>0, <2>1, <2>3 DEF Shape, NewSession
  <2>5. LookupStaysTrue'
    BY <1>0, <2>2, <2>3 DEF LookupStaysTrue
  <2>6. OneSessionPerEndpoint'
    BY <2>2 DEF OneSessionPerEndpoint
  <2>7. InputFromOwner'
    BY <2>1 DEF InputFromOwner, NewSession
  <2>8. DormantOnlyByMacro'
    <3>1. \A f \in Endpoints : Dormant(f)' <=> Dormant(f)
      BY <1>0 DEF Dormant
    <3>2. ASSUME udp.kind = "macro" PROVE session'[i].byMacro
      <4>1. (udp.kind = "macro") = TRUE
        BY <3>2, Zenon
      <4>2. session'[i] = NewSession("Udp", e, TRUE)
        BY <2>1, <4>1
      <4> QED
        BY <4>2 DEF NewSession
    <3>3. ASSUME Dormant(e)' PROVE session'[i].byMacro
      BY <1>0, <3>1, <3>2, <3>3
    <3>4. ASSUME NEW j \in Slots, NEW f \in Endpoints, j # i,
                 OwnedByUdp(j, f)', Dormant(f)'
          PROVE  session'[j].byMacro
      BY <2>1, <2>2, <3>1, <3>4 DEF DormantOnlyByMacro
    <3> QED
      BY <2>2, <3>3, <3>4 DEF DormantOnlyByMacro
  <2> QED
    BY <2>4, <2>5, <2>6, <2>7, <2>8
<1> QED
  BY <1>0, <1>1, <1>2 DEF Allocate

\* Endpoints leave the dormant table: nobody becomes dormant.
LEMMA ForgetKeeps ==
  ASSUME TypeOK, Core, Welcome \/ DisconnectForget
  PROVE  Core'
<1> USE DEF Core
<1>1. UNCHANGED session /\ \A e \in Endpoints : Dormant(e)' => Dormant(e)
  BY SessionsAssumption DEF Welcome, DisconnectForget, ForgetDormant, Dormant
<1>2. /\ udp'.from = udp.from /\ udp'.slot = udp.slot /\ udp'.pc \in {"apply", "drop"}
         /\ udp'.kind = udp.kind /\ (udp'.pc = "drop" <=> udp.kind = "disconnect")
      \/ udp' = UdpIdle
  BY DEF Welcome, DisconnectForget, TypeOK, Shape
<1>3. OneSessionPerEndpoint' /\ InputFromOwner' /\ DormantOnlyByMacro'
  BY <1>1 DEF OneSessionPerEndpoint, InputFromOwner, DormantOnlyByMacro, OwnedByUdp
<1>4. Shape'
  BY <1>1, <1>2 DEF Shape, UdpIdle
<1>5. LookupStaysTrue'
  BY <1>1, <1>2 DEF LookupStaysTrue, UdpIdle, OwnedByUdp, Welcome, DisconnectForget
<1> QED
  BY <1>3, <1>4, <1>5

\* A packet is applied to a slot that is the sender's, or inactive.
LEMMA ApplyKeeps ==
  ASSUME TypeOK, Core, Apply
  PROVE  Core'
<1> USE DEF Core
<1> DEFINE i == udp.slot
           e == udp.from
<1>0. i \in Slots /\ e \in Endpoints /\ UNCHANGED dormant /\ udp' = UdpIdle
  BY DEF Apply, TypeOK, LookupStaysTrue
<1>1. CASE UNCHANGED session
  BY <1>0, <1>1 DEF Shape, LookupStaysTrue, OneSessionPerEndpoint, InputFromOwner,
         DormantOnlyByMacro, OwnedByUdp, Dormant, UdpIdle
<1>2. ASSUME session[i].active,
             \/ session' = [session EXCEPT ![i] = NewSession("Udp", e, session[i].byMacro)]
             \/ session' = [session EXCEPT ![i] = Reporting(session[i], e)]
      PROVE  Core'
  <2>1. /\ session'[i].active /\ session'[i].source = "Udp" /\ session'[i].addr = e
        /\ session'[i].byMacro = session[i].byMacro
        /\ session'[i].report \in {NoOne, e}
        /\ \A j \in Slots : j # i => session'[j] = session[j]
    <3>1. OwnedByUdp(i, e)
      BY <1>0, <1>2 DEF LookupStaysTrue, Apply
    <3>2. CASE session' = [session EXCEPT ![i] = NewSession("Udp", e, session[i].byMacro)]
      BY <1>0, <3>2 DEF NewSession, TypeOK
    <3>3. CASE session' = [session EXCEPT ![i] = Reporting(session[i], e)]
      BY <1>0, <3>1, <3>3 DEF Reporting, TypeOK, Session, OwnedByUdp
    <3> QED
      BY <1>2, <3>2, <3>3
  <2>2. \A j \in Slots : \A f \in Endpoints : OwnedByUdp(j, f)' <=> OwnedByUdp(j, f)
    BY <1>0, <1>2, <2>1 DEF OwnedByUdp, LookupStaysTrue, Apply
  <2>3. Shape'
    BY <1>0, <2>1 DEF Shape, UdpIdle
  <2>4. LookupStaysTrue'
    BY <1>0 DEF LookupStaysTrue, UdpIdle
  <2>5. OneSessionPerEndpoint' /\ InputFromOwner'
    BY <2>1, <2>2 DEF OneSessionPerEndpoint, InputFromOwner
  <2>6. DormantOnlyByMacro'
    BY <1>0, <2>1, <2>2 DEF DormantOnlyByMacro, Dormant
  <2> QED
    BY <2>3, <2>4, <2>5, <2>6
<1> QED
  BY <1>1, <1>2 DEF Apply

\* Time passes, or the writer drops a silent session.
LEMMA WriterKeeps ==
  ASSUME TypeOK, Core, (\E i \in Slots : Silence(i)) \/ WriterLook
  PROVE  Core'
<1> USE DEF Core
<1>1. ASSUME NEW i \in Slots, Silence(i) PROVE Core'
  <2>1. /\ \A j \in Slots : session'[j].active = session[j].active
                           /\ session'[j].source = session[j].source
                           /\ session'[j].addr = session[j].addr
                           /\ session'[j].report = session[j].report
                           /\ session'[j].byMacro = session[j].byMacro
        /\ UNCHANGED <<dormant, udp>>
    BY <1>1 DEF Silence, TypeOK, Session
  <2>2. \A j \in Slots : \A f \in Endpoints : OwnedByUdp(j, f)' <=> OwnedByUdp(j, f)
    BY <2>1 DEF OwnedByUdp
  <2>3. \A f \in Endpoints : Dormant(f)' <=> Dormant(f)
    BY <2>1 DEF Dormant
  <2>4. Shape' /\ LookupStaysTrue'
    BY <2>1, <2>2, <2>3 DEF Shape, LookupStaysTrue
  <2>5. OneSessionPerEndpoint' /\ InputFromOwner' /\ DormantOnlyByMacro'
    BY <2>1, <2>2, <2>3 DEF OneSessionPerEndpoint, InputFromOwner, DormantOnlyByMacro
  <2> QED
    BY <2>4, <2>5
<1>2. CASE WriterLook
  BY <1>2, EmptySessionKeeps, CoreFrame DEF WriterLook
<1> QED
  BY <1>1, <1>2

\* A release makes an endpoint dormant in the step that ends its only session.
LEMMA ReleaseKeeps ==
  ASSUME TypeOK, Core, NEW r \in Releasers, ReleaseSlot(r)
  PROVE  Core'
<1> USE DEF Core
<1>p. PICK i \in Slots : i = sweep[r].at
  BY DEF ReleaseSlot
<1>0. i \in Slots /\ UNCHANGED udp
  BY DEF ReleaseSlot
<1>1. CASE UNCHANGED <<session, dormant>>
  BY <1>0, <1>1, CoreFrame
<1>2. CASE session' = [session EXCEPT ![i] = EmptySession] /\ UNCHANGED dormant
  BY <1>0, <1>2, EmptySessionKeeps
<1>3. ASSUME session[i].active, session[i].source = "Udp",
             session' = [session EXCEPT ![i] = EmptySession],
             NEW j \in Slots, dormant' = [dormant EXCEPT ![j] = session[i].addr]
      PROVE  Core'
  <2>1. PICK e \in Endpoints : e = session[i].addr /\ OwnedByUdp(i, e)
    BY <1>0, <1>3 DEF Shape, OwnedByUdp
  <2>2. /\ ~session'[i].active
        /\ \A k \in Slots : k # i => session'[k] = session[k]
        /\ \A k \in Slots : \A f \in Endpoints : OwnedByUdp(k, f)' => OwnedByUdp(k, f) /\ k # i
    BY <1>0, <1>3, EmptyOwned
  <2>3. \A f \in Endpoints : Dormant(f)' => Dormant(f) \/ f = e
    BY <1>3, <2>1 DEF Dormant, TypeOK
  <2>4. \A k \in Slots : ~OwnedByUdp(k, e)'
    BY <1>0, <2>1, <2>2 DEF OneSessionPerEndpoint
  <2>5. Shape'
    BY <1>0, <2>2 DEF Shape
  <2>6. LookupStaysTrue'
    <3>1. SUFFICES ASSUME udp.pc # "idle" PROVE LookupStaysTrue'
      BY <1>0 DEF LookupStaysTrue
    <3>2. udp.pc = "allocate" /\ udp.kind # "macro" => udp.from # e
      BY <1>0, <2>1, <3>1, SlotFacts DEF LookupStaysTrue, Shape
    <3> QED
      BY <1>0, <2>2, <2>3, <3>1, <3>2 DEF LookupStaysTrue, OwnedByUdp
  <2>7. OneSessionPerEndpoint' /\ InputFromOwner'
    BY <2>2 DEF OneSessionPerEndpoint, InputFromOwner
  <2>8. DormantOnlyByMacro'
    BY <2>2, <2>3, <2>4 DEF DormantOnlyByMacro
  <2> QED
    BY <2>5, <2>6, <2>7, <2>8
<1> QED
  BY <1>p, <1>1, <1>2, <1>3 DEF ReleaseSlot

\* Every step keeps the strengthened invariant.
LEMMA CoreInductive == TypeOK /\ Core /\ [Next]_vars => Core'
<1> SUFFICES ASSUME TypeOK, Core, [Next]_vars PROVE Core'
  OBVIOUS
<1>1. ASSUME NEW e \in Endpoints, ReceiveController(e) \/ ReceiveMacro(e) \/ ReceiveDisconnect(e)
      PROVE  Core'
  BY <1>1, ReceiveKeeps
<1>2. ASSUME NEW e \in Endpoints, Crash(e) \/ Return(e) PROVE Core'
  BY <1>2, CoreFrame DEF Crash, Return
<1>3. CASE Allocate
  BY <1>3, AllocateKeeps
<1>4. CASE Welcome \/ DisconnectForget
  BY <1>4, ForgetKeeps
<1>5. CASE Apply
  BY <1>5, ApplyKeeps
<1>6. CASE RefusePair \/ DisconnectDrop
  <2>1. udp.slot \in Slots
    BY <1>6 DEF RefusePair, DisconnectDrop, TypeOK
  <2> QED
    BY <1>6, <2>1, EmptySessionKeeps DEF RefusePair, DisconnectDrop, CloseSlot
<1>7. CASE StartMacro
  BY <1>7 DEF StartMacro, Core, Shape, LookupStaysTrue, OneSessionPerEndpoint, InputFromOwner,
              DormantOnlyByMacro, OwnedByUdp, Dormant, UdpIdle
<1>8. CASE WriterLook \/ \E i \in Slots : Silence(i)
  BY <1>8, WriterKeeps
<1>9. CASE PortLive \/ \E i \in Slots : MacroEnds(i)
  BY <1>9, CoreFrame DEF PortLive, MacroEnds
<1>10. ASSUME NEW r \in Releasers, ReleaseSlot(r) PROVE Core'
  BY <1>10, ReleaseKeeps
<1>11. ASSUME NEW r \in Releasers, BeginRelease(r) \/ ReleaseStopMacros(r) \/ EndRelease(r)
       PROVE  Core'
  BY <1>11, CoreFrame DEF BeginRelease, ReleaseStopMacros, EndRelease
<1>12. CASE UNCHANGED vars
  BY <1>12, CoreFrame DEF vars
<1> QED
  BY <1>1, <1>2, <1>3, <1>4, <1>5, <1>6, <1>7, <1>8, <1>9, <1>10, <1>11, <1>12
     DEF Next, UdpStep, ReleaseStep

-----------------------------------------------------------------------------
(***************************************************************************)
(* The theorems.                                                           *)
(***************************************************************************)

\* The session table is consistent in every reachable state: Core is what the code of
\* the UDP loop relies on between two of its steps.
THEOREM Invariance == Spec => []IInv
<1>1. Init => IInv
  BY InitInv
<1>2. IInv /\ [Next]_vars => IInv'
  BY TypeInductive, CoreInductive DEF IInv
<1> QED
  BY <1>1, <1>2, PTL DEF Spec

\* Types, and the slot numbers the UDP loop uses as indices, are right.
THEOREM TypeCorrect == Spec => []TypeOK
<1>1. IInv => TypeOK
  BY DEF IInv
<1> QED
  BY <1>1, Invariance, PTL

\* The UDP loop acts on what it looked up, after other threads have run, as if no
\* time had passed.
THEOREM LookupCorrect == Spec => []LookupStaysTrue
<1>1. IInv => LookupStaysTrue
  BY DEF IInv, Core
<1> QED
  BY <1>1, Invariance, PTL

\* An endpoint never holds two sessions.
THEOREM OneSession == Spec => []OneSessionPerEndpoint
<1>1. IInv => OneSessionPerEndpoint
  BY DEF IInv, Core
<1> QED
  BY <1>1, Invariance, PTL

\* The console only plays reports of the endpoint that holds the session.
THEOREM OwnerInput == Spec => []InputFromOwner
<1>1. IInv => InputFromOwner
  BY DEF IInv, Core
<1> QED
  BY <1>1, Invariance, PTL

\* Controller packets never let a dormant endpoint back in.
THEOREM DormantBlocked == Spec => []DormantOnlyByMacro
<1>1. IInv => DormantOnlyByMacro
  BY DEF IInv, Core
<1> QED
  BY <1>1, Invariance, PTL

\* An entry leaves the dormant table by the endpoint's own doing, or because the
\* table is full.
THEOREM DormantLeaves == Spec => DormantLeavesOnEdge
<1> DEFINE A(e) == Dormant(e) /\ ~Dormant(e)' =>
                     \/ udp.pc \in {"forget", "welcome"} /\ udp.from = e
                     \/ \A i \in Slots : dormant[i] # NoOne
<1>1. ASSUME TypeOK, [Next]_vars, NEW e \in Endpoints PROVE A(e)
  <2>1. CASE Welcome \/ DisconnectForget
    BY <2>1 DEF Welcome, DisconnectForget, ForgetDormant, Dormant
  <2>2. ASSUME NEW r \in Releasers, ReleaseSlot(r) PROVE A(e)
    <3>1. CASE UNCHANGED dormant
      BY <3>1 DEF Dormant
    <3>2. ASSUME NEW i \in Slots, NEW j \in Slots, NEW f, DormantEntry(j, i, f),
                 dormant' = [dormant EXCEPT ![j] = f]
          PROVE  A(e)
      <4>1. dormant[j] \in {NoOne, f} \/ \A k \in Slots : dormant[k] # NoOne
        BY <3>2 DEF DormantEntry
      <4>2. CASE dormant[j] \in {NoOne, f}
        <5>1. e # NoOne
          BY SessionsAssumption
        <5>2. ASSUME Dormant(e) PROVE Dormant(e)'
          BY <3>2, <4>2, <5>1, <5>2 DEF Dormant, TypeOK
        <5> QED
          BY <5>2
      <4> QED
        BY <4>1, <4>2
    <3> QED
      BY <2>2, <3>1, <3>2 DEF ReleaseSlot
  <2>3. CASE UNCHANGED dormant
    BY <2>3 DEF Dormant
  <2> QED
    BY <1>1, <2>1, <2>2, <2>3 DEF Next, ReceiveController, ReceiveKnown, ReceiveNew, ReceiveMacro,
       ReceiveDisconnect, Crash, Return, UdpStep, Allocate, Apply, RefusePair, StartMacro,
       DisconnectDrop, CloseSlot, Silence, PortLive, WriterLook, MacroEnds, BeginRelease, ReleaseStep,
       ReleaseStopMacros, EndRelease, vars
<1>2. IInv /\ [Next]_vars => [\A e \in Endpoints : A(e)]_vars
  BY <1>1 DEF IInv
<1> QED
  BY <1>2, Invariance, PTL DEF Spec, DormantLeavesOnEdge

\* FLAG_DISCONNECT leaves its sender without a session and without a macro.
THEOREM DisconnectComplete == Spec => DisconnectFrees
<1> DEFINE A == \A e \in Endpoints : \A i \in Slots \cup {NoSlot} :
                  DisconnectDone(e) /\ udp.slot = i =>
                    /\ ~HasSession(e)'
                    /\ i # NoSlot => macro'[i] = NoOne
<1>1. ASSUME IInv, [Next]_vars PROVE A
  <2>1. SUFFICES ASSUME NEW e \in Endpoints, NEW i \in Slots \cup {NoSlot},
                        DisconnectDone(e), udp.slot = i
                 PROVE  ~HasSession(e)' /\ (i # NoSlot => macro'[i] = NoOne)
    OBVIOUS
  <2>2. /\ udp.pc \in {"forget", "drop"} /\ udp.from = e /\ udp'.pc = "idle"
        /\ \A j \in Slots : OwnedByUdp(j, e) => j = i
    BY <1>1, <2>1 DEF DisconnectDone, IInv, Core, Shape, LookupStaysTrue
  <2>3. DisconnectForget \/ DisconnectDrop
    BY <1>1, <2>2 DEF Next, ReceiveController, ReceiveKnown, ReceiveNew, ReceiveMacro,
       ReceiveDisconnect, Crash, Return, UdpStep, Allocate, Welcome, Apply, RefusePair, StartMacro,
       Silence, PortLive, WriterLook, MacroEnds, BeginRelease, ReleaseStep, ReleaseSlot,
       ReleaseStopMacros, EndRelease, vars
  <2>4. CASE DisconnectForget
    <3>1. i = NoSlot /\ UNCHANGED session
      BY <2>1, <2>2, <2>4 DEF DisconnectForget
    <3> QED
      BY <2>2, <3>1, SlotFacts DEF HasSession, OwnedByUdp
  <2>5. CASE DisconnectDrop
    <3>1. /\ i \in Slots /\ session' = [session EXCEPT ![i] = EmptySession]
          /\ macro' = [macro EXCEPT ![i] = NoOne]
      BY <1>1, <2>1, <2>5 DEF DisconnectDrop, CloseSlot, IInv, TypeOK
    <3>2. \A j \in Slots : OwnedByUdp(j, e)' => OwnedByUdp(j, e) /\ j # i
      BY <1>1, <3>1, EmptyOwned DEF IInv
    <3>3. macro'[i] = NoOne
      BY <1>1, <3>1 DEF IInv, TypeOK
    <3> QED
      BY <2>2, <3>2, <3>3 DEF HasSession
  <2> QED
    BY <2>3, <2>4, <2>5
<1>2. IInv /\ [Next]_vars => [A]_vars
  BY <1>1
<1> QED
  BY <1>2, Invariance, PTL DEF Spec, DisconnectFrees

=============================================================================
