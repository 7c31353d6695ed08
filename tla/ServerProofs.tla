---------------------------- MODULE ServerProofs ----------------------------
(***************************************************************************)
(* Proofs about MCServer: the gadget in configfs across the processes that *)
(* set it up, repair it, take it down or die over it, for any number of    *)
(* HID functions, of failures and of processes; the change of family, for  *)
(* any number of slots and clients; and the sleep of the console, for any  *)
(* number of threads that poll for it.                                     *)
(*                                                                         *)
(* A gadget is seen whole because nothing it consists of changes while it  *)
(* is bound, except by the removal of its first link, which unbinds it.    *)
(* So the invariant says which steps of a setup find it unbound, and what  *)
(* of it exists before the step that binds it.                             *)
(*                                                                         *)
(* A client that plays while another asks for a family is found because    *)
(* the slots behind the scan hold nobody who was there when it began, and  *)
(* who is there from then on is found when the scan comes to the slot.     *)
(*                                                                         *)
(* A client that comes while the console sleeps is not forgotten because   *)
(* one poller at a time is between confirming the sleep and its end, and   *)
(* the sleep stays confirmed meanwhile, which lets the wake through.       *)
(***************************************************************************)
EXTENDS MCServer, TLAPS

Identities == {"s1", "hori", "s2"}

\* The types of what the proof reads: the family of this process and of the next ones.
Named ==
  /\ family \in Identities
  /\ pending \in Identities \union {"none"} /\ target \in Identities \union {"none"}

\* A gadget that the console sees is whole.
Whole == bound => dir /\ linked = hidPorts /\ attrs \in Identities

\* What the next step of a setup or a teardown finds: the gadget is built, taken apart and
\* left to /dev/raw-gadget unbound, and is bound with its directory and its attributes.
Staged ==
  /\ at \in {"remove", "make", "link", "raw"} => ~bound
  /\ at = "link" => dir /\ attrs \in Identities
  /\ at \in {"unbind", "raw"} => family = "s2"

\* /dev/raw-gadget is open in a process that is neither starting nor leaving, while nobody
\* builds in configfs, and no legacy process opens it.
RawAlone ==
  raw => /\ ~bound /\ family = "s2" /\ at \in {"no", "ready"}
         /\ main \in {"setup", "sockets", "run", "request", "stop"}

LifecycleIInv == Named /\ Whole /\ Staged /\ RawAlone /\ Life!OneBuilder

-----------------------------------------------------------------------------
(***************************************************************************)
(* The steps of a setup and of a teardown.                                 *)
(***************************************************************************)

\* Every step of Build keeps the invariant.
LEMMA BuildKeeps ==
  ASSUME LifecycleIInv, Life!Build
  PROVE  LifecycleIInv'
<1> USE DEF LifecycleIInv, Named, Whole, Staged, RawAlone, Identities, Life!OneBuilder
<1>1. CASE Life!Look
  BY <1>1 DEF Life!Look, Life!configfs, Life!requests
<1>2. CASE Life!Unlink
  <2>1. ~bound'
    BY <1>2, LifecycleAssumption DEF Life!Unlink
  <2> QED
    BY <1>2, <2>1 DEF Life!Unlink, Life!requests
<1>3. CASE Life!Remove
  BY <1>3 DEF Life!Remove, Life!requests
<1>4. CASE Life!Make
  BY <1>4 DEF Life!Make, Life!Unless, Life!requests
<1>5. CASE Life!Link
  BY <1>5 DEF Life!Link, Life!Unless, Life!requests
<1>6. CASE Life!Bind
  BY <1>6 DEF Life!Bind, Life!Complete, Life!Unless, Life!requests
<1>7. CASE Life!Await
  BY <1>7 DEF Life!Await, Life!configfs, Life!requests
<1>8. CASE Life!Unbind
  BY <1>8 DEF Life!Unbind, Life!requests
<1>9. CASE Life!RunRaw
  BY <1>9 DEF Life!RunRaw, Life!Unless, Life!configfs, Life!requests
<1> QED
  BY <1>1, <1>2, <1>3, <1>4, <1>5, <1>6, <1>7, <1>8, <1>9 DEF Life!Build

-----------------------------------------------------------------------------
(***************************************************************************)
(* The process.                                                            *)
(***************************************************************************)

\* A new process: no raw gadget is open when it starts, and its own setup begins.
LEMMA FreshKeeps ==
  ASSUME LifecycleIInv, NEW f \in Identities, Life!Fresh(f), main \in {"none", "exited", "teardown"},
         UNCHANGED <<dir, attrs, linked, bound, nodes, raw>>
  PROVE  LifecycleIInv'
<1> USE DEF LifecycleIInv, Named, Whole, Staged, RawAlone, Identities, Life!OneBuilder
<1>1. ~raw /\ ~raw'
  OBVIOUS
<1>2. family' = f /\ main' = "setup" /\ at' = (IF f = "s2" THEN "unbind" ELSE "look")
      /\ pending' = "none" /\ target' = "none"
  BY DEF Life!Fresh
<1> QED
  BY <1>1, <1>2

\* Every step of main keeps the invariant.
LEMMA MainKeeps ==
  ASSUME LifecycleIInv, Life!Main
  PROVE  LifecycleIInv'
<1> USE DEF LifecycleIInv, Named, Whole, Staged, RawAlone, Identities, Life!OneBuilder
<1>1. CASE Life!SetUp
  BY <1>1 DEF Life!SetUp, Life!configfs, Life!requests
<1>2. CASE Life!Sockets
  BY <1>2 DEF Life!Sockets, Life!configfs, Life!requests
<1>3. CASE Life!Leave
  BY <1>3 DEF Life!Leave, Life!configfs, Life!requests
<1>4. CASE Life!Join
  BY <1>4 DEF Life!Join, Life!configfs, Life!requests
<1>5. CASE Life!Restart
  <2>1. main = "teardown" /\ UNCHANGED <<dir, attrs, linked, bound, nodes, raw>>
    BY <1>5 DEF Life!Restart, Life!configfs
  <2>2. CASE pending # "none" /\ Life!Fresh(pending)
    BY <2>1, <2>2, FreshKeeps
  <2>3. CASE target # "none" /\ Life!Fresh(target)
    BY <2>1, <2>3, FreshKeeps
  <2>4. CASE Life!Exit
    BY <2>1, <2>4 DEF Life!Exit
  <2> QED
    BY <1>5, <2>2, <2>3, <2>4 DEF Life!Restart
<1>6. CASE Life!AnswerUdp
  BY <1>6 DEF Life!AnswerUdp, Life!Families, Life!configfs, Life!requests
<1> QED
  BY <1>1, <1>2, <1>3, <1>4, <1>5, <1>6 DEF Life!Main

\* Every step of the writer thread keeps the invariant: it sets up a legacy gadget only.
LEMMA WriterKeeps ==
  ASSUME LifecycleIInv, Life!Writer \/ Life!WriterRebuilds
  PROVE  LifecycleIInv'
<1> USE DEF LifecycleIInv, Named, Whole, Staged, RawAlone, Identities, Life!OneBuilder,
            Life!configfs, Life!requests, Life!Legacy
<1>1. CASE Life!WriterOpen
  BY <1>1 DEF Life!WriterOpen, Life!Repairs
<1>2. CASE Life!WriterFails
  BY <1>2 DEF Life!WriterFails
<1>3. CASE Life!WriterSetUp
  BY <1>3 DEF Life!WriterSetUp
<1>4. CASE Life!WriterEnds
  BY <1>4 DEF Life!WriterEnds
<1>5. CASE Life!WriterRebuilds
  BY <1>5 DEF Life!WriterRebuilds
<1> QED
  BY <1>1, <1>2, <1>3, <1>4, <1>5 DEF Life!Writer

\* Clients, signals, the kernel, and whoever kills the process or unbinds the gadget.
LEMMA OthersKeep ==
  ASSUME LifecycleIInv,
         \/ Life!NodesAppear \/ Life!RequestUdp \/ Life!RequestWeb \/ Life!Signal
         \/ Life!Die \/ Life!Unplugged
  PROVE  LifecycleIInv'
<1> USE DEF LifecycleIInv, Named, Whole, Staged, RawAlone, Identities, Life!OneBuilder,
            Life!configfs, Life!requests
<1>1. CASE Life!NodesAppear
  BY <1>1 DEF Life!NodesAppear
<1>2. CASE Life!RequestUdp
  BY <1>2 DEF Life!RequestUdp
<1>3. CASE Life!RequestWeb
  BY <1>3 DEF Life!RequestWeb, Life!Families
<1>4. CASE Life!Signal
  BY <1>4 DEF Life!Signal
<1>5. CASE Life!Die
  BY <1>5 DEF Life!Die
<1>6. CASE Life!Unplugged
  BY <1>6 DEF Life!Unplugged
<1> QED
  BY <1>1, <1>2, <1>3, <1>4, <1>5, <1>6

\* The inductive step for the lifecycle, and its rest while another part runs.
LEMMA LifeKeeps ==
  ASSUME LifecycleIInv, [MCNext]_MCvars
  PROVE  LifecycleIInv'
<1>1. CASE Life!Next
  <2>1. CASE Life!Start
    <3>1. PICK f \in Identities : Life!Fresh(f)
      BY <2>1 DEF Life!Start, Life!Families, Identities
    <3> QED
      BY <2>1, <3>1, FreshKeeps DEF Life!Start, Life!configfs
  <2> QED
    BY <1>1, <2>1, BuildKeeps, MainKeeps, WriterKeeps, OthersKeep DEF Life!Next
<1>2. CASE UNCHANGED lifeVars
  BY <1>2 DEF LifecycleIInv, Named, Whole, Staged, RawAlone, Life!OneBuilder, lifeVars
<1> QED
  BY <1>1, <1>2 DEF MCNext, MCvars

-----------------------------------------------------------------------------
(***************************************************************************)
(* The change of family.                                                   *)
(***************************************************************************)

Asking   == {"udp", "web"}
Everyone == hosts \cup pages \cup {nobody}
Sessions == [by : Everyone, quiet : BOOLEAN]
Scans    == [by : Everyone, at : 0..(slotCount + 1)]

\* The types of what the scan reads.
ChangeTypes ==
  /\ table \in [1..slotCount -> Sessions]
  /\ remembered \in [pages -> 0..slotCount]
  /\ scan \in [Asking -> Scans]
  /\ steady \in [Asking -> SUBSET (1..slotCount)]

\* Whoever plays on since the scan began is there, and heard of.
SteadyPlay == \A t \in Asking : \A i \in steady[t] : table[i].by # nobody /\ ~table[i].quiet

\* Behind the scan only those play on since it began that do not count.
BehindIsExempt ==
  \A t \in Asking : \A i \in steady[t] : i < scan[t].at => Change!Exempt(t, i)

ChangeIInv == ChangeTypes /\ SteadyPlay /\ BehindIsExempt

\* A session is stored in a slot: who plays on since a scan began is where he was.
LEMMA StoreKeeps ==
  ASSUME ChangeIInv, NEW i \in 1..slotCount, NEW s \in Sessions, Change!Becomes(i, s),
         scan' = scan, remembered' \in [pages -> 0..slotCount],
         \/ remembered' = remembered
         \/ scan["web"].at = 0
  PROVE  ChangeIInv'
<1> USE DEF ChangeIInv
<1>1. /\ table' = [table EXCEPT ![i] = s]
      /\ steady' = [t \in Asking |-> {j \in steady[t] : j # i \/ (s.by = table[i].by /\ ~s.quiet)}]
  BY DEF Change!Becomes, Change!Threads, Asking
<1>2. ChangeTypes'
  BY <1>1 DEF ChangeTypes
<1>3. ASSUME NEW t \in Asking, NEW j \in steady'[t]
      PROVE  /\ j \in 1..slotCount /\ j \in steady[t] /\ table'[j].by = table[j].by
             /\ ~table'[j].quiet
  <2>1. j \in steady[t] /\ (j # i \/ (s.by = table[i].by /\ ~s.quiet))
    BY <1>1, <1>3
  <2>2. j \in 1..slotCount /\ ~table[j].quiet
    BY <2>1 DEF ChangeTypes, SteadyPlay
  <2>3. table'[j] = IF j = i THEN s ELSE table[j]
    BY <1>1, <2>2 DEF ChangeTypes
  <2> QED
    BY <2>1, <2>2, <2>3
<1>4. SteadyPlay'
  BY <1>3 DEF SteadyPlay
<1>5. ASSUME NEW t \in Asking, NEW j \in steady'[t], j < scan'[t].at
      PROVE  Change!Exempt(t, j)'
  <2>1. Change!Exempt(t, j)
    BY <1>3, <1>5 DEF BehindIsExempt
  <2>2. CASE t = "udp"
    BY <1>3, <2>1, <2>2 DEF Change!Exempt
  <2>3. CASE t = "web"
    <3>1. scan["web"].at # 0
      BY <1>3, <1>5, <2>3 DEF ChangeTypes, Scans
    <3>2. remembered' = remembered
      BY <3>1
    <3> QED
      BY <2>1, <2>3, <3>2 DEF Change!Exempt
  <2> QED
    BY <2>2, <2>3 DEF Asking
<1> QED
  BY <1>2, <1>4, <1>5 DEF BehindIsExempt

\* A thread takes up a request, looks at the next slot, or is done.
LEMMA ScanKeeps ==
  ASSUME ChangeIInv, slotCount \in Nat, NEW t \in Asking,
         (\E c \in Change!Clients(t) : Change!Ask(t, c)) \/ Change!Look(t) \/ Change!Reply(t)
  PROVE  ChangeIInv'
<1> USE DEF ChangeIInv
<1>0. UNCHANGED <<table, remembered>>
  BY DEF Change!Ask, Change!Look, Change!Reply
<1>1. CASE \E c \in Change!Clients(t) : Change!Ask(t, c)
  <2>1. PICK c \in Change!Clients(t) : Change!Ask(t, c)
    BY <1>1
  <2>2. /\ scan' = [scan EXCEPT ![t] = [by |-> c, at |-> 1]]
        /\ steady' = [steady EXCEPT ![t] = {i \in 1..slotCount : Change!Plays(i)}]
    BY <2>1 DEF Change!Ask, Change!Slots
  <2>3. c \in Everyone
    BY DEF Change!Clients, Everyone
  <2>4. ChangeTypes'
    BY <1>0, <2>2, <2>3 DEF ChangeTypes, Scans
  <2>5. SteadyPlay'
    BY <1>0, <2>2 DEF SteadyPlay, ChangeTypes, Change!Plays
  <2>6. ASSUME NEW u \in Asking, NEW i \in steady'[u], i < scan'[u].at
        PROVE  Change!Exempt(u, i)'
    <3>1. CASE u = t
      <4>1. i \in 1..slotCount /\ scan'[u].at = 1
        BY <2>2, <2>6, <3>1 DEF ChangeTypes
      <4> QED
        BY <2>6, <4>1
    <3>2. CASE u # t
      BY <1>0, <2>2, <2>6, <3>2 DEF ChangeTypes, BehindIsExempt, Change!Exempt
    <3> QED
      BY <3>1, <3>2
  <2> QED
    BY <2>4, <2>5, <2>6 DEF BehindIsExempt
<1>2. ASSUME scan' = [scan EXCEPT ![t] = Change!NoScan], steady' = steady
      PROVE  ChangeIInv'
  <2>1. Change!NoScan \in Scans /\ Change!NoScan.at = 0
    BY DEF Change!NoScan, Scans, Everyone
  <2>2. ChangeTypes'
    BY <1>0, <1>2, <2>1 DEF ChangeTypes
  <2>3. SteadyPlay'
    BY <1>0, <1>2 DEF SteadyPlay
  <2>4. ASSUME NEW u \in Asking, NEW i \in steady'[u], i < scan'[u].at
        PROVE  Change!Exempt(u, i)'
    <3>1. CASE u = t
      <4>1. i \in 1..slotCount /\ scan'[u].at = 0
        BY <1>2, <2>1, <2>4, <3>1 DEF ChangeTypes
      <4> QED
        BY <2>4, <4>1
    <3>2. CASE u # t
      BY <1>0, <1>2, <2>4, <3>2 DEF ChangeTypes, BehindIsExempt, Change!Exempt
    <3> QED
      BY <3>1, <3>2
  <2> QED
    BY <2>2, <2>3, <2>4 DEF BehindIsExempt
<1>3. CASE Change!Look(t)
  <2> DEFINE k == scan[t].at
  <2>1. k \in 1..slotCount /\ steady' = steady
    BY <1>3 DEF Change!Look, Change!Slots
  <2>2. CASE /\ Change!Blocks(t, k) => table[k].quiet
             /\ scan' = [scan EXCEPT ![t].at = k + 1]
    <3>1. scan[t] \in Scans /\ k + 1 \in 0..(slotCount + 1)
      BY <2>1 DEF ChangeTypes
    <3>2. /\ scan'[t] = [scan[t] EXCEPT !.at = k + 1]
          /\ \A u \in Asking : u # t => scan'[u] = scan[u]
      BY <2>2 DEF ChangeTypes
    <3>3. /\ [scan[t] EXCEPT !.at = k + 1] \in Scans
          /\ [scan[t] EXCEPT !.at = k + 1].by = scan[t].by
          /\ [scan[t] EXCEPT !.at = k + 1].at = k + 1
      <4> HIDE DEF k
      <4> QED
        BY <3>1 DEF Scans
    <3>4. /\ scan'[t].by = scan[t].by /\ scan'[t].at = k + 1 /\ scan'[t] \in Scans
          /\ \A u \in Asking : u # t => scan'[u] = scan[u]
      BY <3>2, <3>3
    <3>5. ChangeTypes'
      BY <1>0, <2>1, <2>2, <3>4 DEF ChangeTypes
    <3>6. SteadyPlay'
      BY <1>0, <2>1 DEF SteadyPlay
    <3>7. ASSUME NEW u \in Asking, NEW i \in steady'[u], i < scan'[u].at
          PROVE  Change!Exempt(u, i)'
      <4>1. i \in steady[u] /\ i \in 1..slotCount
        BY <2>1 DEF ChangeTypes
      <4>2. CASE u = t /\ i = k
        <5>1. ~Change!Blocks(t, i) /\ table[i].by # nobody
          BY <2>2, <4>1, <4>2 DEF SteadyPlay
        <5>2. Change!Exempt(t, i)
          BY <5>1 DEF Change!Blocks
        <5> QED
          BY <1>0, <3>4, <4>2, <5>2 DEF Change!Exempt
      <4>3. CASE u = t /\ i # k
        <5>1. i < scan[t].at
          BY <2>1, <3>4, <3>7, <4>1, <4>3
        <5> QED
          BY <1>0, <3>4, <4>1, <4>3, <5>1 DEF BehindIsExempt, Change!Exempt
      <4>4. CASE u # t
        BY <1>0, <3>4, <3>7, <4>1, <4>4 DEF BehindIsExempt, Change!Exempt
      <4> QED
        BY <4>2, <4>3, <4>4
    <3> QED
      BY <3>5, <3>6, <3>4, <3>7 DEF BehindIsExempt
  <2> QED
    BY <1>2, <1>3, <2>1, <2>2 DEF Change!Look
<1>4. CASE Change!Reply(t)
  BY <1>2, <1>4 DEF Change!Reply
<1> QED
  BY <1>1, <1>3, <1>4

\* The inductive step for the change of family, and its rest while another part runs.
LEMMA ChangeKeeps ==
  ASSUME ChangeIInv, [MCNext]_MCvars
  PROVE  ChangeIInv'
<1>1. CASE Change!Next
  <2>1. ASSUME NEW i \in 1..slotCount, NEW h \in hosts, Change!PlayUdp(h, i)
        PROVE  ChangeIInv'
    BY <2>1, StoreKeeps DEF Change!PlayUdp, Sessions, Everyone, ChangeIInv, ChangeTypes
  <2>2. ASSUME NEW i \in 1..slotCount, NEW p \in pages, Change!PlayWeb(p, i)
        PROVE  ChangeIInv'
    <3>1. remembered' \in [pages -> 0..slotCount]
      BY <2>2, FamilyAssumption DEF Change!PlayWeb, ChangeIInv, ChangeTypes
    <3> QED
      BY <2>2, <3>1, StoreKeeps DEF Change!PlayWeb, Change!Idle, Sessions, Everyone
  <2>3. ASSUME NEW i \in 1..slotCount, Change!Silence(i)
        PROVE  ChangeIInv'
    <3>1. [table[i] EXCEPT !.quiet = TRUE] \in Sessions
      BY DEF ChangeIInv, ChangeTypes, Sessions
    <3> QED
      BY <2>3, <3>1, StoreKeeps DEF Change!Silence, ChangeIInv, ChangeTypes
  <2>4. ASSUME NEW i \in 1..slotCount, Change!End(i)
        PROVE  ChangeIInv'
    BY <2>4, StoreKeeps DEF Change!End, Change!Free, Sessions, Everyone, ChangeIInv, ChangeTypes
  <2>5. ASSUME NEW p \in pages, Change!Forget(p)
        PROVE  ChangeIInv'
    <3>1. /\ scan["web"].at = 0 /\ UNCHANGED <<table, scan, steady>>
          /\ remembered' \in [pages -> 0..slotCount]
      BY <2>5, FamilyAssumption DEF Change!Forget, Change!Idle, Change!NoSlot, ChangeIInv, ChangeTypes
    <3>2. ASSUME NEW t \in Asking, NEW i \in steady[t], i < scan[t].at
          PROVE  Change!Exempt(t, i)'
      <4>1. t # "web" /\ Change!Exempt(t, i)
        BY <3>1, <3>2 DEF ChangeIInv, ChangeTypes, BehindIsExempt
      <4> QED
        BY <3>1, <4>1 DEF Change!Exempt, Asking
    <3> QED
      BY <3>1, <3>2 DEF ChangeIInv, ChangeTypes, SteadyPlay, BehindIsExempt
  <2>6. CASE Change!Restart
    <3>1. /\ table' = [i \in 1..slotCount |-> Change!Free]
          /\ remembered' = [p \in pages |-> 0] /\ scan' = scan
          /\ steady' = [t \in Asking |-> {}]
      BY <2>6 DEF Change!Restart, Change!Slots, Change!NoSlot, Change!Threads, Asking
    <3>2. Change!Free \in Sessions /\ 0 \in 0..slotCount
      BY FamilyAssumption DEF Change!Free, Sessions, Everyone
    <3> QED
      BY <3>1, <3>2 DEF ChangeIInv, ChangeTypes, SteadyPlay, BehindIsExempt
  <2> QED
    BY <1>1, <2>1, <2>2, <2>3, <2>4, <2>5, <2>6, ScanKeeps, FamilyAssumption
    DEF Change!Next, Change!Slots, Change!Threads, Asking
<1>2. CASE UNCHANGED familyVars
  BY <1>2 DEF ChangeIInv, ChangeTypes, SteadyPlay, BehindIsExempt, familyVars,
              Change!Exempt
<1> QED
  BY <1>1, <1>2 DEF MCNext, MCvars

-----------------------------------------------------------------------------

\* A gadget the console sees is whole, /dev/raw-gadget starts and runs with configfs unbound,
\* and a gadget is taken down by nobody while its writer may be building it, whichever step of
\* a setup fails and whichever process dies; and no client is promised a restart over another
\* that was playing when it asked and played on until it was answered, however many clients
\* come, go and change slots while they are looked at one by one.
THEOREM LifecycleTheorem == MCSpec => LifecycleSafe
<1>1. MCInit => LifecycleIInv
  BY DEF MCInit, Life!Init, Life!Families, LifecycleIInv, Named, Whole, Staged, RawAlone,
         Identities, Life!OneBuilder
<1>2. LifecycleIInv /\ [MCNext]_MCvars => LifecycleIInv'
  BY LifeKeeps
<1>3. LifecycleIInv => Life!LifecycleInv
  BY DEF LifecycleIInv, Whole, Staged, RawAlone, Identities, Life!LifecycleInv,
         Life!BoundIsWhole, Life!UdcIsFree, Life!Families
<1>4. MCInit => ChangeIInv
  <2>1. /\ Change!Free \in Sessions /\ Change!NoScan \in Scans /\ Change!NoScan.at = 0
        /\ 0 \in 0..slotCount
    BY FamilyAssumption DEF Change!Free, Change!NoScan, Sessions, Scans, Everyone
  <2> QED
    BY <2>1 DEF MCInit, Change!Init, Change!Slots, Change!Threads, Change!NoSlot, Asking,
                ChangeIInv, ChangeTypes, SteadyPlay, BehindIsExempt
<1>5. ChangeIInv /\ [MCNext]_MCvars => ChangeIInv'
  BY ChangeKeeps
<1>6. ChangeIInv =>
        [\A t \in Change!Threads :
           Change!Promises(t) => \A i \in steady[t] : Change!Exempt(t, i)]_(Change!vars)
  <2> SUFFICES ASSUME ChangeIInv, NEW t \in Asking, scan[t].at = slotCount + 1, NEW i \in steady[t]
               PROVE  Change!Exempt(t, i)
    BY DEF Change!Promises, Change!Threads, Asking
  <2>1. i \in 1..slotCount
    BY DEF ChangeIInv, ChangeTypes
  <2>2. i < scan[t].at
    BY <2>1, FamilyAssumption
  <2> QED
    BY <2>2 DEF ChangeIInv, BehindIsExempt
<1> QED
  BY <1>1, <1>2, <1>3, <1>4, <1>5, <1>6, PTL DEF MCSpec, LifecycleSafe, Change!SteadyAreSafe

-----------------------------------------------------------------------------
(***************************************************************************)
(* The console's sleep.                                                    *)
(***************************************************************************)

\* A poller that holds for confirmed what it goes on with.
Deciders == {"scan", "release", "client_waiting"}

\* A client is owed its wake, or may come to be: no late store has taken the debounce back.
Settled == owed \/ (Off /\ ~undone)

\* The types of what the proof reads.
SleepTypes ==
  /\ inactive \in (0..(Confirm + 1)) \union {Never}
  /\ DOMAIN poller = Pollers /\ poller = [p \in Pollers |-> poller[p]]
  /\ mark = [t \in {"event", "writer"} |-> mark[t]]

\* While a client is owed its wake the debounce goes on, and the event thread takes it back
\* for a console that is there only.
Debounced ==
  /\ owed => Off /\ seen /\ suspended /\ inactive # Never
  /\ mark["event"] \in {"awake", "active"} => console = "configured"

\* Before the client comes nobody acts for it.
NobodyCame ==
  client = "away" => session = None /\ ~owed /\ \A p \in Pollers : poller[p] \notin Carriers

\* Of the pollers one has confirmed the sleep and looks for clients, and the sleep stays
\* confirmed while it does and while it wakes the console for the one it found.
OneConfirms ==
  /\ Settled => \A p \in Pollers : poller[p] \in Deciders =>
                  confirmed /\ \A q \in Pollers : poller[q] \in Deciders => q = p
  /\ owed => \A p \in Pollers : poller[p] = "advert" => confirmed

\* Who remembers the client: NewcomerRemembered with what its thread needs to be let through
\* by the activity check, or to leave a session for the poller to find.
Remembered ==
  owed => \/ client \in {"take", "launch"}
          \/ \E p \in Pollers : poller[p] \in Carriers
          \/ client = "advert" /\ (confirmed \/ session = "since")
          \/ session = "since" /\ (~confirmed \/ \E p \in Pollers : poller[p] = "scan")

SleepIInv ==
  SleepTypes /\ OneBurst /\ Debounced /\ NobodyCame /\ OneConfirms /\ Remembered

\* The types are kept.
LEMMA TypesKeep ==
  ASSUME SleepTypes, [Next]_vars
  PROVE  SleepTypes'
<1>1. inactive \in Nat /\ Confirm \in Nat /\ Grace \in Nat
  BY SleepAssumption DEF SleepTypes, Never
<1>2. inactive' \in (0..(Confirm + 1)) \union {Never}
  <2>1. \/ inactive' = inactive \/ inactive' = Never \/ inactive' = 0
        \/ inactive' = Older(inactive, Confirm + 1)
    BY DEF Next, vars, flags, radios, threads, history, Host, HostActive, HostInactive, HostOutput,
           WriterStep, WriterSeesLoss, WriterSeesLive, WriterTakes, WriterActivity, WriterFails,
           Restart, AdvertEnds, Connect, Leave, Tick, MarkStep, MarkAwake, MarkDisconnected,
           PollerStep, Poll, ConfirmSleep, Scan, ReleaseAsleep, CallerStep, AdvertAsk,
           AdvertTake, AdvertLaunch
  <2> QED
    BY <1>1, <2>1 DEF SleepTypes, Older, Never
<1>3. mark' = [t \in {"event", "writer"} |-> mark'[t]]
  <2> DEFINE Sets(t, m) == mark' = [mark EXCEPT ![t] = m]
  <2>1. ASSUME NEW t, NEW m, Sets(t, m) PROVE mark' = [u \in {"event", "writer"} |-> mark'[u]]
    BY <2>1 DEF SleepTypes
  <2>2. CASE mark' = mark
    BY <2>2 DEF SleepTypes
  <2>3. CASE \E t \in {"event", "writer"} : MarkStep(t)
    <3> PICK t \in {"event", "writer"} : MarkStep(t)
      BY <2>3
    <3>1. \E m : Sets(t, m)
      BY DEF MarkStep, MarkAwake, MarkDisconnected
    <3> QED
      BY <2>1, <3>1
  <2>4. CASE HostActive
    BY <2>1, <2>4 DEF HostActive
  <2>5. CASE HostInactive
    BY <2>1, <2>5 DEF HostInactive
  <2>6. CASE WriterSeesLoss
    BY <2>1, <2>6 DEF WriterSeesLoss
  <2>7. CASE WriterSeesLive
    BY <2>1, <2>2, <2>7 DEF WriterSeesLive
  <2>8. CASE WriterActivity
    BY <2>1, <2>8 DEF WriterActivity
  <2>9. CASE WriterFails
    BY <2>1, <2>9 DEF WriterFails
  <2> HIDE DEF Sets
  <2>10. CASE \/ HostOutput \/ WriterTakes \/ Restart \/ AdvertEnds \/ Connect \/ Leave \/ Tick
              \/ UNCHANGED vars \/ (\E p \in Pollers : PollerStep(p))
              \/ \E t \in Callers : CallerStep(t)
    BY <2>2, <2>10 DEF HostOutput, WriterTakes, Restart, AdvertEnds, Connect, Leave, Tick,
           PollerStep, Poll, ConfirmSleep, Scan, ReleaseAsleep, CallerStep, AdvertAsk,
           AdvertTake, AdvertLaunch, vars, threads
  <2> QED
    BY <2>3, <2>4, <2>5, <2>6, <2>7, <2>8, <2>9, <2>10 DEF Next, Host, WriterStep
<1>4. DOMAIN poller' = Pollers /\ poller' = [p \in Pollers |-> poller'[p]]
  <2> DEFINE Moves(p, m) == poller' = [poller EXCEPT ![p] = m]
  <2>1. ASSUME NEW p, NEW m, Moves(p, m)
        PROVE  DOMAIN poller' = Pollers /\ poller' = [q \in Pollers |-> poller'[q]]
    BY <2>1 DEF SleepTypes
  <2>2. CASE poller' = poller
    BY <2>2 DEF SleepTypes
  <2>3. CASE \E p \in Pollers : PollerStep(p)
    <3> PICK p \in Pollers : PollerStep(p)
      BY <2>3
    <3>1. \E m : Moves(p, m)
      BY DEF PollerStep, Poll, ConfirmSleep, Scan, ReleaseAsleep
    <3> QED
      BY <2>1, <3>1
  <2>4. CASE \E t \in Callers : CallerStep(t)
    <3> PICK t \in Callers : CallerStep(t)
      BY <2>4
    <3>1. poller' = poller \/ \E m : Moves(t, m)
      BY DEF CallerStep, AdvertAsk, AdvertTake, AdvertLaunch, Goto
    <3> QED
      BY <2>1, <2>2, <3>1
  <2> HIDE DEF Moves
  <2>5. CASE \/ Host \/ WriterStep \/ WriterFails \/ Restart \/ AdvertEnds \/ Connect \/ Leave
             \/ Tick \/ UNCHANGED vars \/ \E t \in {"event", "writer"} : MarkStep(t)
    BY <2>2, <2>5 DEF Host, HostActive, HostInactive, HostOutput, WriterStep, WriterSeesLoss,
           WriterSeesLive, WriterTakes, WriterActivity, WriterFails, Restart, AdvertEnds,
           Connect, Leave, Tick, MarkStep, vars, threads
  <2> QED
    BY <2>3, <2>4, <2>5 DEF Next
<1> QED
  BY <1>2, <1>3, <1>4 DEF SleepTypes

\* One burst at a time: whoever finds the flag clear is the only one to launch, and the flag
\* is cleared by the launch that is refused or by the radio's end.
LEMMA BurstKeeps ==
  ASSUME SleepTypes, OneBurst, [Next]_vars
  PROVE  OneBurst'
<1> DEFINE place(t) == IF t = "client" THEN client ELSE poller[t]
<1>0. \A t, s : At(t, s) <=> place(t) = s
  BY DEF At
<1>1. CASE \E t \in Callers : CallerStep(t)
  <2> PICK t \in Callers : CallerStep(t)
    BY <1>1
  <2>1. ASSUME NEW s, Goto(t, s)
        PROVE  place(t)' = s /\ \A u \in Callers \ {t} : place(u)' = place(u)
    BY <2>1, SleepAssumption DEF Goto, Callers, SleepTypes
  <2>2. \A u, s : At(u, s)' <=> place(u)' = s
    BY DEF At
  <2> HIDE DEF place
  <2>3. CASE AdvertAsk(t)
    <3> PICK s : Goto(t, s) /\ s # "launch"
      BY <2>3 DEF AdvertAsk
    <3> QED
      BY <1>0, <2>1, <2>2, <2>3 DEF OneBurst, AdvertAsk, radios
  <2>4. CASE AdvertTake(t)
    <3>1. CASE burst
      BY <1>0, <2>1, <2>2, <2>4, <3>1 DEF OneBurst, AdvertTake
    <3>2. CASE ~burst
      BY <1>0, <2>1, <2>2, <2>4, <3>2 DEF OneBurst, AdvertTake
    <3> QED
      BY <3>1, <3>2
  <2>5. CASE AdvertLaunch(t)
    BY <1>0, <2>1, <2>2, <2>5 DEF OneBurst, AdvertLaunch
  <2> QED
    BY <2>3, <2>4, <2>5 DEF CallerStep
<1>2. CASE AdvertEnds
  BY <1>2 DEF OneBurst, AdvertEnds, threads, At
<1>3. CASE \E p \in Pollers : PollerStep(p)
  <2> PICK p \in Pollers : PollerStep(p)
    BY <1>3
  <2>1. /\ poller[p] # "launch" /\ poller'[p] # "launch" /\ client' = client
        /\ \A q \in Pollers \ {p} : poller'[q] = poller[q]
        /\ burst' = burst /\ radio' = radio
    BY DEF PollerStep, Poll, ConfirmSleep, Scan, ReleaseAsleep, SleepTypes, radios
  <2> QED
    BY <2>1 DEF OneBurst, At, Callers
<1>4. CASE Connect \/ Leave
  BY <1>4, SleepAssumption DEF Connect, Leave, OneBurst, At, Callers, radios, threads
<1>5. ASSUME UNCHANGED <<burst, radio, poller, client>> PROVE OneBurst'
  BY <1>5 DEF OneBurst, At
<1>6. ASSUME \/ Host \/ WriterStep \/ WriterFails \/ Restart \/ Tick \/ UNCHANGED vars
             \/ \E t \in {"event", "writer"} : MarkStep(t)
      PROVE  UNCHANGED <<burst, radio, poller, client>>
  BY <1>6 DEF vars, flags, radios, threads, history, Host, HostActive, HostInactive, HostOutput,
           WriterStep, WriterSeesLoss, WriterSeesLive, WriterTakes, WriterActivity, WriterFails,
           Restart, Tick, MarkStep, MarkAwake, MarkDisconnected
<1> QED
  BY <1>1, <1>2, <1>3, <1>4, <1>5, <1>6 DEF Next

\* The steps of a caller.
LEMMA CallerKeeps ==
  ASSUME SleepIInv, NEW t \in Callers, CallerStep(t)
  PROVE  (Debounced /\ NobodyCame /\ OneConfirms /\ Remembered)'
<1> USE DEF SleepIInv, Debounced, NobodyCame, OneConfirms, Remembered, Settled, Off, Deciders,
            Carriers
<1>0. UNCHANGED <<console, seen, suspended, inactive, confirmed, session, mark, undone>>
      /\ (owed' = owed \/ owed' = FALSE)
  BY DEF CallerStep, AdvertAsk, AdvertTake, AdvertLaunch, flags, history
<1>1. CASE t = "client"
  <2>1. poller' = poller /\ client \in {"advert", "take", "launch"} /\ client' # "away"
    BY <1>1, SleepAssumption DEF CallerStep, AdvertAsk, AdvertTake, AdvertLaunch, At, Goto
  <2>2. owed' => /\ owed
                 /\ (client = "advert" /\ ~RecentlyActive) \/ client = "take"
                      => client' \in {"take", "launch"}
    BY <1>1 DEF CallerStep, AdvertAsk, AdvertTake, AdvertLaunch, At, Goto, history
  <2>3. owed' => client # "launch"
    BY <1>1 DEF CallerStep, AdvertAsk, AdvertTake, AdvertLaunch, At, Goto, history
  <2>4. owed /\ confirmed => ~RecentlyActive
    BY DEF RecentlyActive
  <2> QED
    BY <1>0, <2>1, <2>2, <2>3, <2>4
<1>2. CASE t # "client"
  <2>1. /\ t \in Pollers /\ client' = client
        /\ poller[t] \in {"advert", "take", "launch"} /\ poller'[t] \in {"idle", "take", "launch"}
        /\ \A p \in Pollers \ {t} : poller'[p] = poller[p]
    BY <1>2 DEF CallerStep, AdvertAsk, AdvertTake, AdvertLaunch, At, Goto, Callers, SleepTypes
  <2>2. owed' => owed /\ poller'[t] # "idle"
    BY <1>2, <2>1 DEF CallerStep, AdvertAsk, AdvertTake, AdvertLaunch, At, Goto, RecentlyActive,
       SleepTypes, SleepIInv, OneConfirms, Debounced, history
  <2> QED
    BY <1>0, <2>1, <2>2
<1> QED
  BY <1>1, <1>2

\* The steps of a poller that decides.
LEMMA PollerKeeps ==
  ASSUME SleepIInv, NEW p \in Pollers, PollerStep(p)
  PROVE  (Debounced /\ NobodyCame /\ OneConfirms /\ Remembered)'
<1> USE DEF SleepIInv, Debounced, NobodyCame, OneConfirms, Remembered, Settled, Off, Deciders,
            Carriers
<1>0. /\ UNCHANGED <<console, seen, suspended, inactive, mark, client, owed, undone>>
      /\ \A q \in Pollers \ {p} : poller'[q] = poller[q]
  BY DEF PollerStep, Poll, ConfirmSleep, Scan, ReleaseAsleep, SleepTypes, flags, history
<1>1. CASE Poll(p)
  <2>1. poller[p] = "idle" /\ poller'[p] = "confirm" /\ UNCHANGED <<confirmed, session>>
    BY <1>1 DEF Poll, SleepTypes, flags
  <2> QED
    BY <1>0, <2>1
<1>2. CASE ConfirmSleep(p)
  <2>1. /\ poller[p] = "confirm" /\ confirmed' = TRUE /\ session' = session
        /\ poller'[p] = IF confirmed THEN "idle" ELSE "scan"
    BY <1>2 DEF ConfirmSleep, SleepTypes
  <2> QED
    BY <1>0, <2>1
<1>3. CASE Scan(p)
  <2>1. /\ poller[p] = "scan" /\ UNCHANGED <<confirmed, session>>
        /\ poller'[p] = IF inactive # Never /\ session = "since"
                       THEN "client_waiting" ELSE "release"
    BY <1>3 DEF Scan, SleepTypes, flags
  <2> QED
    BY <1>0, <2>1 DEF None
<1>4. CASE ReleaseAsleep(p)
  <2>1. /\ poller[p] \in {"release", "client_waiting"} /\ confirmed' = TRUE /\ session' = None
        /\ poller'[p] = IF poller[p] = "client_waiting" THEN "advert" ELSE "idle"
    BY <1>4 DEF ReleaseAsleep, SleepTypes
  <2> QED
    BY <1>0, <2>1 DEF None
<1> QED
  BY <1>1, <1>2, <1>3, <1>4 DEF PollerStep

\* The stores of the event thread and of the writer.
LEMMA MarksKeep ==
  ASSUME SleepIInv, NEW t \in {"event", "writer"}, MarkStep(t)
  PROVE  (Debounced /\ NobodyCame /\ OneConfirms /\ Remembered)'
<1> USE DEF SleepIInv, Debounced, NobodyCame, OneConfirms, Remembered, Settled, Off, Deciders,
            Carriers
<1>0. UNCHANGED <<console, seen, poller, client>>
  BY DEF MarkStep
<1>1. CASE MarkAwake(t)
  <2>1. ~owed' /\ ~(Off /\ ~undone')
    BY <1>1 DEF MarkStep, MarkAwake, history
  <2>2. mark'["event"] \in {"awake", "active"} => mark["event"] \in {"awake", "active"}
    BY <1>1 DEF MarkAwake, SleepTypes, None
  <2>3. session' = session
    BY <1>1 DEF MarkStep, MarkAwake, MarkDisconnected
  <2> QED
    BY <1>0, <2>1, <2>2, <2>3
<1>2. CASE MarkDisconnected(t)
  <2>1. UNCHANGED <<history, confirmed>>
    BY <1>2 DEF MarkStep, MarkAwake, MarkDisconnected
  <2>2. mark'["event"] \in {"awake", "active"} => mark["event"] \in {"awake", "active"}
    BY <1>2 DEF MarkDisconnected, SleepTypes, None
  <2>3. owed => UNCHANGED <<suspended, inactive, session>>
    BY <1>2 DEF MarkDisconnected
  <2>4. session = None => session' = None
    BY <1>2 DEF MarkDisconnected
  <2> QED
    BY <1>0, <2>1, <2>2, <2>3, <2>4 DEF history
<1> QED
  BY <1>1, <1>2 DEF MarkStep

\* The console, the rest of the writer, clients and time.
LEMMA OtherStepsKeep ==
  ASSUME SleepIInv,
         Host \/ WriterStep \/ WriterFails \/ Restart \/ AdvertEnds \/ Connect \/ Leave \/ Tick
  PROVE  (Debounced /\ NobodyCame /\ OneConfirms /\ Remembered)'
<1> USE DEF SleepIInv, Debounced, NobodyCame, OneConfirms, Remembered, Settled, Off, Deciders,
            Carriers, flags, radios, threads, history
<1>1. CASE HostActive
  BY <1>1 DEF HostActive, SleepTypes
<1>2. CASE HostInactive
  <2>1. /\ UNCHANGED <<flags, poller, client, owed>> /\ mark'["event"] = "disconnect"
        /\ console' \in {"suspended", "gone"}
    BY <1>2 DEF HostInactive, SleepTypes
  <2>2. owed => console = "suspended" /\ session' = session
    BY <1>2 DEF HostInactive
  <2>3. ~owed /\ ~undone' => \A p \in Pollers : poller[p] \notin Deciders
    BY <1>2 DEF HostInactive, Deciding
  <2>4. session = None => session' = None
    BY <1>2 DEF HostInactive
  <2> QED
    BY <2>1, <2>2, <2>3, <2>4
<1>3. CASE HostOutput
  BY <1>3 DEF HostOutput
<1>4. CASE WriterStep \/ WriterFails
  <2>1. UNCHANGED <<console, suspended, inactive, confirmed, session, poller, client, history>>
        /\ mark'["event"] = mark["event"] /\ (seen => seen')
    BY <1>4 DEF WriterStep, WriterSeesLoss, WriterSeesLive, WriterTakes, WriterActivity,
                WriterFails, SleepTypes
  <2> QED
    BY <2>1
<1>5. CASE Restart
  BY <1>5 DEF Restart, EventIdle, None
<1>6. CASE AdvertEnds
  BY <1>6 DEF AdvertEnds
<1>7. CASE Connect
  BY <1>7 DEF Connect
<1>8. CASE Leave
  BY <1>8 DEF Leave
<1>9. CASE Tick
  <2>1. UNCHANGED <<console, seen, suspended, confirmed, session, mark, poller, client,
                    history>>
    BY <1>9 DEF Tick
  <2>2. inactive # Never => inactive' # Never
    BY <1>9, SleepAssumption DEF Tick, Older, SleepTypes, Never
  <2> QED
    BY <2>1, <2>2
<1> QED
  BY <1>1, <1>2, <1>3, <1>4, <1>5, <1>6, <1>7, <1>8, <1>9 DEF Host

\* The inductive step for the sleep, and its rest while another part runs.
LEMMA SleepKeeps ==
  ASSUME SleepIInv, [MCNext]_MCvars
  PROVE  SleepIInv'
<1>1. CASE UNCHANGED vars
  BY <1>1 DEF SleepIInv, SleepTypes, OneBurst, Debounced, NobodyCame, OneConfirms, Remembered,
     Settled, Off, At, vars, flags, radios, threads, history
<1>2. CASE Next
  <2>1. SleepTypes' /\ OneBurst'
    BY <1>2, TypesKeep, BurstKeeps DEF SleepIInv
  <2>2. (Debounced /\ NobodyCame /\ OneConfirms /\ Remembered)'
    BY <1>2, CallerKeeps, PollerKeeps, MarksKeep, OtherStepsKeep DEF Next
  <2> QED
    BY <2>1, <2>2 DEF SleepIInv
<1> QED
  BY <1>1, <1>2 DEF MCNext, MCvars

\* Two threads that ask for the radio at once start one burst, and a client that came while
\* the console was off is remembered by a thread or by its session until its wake was tried,
\* for any number of polling threads and any debounce, grace and cooldown.
THEOREM SleepTheorem == MCSpec => []SleepInv
<1>1. MCInit => SleepIInv
  BY SleepAssumption DEF MCInit, Init, SleepIInv, SleepTypes, OneBurst, Debounced, NobodyCame,
     OneConfirms, Remembered, Settled, Off, At, Callers, Carriers, Deciders, None
<1>2. SleepIInv /\ [MCNext]_MCvars => SleepIInv'
  BY SleepKeeps
<1>3. SleepIInv => SleepInv
  BY DEF SleepIInv, Debounced, Remembered, SleepInv, NewcomerRemembered, Carriers
<1> QED
  BY <1>1, <1>2, <1>3, PTL DEF MCSpec
=============================================================================
