------------------------------ MODULE MCServer ------------------------------
(***************************************************************************)
(* Bounds for what the server does by itself: how it learns that the       *)
(* console sleeps, how its processes start, change family and end, and     *)
(* when a client may have the family changed.                              *)
(* The modules share no variable, so each is checked by itself: a          *)
(* behaviour chooses one part and the others rest.                         *)
(***************************************************************************)
EXTENDS Sleep

\* Of the lifecycle: HID_PORT_COUNT, and bounds on the failures and the processes.
\* Of the change of family: the slots, the addresses of UDP clients, the pages.
CONSTANTS hidPorts, failuresMost, startsMost, slotCount, hosts, pages, nobody

\* A gadget has a function.
ASSUME LifecycleAssumption == hidPorts # 0

\* Clients are told apart.
ASSUME FamilyAssumption ==
  slotCount \in Nat /\ nobody \notin hosts \cup pages /\ hosts \cap pages = {}

VARIABLES
  part, \* which of them runs
  family, main, builder, at, dir, attrs, linked, bound, nodes, raw, running, pending,
  target, told, failures, starts,
  table, remembered, scan, open, steady

lifeVars == <<family, main, builder, at, dir, attrs, linked, bound, nodes, raw, running,
              pending, target, told, failures, starts>>
familyVars == <<table, remembered, scan, open, steady>>
MCvars   == <<part, vars, lifeVars, familyVars>>

Life == INSTANCE ServerLifecycle WITH
  Ports <- hidPorts, MaxFailures <- failuresMost, MaxStarts <- startsMost, writer <- builder

Change == INSTANCE FamilyChange WITH
  MaxClients <- slotCount, Hosts <- hosts, Pages <- pages, Nobody <- nobody,
  session <- table, running <- open

Parts == {"sleep", "life", "change"}

\* A part that rests does so in one of the states it starts in.
MCInit ==
  /\ part \in Parts
  /\ Init
  /\ Life!Init /\ (part # "life" => family = "s2")
  /\ Change!Init

MCNext ==
  \/ part = "sleep" /\ Next
     /\ UNCHANGED <<part, lifeVars, familyVars>>
  \/ part = "life" /\ Life!Next
     /\ UNCHANGED <<part, vars, familyVars>>
  \/ part = "change" /\ Change!Next
     /\ UNCHANGED <<part, vars, lifeVars>>

MCSpec == MCInit /\ [][MCNext]_MCvars

-----------------------------------------------------------------------------
(* What each part promises: its own properties, which say more of the code. *)

\* The console is found asleep when it went away for good, and awake when it plays; a client
\* that came in between has its wake-up tried.
SleepSeen == part = "sleep" /\ Fairness =>
  SleepIsSeen /\ AwakeIsSeen /\ NewcomerWakes

\* A gadget that the console sees is whole, one owner has the USB controller, nobody takes a
\* gadget down while it is built, and no client is promised a restart over another that played
\* from before it asked until it was answered.
LifecycleSafe == []Life!LifecycleInv /\ Change!SteadyAreSafe

\* A running server brings its gadget back, and a stop ends.
LifecycleProgress == part = "life" /\ Life!Fairness => Life!LifecycleProgress
=============================================================================
