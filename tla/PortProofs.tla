----------------------------- MODULE PortProofs -----------------------------
(***************************************************************************)
(* Proofs about PortAssignment, for any number of clients, pads and ports. *)
(*                                                                         *)
(* reconcile_hw_slots is a loop over the pads, so its facts are proved by  *)
(* induction on the number of turns, which Climbs makes available: every   *)
(* turn leaves a layout well formed, takes a port that is free and none    *)
(* that is taken, and gives a single controller back the port it had.      *)
(*                                                                         *)
(* How many ports are asked for is a sum over clients and pads.  SumCounts *)
(* turns it into the size of a set, the owners the ports would have, and   *)
(* all that is said of numbers of ports is said of that set.               *)
(***************************************************************************)
EXTENDS PortAssignment, FiniteSetTheorems, NaturalsInduction, WellFoundedInduction, TLAPS

-----------------------------------------------------------------------------
(***************************************************************************)
(* Numbers.                                                                *)
(***************************************************************************)

LEMMA Least ==
  ASSUME NEW S \in SUBSET Nat, S # {}
  PROVE  \E x \in S : \A y \in S : x <= y
<1>1. IsWellFoundedOn(OpToRel(<, Nat), Nat)
  BY NatLessThanWellFounded
<1>2. PICK x \in S : \A y \in S : <<y, x>> \notin OpToRel(<, Nat)
  BY <1>1, WFMin
<1>3. \A y \in S : ~(y < x)
  BY <1>2 DEF OpToRel
<1> QED
  BY <1>3

\* Induction up to a number, with a set for the statement.
LEMMA Climbs ==
  ASSUME NEW K \in Nat, NEW S, 0 \in S,
         \A n \in 1..K : n - 1 \in S => n \in S
  PROVE  \A n \in 0..K : n \in S
<1> DEFINE Bad == {n \in 0..K : n \notin S}
<1> SUFFICES ASSUME Bad # {} PROVE FALSE
  OBVIOUS
<1>1. PICK n \in Bad : \A m \in Bad : n <= m
  <2>1. Bad \in SUBSET Nat
    OBVIOUS
  <2> HIDE DEF Bad
  <2> QED
    BY <2>1, Least
<1>2. n \in 1..K /\ n - 1 \in 0..K
  BY <1>1
<1>3. n - 1 \notin Bad
  BY <1>1, <1>2
<1> QED
  BY <1>1, <1>2, <1>3

\* A minimum is an element of the set.
LEMMA MinIn ==
  ASSUME NEW S \in SUBSET Nat, S # {}
  PROVE  Min(S) \in S /\ \A y \in S : Min(S) <= y
  BY Least DEF Min

LEMMA PreferredFacts ==
  ASSUME NEW A \in SUBSET Nat, NEW B \in SUBSET Nat, NEW C \in SUBSET Nat
  PROVE  LET p == Preferred(<<A, B, C>>) IN
         /\ A # {} => p \in A
         /\ A = {} /\ B # {} => p \in B
         /\ A = {} /\ B = {} /\ C # {} => p \in C
         /\ A = {} /\ B = {} /\ C = {} => p = None
<1> DEFINE t == <<A, B, C>>
           full == {k \in DOMAIN t : t[k] # {}}
<1>1. /\ full \in SUBSET Nat
      /\ \A k \in full : k \in {1, 2, 3} /\ t[k] # {} /\ t[k] \in SUBSET Nat
      /\ A # {} <=> 1 \in full
      /\ B # {} <=> 2 \in full
      /\ C # {} <=> 3 \in full
      /\ t[1] = A /\ t[2] = B /\ t[3] = C
  <2>1. DOMAIN t = {1, 2, 3} /\ t[1] = A /\ t[2] = B /\ t[3] = C
    OBVIOUS
  <2> HIDE DEF t
  <2>2. full = {k \in {1, 2, 3} : t[k] # {}}
    BY <2>1
  <2> HIDE DEF full
  <2>3. 1 \in Nat /\ 2 \in Nat /\ 3 \in Nat
    OBVIOUS
  <2> QED
    BY <2>1, <2>2, <2>3
<1>2. Preferred(t) = IF full = {} THEN None ELSE Min(t[Min(full)])
  BY DEF Preferred
<1> HIDE DEF t, full
<1>3. full # {} => Min(full) \in full /\ \A y \in full : Min(full) <= y
  BY <1>1, MinIn
<1>4. full # {} => Min(t[Min(full)]) \in t[Min(full)]
  BY <1>1, <1>3, MinIn
<1>5. CASE A # {}
  <2>1. Min(full) = 1
    <3>1. Min(full) \in {1, 2, 3} /\ Min(full) <= 1
      BY <1>1, <1>3, <1>5
    <3> QED
      BY <3>1
  <2> QED
    BY <1>1, <1>2, <1>3, <1>4, <1>5, <2>1 DEF t
<1>6. CASE A = {} /\ B # {}
  <2>1. Min(full) = 2
    <3>1. Min(full) \in {2, 3} /\ Min(full) <= 2
      BY <1>1, <1>3, <1>6
    <3> QED
      BY <3>1
  <2> QED
    BY <1>1, <1>2, <1>3, <1>4, <1>6, <2>1 DEF t
<1>7. CASE A = {} /\ B = {} /\ C # {}
  <2>1. Min(full) = 3
    BY <1>1, <1>3, <1>7
  <2> QED
    BY <1>1, <1>2, <1>3, <1>4, <1>7, <2>1 DEF t
<1>8. CASE A = {} /\ B = {} /\ C = {}
  <2>1. full = {}
    BY <1>1, <1>8
  <2> QED
    BY <1>2, <1>8, <2>1 DEF t
<1> QED
  BY <1>5, <1>6, <1>7, <1>8

\* The elements of the sets a function gives to the elements of s.
AllOf(A, s) == UNION {A[x] : x \in s}

\* SumFunction counts: the sum of the sizes of disjoint sets is the size of all of them.
LEMMA SumCounts ==
  ASSUME NEW S, IsFiniteSet(S), NEW f \in [S -> Nat], NEW A,
         \A x \in S : IsFiniteSet(A[x]) /\ Cardinality(A[x]) = f[x],
         \A x, y \in S : x # y => A[x] \cap A[y] = {}
  PROVE  IsFiniteSet(AllOf(A, S)) /\ Cardinality(AllOf(A, S)) = SumFunction(f)
<1> DEFINE pick(s) == CHOOSE x \in s : TRUE
           Step(g) == [s \in SUBSET S |-> IF s = {} THEN 0 ELSE f[pick(s)] + g[s \ {pick(s)}]]
           h == [s \in SUBSET S |-> Cardinality(AllOf(A, s))]
<1>1. ASSUME NEW s \in SUBSET S
      PROVE  IsFiniteSet(s) /\ IsFiniteSet(AllOf(A, s))
  <2>1. IsFiniteSet(s)
    BY FS_Subset
  <2> DEFINE R == {A[x] : x \in s}
             T == [x \in s |-> A[x]]
  <2>2. T \in Surjection(s, R)
    BY DEF Surjection
  <2>3. IsFiniteSet(R)
    <3> HIDE DEF T, R
    <3> QED
      BY <2>1, <2>2, FS_Surjection
  <2>4. \A r \in R : IsFiniteSet(r)
    OBVIOUS
  <2> QED
    BY <2>1, <2>3, <2>4, FS_UNION DEF AllOf
<1>2. ASSUME NEW s \in SUBSET S, s # {}
      PROVE  /\ pick(s) \in s /\ s \ {pick(s)} \in SUBSET S
             /\ h[s] = f[pick(s)] + h[s \ {pick(s)}]
  <2>1. pick(s) \in s
    BY <1>2
  <2> DEFINE x == pick(s)
             r == s \ {x}
  <2>2. x \in S /\ x \in s /\ r \in SUBSET S
    BY <2>1
  <2> HIDE DEF x
  <2>3. AllOf(A, s) = A[x] \cup AllOf(A, r) /\ A[x] \cap AllOf(A, r) = {}
    BY <2>2 DEF AllOf
  <2>4. IsFiniteSet(A[x]) /\ IsFiniteSet(AllOf(A, r)) /\ Cardinality(A[x]) = f[x]
    BY <1>1, <2>2
  <2> HIDE DEF r
  <2>5. Cardinality(AllOf(A, s)) = Cardinality(A[x]) + Cardinality(AllOf(A, r)) - Cardinality({})
    BY <2>3, <2>4, FS_Union
  <2>6. Cardinality(A[x]) \in Nat /\ Cardinality(AllOf(A, r)) \in Nat /\ Cardinality({}) = 0
    BY <2>4, FS_CardinalityType, FS_EmptySet
  <2>7. Cardinality(AllOf(A, s)) = f[x] + Cardinality(AllOf(A, r))
    BY <2>4, <2>5, <2>6
  <2> QED
    BY <2>1, <2>2, <2>7 DEF x, r
<1>3. h[{}] = 0
  <2>1. AllOf(A, {}) = {}
    BY DEF AllOf
  <2> QED
    BY <2>1, FS_EmptySet
<1>4. h = Step(h)
  <2>1. ASSUME NEW s \in SUBSET S PROVE h[s] = Step(h)[s]
    <3>1. CASE s = {}
      BY <1>3, <3>1
    <3>2. CASE s # {}
      <4>1. h[s] = f[pick(s)] + h[s \ {pick(s)}]
        BY <1>2, <3>2
      <4> HIDE DEF h, pick
      <4> QED
        BY <3>2, <4>1
    <3> QED
      BY <3>1, <3>2
  <2>2. h = [s \in SUBSET S |-> h[s]] /\ Step(h) = [s \in SUBSET S |-> Step(h)[s]]
    OBVIOUS
  <2> HIDE DEF h, Step
  <2> QED
    BY <2>1, <2>2
<1> DEFINE g == CHOOSE g : g = Step(g)
<1>5. SumFunction(f) = g[S]
  <2>1. DOMAIN f = S
    OBVIOUS
  <2>2. SumFunction(f) = MapThenFoldSet(+, 0, LAMBDA i : f[i], LAMBDA s : CHOOSE x \in s : TRUE, S)
    BY <2>1 DEF SumFunction, SumFunctionOnSet, FoldFunctionOnSet
  <2> QED
    BY <2>2 DEF MapThenFoldSet
<1>6. g = Step(g)
  <2> HIDE DEF Step, h
  <2> QED
    BY <1>4
<1> HIDE DEF g
<1> DEFINE Bad == {s \in SUBSET S : g[s] # h[s]}
           Sizes == {Cardinality(s) : s \in Bad}
<1>7. Bad = {}
  <2> SUFFICES ASSUME Bad # {} PROVE FALSE
    OBVIOUS
  <2>1. Sizes \in SUBSET Nat /\ Sizes # {}
    <3>1. \A s \in Bad : s \in SUBSET S
      OBVIOUS
    <3> HIDE DEF Bad
    <3>2. \A s \in Bad : Cardinality(s) \in Nat
      BY <1>1, <3>1, FS_CardinalityType
    <3> QED
      BY <3>2
  <2>2. PICK s \in Bad : \A r \in Bad : Cardinality(s) <= Cardinality(r)
    <3>1. PICK n \in Sizes : \A m \in Sizes : n <= m
      <4> HIDE DEF Sizes
      <4> QED
        BY <2>1, Least
    <3> HIDE DEF Bad
    <3>2. PICK s \in Bad : n = Cardinality(s)
      OBVIOUS
    <3>3. \A r \in Bad : Cardinality(r) \in Sizes
      OBVIOUS
    <3> QED
      BY <3>1, <3>2, <3>3
  <2>3. s # {}
    <3>1. g[{}] = 0
      BY <1>6
    <3> HIDE DEF h
    <3> QED
      BY <1>3, <3>1
  <2> DEFINE x == pick(s)
             r == s \ {x}
  <2>4. x \in s /\ r \in SUBSET S /\ h[s] = f[x] + h[r]
    BY <1>2, <2>3
  <2>5. g[s] = f[x] + g[r]
    <3> HIDE DEF pick, h
    <3> QED
      BY <1>6, <2>3
  <2> HIDE DEF pick, h, x
  <2>6. Cardinality(r) < Cardinality(s)
    <3>1. IsFiniteSet(s) /\ Cardinality(s) \in Nat
      BY <1>1, FS_CardinalityType
    <3>2. Cardinality(r) = Cardinality(s) - 1
      BY <2>4, <3>1, FS_RemoveElement
    <3> QED
      BY <3>1, <3>2
  <2>7. r \in Bad
    BY <2>2, <2>4, <2>5
  <2>8. Cardinality(r) \in Nat /\ Cardinality(s) \in Nat
    BY <1>1, <2>4, FS_CardinalityType
  <2> QED
    BY <2>2, <2>6, <2>7, <2>8
<1>8. g[S] = h[S]
  BY <1>7
<1>9. h[S] = Cardinality(AllOf(A, S))
  OBVIOUS
<1> QED
  BY <1>1, <1>5, <1>8, <1>9

-----------------------------------------------------------------------------
(***************************************************************************)
(* The order of the pads.                                                  *)
(***************************************************************************)

\* The n-th pad is a pad of a client, and comes before those after it.
LEMMA OrderFacts ==
  /\ Turns \in Nat /\ NPads \in Nat /\ NPads # 0
  /\ \A n \in 1..Turns : InOrder[n].client \in Clients /\ InOrder[n].pad \in Pads
  /\ \A m, n \in 1..Turns : m < n => Before(InOrder[m], InOrder[n])
<1> USE PortAssumption DEF PortAssumption
<1>1. Turns \in Nat /\ NPads \in Nat /\ NPads # 0
  BY DEF Turns
<1>2. \A k \in Nat : /\ k \div NPads \in Nat /\ k % NPads \in 0..(NPads - 1)
                     /\ k = NPads * (k \div NPads) + (k % NPads)
  OBVIOUS
<1>3. \A n \in 1..Turns : InOrder[n].client = (n - 1) \div NPads /\ InOrder[n].pad = (n - 1) % NPads
  BY DEF InOrder
<1>4. ASSUME NEW n \in 1..Turns
      PROVE  InOrder[n].client \in Clients /\ InOrder[n].pad \in Pads
  <2>1. n - 1 \in Nat /\ n - 1 < MaxClients * NPads
    BY <1>1 DEF Turns
  <2> DEFINE a == (n - 1) \div NPads
             c == (n - 1) % NPads
  <2>2. a \in Nat /\ c \in 0..(NPads - 1) /\ n - 1 = NPads * a + c
    BY <1>2, <2>1
  <2>3. InOrder[n].client = a /\ InOrder[n].pad = c
    BY <1>3
  <2> HIDE DEF a, c
  <2>4. a < MaxClients
    <3>1. MaxClients <= a => NPads * MaxClients <= NPads * a
      BY <1>1, <2>2
    <3> QED
      BY <1>1, <2>1, <2>2, <3>1
  <2> QED
    BY <2>2, <2>3, <2>4 DEF Clients, Pads
<1>5. ASSUME NEW m \in 1..Turns, NEW n \in 1..Turns, m < n
      PROVE  Before(InOrder[m], InOrder[n])
  <2> DEFINE a == (m - 1) \div NPads
             b == (n - 1) \div NPads
             c == (m - 1) % NPads
             d == (n - 1) % NPads
  <2>1. /\ a \in Nat /\ b \in Nat /\ c \in 0..(NPads - 1) /\ d \in 0..(NPads - 1)
        /\ m - 1 = NPads * a + c /\ n - 1 = NPads * b + d
    <3>1. m - 1 \in Nat /\ n - 1 \in Nat
      BY <1>1
    <3> QED
      BY <1>2, <3>1
  <2>2. NPads * a + c < NPads * b + d
    BY <1>1, <1>5, <2>1
  <2> HIDE DEF a, b, c, d
  <2>3. a < b \/ (a = b /\ c < d)
    <3>1. b < a => NPads * b + NPads <= NPads * a
      BY <2>1
    <3> QED
      BY <1>1, <2>1, <2>2, <3>1
  <2> QED
    BY <1>3, <2>3 DEF Before, a, b, c, d
<1> QED
  BY <1>1, <1>4, <1>5

\* Every pad has its turn.
LEMMA EveryPadHasATurn ==
  ASSUME NEW c \in Clients, NEW s \in Pads
  PROVE  \E n \in 1..Turns : InOrder[n].client = c /\ InOrder[n].pad = s
<1> USE PortAssumption DEF PortAssumption, Clients, Pads
<1> DEFINE k == NPads * c + s
<1>1. k \in Nat /\ k < MaxClients * NPads
  <2>1. NPads * c + NPads <= NPads * MaxClients
    OBVIOUS
  <2> QED
    BY <2>1
<1>2. k \div NPads = c /\ k % NPads = s
  OBVIOUS
<1>3. k + 1 \in 1..Turns /\ (k + 1) - 1 = k
  BY <1>1 DEF Turns
<1> HIDE DEF k
<1> QED
  BY <1>2, <1>3 DEF InOrder

-----------------------------------------------------------------------------
(***************************************************************************)
(* One turn.                                                               *)
(***************************************************************************)

IsPad(r) == r.client \in Clients /\ r.pad \in Pads

\* Types, and the two halves of a pair on the two ports of a group.
WellFormed(layout) ==
  /\ layout \in [Ports -> Owner \cup {Nobody}]
  /\ \A h \in Ports : layout[h] # Nobody /\ layout[h].half = "left" =>
       h % 2 = 0 /\ h + 1 \in Ports /\ layout[h + 1] = [layout[h] EXCEPT !.half = "right"]
  /\ \A h \in Ports : layout[h] # Nobody /\ layout[h].half = "right" =>
       h % 2 = 1 /\ h - 1 \in Ports /\ layout[h - 1] = [layout[h] EXCEPT !.half = "left"]

LEMMA OwnedFacts ==
  ASSUME NEW r, IsPad(r), NEW half \in {"whole", "left", "right"}
  PROVE  /\ Owned(r, half) \in Owner /\ Owned(r, half) # Nobody
         /\ Owned(r, half).client = r.client /\ Owned(r, half).pad = r.pad
         /\ Owned(r, half).half = half
  BY NobodyAssumption DEF Owned, Owner, IsPad

LEMMA PortFacts ==
  /\ Ports \in SUBSET Nat /\ None \notin Ports
  /\ \A b \in Ports : b % 2 = 0 /\ b + 1 \in Ports => (b + 1) % 2 = 1 /\ (b + 1) - 1 = b /\ b # b + 1
  BY PortAssumption DEF PortAssumption, Ports, None

\* A pair takes two free ports of a group, or none if there is no such group.
LEMMA PairTakes ==
  ASSUME NEW old, NEW new, NEW r
  PROVE  \/ PlacePair(old, new, r) = new /\ FreeBases(new) = {}
         \/ \E b \in Ports :
              /\ b % 2 = 0 /\ b + 1 \in Ports /\ new[b] = Nobody /\ new[b + 1] = Nobody
              /\ PlacePair(old, new, r)
                   = [new EXCEPT ![b] = Owned(r, "left"), ![b + 1] = Owned(r, "right")]
<1> DEFINE held == {b \in FreeBases(new) : old[b] = Owned(r, "left") /\ old[b + 1] = Owned(r, "right")}
           base == Preferred(<<held, FreeBases(new) \cap {2 * r.pad}, FreeBases(new)>>)
<1>1. FreeBases(new) \in SUBSET Ports /\ FreeBases(new) \in SUBSET Nat
  BY PortFacts DEF FreeBases
<1>2. base \in FreeBases(new) \/ (base = None /\ FreeBases(new) = {})
  <2>1. held \in SUBSET Nat /\ FreeBases(new) \cap {2 * r.pad} \in SUBSET Nat
    BY <1>1
  <2> QED
    BY <1>1, <2>1, PreferredFacts
<1>3. PlacePair(old, new, r) = IF base = None THEN new
        ELSE [new EXCEPT ![base] = Owned(r, "left"), ![base + 1] = Owned(r, "right")]
  BY DEF PlacePair
<1>4. None \notin FreeBases(new)
  BY <1>1, PortFacts
<1> HIDE DEF base
<1>5. CASE base = None
  BY <1>2, <1>3, <1>4, <1>5
<1>6. CASE base # None
  BY <1>2, <1>3, <1>6 DEF FreeBases
<1> QED
  BY <1>5, <1>6

\* A single controller takes one free port, the one it had if that is free, or none if all
\* are taken.
LEMMA SingleTakes ==
  ASSUME NEW old, NEW new, NEW r
  PROVE  LET held == {h \in Ports : new[h] = Nobody /\ old[h] = Owned(r, "whole")} IN
         \/ PlaceSingle(old, new, r) = new /\ held = {} /\ \A h \in Ports : new[h] # Nobody
         \/ \E p \in Ports :
              /\ new[p] = Nobody /\ (held # {} => p \in held)
              /\ PlaceSingle(old, new, r) = [new EXCEPT ![p] = Owned(r, "whole")]
<1> DEFINE free == {h \in Ports : new[h] = Nobody}
           had == {h \in free : old[h] = Owned(r, "whole")}
           held == {h \in Ports : new[h] = Nobody /\ old[h] = Owned(r, "whole")}
           port == Preferred(<<had, free \cap {r.pad}, free>>)
<1>1. /\ had = held /\ free \in SUBSET Nat /\ free \in SUBSET Ports /\ None \notin free
      /\ had \in SUBSET free
  BY PortFacts
<1>2. PlaceSingle(old, new, r) = IF port = None THEN new
        ELSE [new EXCEPT ![port] = Owned(r, "whole")]
  BY DEF PlaceSingle
<1>3. /\ port \in free \/ (port = None /\ free = {})
      /\ had # {} => port \in had
  <2>1. had \in SUBSET Nat /\ free \cap {r.pad} \in SUBSET Nat
    BY <1>1
  <2>2. free \cap {r.pad} \in SUBSET free
    OBVIOUS
  <2> DEFINE mid == free \cap {r.pad}
  <2>3. LET p == Preferred(<<had, mid, free>>) IN
        /\ had # {} => p \in had
        /\ had = {} /\ mid # {} => p \in mid
        /\ had = {} /\ mid = {} /\ free # {} => p \in free
        /\ had = {} /\ mid = {} /\ free = {} => p = None
    <3> HIDE DEF had, mid, free
    <3> QED
      BY <1>1, <2>1, PreferredFacts DEF mid
  <2> HIDE DEF had, free
  <2> QED
    BY <1>1, <2>2, <2>3
<1> HIDE DEF port
<1>4. CASE port = None
  <2>1. held = {} /\ free = {}
    BY <1>1, <1>3, <1>4
  <2> QED
    BY <1>2, <1>4, <2>1
<1>5. CASE port # None
  <2>1. port \in Ports /\ new[port] = Nobody /\ (held # {} => port \in held)
    BY <1>1, <1>3, <1>5
  <2> QED
    BY <1>2, <1>5, <2>1
<1> QED
  BY <1>4, <1>5

\* A pair's turn keeps the layout well formed, and what it finds in it.
LEMMA PairTurn ==
  ASSUME NEW old, NEW new, NEW r, IsPad(r), WellFormed(new)
  PROVE  LET res == PlacePair(old, new, r) IN
         /\ WellFormed(res)
         /\ \A h \in Ports : res[h] # new[h] =>
              new[h] = Nobody /\ res[h] # Nobody /\ res[h].half # "whole"
<1> DEFINE res == PlacePair(old, new, r)
<1>1. CASE res = new
  BY <1>1
<1>2. ASSUME NEW b \in Ports, b % 2 = 0, b + 1 \in Ports, new[b] = Nobody, new[b + 1] = Nobody,
             res = [new EXCEPT ![b] = Owned(r, "left"), ![b + 1] = Owned(r, "right")]
      PROVE  /\ WellFormed(res)
             /\ \A h \in Ports : res[h] # new[h] =>
                  new[h] = Nobody /\ res[h] # Nobody /\ res[h].half # "whole"
  <2> DEFINE l == Owned(r, "left")
             t == Owned(r, "right")
  <2>1. /\ l \in Owner /\ l # Nobody /\ l.half = "left" /\ t \in Owner /\ t # Nobody /\ t.half = "right"
        /\ t = [l EXCEPT !.half = "right"] /\ l = [t EXCEPT !.half = "left"]
    <3>1. t = [l EXCEPT !.half = "right"] /\ l = [t EXCEPT !.half = "left"]
      BY DEF Owned
    <3> QED
      BY <3>1, OwnedFacts
  <2> HIDE DEF l, t
  <2>2. /\ b # b + 1 /\ (b + 1) % 2 = 1 /\ (b + 1) - 1 = b
        /\ \A h \in Ports : h \in Nat
    BY <1>2, PortFacts
  <2>3. /\ res \in [Ports -> Owner \cup {Nobody}] /\ res[b] = l /\ res[b + 1] = t
        /\ \A h \in Ports : h # b /\ h # b + 1 => res[h] = new[h]
    BY <1>2, <2>1, <2>2 DEF WellFormed, l, t
  <2> HIDE DEF res
  <2>4. ASSUME NEW h \in Ports, res[h] # Nobody, res[h].half = "left"
        PROVE  h % 2 = 0 /\ h + 1 \in Ports /\ res[h + 1] = [res[h] EXCEPT !.half = "right"]
    <3>1. CASE h = b
      BY <1>2, <2>1, <2>3, <3>1
    <3>2. CASE h # b
      <4>1. h # b + 1 /\ res[h] = new[h]
        BY <2>1, <2>3, <2>4, <3>2
      <4>2. h % 2 = 0 /\ h + 1 \in Ports /\ new[h + 1] = [new[h] EXCEPT !.half = "right"]
        BY <2>4, <4>1 DEF WellFormed
      <4>3. h + 1 # b + 1
        BY <2>2, <3>2
      <4>4. [new[h] EXCEPT !.half = "right"] \in Owner
        BY <2>4, <4>1 DEF WellFormed, Owner
      <4>5. h + 1 # b
        BY <1>2, <4>2, <4>4, NobodyAssumption
      <4> QED
        BY <2>3, <4>1, <4>2, <4>3, <4>5
    <3> QED
      BY <3>1, <3>2
  <2>5. ASSUME NEW h \in Ports, res[h] # Nobody, res[h].half = "right"
        PROVE  h % 2 = 1 /\ h - 1 \in Ports /\ res[h - 1] = [res[h] EXCEPT !.half = "left"]
    <3>1. CASE h = b + 1
      BY <1>2, <2>1, <2>2, <2>3, <3>1
    <3>2. CASE h # b + 1
      <4>1. h # b /\ res[h] = new[h]
        BY <2>1, <2>3, <2>5, <3>2
      <4>2. h % 2 = 1 /\ h - 1 \in Ports /\ new[h - 1] = [new[h] EXCEPT !.half = "left"]
        BY <2>5, <4>1 DEF WellFormed
      <4>3. h - 1 # b
        BY <2>2, <3>2
      <4>4. [new[h] EXCEPT !.half = "left"] \in Owner
        BY <2>5, <4>1 DEF WellFormed, Owner
      <4>5. h - 1 # b + 1
        BY <1>2, <4>2, <4>4, NobodyAssumption
      <4> QED
        BY <2>3, <4>1, <4>2, <4>3, <4>5
    <3> QED
      BY <3>1, <3>2
  <2> QED
    BY <1>2, <2>1, <2>3, <2>4, <2>5 DEF WellFormed
<1> HIDE DEF res
<1>3. \/ res = new
      \/ \E b \in Ports :
           /\ b % 2 = 0 /\ b + 1 \in Ports /\ new[b] = Nobody /\ new[b + 1] = Nobody
           /\ res = [new EXCEPT ![b] = Owned(r, "left"), ![b + 1] = Owned(r, "right")]
  BY PairTakes DEF res
<1> QED
  BY <1>1, <1>2, <1>3 DEF res

\* So does the turn of a single controller, which takes one port at most.
LEMMA SingleTurn ==
  ASSUME NEW old, NEW new, NEW r, IsPad(r), WellFormed(new)
  PROVE  LET res == PlaceSingle(old, new, r) IN
         /\ WellFormed(res)
         /\ \A h \in Ports : res[h] # new[h] => new[h] = Nobody /\ res[h] = Owned(r, "whole")
         /\ \A h, k \in Ports : res[h] # new[h] /\ res[k] # new[k] => h = k
         /\ \A h \in Ports : new[h] = Nobody /\ old[h] = Owned(r, "whole") =>
              \E p \in Ports : old[p] = Owned(r, "whole") /\ res[p] = Owned(r, "whole")
<1> DEFINE res == PlaceSingle(old, new, r)
           held == {h \in Ports : new[h] = Nobody /\ old[h] = Owned(r, "whole")}
<1>1. CASE res = new /\ held = {}
  BY <1>1
<1>2. ASSUME NEW p \in Ports, new[p] = Nobody, held # {} => p \in held,
             res = [new EXCEPT ![p] = Owned(r, "whole")]
      PROVE  /\ WellFormed(res)
             /\ \A h \in Ports : res[h] # new[h] => new[h] = Nobody /\ res[h] = Owned(r, "whole")
             /\ \A h, k \in Ports : res[h] # new[h] /\ res[k] # new[k] => h = k
             /\ \A h \in Ports : new[h] = Nobody /\ old[h] = Owned(r, "whole") =>
                  \E q \in Ports : old[q] = Owned(r, "whole") /\ res[q] = Owned(r, "whole")
  <2> DEFINE w == Owned(r, "whole")
  <2>1. w \in Owner /\ w # Nobody /\ w.half = "whole"
    BY OwnedFacts
  <2>2. /\ res \in [Ports -> Owner \cup {Nobody}] /\ res[p] = w
        /\ \A h \in Ports : h # p => res[h] = new[h]
    BY <1>2, <2>1 DEF WellFormed
  <2>3. ASSUME NEW h \in Ports, NEW k \in Ports, new[h] # Nobody, NEW half \in {"left", "right"},
               new[k] = [new[h] EXCEPT !.half = half]
        PROVE  res[k] = new[k] /\ res[h] = new[h]
    <3>1. [new[h] EXCEPT !.half = half] \in Owner
      BY <2>3 DEF WellFormed, Owner
    <3> QED
      BY <1>2, <2>2, <2>3, <3>1, NobodyAssumption
  <2> HIDE DEF w
  <2>4. \A h \in Ports : res[h] # Nobody /\ res[h].half \in {"left", "right"} => res[h] = new[h]
    BY <2>1, <2>2
  <2> HIDE DEF res
  <2>5. WellFormed(res)
    <3>1. ASSUME NEW h \in Ports, res[h] # Nobody, res[h].half = "left"
          PROVE  h % 2 = 0 /\ h + 1 \in Ports /\ res[h + 1] = [res[h] EXCEPT !.half = "right"]
      <4>1. /\ res[h] = new[h] /\ h % 2 = 0 /\ h + 1 \in Ports
            /\ new[h + 1] = [new[h] EXCEPT !.half = "right"]
        BY <2>4, <3>1 DEF WellFormed
      <4> QED
        BY <2>3, <3>1, <4>1
    <3>2. ASSUME NEW h \in Ports, res[h] # Nobody, res[h].half = "right"
          PROVE  h % 2 = 1 /\ h - 1 \in Ports /\ res[h - 1] = [res[h] EXCEPT !.half = "left"]
      <4>1. /\ res[h] = new[h] /\ h % 2 = 1 /\ h - 1 \in Ports
            /\ new[h - 1] = [new[h] EXCEPT !.half = "left"]
        BY <2>4, <3>2 DEF WellFormed
      <4> QED
        BY <2>3, <3>2, <4>1
    <3> QED
      BY <2>2, <3>1, <3>2 DEF WellFormed
  <2>6. /\ \A h \in Ports : res[h] # new[h] => h = p /\ new[h] = Nobody /\ res[h] = Owned(r, "whole")
        /\ held # {} => old[p] = Owned(r, "whole")
    BY <1>2, <2>2 DEF w
  <2> QED
    BY <1>2, <2>2, <2>5, <2>6 DEF w
<1> HIDE DEF res
<1>3. \/ res = new /\ held = {}
      \/ \E p \in Ports :
           /\ new[p] = Nobody /\ (held # {} => p \in held)
           /\ res = [new EXCEPT ![p] = Owned(r, "whole")]
  BY SingleTakes DEF res
<1> QED
  BY <1>1, <1>2, <1>3 DEF res

-----------------------------------------------------------------------------
(***************************************************************************)
(* The loop.                                                               *)
(***************************************************************************)

\* The layouts of the first n turns.
Run(run, kind, old, table, start, n) ==
  /\ run = [k \in 0..n |-> run[k]]
  /\ run[0] = start
  /\ \A k \in 1..n : run[k] = Turn(kind, old, table, run[k - 1], InOrder[k])

LEMMA RunsExist ==
  ASSUME NEW kind, NEW old, NEW table, NEW start, NEW K \in Nat
  PROVE  \E run : Run(run, kind, old, table, start, K)
<1> DEFINE S == {n \in 0..K : \E run : Run(run, kind, old, table, start, n)}
<1>1. 0 \in S
  <2>1. Run([k \in 0..0 |-> start], kind, old, table, start, 0)
    BY DEF Run
  <2> QED
    BY <2>1
<1>2. ASSUME NEW n \in 1..K, n - 1 \in S
      PROVE  n \in S
  <2>1. PICK r : Run(r, kind, old, table, start, n - 1)
    BY <1>2
  <2> DEFINE last == Turn(kind, old, table, r[n - 1], InOrder[n])
             s == [k \in 0..n |-> IF k = n THEN last ELSE r[k]]
  <2>2. /\ s[0] = start /\ s[n] = last
        /\ \A k \in 0..(n - 1) : s[k] = r[k]
    BY <2>1 DEF Run
  <2>3. s = [k \in 0..n |-> s[k]]
    OBVIOUS
  <2>4. \A k \in 1..n : s[k] = Turn(kind, old, table, s[k - 1], InOrder[k])
    <3> TAKE k \in 1..n
    <3>1. k - 1 \in 0..(n - 1)
      OBVIOUS
    <3> HIDE DEF s
    <3>2. CASE k = n
      BY <2>2, <3>1, <3>2
    <3>3. CASE k # n
      <4>1. k \in 0..(n - 1) /\ k \in 1..(n - 1)
        BY <3>3
      <4>2. r[k] = Turn(kind, old, table, r[k - 1], InOrder[k])
        BY <2>1, <4>1 DEF Run
      <4> QED
        BY <2>2, <3>1, <4>1, <4>2
    <3> QED
      BY <3>2, <3>3
  <2>5. Run(s, kind, old, table, start, n)
    <3> HIDE DEF s
    <3> QED
      BY <2>2, <2>3, <2>4 DEF Run
  <2> QED
    BY <1>2, <2>5
<1> HIDE DEF S
<1>3. K \in S
  BY <1>1, <1>2, Climbs
<1> QED
  BY <1>3 DEF S

LEMMA PlacedIsARun ==
  ASSUME NEW kind, NEW old, NEW table, NEW start
  PROVE  \E run : /\ Run(run, kind, old, table, start, Turns)
                  /\ Placed(kind, old, table, start) = run[Turns]
<1> DEFINE Step(f) ==
             [n \in 0..Turns |->
                IF n = 0 THEN start ELSE Turn(kind, old, table, f[n - 1], InOrder[n])]
<1>1. PICK r : Run(r, kind, old, table, start, Turns)
  BY RunsExist, OrderFacts
<1>2. r = Step(r)
  <2>1. \A n \in 0..Turns : r[n] = Step(r)[n]
    <3> TAKE n \in 0..Turns
    <3>1. CASE n = 0
      BY <1>1, <3>1 DEF Run
    <3>2. CASE n # 0
      <4>1. n \in 1..Turns
        BY <3>2, OrderFacts
      <4> QED
        BY <1>1, <3>2, <4>1 DEF Run
    <3> QED
      BY <3>1, <3>2
  <2>2. r = [n \in 0..Turns |-> r[n]]
    BY <1>1 DEF Run
  <2>3. Step(r) = [n \in 0..Turns |-> Step(r)[n]]
    OBVIOUS
  <2> HIDE DEF Step
  <2> QED
    BY <2>1, <2>2, <2>3
<1> DEFINE g == CHOOSE f : f = Step(f)
<1>3. g = Step(g)
  BY <1>2
<1>4. Placed(kind, old, table, start) = g[Turns]
  BY DEF Placed
<1> HIDE DEF g
<1>5. Run(g, kind, old, table, start, Turns)
  <2>1. g = [n \in 0..Turns |-> g[n]]
    BY <1>3
  <2>2. \A n \in 0..Turns : g[n] = IF n = 0 THEN start ELSE Turn(kind, old, table, g[n - 1], InOrder[n])
    BY <1>3
  <2> HIDE DEF Step
  <2>3. g[0] = start
    BY <2>2, OrderFacts
  <2>4. \A k \in 1..Turns : k \in 0..Turns /\ k # 0
    BY OrderFacts
  <2> QED
    BY <2>1, <2>2, <2>3, <2>4 DEF Run
<1> QED
  BY <1>4, <1>5

\* The pairs leave a well formed layout without single controllers.
LEMMA PairPhase ==
  ASSUME NEW old, NEW table
  PROVE  LET paired == Placed("pair", old, table, EmptyLayout) IN
         /\ WellFormed(paired)
         /\ \A h \in Ports : paired[h] # Nobody => paired[h].half # "whole"
<1>1. PICK run : /\ Run(run, "pair", old, table, EmptyLayout, Turns)
                 /\ Placed("pair", old, table, EmptyLayout) = run[Turns]
  BY PlacedIsARun
<1> DEFINE Good(L) == WellFormed(L) /\ \A h \in Ports : L[h] # Nobody => L[h].half # "whole"
           S == {n \in 0..Turns : Good(run[n])}
<1>2. 0 \in S
  BY <1>1, OrderFacts DEF Run, EmptyLayout, WellFormed
<1>3. ASSUME NEW n \in 1..Turns, n - 1 \in S
      PROVE  n \in S
  <2>1. run[n] = Turn("pair", old, table, run[n - 1], InOrder[n])
    BY <1>1 DEF Run
  <2>2. run[n] \in {run[n - 1], PlacePair(old, run[n - 1], InOrder[n])}
    BY <2>1 DEF Turn
  <2>3. Good(PlacePair(old, run[n - 1], InOrder[n]))
    BY <1>3, PairTurn, OrderFacts DEF IsPad
  <2> HIDE DEF Good
  <2> QED
    BY <1>3, <2>2, <2>3, OrderFacts
<1> HIDE DEF S
<1>4. Turns \in S
  BY <1>2, <1>3, Climbs, OrderFacts
<1> QED
  BY <1>1, <1>4 DEF S

\* A pad that plays a single controller has one port.
OnePortEach(layout) ==
  \A h, k \in Ports : layout[h] # Nobody /\ layout[h] = layout[k] /\ layout[h].half = "whole" => h = k

\* After n turns of the single controllers, who has a port has had a turn, on one port.
Served(layout, n) ==
  /\ WellFormed(layout) /\ OnePortEach(layout)
  /\ \A h \in Ports : layout[h] # Nobody /\ layout[h].half = "whole" =>
       \E m \in 1..n : layout[h] = Owned(InOrder[m], "whole")

\* Nobody has had a turn of which another comes later.
LEMMA TurnsDiffer ==
  ASSUME NEW m \in 1..Turns, NEW n \in 1..Turns, m < n
  PROVE  Owned(InOrder[m], "whole") # Owned(InOrder[n], "whole")
<1>1. Before(InOrder[m], InOrder[n])
  BY OrderFacts
<1>2. /\ InOrder[m].client \in Nat /\ InOrder[n].client \in Nat
      /\ InOrder[m].pad \in Nat /\ InOrder[n].pad \in Nat
  BY OrderFacts, PortAssumption DEF PortAssumption, Clients, Pads
<1> QED
  BY <1>1, <1>2 DEF Before, Owned

LEMMA SinglePhase ==
  ASSUME NEW old, NEW table, NEW start, WellFormed(start),
         \A h \in Ports : start[h] # Nobody => start[h].half # "whole",
         NEW run, Run(run, "single", old, table, start, Turns)
  PROVE  \A n \in 0..Turns : Served(run[n], n)
<1> DEFINE S == {n \in 0..Turns : Served(run[n], n)}
<1>1. 0 \in S
  BY OrderFacts DEF Run, Served, OnePortEach
<1>2. ASSUME NEW n \in 1..Turns, n - 1 \in S
      PROVE  n \in S
  <2> DEFINE new == run[n - 1]
             r == InOrder[n]
             res == PlaceSingle(old, new, r)
  <2>1. run[n] \in {new, res}
    BY DEF Run, Turn
  <2>2. Served(new, n - 1) /\ n - 1 \in Nat /\ n \in 0..Turns /\ IsPad(r)
    BY <1>2, OrderFacts DEF IsPad
  <2>3. Served(new, n)
    BY <2>2 DEF Served
  <2>4. /\ WellFormed(res)
        /\ \A h \in Ports : res[h] # new[h] => new[h] = Nobody /\ res[h] = Owned(r, "whole")
        /\ \A h, k \in Ports : res[h] # new[h] /\ res[k] # new[k] => h = k
    BY <2>2, SingleTurn DEF Served
  <2>5. \A h \in Ports : new[h] # Nobody => new[h] # Owned(r, "whole")
    <3> SUFFICES ASSUME NEW h \in Ports, new[h] # Nobody, new[h] = Owned(r, "whole")
                 PROVE  FALSE
      OBVIOUS
    <3>1. PICK m \in 1..(n - 1) : new[h] = Owned(InOrder[m], "whole")
      BY <2>2 DEF Served, Owned
    <3>2. m \in 1..Turns /\ m < n
      BY OrderFacts
    <3> QED
      BY <3>1, <3>2, TurnsDiffer
  <2> HIDE DEF new, r, res
  <2>6. Served(res, n)
    <3>1. OnePortEach(res)
      <4> SUFFICES ASSUME NEW h \in Ports, NEW k \in Ports, res[h] # Nobody, res[h] = res[k],
                          res[h].half = "whole"
                   PROVE  h = k
        BY DEF OnePortEach
      <4>1. CASE res[h] = new[h] /\ res[k] = new[k]
        BY <2>3, <4>1 DEF Served, OnePortEach
      <4>2. CASE res[h] # new[h] /\ res[k] # new[k]
        BY <2>4, <4>2
      <4>3. CASE res[h] # new[h] /\ res[k] = new[k]
        BY <2>4, <2>5, <4>3
      <4>4. CASE res[h] = new[h] /\ res[k] # new[k]
        BY <2>4, <2>5, <4>4
      <4> QED
        BY <4>1, <4>2, <4>3, <4>4
    <3>2. ASSUME NEW h \in Ports, res[h] # Nobody, res[h].half = "whole"
          PROVE  \E m \in 1..n : res[h] = Owned(InOrder[m], "whole")
      <4>1. CASE res[h] = new[h]
        BY <2>3, <3>2, <4>1 DEF Served
      <4>2. CASE res[h] # new[h]
        BY <2>4, <4>2 DEF r
      <4> QED
        BY <4>1, <4>2
    <3> QED
      BY <2>4, <3>1, <3>2 DEF Served
  <2> QED
    BY <2>1, <2>2, <2>3, <2>6 DEF new
<1> HIDE DEF S
<1>3. \A n \in 0..Turns : n \in S
  BY <1>1, <1>2, Climbs, OrderFacts
<1> QED
  BY <1>3 DEF S

\* What is taken stays taken.
LEMMA TakenStays ==
  ASSUME NEW old, NEW table, NEW start, NEW run, Run(run, "single", old, table, start, Turns),
         \A n \in 0..Turns : Served(run[n], n),
         NEW m \in 0..Turns, NEW h \in Ports, run[m][h] # Nobody
  PROVE  run[Turns][h] = run[m][h]
<1> DEFINE S == {n \in 0..Turns : m <= n => run[n][h] = run[m][h]}
<1>1. 0 \in S
  BY OrderFacts
<1>2. ASSUME NEW n \in 1..Turns, n - 1 \in S
      PROVE  n \in S
  <2>1. n \in 0..Turns /\ n - 1 \in 0..Turns
    BY OrderFacts
  <2>2. CASE m <= n - 1
    <3>1. run[n - 1][h] = run[m][h]
      BY <1>2, <2>2
    <3>2. run[n] \in {run[n - 1], PlaceSingle(old, run[n - 1], InOrder[n])}
      BY DEF Run, Turn
    <3>3. PlaceSingle(old, run[n - 1], InOrder[n])[h] = run[n - 1][h]
      <4>1. WellFormed(run[n - 1]) /\ IsPad(InOrder[n])
        BY <2>1, OrderFacts DEF Served, IsPad
      <4> QED
        BY <3>1, <4>1, SingleTurn
    <3> QED
      BY <2>1, <3>1, <3>2, <3>3
  <2>3. CASE ~(m <= n - 1)
    <3>1. m <= n => m = n
      BY <2>1, <2>3
    <3> QED
      BY <2>1, <3>1
  <2> QED
    BY <2>2, <2>3
<1> HIDE DEF S
<1>3. Turns \in S
  BY <1>1, <1>2, Climbs, OrderFacts
<1> QED
  BY <1>3, OrderFacts DEF S

\* reconcile_hw_slots makes a well formed layout, in which a single controller has one port,
\* and keeps it unless a pair takes it or a pad before.
LEMMA ReconcileFacts ==
  ASSUME NEW old, NEW table
  PROVE  LET made == Reconcile(old, table) IN
         /\ WellFormed(made) /\ OnePortEach(made)
         /\ WellFormed(old) /\ OnePortEach(old) =>
              \A h \in Ports :
                old[h] # Nobody /\ old[h].half = "whole" /\ Wants(table, old[h], "single")
                  /\ made[h] # old[h] =>
                /\ made[h] # Nobody
                /\ made[h].half = "whole" => Before(made[h], old[h])
<1> DEFINE start == Placed("pair", old, table, EmptyLayout)
<1>1. WellFormed(start) /\ \A h \in Ports : start[h] # Nobody => start[h].half # "whole"
  BY PairPhase
<1>2. PICK run : /\ Run(run, "single", old, table, start, Turns)
                 /\ Placed("single", old, table, start) = run[Turns]
  BY PlacedIsARun
<1>3. Reconcile(old, table) = run[Turns]
  BY <1>2 DEF Reconcile
<1> HIDE DEF start
<1>4. \A n \in 0..Turns : Served(run[n], n)
  BY <1>1, <1>2, SinglePhase
<1>5. WellFormed(run[Turns]) /\ OnePortEach(run[Turns])
  BY <1>4, OrderFacts DEF Served
<1>6. ASSUME WellFormed(old), OnePortEach(old), NEW h \in Ports, old[h] # Nobody,
             old[h].half = "whole", Wants(table, old[h], "single"), run[Turns][h] # old[h]
      PROVE  /\ run[Turns][h] # Nobody
             /\ run[Turns][h].half = "whole" => Before(run[Turns][h], old[h])
  <2>1. old[h] \in Owner
    BY <1>6 DEF WellFormed
  <2>2. PICK n \in 1..Turns : InOrder[n].client = old[h].client /\ InOrder[n].pad = old[h].pad
    <3>1. old[h].client \in Clients /\ old[h].pad \in Pads
      BY <2>1 DEF Owner
    <3> QED
      BY <3>1, EveryPadHasATurn
  <2>3. n \in 0..Turns /\ n - 1 \in 0..Turns
    BY OrderFacts
  <2>4. old[h] = Owned(InOrder[n], "whole")
    BY <1>6, <2>1, <2>2 DEF Owner, Owned
  <2>5. run[n] = PlaceSingle(old, run[n - 1], InOrder[n])
    BY <1>2, <1>6, <2>2 DEF Run, Turn, Wants
  <2>6. CASE run[n - 1][h] = Nobody
    <3>1. PICK p \in Ports : old[p] = old[h] /\ run[n][p] = old[h]
      <4>1. WellFormed(run[n - 1]) /\ IsPad(InOrder[n])
        BY <1>4, <2>3, OrderFacts DEF Served, IsPad
      <4> QED
        BY <2>4, <2>5, <2>6, <4>1, SingleTurn
    <3>2. p = h
      BY <1>6, <3>1 DEF OnePortEach
    <3>3. run[Turns][h] = old[h]
      BY <1>2, <1>4, <1>6, <2>3, <3>1, <3>2, TakenStays
    <3> QED
      BY <1>6, <3>3
  <2>7. CASE run[n - 1][h] # Nobody
    <3>1. run[Turns][h] = run[n - 1][h]
      BY <1>2, <1>4, <2>3, <2>7, TakenStays
    <3>2. ASSUME run[n - 1][h].half = "whole"
          PROVE  Before(run[n - 1][h], old[h])
      <4>1. PICK m \in 1..(n - 1) : run[n - 1][h] = Owned(InOrder[m], "whole")
        BY <1>4, <2>3, <2>7, <3>2 DEF Served
      <4>2. m \in 1..Turns /\ m < n
        BY OrderFacts
      <4>3. Before(InOrder[m], InOrder[n])
        BY <4>2, OrderFacts
      <4> QED
        BY <2>2, <4>1, <4>3 DEF Before, Owned
    <3> QED
      BY <2>7, <3>1, <3>2
  <2> QED
    BY <2>6, <2>7
<1> QED
  BY <1>3, <1>5, <1>6

-----------------------------------------------------------------------------
(***************************************************************************)
(* The invariant.  ToldWhatIsLaidOut says nothing while the writer tells   *)
(* the sessions.  What it has told by then is laid out, and a session it   *)
(* did not copy and has yet to come to was opened since, and told nothing. *)
(* After a tick that was cut short it says nothing either, until the next  *)
(* one copies the sessions again.                                          *)
(***************************************************************************)

PortTypes ==
  /\ client \in [Clients -> Session]
  /\ macros \in [Clients -> SUBSET Pads]
  /\ told \in [Clients -> SUBSET Ports]
  /\ writer \in [at : Untold..MaxClients, copied : SUBSET Clients]
  /\ admit \in [Admitters -> [pc : {"idle", "allocate", "store"}, pads : Layouts,
                              slot : Clients \cup {None}]]
  /\ \A t \in Admitters : admit[t].pc = "store" => admit[t].slot \in Clients

PlaysUdp(c) == client[c].active /\ client[c].by = Udp

ToldSoFar ==
  writer.at # Untold => \A c \in Clients : PlaysUdp(c) =>
    IF writer.at = 0 \/ c < writer.at - 1
    THEN told[c] \in {{}, PortsOf(hw, c)}
    ELSE c \notin writer.copied => told[c] = {}

PortsIInv == PortTypes /\ WellFormed(hw) /\ OnePortEach(hw) /\ ToldSoFar

LEMMA ClientFacts ==
  /\ Clients \in SUBSET Nat /\ None \notin Clients /\ MaxClients \in Nat
  /\ \A c \in Clients : c < MaxClients
  /\ NoPads \in Layouts /\ NoSession \in Session /\ ~NoSession.active
  /\ Udp \in Admitters /\ Shown \subseteq Layouts
  BY PortAssumption
  DEF PortAssumption, Clients, None, NoPads, Layouts, Kinds, Pads, NoSession, Session

\* A session whose report is stored, or that is opened.
LEMMA SessionFacts ==
  ASSUME NEW t \in Admitters, NEW pads \in Layouts
  PROVE  [active |-> TRUE, quiet |-> FALSE, by |-> t, pads |-> pads] \in Session
<1>1. TRUE \in BOOLEAN /\ FALSE \in BOOLEAN
  OBVIOUS
<1> QED
  BY <1>1 DEF Session

LEMMA InitHolds == Init => PortsIInv
<1> SUFFICES ASSUME Init PROVE PortsIInv
  OBVIOUS
<1>1. PortTypes
  <2>1. 0 \in Untold..MaxClients
    BY ClientFacts DEF Untold
  <2> QED
    BY <2>1, ClientFacts DEF Init, PortTypes, WriterIdle, AdmitIdle
<1>2. WellFormed(hw) /\ OnePortEach(hw)
  BY DEF Init, EmptyLayout, WellFormed, OnePortEach
<1>3. ToldSoFar
  BY ClientFacts DEF Init, ToldSoFar, PlaysUdp
<1> QED
  BY <1>1, <1>2, <1>3 DEF PortsIInv

-----------------------------------------------------------------------------
(***************************************************************************)
(* The steps of those who open, feed and end sessions: they touch one      *)
(* session, and forget what it was told whenever it is opened.             *)
(***************************************************************************)

\* A step that leaves the layout and the writer alone, and a session that plays at the end of
\* it as it did, or has told it nothing.
LEMMA SessionStep ==
  ASSUME ToldSoFar, UNCHANGED <<hw, writer>>,
         \A c \in Clients : PlaysUdp(c)' => told'[c] = {} \/ (PlaysUdp(c) /\ told'[c] = told[c])
  PROVE  ToldSoFar'
  BY DEF ToldSoFar, PortsOf

LEMMA LetInStep ==
  ASSUME PortsIInv, NEW t \in Admitters, NEW pads \in Shown, LetIn(t, pads)
  PROVE  PortTypes' /\ ToldSoFar'
<1>1. PortTypes'
  BY ClientFacts DEF PortsIInv, PortTypes, LetIn
<1>2. ToldSoFar'
  BY SessionStep DEF PortsIInv, LetIn, PlaysUdp
<1> QED
  BY <1>1, <1>2

LEMMA AllocateStep ==
  ASSUME PortsIInv, NEW t \in Admitters, Allocate(t)
  PROVE  PortTypes' /\ ToldSoFar'
<1> DEFINE free == {c \in Clients : ~Counted(c)}
           first == Min(free)
           opened == [active |-> TRUE, quiet |-> FALSE, by |-> t, pads |-> NoPads]
<1>1. CASE free = {}
  <2>1. /\ UNCHANGED <<client, macros, told, hw, writer>>
        /\ admit' = [admit EXCEPT ![t] = AdmitIdle]
    BY <1>1 DEF Allocate
  <2>2. PortTypes'
    BY <2>1, ClientFacts DEF PortsIInv, PortTypes, AdmitIdle
  <2>3. ToldSoFar'
    BY <2>1, SessionStep DEF PortsIInv, PlaysUdp
  <2> QED
    BY <2>2, <2>3
<1>2. CASE free # {}
  <2>1. /\ client' = [client EXCEPT ![first] = opened]
        /\ told' = [told EXCEPT ![first] = {}]
        /\ admit' = [admit EXCEPT ![t].pc = "store", ![t].slot = first]
        /\ UNCHANGED <<macros, hw, writer>>
    BY <1>2 DEF Allocate
  <2>2. first \in Clients
    <3>1. free \in SUBSET Nat
      BY ClientFacts
    <3> QED
      BY <1>2, <3>1, MinIn
  <2>3. opened \in Session
    BY SessionFacts, ClientFacts
  <2> HIDE DEF first, opened
  <2>4. PortTypes'
    BY <2>1, <2>2, <2>3, ZenonT(40) DEF PortsIInv, PortTypes
  <2>5. ToldSoFar'
    BY <2>1, <2>2, SessionStep DEF PortsIInv, PortTypes, PlaysUdp
  <2> QED
    BY <2>4, <2>5
<1> QED
  BY <1>1, <1>2

LEMMA StoreStep ==
  ASSUME PortsIInv, NEW t \in Admitters, Store(t)
  PROVE  PortTypes' /\ ToldSoFar'
<1> DEFINE c == admit[t].slot
<1>1. c \in Clients /\ admit[t].pads \in Layouts
  BY DEF PortsIInv, PortTypes, Store
<1>2. /\ admit' = [admit EXCEPT ![t] = AdmitIdle] /\ UNCHANGED <<macros, told, hw, writer>>
      /\ \A d \in Clients \ {c} : client'[d] = client[d]
      /\ client' \in [Clients -> Session]
      /\ client'[c].active =>
           \/ client'[c].by = t /\ t # Udp
           \/ client[c].active /\ client'[c].by = client[c].by
  <2>1. CASE ~(client[c].active \/ t # Udp)
    BY <2>1 DEF Store, PortsIInv, PortTypes
  <2>2. CASE client[c].active \/ t # Udp
    <3>1. client' = [client EXCEPT ![c].active = TRUE, ![c].by = IF t = Udp THEN @ ELSE t,
                                   ![c].quiet = FALSE, ![c].pads = admit[t].pads]
      BY <2>2 DEF Store
    <3>2. client[c] \in Session
      BY <1>1 DEF PortsIInv, PortTypes
    <3> DEFINE r == client[c]
               s == [r EXCEPT !.active = TRUE, !.by = IF t = Udp THEN @ ELSE t,
                              !.quiet = FALSE, !.pads = admit[t].pads]
    <3>3. s \in Session /\ s.by = IF t = Udp THEN r.by ELSE t
      <4>1. TRUE \in BOOLEAN /\ FALSE \in BOOLEAN
        OBVIOUS
      <4> QED
        BY <1>1, <3>2, <4>1 DEF Session
    <3>4. client' = [client EXCEPT ![c] = s]
      BY <1>1, <3>1 DEF PortsIInv, PortTypes
    <3>5. admit' = [admit EXCEPT ![t] = AdmitIdle] /\ UNCHANGED <<macros, told, hw, writer>>
      BY DEF Store
    <3>6. \/ s.by = t /\ t # Udp
          \/ client[c].active /\ s.by = client[c].by
      BY <2>2, <3>3
    <3> HIDE DEF r, s, c
    <3>7. /\ client' \in [Clients -> Session]
          /\ client'[c] = s
          /\ \A d \in Clients \ {c} : client'[d] = client[d]
      BY <1>1, <3>3, <3>4 DEF PortsIInv, PortTypes
    <3> QED
      BY <3>5, <3>6, <3>7
  <2> QED
    BY <2>1, <2>2
<1> HIDE DEF c
<1>3. PortTypes'
  BY <1>2, ClientFacts DEF PortsIInv, PortTypes, AdmitIdle
<1>4. \A d \in Clients : PlaysUdp(d)' => PlaysUdp(d) /\ told'[d] = told[d]
  BY <1>2 DEF PlaysUdp
<1>5. ToldSoFar'
  BY <1>2, <1>4, SessionStep DEF PortsIInv
<1> QED
  BY <1>3, <1>5

\* A step of a client, of the network or of a thread that ends a session.
LEMMA OneSessionStep ==
  ASSUME PortsIInv, NEW c \in Clients, NEW s \in Session,
         client' = [client EXCEPT ![c] = s],
         told' = told \/ told' = [told EXCEPT ![c] = {}],
         macros' \in [Clients -> SUBSET Pads],
         s.active => client[c].active /\ s.by = client[c].by,
         UNCHANGED <<hw, writer, admit>>
  PROVE  PortTypes' /\ ToldSoFar'
<1>1. PortTypes'
  BY DEF PortsIInv, PortTypes
<1>2. \A d \in Clients : PlaysUdp(d)' => told'[d] = {} \/ (PlaysUdp(d) /\ told'[d] = told[d])
  BY DEF PortsIInv, PortTypes, PlaysUdp
<1>3. ToldSoFar'
  BY <1>2, SessionStep DEF PortsIInv
<1> QED
  BY <1>1, <1>3

LEMMA ClientStep ==
  ASSUME PortsIInv, NEW c \in Clients,
         \/ \E t \in Admitters : \E pads \in Shown : Report(t, c, pads)
         \/ Reset(c) \/ Silence(c) \/ End(c)
         \/ \E t \in Admitters : \E s \in Pads : StartMacro(t, c, s)
         \/ \E s \in Pads : MacroEnds(c, s)
  PROVE  PortTypes' /\ ToldSoFar'
<1>1. /\ client[c] \in Session /\ client \in [Clients -> Session] /\ TRUE \in BOOLEAN /\ FALSE \in BOOLEAN
      /\ macros \in [Clients -> SUBSET Pads]
  BY DEF PortsIInv, PortTypes
<1>2. ASSUME NEW t \in Admitters, NEW pads \in Shown, Report(t, c, pads)
      PROVE  PortTypes' /\ ToldSoFar'
  <2> DEFINE s == [client[c] EXCEPT !.pads = pads, !.quiet = FALSE]
  <2>1. s \in Session /\ s.active = client[c].active /\ s.by = client[c].by
    BY <1>1, ClientFacts DEF Session
  <2>2. client' = [client EXCEPT ![c] = s] /\ UNCHANGED <<macros, told, hw, writer, admit>>
    BY <1>1, <1>2 DEF Report
  <2> HIDE DEF s
  <2> QED
    BY <1>1, <2>1, <2>2, OneSessionStep
<1>3. CASE Reset(c)
  <2> DEFINE s == [client[c] EXCEPT !.pads = NoPads, !.quiet = FALSE]
  <2>1. s \in Session /\ s.active = client[c].active /\ s.by = client[c].by
    BY <1>1, ClientFacts DEF Session
  <2>2. /\ client' = [client EXCEPT ![c] = s] /\ told' = [told EXCEPT ![c] = {}]
        /\ UNCHANGED <<macros, hw, writer, admit>>
    BY <1>1, <1>3 DEF Reset
  <2> HIDE DEF s
  <2> QED
    BY <1>1, <2>1, <2>2, OneSessionStep
<1>4. CASE Silence(c)
  <2> DEFINE s == [client[c] EXCEPT !.quiet = TRUE]
  <2>1. s \in Session /\ s.active = client[c].active /\ s.by = client[c].by
    BY <1>1 DEF Session
  <2>2. client' = [client EXCEPT ![c] = s] /\ UNCHANGED <<macros, told, hw, writer, admit>>
    BY <1>1, <1>4 DEF Silence
  <2> HIDE DEF s
  <2> QED
    BY <1>1, <2>1, <2>2, OneSessionStep
<1>5. CASE End(c)
  <2>1. macros' \in [Clients -> SUBSET Pads]
    BY <1>1, <1>5 DEF End
  <2> QED
    BY <1>5, <2>1, OneSessionStep, ClientFacts DEF End
<1>6. ASSUME NEW t \in Admitters, NEW p \in Pads, StartMacro(t, c, p)
      PROVE  PortTypes' /\ ToldSoFar'
  <2> DEFINE r == client[c]
  <2>1. macros' \in [Clients -> SUBSET Pads]
    BY <1>1, <1>6 DEF StartMacro
  <2>2. CASE client' = client
    <3>1. client' = [client EXCEPT ![c] = r] /\ UNCHANGED <<told, hw, writer, admit>>
      BY <1>1, <1>6, <2>2 DEF StartMacro
    <3> QED
      BY <1>1, <2>1, <3>1, OneSessionStep
  <2>3. ASSUME NEW shows \in BOOLEAN, r.active,
               client' = [client EXCEPT ![c].quiet = @ /\ client[c].by # t,
                                        ![c].pads[p] = IF shows THEN Configured(@) ELSE @]
        PROVE  PortTypes' /\ ToldSoFar'
    <3> DEFINE pads == [r.pads EXCEPT ![p] = IF shows THEN Configured(@) ELSE @]
               s == [r EXCEPT !.quiet = @ /\ r.by # t, !.pads = pads]
    <3>1. pads \in Layouts
      BY <1>1 DEF Session, Layouts, Kinds, Configured
    <3>2. client' = [client EXCEPT ![c] = s]
      BY <1>1, <2>3
    <3> HIDE DEF pads
    <3>3. s \in Session /\ s.active = client[c].active /\ s.by = client[c].by
      BY <1>1, <3>1 DEF Session
    <3>4. UNCHANGED <<told, hw, writer, admit>>
      BY <1>6 DEF StartMacro
    <3> HIDE DEF s
    <3> QED
      BY <2>1, <3>2, <3>3, <3>4, OneSessionStep
  <2> QED
    BY <1>6, <2>2, <2>3 DEF StartMacro
<1>7. ASSUME NEW p \in Pads, MacroEnds(c, p)
      PROVE  PortTypes' /\ ToldSoFar'
  <2>1. client' = [client EXCEPT ![c] = client[c]] /\ UNCHANGED <<told, hw, writer, admit>>
    BY <1>1, <1>7 DEF MacroEnds
  <2>2. macros' \in [Clients -> SUBSET Pads]
    BY <1>1, <1>7 DEF MacroEnds
  <2> QED
    BY <1>1, <2>1, <2>2, OneSessionStep
<1> QED
  BY <1>2, <1>3, <1>4, <1>5, <1>6, <1>7

-----------------------------------------------------------------------------
(***************************************************************************)
(* The writer.                                                             *)
(***************************************************************************)

\* The table a layout is made of.
LEMMA PlayingFacts ==
  ASSUME NEW table \in [Clients -> Session], NEW by \in [Clients -> SUBSET Pads]
  PROVE  LET playing == [c \in Clients |-> [table[c] EXCEPT !.pads = Driven(table[c].pads, by[c])]]
         IN  /\ playing \in [Clients -> Session]
             /\ \A c \in Clients : playing[c].active = table[c].active
<1> DEFINE played(c) == [table[c] EXCEPT !.pads = Driven(table[c].pads, by[c])]
<1>1. ASSUME NEW c \in Clients
      PROVE  played(c) \in Session /\ played(c).active = table[c].active
  <2>1. table[c] \in Session
    OBVIOUS
  <2>2. Driven(table[c].pads, by[c]) \in Layouts
    BY <2>1 DEF Driven, Configured, Layouts, Kinds, Session
  <2> QED
    BY <2>1, <2>2 DEF Session
<1> HIDE DEF played
<1>2. [c \in Clients |-> played(c)] \in [Clients -> Session]
  BY <1>1
<1> QED
  BY <1>1, <1>2 DEF played

\* A new layout: nobody has been told yet, and who is active now was copied.
LEMMA LayOutStep ==
  ASSUME PortsIInv, LayOut
  PROVE  PortTypes' /\ ToldSoFar' /\ WellFormed(hw') /\ OnePortEach(hw')
<1>1. /\ client' = [c \in Clients |-> IF c \in Dropped THEN NoSession ELSE client[c]]
      /\ hw' = Reconcile(hw, Playing')
      /\ writer' = [at |-> 1, copied |-> {c \in Clients : client'[c].active}]
      /\ UNCHANGED <<macros, told, admit>>
  BY DEF LayOut
<1>2. client' \in [Clients -> Session]
  BY <1>1, ClientFacts DEF PortsIInv, PortTypes
<1>3. PortTypes'
  <2>1. 1 \in Untold..MaxClients
    BY PortAssumption DEF PortAssumption, Untold
  <2> QED
    BY <1>1, <1>2, <2>1 DEF PortsIInv, PortTypes
<1>4. ToldSoFar'
  <2>1. writer'.at = 1 /\ \A c \in Clients : client'[c].active => c \in writer'.copied
    BY <1>1
  <2>2. \A c \in Clients : ~(c < 1 - 1)
    BY ClientFacts
  <2> QED
    BY <2>1, <2>2 DEF ToldSoFar, PlaysUdp
<1> QED
  BY <1>1, <1>3, <1>4, ReconcileFacts

\* A tick that is cut short leaves everybody with what the last one told.
LEMMA CutShortStep ==
  ASSUME PortsIInv, CutShort
  PROVE  PortTypes' /\ ToldSoFar'
<1>1. Untold \in Untold..MaxClients
  BY ClientFacts DEF Untold
<1>2. writer' = WriterCut /\ UNCHANGED <<client, macros, told, hw, admit>>
  BY DEF CutShort
<1> QED
  BY <1>1, <1>2 DEF PortsIInv, PortTypes, ToldSoFar, WriterCut

LEMMA TellStep ==
  ASSUME PortsIInv, Tell
  PROVE  PortTypes' /\ ToldSoFar'
<1> DEFINE c == writer.at - 1
           now == IF c \in writer.copied /\ client[c].active
                  THEN [told EXCEPT ![c] = PortsOf(hw, c)] ELSE told
<1>1. /\ c \in Clients /\ told' = now /\ UNCHANGED <<client, macros, hw, admit>>
      /\ writer' = IF c + 1 \in Clients THEN [writer EXCEPT !.at = @ + 1] ELSE WriterIdle
  BY DEF Tell
<1>2. /\ writer.at \in 0..MaxClients /\ writer.at # 0 /\ c \in Nat /\ c < MaxClients
      /\ writer.copied \in SUBSET Clients /\ told \in [Clients -> SUBSET Ports]
      /\ writer.at # Untold
  BY <1>1, ClientFacts DEF PortsIInv, PortTypes, Untold
<1>3. /\ told' \in [Clients -> SUBSET Ports] /\ \A d \in Clients \ {c} : told'[d] = told[d]
      /\ c \in writer.copied /\ client[c].active => told'[c] = PortsOf(hw, c)
      /\ ~(c \in writer.copied /\ client[c].active) => told'[c] = told[c]
  <2>1. PortsOf(hw, c) \in SUBSET Ports
    BY DEF PortsOf
  <2> HIDE DEF c
  <2> QED
    BY <1>1, <1>2, <2>1
<1>4. /\ writer' \in [at : Untold..MaxClients, copied : SUBSET Clients]
      /\ \/ writer'.at = c + 2 /\ writer'.copied = writer.copied /\ c + 1 \in Clients
         \/ writer'.at = 0 /\ c + 1 = MaxClients
  <2>1. CASE c + 1 \in Clients
    <3>1. writer' = [writer EXCEPT !.at = @ + 1] /\ writer.at + 1 \in Untold..MaxClients
      BY <1>1, <1>2, <2>1, ClientFacts DEF Untold
    <3> QED
      BY <1>2, <2>1, <3>1 DEF PortsIInv, PortTypes
  <2>2. CASE c + 1 \notin Clients
    <3>1. writer' = WriterIdle /\ c + 1 = MaxClients
      <4>1. writer' = WriterIdle
        BY <1>1, <2>2
      <4> HIDE DEF c
      <4> QED
        BY <1>2, <2>2, <4>1, ClientFacts DEF Clients
    <3> QED
      BY <3>1, ClientFacts DEF WriterIdle, Untold
  <2> QED
    BY <2>1, <2>2
<1> HIDE DEF now
<1>5. PortTypes'
  BY <1>1, <1>3, <1>4 DEF PortsIInv, PortTypes
<1>6. ToldSoFar'
  <2> SUFFICES ASSUME NEW d \in Clients, PlaysUdp(d)
               PROVE  IF writer'.at = 0 \/ d < writer'.at - 1
                      THEN told'[d] \in {{}, PortsOf(hw, d)}
                      ELSE d \notin writer'.copied => told'[d] = {}
    BY <1>1 DEF ToldSoFar, PlaysUdp, PortsOf
  <2>1. d \in Nat /\ d < MaxClients
    BY ClientFacts
  <2>2. CASE d = c
    <3>1. told'[c] \in {{}, PortsOf(hw, c)}
      <4>1. c \notin writer.copied => told[c] = {}
        BY <1>2, <2>2 DEF PortsIInv, ToldSoFar
      <4> QED
        BY <1>3, <2>2, <4>1 DEF PlaysUdp
    <3>2. writer'.at = 0 \/ d < writer'.at - 1
      BY <1>2, <1>4, <2>2
    <3> QED
      BY <2>2, <3>1, <3>2
  <2>3. CASE d < c
    <3>1. told[d] \in {{}, PortsOf(hw, d)}
      BY <1>2, <2>3 DEF PortsIInv, ToldSoFar
    <3>2. told'[d] = told[d]
      BY <1>2, <1>3, <2>1, <2>3
    <3>3. writer'.at = 0 \/ d < writer'.at - 1
      BY <1>2, <1>4, <2>1, <2>3
    <3> QED
      BY <3>1, <3>2, <3>3
  <2>4. CASE c < d
    <3>1. d \notin writer.copied => told[d] = {}
      BY <1>2, <2>1, <2>4 DEF PortsIInv, ToldSoFar
    <3>2. told'[d] = told[d]
      BY <1>2, <1>3, <2>1, <2>4
    <3>3. writer'.at = c + 2 /\ writer'.copied = writer.copied
      BY <1>2, <1>4, <2>1, <2>4
    <3>4. ~(writer'.at = 0 \/ d < writer'.at - 1)
      BY <1>2, <2>1, <2>4, <3>3
    <3> QED
      BY <3>1, <3>2, <3>3, <3>4
  <2> QED
    BY <1>2, <2>1, <2>2, <2>3, <2>4
<1> QED
  BY <1>5, <1>6

LEMMA PortsStep == PortsIInv /\ [Next]_vars => PortsIInv'
<1> SUFFICES ASSUME PortsIInv, [Next]_vars PROVE PortsIInv'
  OBVIOUS
<1>1. ASSUME NEW t \in Admitters, NEW pads \in Shown, LetIn(t, pads) PROVE PortsIInv'
  BY <1>1, LetInStep DEF PortsIInv, LetIn
<1>2. ASSUME NEW t \in Admitters, Allocate(t) PROVE PortsIInv'
  BY <1>2, AllocateStep DEF PortsIInv, Allocate
<1>3. ASSUME NEW t \in Admitters, Store(t) PROVE PortsIInv'
  BY <1>3, StoreStep DEF PortsIInv, Store
<1>4. ASSUME NEW c \in Clients,
             \/ \E t \in Admitters : \E pads \in Shown : Report(t, c, pads)
             \/ Reset(c) \/ Silence(c) \/ End(c)
             \/ \E t \in Admitters : \E s \in Pads : StartMacro(t, c, s)
             \/ \E s \in Pads : MacroEnds(c, s)
      PROVE  PortsIInv'
  <2>1. UNCHANGED hw
    BY <1>4 DEF Report, Reset, Silence, End, StartMacro, MacroEnds
  <2> QED
    BY <1>4, <2>1, ClientStep DEF PortsIInv
<1>5. CASE LayOut
  BY <1>5, LayOutStep DEF PortsIInv
<1>6. CASE Tell
  BY <1>6, TellStep DEF PortsIInv, Tell
<1>7. CASE UNCHANGED vars
  BY <1>7 DEF vars, PortsIInv, PortTypes, ToldSoFar, PlaysUdp, PortsOf
<1>8. CASE CutShort
  BY <1>8, CutShortStep DEF PortsIInv, CutShort
<1>9. \A m \in MacroPads : m[1] \in Clients /\ m[2] \in Pads
  BY PortAssumption DEF PortAssumption, Clients, Pads
<1> QED
  BY <1>1, <1>2, <1>3, <1>4, <1>5, <1>6, <1>7, <1>8, <1>9 DEF Next

-----------------------------------------------------------------------------

\* Every port number is a port, the halves of a pair lie side by side, and after a tick that was
\* not cut short a UDP session was told the ports its slot plays on, or nothing yet, whoever
\* opened and ended sessions while the writer told them, and however many ticks before laid the
\* ports out anew and told nobody.
THEOREM PortsTheorem == Spec => []PortsInv
<1>1. PortsIInv => PortsInv
  <2> SUFFICES ASSUME PortsIInv PROVE PortsInv
    OBVIOUS
  <2>1. TypeOK
    BY DEF PortsIInv, PortTypes, WellFormed, TypeOK
  <2>2. ToldWhatIsLaidOut
    BY DEF PortsIInv, ToldSoFar, PlaysUdp, ToldWhatIsLaidOut, Untold
  <2> QED
    BY <2>1, <2>2 DEF PortsInv
<1> QED
  BY <1>1, InitHolds, PortsStep, PTL DEF Spec

\* A pad that goes on asking for a single controller keeps its port, unless a pair takes it or
\* a pad that comes before, in whatever order clients come, change and go.
THEOREM LosesTheorem == Spec => LosesOnlyToThoseBefore
<1>1. PortsIInv /\ [Next]_vars =>
        [\A h \in Ports :
           LaysOut /\ hw[h] # Nobody /\ hw[h].half = "whole" /\ hw'[h] # hw[h]
             /\ Wants(Playing', hw[h], "single") =>
               /\ hw'[h] # Nobody
               /\ hw'[h].half = "whole" => Before(hw'[h], hw[h])]_vars
  <2> SUFFICES ASSUME PortsIInv, Next, LaysOut,
                      NEW h \in Ports, hw[h] # Nobody, hw[h].half = "whole", hw'[h] # hw[h],
                      Wants(Playing', hw[h], "single")
               PROVE  /\ hw'[h] # Nobody
                      /\ hw'[h].half = "whole" => Before(hw'[h], hw[h])
    OBVIOUS
  <2>1. hw' = Reconcile(hw, Playing')
    BY DEF Next, LetIn, Allocate, Store, Report, Reset, Silence, End, StartMacro, MacroEnds,
           LayOut, Tell, CutShort
  <2> QED
    BY <2>1, ReconcileFacts DEF PortsIInv
<1> QED
  BY <1>1, InitHolds, PortsStep, PTL DEF Spec, LosesOnlyToThoseBefore

-----------------------------------------------------------------------------
(***************************************************************************)
(* What is asked for, as a set: a single controller asks for one owner of  *)
(* a port, a pair for two.                                                 *)
(***************************************************************************)

\* A pad as reconcile_hw_slots has it in hand.
Pad(c, s) == [client |-> c, pad |-> s]

Halves(kind) ==
  IF kind = "pair" THEN {"left", "right"} ELSE IF kind = "single" THEN {"whole"} ELSE {}

\* By a pad of a kind, by a report, and by those of the sessions of a table that are in a set.
AskedByPad(r, kind) == {Owned(r, half) : half \in Halves(kind)}

Asked(c, pads) == AllOf([s \in Pads |-> AskedByPad(Pad(c, s), Effective(pads)[s])], Pads)

AskedBy(table, who) ==
  AllOf([c \in Clients |-> IF c \in who THEN Asked(c, table[c].pads) ELSE {}], Clients)

Active(table) == {c \in Clients : table[c].active}

LEMMA Finite ==
  /\ IsFiniteSet(Pads) /\ IsFiniteSet(Clients) /\ IsFiniteSet(Ports)
  /\ Cardinality(Ports) = NPorts /\ NPorts \in Nat /\ 0 \in Pads
<1> USE PortAssumption DEF PortAssumption
<1>1. /\ NPads - 1 \in Int /\ MaxClients - 1 \in Int /\ NPorts - 1 \in Int /\ 0 \in Int
      /\ ~(0 > NPorts - 1) /\ NPorts - 1 - 0 + 1 = NPorts
  OBVIOUS
<1>2. IsFiniteSet(Pads) /\ IsFiniteSet(Clients)
  BY <1>1, FS_Interval DEF Pads, Clients
<1>3. IsFiniteSet(0..(NPorts - 1)) /\ Cardinality(0..(NPorts - 1)) = NPorts - 1 - 0 + 1
  BY <1>1, FS_Interval
<1>4. NPorts \in Nat /\ 0 \in Pads
  BY DEF Pads
<1> QED
  BY <1>1, <1>2, <1>3, <1>4 DEF Ports

\* A report is taken to ask for one pad at least.
LEMMA EffectiveFacts ==
  ASSUME NEW pads \in Layouts
  PROVE  /\ Effective(pads) \in Layouts
         /\ \E s \in Pads : Effective(pads)[s] \in {"single", "pair"}
<1>1. CASE \E s \in Pads : ~Absent(pads[s])
  BY <1>1 DEF Effective, Layouts, Kinds, Absent
<1>2. CASE ~\E s \in Pads : ~Absent(pads[s])
  <2>1. Effective(pads) = [NoPads EXCEPT ![0] = Configured(pads[0])]
    BY <1>2 DEF Effective
  <2>2. NoPads \in Layouts /\ 0 \in Pads
    BY Finite, ClientFacts
  <2> QED
    BY <2>1, <2>2 DEF Layouts, Kinds, Configured
<1> QED
  BY <1>1, <1>2

LEMMA SizeFacts ==
  ASSUME NEW r, NEW kind \in Kinds
  PROVE  /\ IsFiniteSet(AskedByPad(r, kind)) /\ Cardinality(AskedByPad(r, kind)) = Size(kind)
         /\ Size(kind) \in 0..2 /\ (kind \in {"single", "pair"} => Size(kind) # 0)
<1>1. CASE kind = "pair"
  <2>1. AskedByPad(r, kind) = {Owned(r, "left")} \cup {Owned(r, "right")}
    BY <1>1 DEF AskedByPad, Halves
  <2>2. Owned(r, "right") \notin {Owned(r, "left")}
    BY DEF Owned
  <2>3. /\ IsFiniteSet({Owned(r, "left")}) /\ Cardinality({Owned(r, "left")}) = 1
    BY FS_Singleton
  <2>4. IsFiniteSet(AskedByPad(r, kind)) /\ Cardinality(AskedByPad(r, kind)) = 1 + 1
    BY <2>1, <2>2, <2>3, FS_AddElement
  <2>5. Size(kind) = 2
    BY <1>1 DEF Size, Absent
  <2> QED
    BY <1>1, <2>4, <2>5
<1>2. CASE kind = "single"
  <2>1. AskedByPad(r, kind) = {Owned(r, "whole")}
    BY <1>2 DEF AskedByPad, Halves
  <2>2. Size(kind) = 1
    BY <1>2 DEF Size, Absent
  <2>3. IsFiniteSet(AskedByPad(r, kind)) /\ Cardinality(AskedByPad(r, kind)) = 1
    BY <2>1, FS_Singleton
  <2> QED
    BY <2>2, <2>3
<1>3. CASE kind \in {"absent", "idlePair"}
  <2>1. AskedByPad(r, kind) = {}
    BY <1>3 DEF AskedByPad, Halves
  <2>2. Size(kind) = 0
    BY <1>3 DEF Size, Absent
  <2>3. IsFiniteSet(AskedByPad(r, kind)) /\ Cardinality(AskedByPad(r, kind)) = 0
    BY <2>1, FS_EmptySet
  <2> QED
    BY <1>3, <2>2, <2>3
<1> QED
  BY <1>1, <1>2, <1>3 DEF Kinds

\* requested_virtual_slots_for_report counts what a report asks for, one port at least.
LEMMA DemandCounts ==
  ASSUME NEW c, NEW pads \in Layouts
  PROVE  /\ IsFiniteSet(Asked(c, pads)) /\ Cardinality(Asked(c, pads)) = Demand(pads)
         /\ Demand(pads) \in Nat /\ Demand(pads) # 0
         /\ \A o \in Asked(c, pads) : o.client = c
<1> DEFINE A == [s \in Pads |-> AskedByPad(Pad(c, s), Effective(pads)[s])]
           f == [s \in Pads |-> Size(Effective(pads)[s])]
<1>1. \A s \in Pads : Effective(pads)[s] \in Kinds
  BY EffectiveFacts DEF Layouts
<1>2. f \in [Pads -> Nat]
  BY <1>1, SizeFacts
<1>3. \A s \in Pads : IsFiniteSet(A[s]) /\ Cardinality(A[s]) = f[s]
  BY <1>1, SizeFacts
<1>4. \A s \in Pads : \A o \in A[s] : o.pad = s /\ o.client = c
  BY DEF AskedByPad, Owned, Pad
<1>5. \A s, t \in Pads : s # t => A[s] \cap A[t] = {}
  <2> HIDE DEF A
  <2> QED
    BY <1>4
<1>6. Asked(c, pads) = AllOf(A, Pads) /\ Demand(pads) = SumFunction(f)
  BY DEF Asked, Demand
<1>7. \E s \in Pads : A[s] # {}
  <2>1. PICK s \in Pads : Effective(pads)[s] \in {"single", "pair"}
    BY EffectiveFacts
  <2>2. AskedByPad(Pad(c, s), Effective(pads)[s]) # {}
    BY <2>1 DEF AskedByPad, Halves
  <2> QED
    BY <2>2
<1> HIDE DEF A, f
<1>8. IsFiniteSet(Asked(c, pads)) /\ Cardinality(Asked(c, pads)) = Demand(pads)
  BY <1>2, <1>3, <1>5, <1>6, SumCounts, Finite
<1>9. Asked(c, pads) # {}
  BY <1>6, <1>7 DEF AllOf
<1>10. Demand(pads) \in Nat /\ Demand(pads) # 0
  BY <1>8, <1>9, FS_EmptySet, FS_CardinalityType
<1>11. \A o \in Asked(c, pads) : o.client = c
  BY <1>4, <1>6 DEF AllOf
<1> QED
  BY <1>8, <1>10, <1>11

\* So do the totals, for any set of sessions.
LEMMA TotalCounts ==
  ASSUME NEW table \in [Clients -> Session], NEW who
  PROVE  /\ IsFiniteSet(AskedBy(table, who))
         /\ Cardinality(AskedBy(table, who))
              = SumFunction([c \in Clients |-> IF c \in who THEN Demand(table[c].pads) ELSE 0])
<1> DEFINE A == [c \in Clients |-> IF c \in who THEN Asked(c, table[c].pads) ELSE {}]
           f == [c \in Clients |-> IF c \in who THEN Demand(table[c].pads) ELSE 0]
<1>1. \A c \in Clients : table[c].pads \in Layouts
  BY DEF Session
<1>2. ASSUME NEW c \in Clients
      PROVE  /\ f[c] \in Nat /\ IsFiniteSet(A[c]) /\ Cardinality(A[c]) = f[c]
             /\ \A o \in A[c] : o.client = c
  <2>1. CASE c \in who
    BY <1>1, <2>1, DemandCounts
  <2>2. CASE c \notin who
    <3>1. A[c] = {} /\ f[c] = 0
      BY <2>2
    <3> HIDE DEF A, f
    <3> QED
      BY <3>1, FS_EmptySet
  <2> QED
    BY <2>1, <2>2
<1>3. f = [c \in Clients |-> f[c]]
  OBVIOUS
<1>4. AskedBy(table, who) = AllOf(A, Clients)
  BY DEF AskedBy
<1> HIDE DEF A
<1>5. \A c, d \in Clients : c # d => A[c] \cap A[d] = {}
  BY <1>2
<1>6. f \in [Clients -> Nat] /\ \A c \in Clients : IsFiniteSet(A[c]) /\ Cardinality(A[c]) = f[c]
  <2> HIDE DEF f
  <2> QED
    BY <1>2, <1>3
<1> HIDE DEF f
<1>7. IsFiniteSet(AllOf(A, Clients)) /\ Cardinality(AllOf(A, Clients)) = SumFunction(f)
  BY <1>5, <1>6, SumCounts, Finite
<1> QED
  BY <1>4, <1>7 DEF f

\* Who is asked for.
LEMMA AskedFacts ==
  ASSUME NEW table \in [Clients -> Session], NEW who \in SUBSET Clients
  PROVE  \A o : o \in AskedBy(table, who) <=>
           \E c \in who : \E s \in Pads : o \in AskedByPad(Pad(c, s), Effective(table[c].pads)[s])
  BY DEF AskedBy, Asked, AllOf

-----------------------------------------------------------------------------
(***************************************************************************)
(* Everybody plays.  Pairs and single controllers are placed so that the   *)
(* owners of the ports are the pads that had their turn: as long as what   *)
(* is asked for fits the ports, there is room for the next one.            *)
(***************************************************************************)

Owners(layout) == {layout[h] : h \in Ports} \ {Nobody}

\* No two ports have one owner.
OnePortPerOwner(layout) ==
  \A h, k \in Ports : layout[h] # Nobody /\ layout[h] = layout[k] => h = k

Free(layout) == {h \in Ports : layout[h] = Nobody}

\* The ports that are left are as many at least as the owners that have none yet.
LEMMA RoomLeft ==
  ASSUME NEW layout, WellFormed(layout), OnePortPerOwner(layout),
         NEW all, IsFiniteSet(all), Cardinality(all) <= NPorts, Owners(layout) \in SUBSET all,
         NEW more \in SUBSET all, more \cap Owners(layout) = {}
  PROVE  Cardinality(more) <= Cardinality(Free(layout))
<1> DEFINE taken == Ports \ Free(layout)
           rest == all \ more
           f == [h \in taken |-> layout[h]]
<1>1. f \in Injection(taken, rest)
  <2>1. \A h \in taken : h \in Ports /\ layout[h] # Nobody /\ layout[h] \in rest
    BY DEF Free, Owners
  <2> HIDE DEF taken, rest
  <2> QED
    BY <2>1 DEF Injection, IsInjective, OnePortPerOwner
<1>2. /\ IsFiniteSet(more) /\ IsFiniteSet(rest)
      /\ Cardinality(rest) = Cardinality(all) - Cardinality(more)
  <2>1. all \cap more = more /\ rest \in SUBSET all
    OBVIOUS
  <2>2. Cardinality(all \ more) = Cardinality(all) - Cardinality(all \cap more)
    BY FS_Difference
  <2>3. IsFiniteSet(more) /\ IsFiniteSet(rest)
    BY <2>1, FS_Subset
  <2> QED
    BY <2>1, <2>2, <2>3
<1>3. IsFiniteSet(Free(layout)) /\ Cardinality(taken) = NPorts - Cardinality(Free(layout))
  <2>1. Ports \cap Free(layout) = Free(layout) /\ Free(layout) \in SUBSET Ports
    BY DEF Free
  <2>2. Cardinality(Ports \ Free(layout)) = Cardinality(Ports) - Cardinality(Ports \cap Free(layout))
    BY Finite, FS_Difference
  <2>3. IsFiniteSet(Free(layout))
    BY <2>1, Finite, FS_Subset
  <2> QED
    BY <2>1, <2>2, <2>3, Finite
<1> HIDE DEF taken, rest, f
<1>4. Cardinality(taken) <= Cardinality(rest)
  BY <1>1, <1>2, FS_Injection
<1>5. /\ Cardinality(Free(layout)) \in Nat /\ Cardinality(more) \in Nat
      /\ Cardinality(all) \in Nat /\ NPorts \in Nat
  BY <1>2, <1>3, Finite, FS_CardinalityType
<1> QED
  BY <1>2, <1>3, <1>4, <1>5

\* Where only pairs are placed a group is free as long as two ports are: only the last port
\* of an odd number of them has no other.
LEMMA GroupLeft ==
  ASSUME NEW layout, WellFormed(layout),
         \A h \in Ports : layout[h] # Nobody => layout[h].half # "whole",
         2 <= Cardinality(Free(layout))
  PROVE  FreeBases(layout) # {}
<1> SUFFICES ASSUME FreeBases(layout) = {} PROVE FALSE
  OBVIOUS
<1> DEFINE last == NPorts - 1
<1>1. ASSUME NEW h \in Ports, layout[h] = Nobody
      PROVE  h = last
  <2>1. \A k \in Ports : layout[k] # Nobody => layout[k] \in Owner /\ layout[k].half \in {"left", "right"}
    BY DEF WellFormed, Owner
  <2>2. \A k \in Ports : layout[k] # Nobody =>
          /\ layout[k].half = "left" => k % 2 = 0 /\ k + 1 \in Ports /\ layout[k + 1] # Nobody
          /\ layout[k].half = "right" => k % 2 = 1 /\ k - 1 \in Ports /\ layout[k - 1] # Nobody
    <3> SUFFICES ASSUME NEW k \in Ports, layout[k] # Nobody
                 PROVE  /\ layout[k].half = "left" => k % 2 = 0 /\ k + 1 \in Ports /\ layout[k + 1] # Nobody
                        /\ layout[k].half = "right" => k % 2 = 1 /\ k - 1 \in Ports /\ layout[k - 1] # Nobody
      OBVIOUS
    <3>1. [layout[k] EXCEPT !.half = "right"] \in Owner /\ [layout[k] EXCEPT !.half = "left"] \in Owner
      BY <2>1 DEF Owner
    <3> QED
      BY <3>1, NobodyAssumption DEF WellFormed
  <2>3. h \in Nat /\ h < NPorts /\ (h % 2 = 0 \/ h % 2 = 1)
    BY Finite DEF Ports
  <2>4. CASE h % 2 = 1
    <3>1. h - 1 \in Ports /\ (h - 1) % 2 = 0 /\ (h - 1) + 1 = h
      <4>1. h # 0 /\ h - 1 \in Nat /\ (h - 1) + 1 = h
        BY <2>3, <2>4
      <4>2. (h - 1) % 2 = 0
        BY <2>3, <2>4, <4>1
      <4> QED
        BY <2>3, <4>1, <4>2, Finite DEF Ports
    <3>2. layout[h - 1] # Nobody
      BY <1>1, <3>1 DEF FreeBases
    <3> QED
      BY <1>1, <2>1, <2>2, <3>1, <3>2
  <2>5. CASE h % 2 = 0
    <3>1. SUFFICES ASSUME h + 1 \in Ports PROVE FALSE
      BY <2>3, Finite DEF Ports
    <3>2. (h + 1) % 2 = 1 /\ (h + 1) - 1 = h
      BY <2>3, <2>5
    <3>3. layout[h + 1] # Nobody
      BY <1>1, <2>5, <3>1 DEF FreeBases
    <3> QED
      BY <1>1, <2>1, <2>2, <3>1, <3>2, <3>3
  <2> QED
    BY <2>3, <2>4, <2>5
<1>2. Free(layout) \in SUBSET {last}
  BY <1>1 DEF Free
<1>3. IsFiniteSet({last}) /\ Cardinality({last}) = 1
  BY FS_Singleton
<1> HIDE DEF last
<1>4. IsFiniteSet(Free(layout)) /\ Cardinality(Free(layout)) <= Cardinality({last})
  BY <1>2, <1>3, FS_Subset
<1>5. Cardinality(Free(layout)) \in Nat
  BY <1>4, FS_CardinalityType
<1> QED
  BY <1>3, <1>4, <1>5

\* What the pads asked for that had their turn.
Upto(table, kind, n) ==
  UNION {AskedByPad(InOrder[m], kind) : m \in {m \in 1..n : Wants(table, InOrder[m], kind)}}

TwoKinds == {"pair", "single"}

\* A turn adds what its pad asks for, which was not there before.
LEMMA UptoFacts ==
  ASSUME NEW table \in [Clients -> Session], NEW kind \in TwoKinds
  PROVE  /\ Upto(table, kind, 0) = {}
         /\ \A n \in 1..Turns :
              Upto(table, kind, n) =
                IF Wants(table, InOrder[n], kind)
                THEN Upto(table, kind, n - 1) \cup AskedByPad(InOrder[n], kind)
                ELSE Upto(table, kind, n - 1)
         /\ \A n \in 1..Turns :
              AskedByPad(InOrder[n], kind) \cap Upto(table, kind, n - 1) = {}
         /\ \A n \in 0..Turns : \A o \in Upto(table, kind, n) : o.half = "whole" <=> kind = "single"
<1>1. Upto(table, kind, 0) = {}
  BY DEF Upto
<1>2. ASSUME NEW n \in 1..Turns
      PROVE  /\ Upto(table, kind, n) =
                  IF Wants(table, InOrder[n], kind)
                  THEN Upto(table, kind, n - 1) \cup AskedByPad(InOrder[n], kind)
                  ELSE Upto(table, kind, n - 1)
             /\ AskedByPad(InOrder[n], kind) \cap Upto(table, kind, n - 1) = {}
  <2>1. 1..n = 1..(n - 1) \cup {n} /\ \A m \in 1..(n - 1) : m \in 1..Turns /\ m < n
    BY OrderFacts
  <2>2. \A m \in 1..(n - 1) : InOrder[m].client # InOrder[n].client \/ InOrder[m].pad # InOrder[n].pad
    <3> TAKE m \in 1..(n - 1)
    <3>1. Before(InOrder[m], InOrder[n])
      BY <2>1, OrderFacts
    <3>2. /\ InOrder[m].client \in Nat /\ InOrder[n].client \in Nat
          /\ InOrder[m].pad \in Nat /\ InOrder[n].pad \in Nat
      BY <2>1, OrderFacts, PortAssumption DEF PortAssumption, Clients, Pads
    <3> QED
      BY <3>1, <3>2 DEF Before
  <2>3. \A m \in 1..(n - 1) : AskedByPad(InOrder[m], kind) \cap AskedByPad(InOrder[n], kind) = {}
    BY <2>2 DEF AskedByPad, Owned
  <2> QED
    BY <2>1, <2>3 DEF Upto
<1>3. \A n \in 0..Turns : \A o \in Upto(table, kind, n) : o.half = "whole" <=> kind = "single"
  BY DEF Upto, AskedByPad, Halves, Owned, TwoKinds
<1> QED
  BY <1>1, <1>2, <1>3

\* When all have had their turn, everything that is asked for was.
LEMMA UptoAll ==
  ASSUME NEW table \in [Clients -> Session]
  PROVE  /\ \A kind \in TwoKinds : \A n \in 1..Turns : Wants(table, InOrder[n], kind) =>
              AskedByPad(InOrder[n], kind) \in SUBSET AskedBy(table, Active(table))
         /\ \A kind \in TwoKinds : \A n \in 0..Turns :
              Upto(table, kind, n) \in SUBSET AskedBy(table, Active(table))
         /\ Upto(table, "pair", Turns) \cup Upto(table, "single", Turns) = AskedBy(table, Active(table))
<1> DEFINE all == AskedBy(table, Active(table))
<1>1. \A o : o \in all <=> \E c \in Active(table) : \E s \in Pads :
                             o \in AskedByPad(Pad(c, s), Effective(table[c].pads)[s])
  <2>1. Active(table) \in SUBSET Clients
    BY DEF Active
  <2> QED
    BY <2>1, AskedFacts
<1> HIDE DEF all
<1>2. ASSUME NEW kind, NEW n \in 1..Turns, Wants(table, InOrder[n], kind)
      PROVE  AskedByPad(InOrder[n], kind) \in SUBSET all
  <2> DEFINE r == InOrder[n]
  <2>1. r.client \in Active(table) /\ r.pad \in Pads /\ Effective(table[r.client].pads)[r.pad] = kind
    BY <1>2, OrderFacts DEF Wants, Active
  <2>2. AskedByPad(Pad(r.client, r.pad), kind) = AskedByPad(r, kind)
    BY DEF AskedByPad, Owned, Pad
  <2> HIDE DEF r
  <2>3. AskedByPad(r, kind) \in SUBSET all
    BY <1>1, <2>1, <2>2
  <2> QED
    BY <2>3 DEF r
<1>3. \A kind \in TwoKinds : \A n \in 0..Turns : Upto(table, kind, n) \in SUBSET all
  <2>1. \A n \in 0..Turns : \A m \in 1..n : m \in 1..Turns
    BY OrderFacts
  <2> QED
    BY <1>2, <2>1 DEF Upto
<1>4. ASSUME NEW o \in all
      PROVE  o \in Upto(table, "pair", Turns) \cup Upto(table, "single", Turns)
  <2>1. PICK c \in Active(table) : \E s \in Pads :
          o \in AskedByPad(Pad(c, s), Effective(table[c].pads)[s])
    BY <1>1
  <2>2. PICK s \in Pads : o \in AskedByPad(Pad(c, s), Effective(table[c].pads)[s])
    BY <2>1
  <2> DEFINE kind == Effective(table[c].pads)[s]
  <2>3. kind \in TwoKinds
    BY <2>2 DEF AskedByPad, Halves, TwoKinds
  <2>4. c \in Clients /\ table[c].active
    BY DEF Active
  <2>5. PICK n \in 1..Turns : InOrder[n].client = c /\ InOrder[n].pad = s
    BY <2>4, EveryPadHasATurn
  <2>6. Wants(table, InOrder[n], kind)
    BY <2>4, <2>5 DEF Wants
  <2>7. AskedByPad(Pad(c, s), kind) = AskedByPad(InOrder[n], kind)
    BY <2>5 DEF AskedByPad, Owned, Pad
  <2> HIDE DEF kind
  <2>8. o \in Upto(table, kind, Turns)
    BY <2>2, <2>6, <2>7 DEF Upto, kind
  <2> QED
    BY <2>3, <2>8 DEF TwoKinds
<1>5. Upto(table, "pair", Turns) \cup Upto(table, "single", Turns) = all
  <2>1. Turns \in 0..Turns
    BY OrderFacts
  <2> QED
    BY <1>3, <1>4, <2>1 DEF TwoKinds
<1> QED
  BY <1>2, <1>3, <1>5 DEF all

-----------------------------------------------------------------------------

\* The ports have the owners of a set, one each.
Filled(layout, set) ==
  /\ WellFormed(layout) /\ OnePortPerOwner(layout)
  /\ Owners(layout) = set

\* A pair that had no port gets two, and nobody loses one.
LEMMA PairFills ==
  ASSUME NEW old, NEW new, NEW r, IsPad(r), NEW set, Filled(new, set),
         AskedByPad(r, "pair") \cap set = {}, FreeBases(new) # {}
  PROVE  Filled(PlacePair(old, new, r), set \cup AskedByPad(r, "pair"))
<1> DEFINE res == PlacePair(old, new, r)
           l == Owned(r, "left")
           t == Owned(r, "right")
<1>1. PICK b \in Ports :
        /\ b % 2 = 0 /\ b + 1 \in Ports /\ new[b] = Nobody /\ new[b + 1] = Nobody
        /\ res = [new EXCEPT ![b] = l, ![b + 1] = t]
  BY PairTakes
<1>2. AskedByPad(r, "pair") = {l, t} /\ l # t /\ l # Nobody /\ t # Nobody
  <2>1. l.half = "left" /\ t.half = "right" /\ l # Nobody /\ t # Nobody
    BY OwnedFacts
  <2>2. AskedByPad(r, "pair") = {l, t}
    BY DEF AskedByPad, Halves
  <2> QED
    BY <2>1, <2>2
<1>3. WellFormed(res) /\ b # b + 1
  BY PairTurn, PortFacts DEF Filled
<1> HIDE DEF l, t
<1>4. res[b] = l /\ res[b + 1] = t /\ \A h \in Ports : h # b /\ h # b + 1 => res[h] = new[h]
  BY <1>1, <1>3 DEF Filled, WellFormed
<1> HIDE DEF res
<1>5. \A h \in Ports : new[h] # Nobody => new[h] # l /\ new[h] # t
  BY <1>2 DEF Filled, Owners
<1>6. OnePortPerOwner(res)
  BY <1>1, <1>2, <1>4, <1>5 DEF OnePortPerOwner, Filled
<1>7. Owners(res) = set \cup {l, t}
  BY <1>1, <1>2, <1>4 DEF Owners, Filled
<1> QED
  BY <1>2, <1>3, <1>6, <1>7 DEF Filled, res

\* So does a single controller with its one port.
LEMMA SingleFills ==
  ASSUME NEW old, NEW new, NEW r, IsPad(r), NEW set, Filled(new, set),
         AskedByPad(r, "single") \cap set = {}, Free(new) # {}
  PROVE  Filled(PlaceSingle(old, new, r), set \cup AskedByPad(r, "single"))
<1> DEFINE res == PlaceSingle(old, new, r)
           w == Owned(r, "whole")
<1>1. PICK p \in Ports : new[p] = Nobody /\ res = [new EXCEPT ![p] = w]
  BY SingleTakes DEF Free
<1>2. AskedByPad(r, "single") = {w} /\ w # Nobody
  BY OwnedFacts DEF AskedByPad, Halves
<1>3. WellFormed(res)
  BY SingleTurn DEF Filled
<1> HIDE DEF w
<1>4. res[p] = w /\ \A h \in Ports : h # p => res[h] = new[h]
  BY <1>1 DEF Filled, WellFormed
<1> HIDE DEF res
<1>5. \A h \in Ports : new[h] # Nobody => new[h] # w
  BY <1>2 DEF Filled, Owners
<1>6. OnePortPerOwner(res)
  BY <1>1, <1>2, <1>4, <1>5 DEF OnePortPerOwner, Filled
<1>7. Owners(res) = set \cup {w}
  BY <1>1, <1>2, <1>4 DEF Owners, Filled
<1> QED
  BY <1>2, <1>3, <1>6, <1>7 DEF Filled, res

\* Every turn of a phase fills the ports of its pad.
LEMMA PhaseFills ==
  ASSUME NEW old, NEW table \in [Clients -> Session],
         Cardinality(AskedBy(table, Active(table))) <= NPorts,
         NEW kind \in TwoKinds, NEW first,
         first = IF kind = "pair" THEN {} ELSE Upto(table, "pair", Turns),
         NEW start, Filled(start, first),
         NEW run, Run(run, kind, old, table, start, Turns)
  PROVE  Filled(run[Turns], first \cup Upto(table, kind, Turns))
<1> DEFINE all == AskedBy(table, Active(table))
           S == {n \in 0..Turns : Filled(run[n], first \cup Upto(table, kind, n))}
<1>1. IsFiniteSet(all)
  BY TotalCounts
<1>2. 0 \in S
  <2>1. first \cup Upto(table, kind, 0) = first /\ run[0] = start /\ 0 \in 0..Turns
    BY UptoFacts, OrderFacts DEF Run
  <2> QED
    BY <2>1
<1>3. ASSUME NEW n \in 1..Turns, n - 1 \in S
      PROVE  n \in S
  <2> DEFINE new == run[n - 1]
             r == InOrder[n]
             more == AskedByPad(r, kind)
             set == first \cup Upto(table, kind, n - 1)
  <2>1. /\ Filled(new, set) /\ run[n] = Turn(kind, old, table, new, r)
        /\ n \in 0..Turns /\ n - 1 \in 0..Turns /\ Turns \in 0..Turns /\ IsPad(r)
    <3>1. n \in 0..Turns /\ n - 1 \in 0..Turns /\ Turns \in 0..Turns /\ IsPad(r)
      BY OrderFacts DEF IsPad
    <3>2. Filled(new, set)
      BY <1>3
    <3>3. run[n] = Turn(kind, old, table, new, r)
      BY DEF Run
    <3> QED
      BY <3>1, <3>2, <3>3
  <2>2. CASE ~Wants(table, r, kind)
    BY <2>1, <2>2, UptoFacts DEF Turn
  <2>3. CASE Wants(table, r, kind)
    <3>1. Upto(table, kind, n) = Upto(table, kind, n - 1) \cup more
      BY <2>3, UptoFacts
    <3>2. more \in SUBSET all
      BY <2>3, UptoAll
    <3>3. set \in SUBSET all
      BY <2>1, UptoAll DEF TwoKinds
    <3>4. more \cap set = {}
      <4>1. more \cap Upto(table, kind, n - 1) = {}
        BY UptoFacts
      <4>2. more \cap first = {}
        <5>1. CASE kind = "pair"
          BY <5>1
        <5>2. CASE kind = "single"
          <6>1. \A o \in more : o.half = "whole"
            BY <5>2 DEF AskedByPad, Halves, Owned
          <6>2. \A o \in first : o.half # "whole"
            BY <2>1, <5>2, UptoFacts DEF TwoKinds
          <6> QED
            BY <6>1, <6>2
        <5> QED
          BY <5>1, <5>2 DEF TwoKinds
      <4> QED
        BY <4>1, <4>2
    <3>5. Cardinality(more) = Size(kind) /\ IsFiniteSet(more)
      BY SizeFacts DEF TwoKinds, Kinds
    <3> HIDE DEF all, more, new, r
    <3>6. Cardinality(more) <= Cardinality(Free(new))
      BY <1>1, <2>1, <3>2, <3>3, <3>4, RoomLeft DEF Filled, all
    <3>7. CASE kind = "pair"
      <4>1. 2 <= Cardinality(Free(new))
        BY <3>5, <3>6, <3>7 DEF Size, Absent
      <4>2. \A o \in set : o.half # "whole"
        BY <2>1, <3>7, UptoFacts DEF TwoKinds
      <4>3. \A h \in Ports : new[h] # Nobody => new[h].half # "whole"
        BY <2>1, <4>2 DEF Filled, Owners
      <4>4. FreeBases(new) # {}
        BY <2>1, <4>1, <4>3, GroupLeft DEF Filled
      <4>5. Filled(PlacePair(old, new, r), set \cup more)
        BY <2>1, <3>4, <3>7, <4>4, PairFills DEF more
      <4>6. run[n] = PlacePair(old, new, r)
        BY <2>1, <2>3, <3>7 DEF Turn
      <4> QED
        BY <2>1, <3>1, <4>5, <4>6
    <3>8. CASE kind = "single"
      <4>1. Free(new) # {}
        <5>1. 1 <= Cardinality(Free(new))
          BY <3>5, <3>6, <3>8 DEF Size, Absent
        <5>2. Cardinality({}) = 0
          BY FS_EmptySet
        <5> QED
          BY <5>1, <5>2
      <4>2. Filled(PlaceSingle(old, new, r), set \cup more)
        BY <2>1, <3>4, <3>8, <4>1, SingleFills DEF more
      <4>3. run[n] = PlaceSingle(old, new, r)
        BY <2>1, <2>3, <3>8 DEF Turn
      <4> QED
        BY <2>1, <3>1, <4>2, <4>3
    <3> QED
      BY <3>7, <3>8 DEF TwoKinds
  <2> QED
    BY <2>2, <2>3
<1> HIDE DEF S
<1>4. Turns \in S
  BY <1>2, <1>3, Climbs, OrderFacts
<1> QED
  BY <1>4 DEF S

\* reconcile_hw_slots gives everybody the ports it asks for, if they are there.
LEMMA ReconcileServes ==
  ASSUME NEW old, NEW table \in [Clients -> Session], TotalDemand(table) <= NPorts
  PROVE  Filled(Reconcile(old, table), AskedBy(table, Active(table)))
<1>1. Cardinality(AskedBy(table, Active(table))) <= NPorts
  <2> DEFINE f == [c \in Clients |-> IF table[c].active THEN Demand(table[c].pads) ELSE 0]
             g == [c \in Clients |-> IF c \in Active(table) THEN Demand(table[c].pads) ELSE 0]
  <2>1. \A c \in Clients : c \in Active(table) <=> table[c].active
    BY DEF Active
  <2>2. f = g
    BY <2>1
  <2>3. TotalDemand(table) = SumFunction(f)
    BY DEF TotalDemand
  <2>4. Cardinality(AskedBy(table, Active(table))) = SumFunction(g)
    BY TotalCounts
  <2> HIDE DEF f, g
  <2> QED
    BY <2>2, <2>3, <2>4
<1>2. PICK one : /\ Run(one, "pair", old, table, EmptyLayout, Turns)
                 /\ Placed("pair", old, table, EmptyLayout) = one[Turns]
  BY PlacedIsARun
<1>3. Filled(EmptyLayout, {})
  BY DEF Filled, EmptyLayout, WellFormed, OnePortPerOwner, Owners
<1>4. Filled(one[Turns], Upto(table, "pair", Turns))
  <2>1. Filled(one[Turns], {} \cup Upto(table, "pair", Turns))
    BY <1>1, <1>2, <1>3, PhaseFills DEF TwoKinds
  <2> QED
    BY <2>1
<1>5. PICK two : /\ Run(two, "single", old, table, one[Turns], Turns)
                 /\ Placed("single", old, table, one[Turns]) = two[Turns]
  BY PlacedIsARun
<1>6. Filled(two[Turns], Upto(table, "pair", Turns) \cup Upto(table, "single", Turns))
  BY <1>1, <1>4, <1>5, PhaseFills DEF TwoKinds
<1>7. Reconcile(old, table) = two[Turns]
  BY <1>2, <1>5 DEF Reconcile
<1> QED
  BY <1>6, <1>7, UptoAll

\* A pad of an active session then plays on as many ports as it asks for.
LEMMA PadPlays ==
  ASSUME NEW table \in [Clients -> Session], NEW layout,
         Filled(layout, AskedBy(table, Active(table))),
         NEW c \in Clients, NEW s \in Pads, table[c].active
  PROVE  Cardinality({h \in Ports : layout[h] # Nobody /\ layout[h].client = c /\ layout[h].pad = s})
           = Size(Effective(table[c].pads)[s])
<1> DEFINE mine == {h \in Ports : layout[h] # Nobody /\ layout[h].client = c /\ layout[h].pad = s}
           kind == Effective(table[c].pads)[s]
           parts == AskedByPad(Pad(c, s), kind)
           f == [h \in mine |-> layout[h]]
<1>1. kind \in Kinds
  BY EffectiveFacts DEF Session, Layouts
<1>2. Cardinality(parts) = Size(kind) /\ IsFiniteSet(parts)
  BY <1>1, SizeFacts
<1>3. Active(table) \in SUBSET Clients /\ c \in Active(table)
  BY DEF Active
<1>4. \A o : o \in Owners(layout) /\ o.client = c /\ o.pad = s <=> o \in parts
  <2>1. \A o : o \in Owners(layout) <=>
          \E d \in Active(table) : \E t \in Pads : o \in AskedByPad(Pad(d, t), Effective(table[d].pads)[t])
    BY <1>3, AskedFacts DEF Filled
  <2>2. \A d, t, k : \A o \in AskedByPad(Pad(d, t), k) : o.client = d /\ o.pad = t
    BY DEF AskedByPad, Owned, Pad
  <2> QED
    BY <1>3, <2>1, <2>2
<1>5. f \in Bijection(mine, parts)
  <2>1. \A h \in mine : h \in Ports /\ layout[h] # Nobody /\ layout[h] \in parts
    BY <1>4 DEF Owners
  <2>2. \A o \in parts : \E h \in mine : layout[h] = o
    BY <1>4 DEF Owners
  <2> HIDE DEF mine, parts
  <2>3. f \in [mine -> parts] /\ \A h \in mine : f[h] = layout[h]
    BY <2>1
  <2> HIDE DEF f
  <2>4. f \in Injection(mine, parts)
    BY <2>1, <2>3 DEF Injection, IsInjective, Filled, OnePortPerOwner
  <2>5. f \in Surjection(mine, parts)
    BY <2>2, <2>3 DEF Surjection
  <2> QED
    BY <2>4, <2>5 DEF Bijection
<1>6. mine \in SUBSET Ports
  OBVIOUS
<1> HIDE DEF mine, parts, f, kind
<1>7. IsFiniteSet(mine)
  BY <1>6, Finite, FS_Subset
<1>8. ExistsBijection(mine, parts)
  BY <1>5 DEF ExistsBijection
<1>9. Cardinality(parts) = Cardinality(mine)
  BY <1>7, <1>8, FS_Bijection
<1> QED
  BY <1>2, <1>9 DEF mine, kind

\* Whatever layout is left from before, as long as the sessions ask for no more ports than there
\* are, every pad plays on as many as it asks for.
THEOREM EverybodyTheorem == Spec => EverybodyPlays
<1>1. PortsIInv /\ [Next]_vars =>
        [LaysOut /\ TotalDemand(Playing') <= NPorts =>
           \A c \in Clients : \A s \in Pads :
             client'[c].active =>
               Cardinality({h \in Ports : hw'[h] # Nobody /\ hw'[h].client = c /\ hw'[h].pad = s})
                 = Size(Effective(Playing'[c].pads)[s])]_vars
  <2> SUFFICES ASSUME PortsIInv, Next, LaysOut, TotalDemand(Playing') <= NPorts,
                      NEW c \in Clients, NEW s \in Pads, client'[c].active
               PROVE  Cardinality({h \in Ports : hw'[h] # Nobody /\ hw'[h].client = c
                                                                 /\ hw'[h].pad = s})
                        = Size(Effective(Playing'[c].pads)[s])
    OBVIOUS
  <2>1. hw' = Reconcile(hw, Playing')
    <3>1. ~Tell /\ ~CutShort /\ writer' # writer
      <4>1. writer'.at = 1 /\ writer.at # 1 /\ writer.at \in Int
        BY DEF LaysOut, PortsIInv, PortTypes, Untold
      <4>2. ASSUME Tell PROVE FALSE
        <5>1. CASE writer' = [writer EXCEPT !.at = @ + 1]
          <6>1. writer'.at = writer.at + 1
            BY <5>1 DEF PortsIInv, PortTypes
          <6>2. writer.at - 1 \in Clients
            BY <4>2 DEF Tell
          <6> QED
            BY <4>1, <6>1, <6>2 DEF Clients
        <5>2. CASE writer' = WriterIdle
          BY <4>1, <5>2 DEF WriterIdle
        <5> QED
          BY <4>2, <5>1, <5>2 DEF Tell
      <4> QED
        BY <4>1, <4>2 DEF CutShort
    <3>2. LayOut
      BY <3>1 DEF Next, LetIn, Allocate, Store, Report, Reset, Silence, End, StartMacro, MacroEnds
    <3> QED
      BY <3>2 DEF LayOut
  <2>2. Playing' \in [Clients -> Session] /\ Playing'[c].active
    <3>1. client' \in [Clients -> Session] /\ macros' \in [Clients -> SUBSET Pads]
      BY PortsStep DEF PortsIInv, PortTypes
    <3> QED
      BY <3>1, PlayingFacts DEF Playing
  <2>3. Filled(hw', AskedBy(Playing', Active(Playing')))
    BY <2>1, <2>2, ReconcileServes
  <2> QED
    BY <2>2, <2>3, PadPlays
<1> QED
  BY <1>1, InitHolds, PortsStep, PTL DEF Spec, EverybodyPlays

-----------------------------------------------------------------------------
(***************************************************************************)
(* Admission.  Who is let in has its ports reserved until its pads are     *)
(* stored: what the sessions heard of lately ask for, the newcomer's slot  *)
(* left out, fits together with the newcomer's pads.  That takes a single  *)
(* thread that admits, as another one's clients may show more pads in      *)
(* between.                                                                *)
(***************************************************************************)

\* The sessions that are counted.
Heard(table) == {c \in Clients : table[c].active /\ ~table[c].quiet}

Asks(table, who) == Cardinality(AskedBy(table, who))

Reserved ==
  /\ admit[Udp].pc = "allocate" =>
       Asks(client, Heard(client)) + Demand(admit[Udp].pads) <= NPorts
  /\ admit[Udp].pc = "store" =>
       Asks(client, Heard(client) \ {admit[Udp].slot}) + Demand(admit[Udp].pads) <= NPorts

\* A sum is not lower than another if no summand is.
LEMMA SumGrows ==
  ASSUME NEW S, IsFiniteSet(S), NEW f \in [S -> Nat], NEW g \in [S -> Nat],
         \A x \in S : f[x] <= g[x]
  PROVE  SumFunction(f) \in Nat /\ SumFunction(g) \in Nat /\ SumFunction(f) <= SumFunction(g)
<1> DEFINE F == [x \in S |-> {x} \X (1..f[x])]
           G == [x \in S |-> {x} \X (1..g[x])]
<1>1. ASSUME NEW x \in S, NEW n \in Nat
      PROVE  IsFiniteSet({x} \X (1..n)) /\ Cardinality({x} \X (1..n)) = n
  <2>1. IsFiniteSet({x}) /\ Cardinality({x}) = 1
    BY FS_Singleton
  <2>2. IsFiniteSet(1..n) /\ Cardinality(1..n) = n
    <3>1. 1 \in Int /\ n \in Int
      OBVIOUS
    <3>2. IsFiniteSet(1..n) /\ Cardinality(1..n) = IF 1 > n THEN 0 ELSE n - 1 + 1
      BY <3>1, FS_Interval
    <3> QED
      BY <3>2
  <2>3. /\ IsFiniteSet({x} \X (1..n))
        /\ Cardinality({x} \X (1..n)) = Cardinality({x}) * Cardinality(1..n)
    BY <2>1, <2>2, FS_Product
  <2> QED
    BY <2>1, <2>2, <2>3
<1>2. /\ \A x \in S : IsFiniteSet(F[x]) /\ Cardinality(F[x]) = f[x]
      /\ \A x \in S : IsFiniteSet(G[x]) /\ Cardinality(G[x]) = g[x]
  BY <1>1
<1>3. /\ \A x, y \in S : x # y => F[x] \cap F[y] = {}
      /\ \A x, y \in S : x # y => G[x] \cap G[y] = {}
  OBVIOUS
<1>4. \A x \in S : F[x] \in SUBSET G[x]
  OBVIOUS
<1> HIDE DEF F, G
<1>5. IsFiniteSet(AllOf(F, S)) /\ Cardinality(AllOf(F, S)) = SumFunction(f)
  BY <1>2, <1>3, SumCounts
<1>6. IsFiniteSet(AllOf(G, S)) /\ Cardinality(AllOf(G, S)) = SumFunction(g)
  BY <1>2, <1>3, SumCounts
<1>7. AllOf(F, S) \in SUBSET AllOf(G, S)
  BY <1>4 DEF AllOf
<1>8. Cardinality(AllOf(F, S)) <= Cardinality(AllOf(G, S))
  BY <1>6, <1>7, FS_Subset
<1> QED
  BY <1>5, <1>6, <1>8, FS_CardinalityType

\* active_requested_virtual_slots counts what the sessions ask for, or more.
LEMMA UsedCovers ==
  ASSUME PortTypes
  PROVE  Used \in Nat /\ Asks(client, Heard(client)) <= Used
<1> DEFINE f == [c \in Clients |-> IF c \in Heard(client) THEN Demand(client[c].pads) ELSE 0]
           g == [c \in Clients |-> IF Counted(c)
                                   THEN Max({Cardinality(told[c]), Demand(client[c].pads)}) ELSE 0]
<1>1. ASSUME NEW c \in Clients
      PROVE  f[c] \in Nat /\ g[c] \in Nat /\ f[c] <= g[c]
  <2>1. c \in Heard(client) <=> Counted(c)
    BY DEF Heard, Counted
  <2>2. Demand(client[c].pads) \in Nat
    BY DemandCounts DEF PortTypes, Session
  <2>3. Cardinality(told[c]) \in Nat
    <3>1. told[c] \in SUBSET Ports
      BY DEF PortTypes
    <3>2. IsFiniteSet(told[c])
      BY <3>1, Finite, FS_Subset
    <3> QED
      BY <3>2, FS_CardinalityType
  <2>4. ASSUME NEW a \in Nat, NEW b \in Nat
        PROVE  Max({a, b}) \in Nat /\ b <= Max({a, b})
    <3>1. Max({a, b}) = CHOOSE x \in {a, b} : \A y \in {a, b} : x >= y
      BY DEF Max
    <3>2. \E x \in {a, b} : \A y \in {a, b} : x >= y
      <4>1. CASE a >= b
        BY <4>1
      <4>2. CASE b >= a
        BY <4>2
      <4> QED
        BY <4>1, <4>2
    <3>3. Max({a, b}) \in {a, b} /\ \A y \in {a, b} : Max({a, b}) >= y
      BY <3>1, <3>2
    <3> QED
      BY <3>3
  <2>5. /\ Max({Cardinality(told[c]), Demand(client[c].pads)}) \in Nat
        /\ Demand(client[c].pads) <= Max({Cardinality(told[c]), Demand(client[c].pads)})
    BY <2>2, <2>3, <2>4
  <2> QED
    BY <2>1, <2>2, <2>5
<1>2. f = [c \in Clients |-> f[c]] /\ g = [c \in Clients |-> g[c]]
  OBVIOUS
<1>3. SumFunction(f) = Asks(client, Heard(client))
  BY TotalCounts DEF Asks, PortTypes
<1>4. SumFunction(g) = Used
  BY DEF Used
<1> HIDE DEF f, g
<1>5. f \in [Clients -> Nat] /\ g \in [Clients -> Nat] /\ \A c \in Clients : f[c] <= g[c]
  BY <1>1, <1>2
<1>6. SumFunction(g) \in Nat /\ SumFunction(f) <= SumFunction(g)
  BY <1>5, SumGrows, Finite
<1> QED
  BY <1>3, <1>4, <1>6

\* Fewer sessions, or the same that ask for the same, ask for no more.
LEMMA AsksShrinks ==
  ASSUME NEW table \in [Clients -> Session], NEW later \in [Clients -> Session],
         NEW who \in SUBSET Clients, NEW rest \in SUBSET who,
         \A c \in rest : later[c].pads = table[c].pads
  PROVE  Asks(later, rest) \in Nat /\ Asks(table, who) \in Nat /\ Asks(later, rest) <= Asks(table, who)
<1>1. IsFiniteSet(AskedBy(table, who)) /\ IsFiniteSet(AskedBy(later, rest))
  BY TotalCounts
<1>2. AskedBy(later, rest) \in SUBSET AskedBy(table, who)
  BY AskedFacts
<1> QED
  BY <1>1, <1>2, FS_Subset, FS_CardinalityType DEF Asks

\* A session more asks for what its report asks for more.
LEMMA AsksGrows ==
  ASSUME NEW table \in [Clients -> Session], NEW who \in SUBSET Clients, NEW c \in Clients
  PROVE  Asks(table, who) <= Asks(table, who \ {c}) + Demand(table[c].pads)
<1> DEFINE more == Asked(c, table[c].pads)
           less == AskedBy(table, who \ {c})
<1>1. IsFiniteSet(more) /\ Cardinality(more) = Demand(table[c].pads)
  BY DemandCounts DEF Session
<1>2. IsFiniteSet(less) /\ IsFiniteSet(AskedBy(table, who))
  BY TotalCounts
<1>3. AskedBy(table, who) \in SUBSET (less \cup more)
  BY DEF AskedBy, AllOf
<1> HIDE DEF more, less
<1>4. /\ IsFiniteSet(less \cup more) /\ IsFiniteSet(less \cap more)
      /\ Cardinality(less \cup more) = Cardinality(less) + Cardinality(more) - Cardinality(less \cap more)
  <2>1. Cardinality(less \cup more) = Cardinality(less) + Cardinality(more) - Cardinality(less \cap more)
    BY <1>1, <1>2, FS_Union
  <2>2. IsFiniteSet(less \cup more)
    BY <1>1, <1>2, FS_Union
  <2>3. IsFiniteSet(less \cap more)
    BY <1>2, FS_Intersection
  <2> QED
    BY <2>1, <2>2, <2>3
<1>5. Cardinality(AskedBy(table, who)) <= Cardinality(less \cup more)
  BY <1>3, <1>4, FS_Subset
<1>6. /\ Cardinality(less) \in Nat /\ Cardinality(more) \in Nat /\ Cardinality(less \cap more) \in Nat
      /\ Cardinality(AskedBy(table, who)) \in Nat
  BY <1>1, <1>2, <1>4, FS_CardinalityType
<1> QED
  BY <1>1, <1>4, <1>5, <1>6 DEF Asks, less

\* A step that leaves the newcomer alone, and gives no session that is heard of new pads.
LEMMA ReservedKept ==
  ASSUME PortTypes, PortTypes', Reserved, UNCHANGED admit,
         \A c \in Heard(client') : c \in Heard(client) /\ client'[c].pads = client[c].pads
  PROVE  Reserved'
<1> DEFINE slot == admit[Udp].slot
           pads == admit[Udp].pads
<1>1. /\ client \in [Clients -> Session] /\ client' \in [Clients -> Session] /\ Udp \in Admitters
      /\ Demand(pads) \in Nat /\ NPorts \in Nat
  BY DemandCounts, ClientFacts, Finite DEF PortTypes
<1>2. /\ Heard(client') \in SUBSET Heard(client) /\ Heard(client) \in SUBSET Clients
      /\ Heard(client') \ {slot} \in SUBSET (Heard(client) \ {slot})
      /\ Heard(client) \ {slot} \in SUBSET Clients
  BY DEF Heard
<1>3. /\ Asks(client', Heard(client')) \in Nat /\ Asks(client, Heard(client)) \in Nat
      /\ Asks(client', Heard(client')) <= Asks(client, Heard(client))
  BY <1>1, <1>2, AsksShrinks
<1>4. /\ Asks(client', Heard(client') \ {slot}) \in Nat /\ Asks(client, Heard(client) \ {slot}) \in Nat
      /\ Asks(client', Heard(client') \ {slot}) <= Asks(client, Heard(client) \ {slot})
  BY <1>1, <1>2, AsksShrinks
<1>5. ASSUME admit[Udp].pc = "allocate"
      PROVE  Asks(client', Heard(client')) + Demand(pads) <= NPorts
  BY <1>1, <1>3, <1>5 DEF Reserved
<1>6. ASSUME admit[Udp].pc = "store"
      PROVE  Asks(client', Heard(client') \ {slot}) + Demand(pads) <= NPorts
  BY <1>1, <1>4, <1>6 DEF Reserved
<1> QED
  BY <1>5, <1>6 DEF Reserved

\* Every step keeps the newcomer's ports reserved.
LEMMA ReservedStep ==
  ASSUME Admitters = {Udp}, PortsIInv, Reserved, [Next]_vars
  PROVE  Reserved'
<1>1. PortTypes /\ PortTypes' /\ Udp \in Admitters
  BY PortsStep, ClientFacts DEF PortsIInv
<1>2. ASSUME NEW pads \in Shown, LetIn(Udp, pads) PROVE Reserved'
  <2>1. pads \in Layouts /\ Demand(pads) \in Nat /\ Demand(pads) # 0 /\ NPorts \in Nat
    BY DemandCounts, ClientFacts, Finite
  <2>2. Used \in Nat /\ Asks(client, Heard(client)) <= Used /\ Asks(client, Heard(client)) \in Nat
    <3>1. Heard(client) \in SUBSET Clients /\ client \in [Clients -> Session]
      BY <1>1 DEF Heard, PortTypes
    <3> QED
      BY <1>1, <3>1, UsedCovers, AsksShrinks
  <2>3. Demand(pads) <= FreePorts
    BY <1>2 DEF LetIn
  <2>4. Asks(client, Heard(client)) + Demand(pads) <= NPorts
    BY <2>1, <2>2, <2>3 DEF FreePorts
  <2>5. admit'[Udp].pc = "allocate" /\ admit'[Udp].pads = pads /\ client' = client
    BY <1>1, <1>2 DEF LetIn, PortTypes
  <2> QED
    BY <2>4, <2>5 DEF Reserved
<1>3. CASE Allocate(Udp)
  <2> DEFINE free == {c \in Clients : ~Counted(c)}
             c == Min(free)
             opened == [active |-> TRUE, quiet |-> FALSE, by |-> Udp, pads |-> NoPads]
  <2>1. CASE free = {}
    <3>1. admit'[Udp].pc = "idle"
      BY <1>1, <1>3, <2>1 DEF Allocate, AdmitIdle, PortTypes
    <3> QED
      BY <3>1 DEF Reserved
  <2>2. CASE free # {}
    <3>1. /\ admit[Udp].pc = "allocate" /\ client' = [client EXCEPT ![c] = opened]
          /\ admit' = [admit EXCEPT ![Udp].pc = "store", ![Udp].slot = c]
      BY <1>3, <2>2 DEF Allocate
    <3>2. c \in Clients /\ ~Counted(c)
      <4>1. free \in SUBSET Nat
        BY ClientFacts
      <4>2. c \in free
        BY <2>2, <4>1, MinIn
      <4> QED
        BY <4>2
    <3> HIDE DEF c, opened
    <3>3. admit'[Udp].pc = "store" /\ admit'[Udp].slot = c /\ admit'[Udp].pads = admit[Udp].pads
      BY <1>1, <3>1 DEF PortTypes
    <3>4. \A d \in Clients : d # c => client'[d] = client[d]
      BY <1>1, <3>1 DEF PortTypes
    <3>5. /\ Heard(client') \ {c} \in SUBSET Heard(client) /\ Heard(client) \in SUBSET Clients
          /\ \A d \in Heard(client') \ {c} : client'[d].pads = client[d].pads
      BY <3>4 DEF Heard
    <3>6. /\ Asks(client', Heard(client') \ {c}) \in Nat /\ Asks(client, Heard(client)) \in Nat
          /\ Asks(client', Heard(client') \ {c}) <= Asks(client, Heard(client))
      BY <1>1, <3>5, AsksShrinks DEF PortTypes
    <3>7. Demand(admit[Udp].pads) \in Nat /\ NPorts \in Nat
      BY <1>1, DemandCounts, Finite DEF PortTypes
    <3>8. Asks(client', Heard(client') \ {c}) + Demand(admit[Udp].pads) <= NPorts
      BY <3>1, <3>6, <3>7 DEF Reserved
    <3> QED
      BY <3>3, <3>8 DEF Reserved
  <2> QED
    BY <2>1, <2>2
<1>4. CASE Store(Udp)
  <2>1. admit'[Udp].pc = "idle"
    BY <1>1, <1>4 DEF Store, AdmitIdle, PortTypes
  <2> QED
    BY <2>1 DEF Reserved
<1>5. ASSUME NEW c \in Clients,
             (\E pads \in Shown : Report(Udp, c, pads)) \/ Reset(c)
      PROVE  Reserved'
  <2>1. admit'[Udp].pc = "idle"
    BY <1>5 DEF Report, Reset
  <2> QED
    BY <2>1 DEF Reserved
<1>6. ASSUME NEW c \in Clients, Silence(c) \/ End(c)
      PROVE  Reserved'
  <2>1. /\ UNCHANGED admit /\ ~(client'[c].active /\ ~client'[c].quiet)
        /\ \A d \in Clients : d # c => client'[d] = client[d]
    <3>1. CASE Silence(c)
      <4>1. client' = [client EXCEPT ![c].quiet = TRUE] /\ client[c] \in Session
        BY <1>1, <3>1 DEF Silence, PortTypes
      <4>2. client'[c].quiet
        BY <1>1, <4>1 DEF PortTypes, Session
      <4> QED
        BY <1>1, <3>1, <4>1, <4>2 DEF Silence, PortTypes
    <3>2. CASE End(c)
      BY <1>1, <3>2 DEF End, PortTypes, NoSession
    <3> QED
      BY <1>6, <3>1, <3>2
  <2>2. \A d \in Heard(client') : d \in Heard(client) /\ client'[d].pads = client[d].pads
    BY <2>1 DEF Heard
  <2> QED
    BY <1>1, <2>1, <2>2, ReservedKept
<1>7. CASE LayOut
  <2>1. /\ client' = [c \in Clients |-> IF c \in Dropped THEN NoSession ELSE client[c]]
        /\ UNCHANGED admit
    BY <1>7 DEF LayOut
  <2>2. \A d \in Heard(client') : d \in Heard(client) /\ client'[d].pads = client[d].pads
    BY <2>1 DEF Heard, NoSession
  <2> QED
    BY <1>1, <2>1, <2>2, ReservedKept
<1>8. ASSUME \/ Tell \/ CutShort \/ UNCHANGED vars
             \/ \E c \in Clients : \E s \in Pads : MacroEnds(c, s)
      PROVE  Reserved'
  <2>1. UNCHANGED <<client, admit>>
    BY <1>8 DEF Tell, CutShort, MacroEnds, vars
  <2> QED
    BY <2>1 DEF Reserved
<1>9. ASSUME NEW m \in MacroPads, StartMacro(Udp, m[1], m[2]) PROVE Reserved'
  <2>1. admit'[Udp].pc = "idle"
    BY <1>9 DEF StartMacro
  <2> QED
    BY <2>1 DEF Reserved
<1> QED
  BY <1>2, <1>3, <1>4, <1>5, <1>6, <1>7, <1>8, <1>9 DEF Next

\* With one thread that admits, nobody is let in whose pads do not fit the ports together with
\* those of the sessions heard of lately: nothing that happens between the count and the moment
\* the pads are stored takes a port that was counted as free.  (With two threads it does.)
THEOREM AdmitTheorem ==
  ASSUME Admitters = {Udp}
  PROVE  Spec => AdmittedFit
<1>1. Init => Reserved
  BY ClientFacts DEF Init, Reserved, AdmitIdle
<1>2. PortsIInv /\ Reserved /\ [Next]_vars => Reserved'
  BY ReservedStep
<1>3. PortsIInv /\ Reserved /\ [Next]_vars =>
        [\A t \in Admitters :
           admit[t].pc = "store" /\ admit'[t].pc = "idle" /\ client'[admit[t].slot].active
             => HeardDemand(client') <= NPorts]_vars
  <2> SUFFICES ASSUME PortsIInv, Reserved, Next, admit[Udp].pc = "store",
                      admit'[Udp].pc = "idle", client'[admit[Udp].slot].active
               PROVE  HeardDemand(client') <= NPorts
    OBVIOUS
  <2> DEFINE c == admit[Udp].slot
             pads == admit[Udp].pads
  <2>1. /\ PortTypes /\ PortTypes' /\ Udp \in Admitters /\ c \in Clients /\ pads \in Layouts
        /\ client \in [Clients -> Session] /\ client' \in [Clients -> Session]
    BY PortsStep, ClientFacts DEF PortsIInv, PortTypes
  <2>2. Store(Udp)
    BY <2>1 DEF Next, LetIn, Allocate, Report, Reset, Silence, End, StartMacro, MacroEnds,
                LayOut, Tell, CutShort
  <2>3. /\ client'[c].pads = pads
        /\ \A d \in Clients : d # c => client'[d] = client[d]
    <3>1. CASE ~client[c].active
      BY <2>2, <3>1 DEF Store
    <3>2. CASE client[c].active
      <4>1. client' = [client EXCEPT ![c].active = TRUE, ![c].by = @,
                                     ![c].quiet = FALSE, ![c].pads = pads]
        BY <2>2, <3>2 DEF Store
      <4>2. client[c] \in Session
        BY <2>1
      <4> HIDE DEF c, pads
      <4> QED
        BY <2>1, <4>1, <4>2 DEF Session
    <3> QED
      BY <3>1, <3>2
  <2>4. Asks(client', Heard(client')) <= Asks(client', Heard(client') \ {c}) + Demand(client'[c].pads)
    <3>1. Heard(client') \in SUBSET Clients
      BY DEF Heard
    <3> QED
      BY <2>1, <3>1, AsksGrows
  <2>5. /\ Asks(client', Heard(client') \ {c}) \in Nat /\ Asks(client, Heard(client) \ {c}) \in Nat
        /\ Asks(client', Heard(client') \ {c}) <= Asks(client, Heard(client) \ {c})
        /\ Asks(client', Heard(client')) \in Nat
    <3>1. /\ Heard(client') \ {c} \in SUBSET (Heard(client) \ {c})
          /\ Heard(client) \ {c} \in SUBSET Clients /\ Heard(client') \in SUBSET Clients
          /\ \A d \in Heard(client') \ {c} : client'[d].pads = client[d].pads
      BY <2>3 DEF Heard
    <3> QED
      BY <2>1, <3>1, AsksShrinks
  <2>6. Asks(client, Heard(client) \ {c}) + Demand(pads) <= NPorts
    BY DEF Reserved
  <2>7. HeardDemand(client') = Asks(client', Heard(client'))
    <3> DEFINE f == [d \in Clients |-> IF client'[d].active /\ ~client'[d].quiet
                                       THEN Demand(client'[d].pads) ELSE 0]
               g == [d \in Clients |-> IF d \in Heard(client') THEN Demand(client'[d].pads) ELSE 0]
    <3>1. \A d \in Clients : d \in Heard(client') <=> (client'[d].active /\ ~client'[d].quiet)
      BY DEF Heard
    <3>2. f = g
      BY <3>1
    <3>3. HeardDemand(client') = SumFunction(f)
      BY DEF HeardDemand
    <3>4. Asks(client', Heard(client')) = SumFunction(g)
      BY <2>1, TotalCounts DEF Asks
    <3> HIDE DEF f, g
    <3> QED
      BY <3>2, <3>3, <3>4
  <2>8. Demand(pads) \in Nat /\ NPorts \in Nat
    BY <2>1, DemandCounts, Finite
  <2> QED
    BY <2>3, <2>4, <2>5, <2>6, <2>7, <2>8
<1> QED
  BY <1>1, <1>2, <1>3, InitHolds, PortsStep, PTL DEF Spec, AdmittedFit
=============================================================================
