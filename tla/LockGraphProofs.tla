-------------------------- MODULE LockGraphProofs --------------------------
(***************************************************************************)
(* Reachability and cycles in a lock graph: the lemmas the proofs about    *)
(* every detector rest on.                                                 *)
(***************************************************************************)
EXTENDS LockGraph, WellFoundedInduction, TLAPS

----------------------------------------------------------------------------
(* Reachability.                                                           *)

\* More edges, more paths.
LEMMA ReachesGrows ==
  ASSUME NEW E, NEW F, E \subseteq F, NEW a, NEW b, Reaches(E, a, b)
  PROVE  Reaches(F, a, b)
  BY DEF Reaches

\* One edge is a path, and a path is prolonged by an edge.
LEMMA EdgeReaches ==
  ASSUME NEW E, NEW a \in Lock, NEW b \in Lock, <<a, b>> \in E
  PROVE  Reaches(E, a, b)
  BY DEF Reaches

LEMMA ReachesThenEdge ==
  ASSUME NEW E, NEW a, NEW b \in Lock, NEW c \in Lock,
         Reaches(E, a, b), <<b, c>> \in E
  PROVE  Reaches(E, a, c)
<1> SUFFICES ASSUME NEW C \in SUBSET Lock,
                    \A u \in Lock : <<a, u>> \in E => u \in C,
                    \A u \in C, v \in Lock : <<u, v>> \in E => v \in C
             PROVE  c \in C
  BY DEF Reaches
<1>1. b \in C
  BY DEF Reaches
<1> QED BY <1>1

\* What is reached is reached through a child: otherwise the locks from which
\* b is neither met nor reached are closed, and hold every child of a.
LEMMA ReachesByChild ==
  ASSUME NEW E, NEW a \in Lock, NEW b \in Lock, Reaches(E, a, b)
  PROVE  \E c \in Lock : <<a, c>> \in E /\ (c = b \/ Reaches(E, c, b))
<1> DEFINE Away == {x \in Lock : x # b /\ ~Reaches(E, x, b)}
<1>1. \A x \in Away, y \in Lock : <<x, y>> \in E => y \in Away
  <2> SUFFICES ASSUME NEW x \in Away, NEW y \in Lock, <<x, y>> \in E,
                      y = b \/ Reaches(E, y, b)
               PROVE  Reaches(E, x, b)
    BY EdgeReaches
  <2>1. CASE y = b
    BY <2>1, EdgeReaches
  <2>2. CASE Reaches(E, y, b)
    BY <2>2 DEF Reaches
  <2> QED BY <2>1, <2>2
<1>2. Away \in SUBSET Lock /\ b \notin Away
  OBVIOUS
<1>3. PICK c \in Lock : <<a, c>> \in E /\ c \notin Away
  BY <1>1, <1>2 DEF Reaches
<1> QED BY <1>3

\* A path after a path: the locks that x reaches are closed, so that whatever y
\* reaches is among them.
LEMMA ReachesTransitive ==
  ASSUME NEW E, NEW x, NEW y \in Lock, NEW z \in Lock,
         Reaches(E, x, y), Reaches(E, y, z)
  PROVE  Reaches(E, x, z)
<1> DEFINE C == {u \in Lock : Reaches(E, x, u)}
<1>1. \A u \in Lock : <<y, u>> \in E => u \in C
  BY ReachesThenEdge
<1>2. \A u \in C, v \in Lock : <<u, v>> \in E => v \in C
  BY ReachesThenEdge
<1>3. z \in C
  <2> HIDE DEF C
  <2>1. C \in SUBSET Lock
    BY DEF C
  <2> QED BY <1>1, <1>2, <2>1 DEF Reaches
<1> QED BY <1>3

(***************************************************************************)
(* Edges to l from locks that l does not reach, l itself not among them,   *)
(* close no cycle: from z only what z reached before, l and what l reached *)
(* before are reached, and z is none of these.                             *)
(***************************************************************************)
LEMMA EdgesToOneLock ==
  ASSUME NEW E, NEW l \in Lock, NEW H \in SUBSET Lock,
         \A x \in Lock : ~Reaches(E, x, x),
         l \notin H,
         \A h \in H : ~Reaches(E, l, h),
         NEW z \in Lock
  PROVE  ~Reaches(E \cup {<<h, l>> : h \in H}, z, z)
<1> DEFINE F == E \cup {<<h, l>> : h \in H}
           Enters == z \in H \/ \E h \in H : Reaches(E, z, h)
           C == {u \in Lock : \/ Reaches(E, z, u)
                              \/ Enters /\ (u = l \/ Reaches(E, l, u))}
<1>1. \A u \in Lock : <<z, u>> \in F => u \in C
  <2> SUFFICES ASSUME NEW u \in Lock, <<z, u>> \in F PROVE u \in C
    OBVIOUS
  <2>1. CASE <<z, u>> \in E
    BY <2>1, EdgeReaches
  <2>2. CASE <<z, u>> \notin E
    <3>1. z \in H /\ u = l
      BY <2>2
    <3> QED BY <3>1
  <2> QED BY <2>1, <2>2
<1>2. \A u \in C, v \in Lock : <<u, v>> \in F => v \in C
  <2> SUFFICES ASSUME NEW u \in C, NEW v \in Lock, <<u, v>> \in F PROVE v \in C
    OBVIOUS
  <2>1. CASE <<u, v>> \in E
    <3>1. CASE Reaches(E, z, u)
      BY <2>1, <3>1, ReachesThenEdge
    <3>2. CASE Enters /\ u = l
      BY <2>1, <3>2, EdgeReaches
    <3>3. CASE Enters /\ Reaches(E, l, u)
      BY <2>1, <3>3, ReachesThenEdge
    <3> QED BY <3>1, <3>2, <3>3
  <2>2. CASE <<u, v>> \notin E
    <3>1. u \in H /\ v = l
      BY <2>2
    <3>2. Reaches(E, z, u)
      BY <3>1
    <3> QED BY <3>1, <3>2
  <2> QED BY <2>1, <2>2
<1>3. z \notin C
  <2> SUFFICES ASSUME Enters, z = l \/ Reaches(E, l, z) PROVE FALSE
    OBVIOUS
  <2>1. CASE z \in H
    BY <2>1
  <2>2. CASE \E h \in H : Reaches(E, z, h)
    <3>1. PICK h \in H : Reaches(E, z, h)
      BY <2>2
    <3>2. Reaches(E, l, h)
      BY <3>1, ReachesTransitive
    <3> QED BY <3>2
  <2> QED BY <2>1, <2>2
<1>4. C \in SUBSET Lock
  OBVIOUS
<1> HIDE DEF C, F
<1>5. ~Reaches(F, z, z)
  BY <1>1, <1>2, <1>3, <1>4 DEF Reaches
<1> QED BY <1>5 DEF F

\* An empty graph has no paths.
LEMMA NoEdgesNoCycle ==
  ASSUME NEW z \in Lock
  PROVE  ~Reaches({}, z, z)
<1>1. {} \in SUBSET Lock
  OBVIOUS
<1> QED BY <1>1 DEF Reaches

----------------------------------------------------------------------------
(* Cycles.                                                                 *)

\* More edges, more cycles.
LEMMA CycleGrows ==
  ASSUME NEW E, NEW F, E \subseteq F, NEW l, has_cycle(E, l)
  PROVE  has_cycle(F, l)
  BY DEF has_cycle

\* Without edges there is no cycle.
LEMMA NoEdgesAcyclic ==
  ASSUME NEW x
  PROVE  ~has_cycle({}, x)
  BY DEF has_cycle

(***************************************************************************)
(* An edge from k to another lock l that does not reach k closes no cycle. *)
(* In a cycle that needs the edge, l and what l reaches is a cycle that    *)
(* does without it: k is not there.                                        *)
(***************************************************************************)
LEMMA EdgeKeepsAcyclic ==
  ASSUME NEW E, NEW k \in Lock, NEW l \in Lock, k # l, ~Reaches(E, l, k),
         \A x \in Lock : ~has_cycle(E, x),
         NEW z \in Lock
  PROVE  ~has_cycle(E \cup {<<k, l>>}, z)
<1> SUFFICES ASSUME NEW S \in SUBSET Lock, z \in S,
                    \A x \in S : \E y \in S : <<x, y>> \in E \cup {<<k, l>>}
             PROVE  FALSE
  BY DEF has_cycle
<1> DEFINE T == {x \in S : x = l \/ Reaches(E, l, x)}
<1>1. \A x \in S : (x # k => \E y \in S : <<x, y>> \in E)
  OBVIOUS
<1>2. CASE \A x \in S : \E y \in S : <<x, y>> \in E
  BY <1>2 DEF has_cycle
<1>3. CASE ~(\A x \in S : \E y \in S : <<x, y>> \in E)
  <2>1. l \in S
    BY <1>3
  <2>2. ASSUME NEW x \in T PROVE \E y \in T : <<x, y>> \in E
    <3>1. PICK y \in S : <<x, y>> \in E
      BY <1>1
    <3>2. Reaches(E, l, y)
      BY <3>1, EdgeReaches, ReachesThenEdge
    <3> QED BY <3>1, <3>2
  <2>3. T \in SUBSET Lock /\ l \in T
    BY <2>1
  <2> HIDE DEF T
  <2>4. has_cycle(E, l)
    BY <2>2, <2>3 DEF has_cycle
  <2> QED BY <2>4
<1> QED BY <1>2, <1>3

(***************************************************************************)
(* Where every lock of a set reaches a lock of the set there is a cycle:   *)
(* the locks that reach one of the set each have a child among them.       *)
(***************************************************************************)
LEMMA MutualReachIsCycle ==
  ASSUME NEW E, NEW S \in SUBSET Lock,
         \A x \in S : \E y \in S : Reaches(E, x, y),
         NEW z \in S
  PROVE  has_cycle(E, z)
<1> DEFINE T == {x \in Lock : \E y \in S : Reaches(E, x, y)}
<1>1. ASSUME NEW x \in T PROVE \E y \in T : <<x, y>> \in E
  <2>1. PICK y \in S : Reaches(E, x, y)
    OBVIOUS
  <2>2. PICK c \in Lock : <<x, c>> \in E /\ (c = y \/ Reaches(E, c, y))
    BY <2>1, ReachesByChild
  <2> QED BY <2>2
<1>2. T \in SUBSET Lock /\ z \in T
  OBVIOUS
<1> HIDE DEF T
<1> QED BY <1>1, <1>2 DEF has_cycle

\* A lock that reaches itself is on a cycle.
LEMMA LoopIsCycle ==
  ASSUME NEW E, NEW l \in Lock, Reaches(E, l, l)
  PROVE  has_cycle(E, l)
  BY MutualReachIsCycle, {l} \in SUBSET Lock

----------------------------------------------------------------------------
(* A non-empty set of natural numbers has a least element.                 *)

LEMMA NatHasLeast ==
  ASSUME NEW S \in SUBSET Nat, S # {}
  PROVE  \E x \in S : \A y \in S : x <= y
<1> DEFINE R == OpToRel(<, Nat)
<1>1. IsWellFoundedOn(R, Nat)
  BY NatLessThanWellFounded
<1>2. \A x, y \in Nat : y < x => <<y, x>> \in R
  BY DEF OpToRel
<1> HIDE DEF R
<1>3. PICK x \in S : \A y \in S : ~(<<y, x>> \in R)
  BY <1>1, WFMin
<1>4. ASSUME NEW y \in S PROVE x <= y
  <2>1. ~(y < x)
    BY <1>2, <1>3, Zenon
  <2> QED BY <2>1, S \in SUBSET Nat
<1> QED BY <1>4

============================================================================
