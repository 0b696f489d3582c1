---------------------------- MODULE GdlockProofs ----------------------------
(***************************************************************************)
(* Proofs about module Gdlock.  The inductive invariant is IInv of Gdlock: *)
(* the graph and the records of the detector say the same, until an unlock *)
(* wipes out an owner.  A report, and the silence of the detector, are     *)
(* then read off the real mutexes.                                         *)
(***************************************************************************)
EXTENDS Gdlock, TLAPS

Graph == INSTANCE LockGraphProofs WITH Lock <- Thread

\* The search is that of the lemmas about graphs.
LEMMA SameGraph ==
  ASSUME NEW E
  PROVE  /\ \A x : WaitFor!has_cycle(E, x) <=> Graph!has_cycle(E, x)
         /\ \A x, y : WaitFor!Reaches(E, x, y) <=> Graph!Reaches(E, x, y)
  BY DEF WaitFor!has_cycle, Graph!has_cycle, WaitFor!Reaches, Graph!Reaches

----------------------------------------------------------------------------
(* Types, calls and records.                                               *)

Base == TypeOK /\ CallsSound /\ RecordsSound

LEMMA InitInv == Init => IInv
<1> SUFFICES ASSUME Init PROVE IInv
  OBVIOUS
<1> USE GdlockAssumption DEF Init
<1>1. TypeOK /\ CallsSound /\ RecordsSound
  BY DEF TypeOK, CallsSound, RecordsSound, Info, NewInfo
<1>2. EdgesAreCurrent /\ SeenHaveEdges
  BY DEF EdgesAreCurrent, SeenHaveEdges
<1>3. CurrentAcyclic
  BY DEF CurrentAcyclic, CurrentEdges, WaitFor!has_cycle
<1> QED BY <1>1, <1>2, <1>3 DEF IInv

LEMMA TypeStep == TypeOK /\ CallsSound /\ [Next]_vars => TypeOK'
<1> SUFFICES ASSUME TypeOK, CallsSound, [Next]_vars PROVE TypeOK'
  OBVIOUS
<1> USE GdlockAssumption
    DEF TypeOK, CallsSound, Goto, Return, At, Info
<1>1. ASSUME NEW t \in Thread, NEW l \in Lock, pml_pre_free(t, l) PROVE TypeOK'
  BY <1>1 DEF pml_pre_free
<1>2. ASSUME NEW t \in Thread, NEW l \in Lock, pml_pre_self(t, l) PROVE TypeOK'
  BY <1>2 DEF pml_pre_self
<1>3. ASSUME NEW t \in Thread, NEW l \in Lock, pml_pre_wait(t, l) PROVE TypeOK'
  BY <1>3 DEF pml_pre_wait, add_waiter
<1>4. ASSUME NEW t \in Thread, NEW l \in Lock, Unlocked(t, l) PROVE TypeOK'
  BY <1>4 DEF Unlocked, real_unlock
<1>5. ASSUME NEW t \in Thread, NEW l \in Lock, pmi_pos(t, l) PROVE TypeOK'
  <2> DEFINE known == l \in Recursive
             info == [mutex_list[l] EXCEPT !.is_recursive = known]
  <2>1. known \in BOOLEAN
    OBVIOUS
  <2>2. mutex_list' = [mutex_list EXCEPT ![l] = info]
    BY <1>5 DEF pmi_pos
  <2> HIDE DEF known
  <2>3. info \in [owner : Thread \cup {None}, is_recursive : BOOLEAN, waiters : SUBSET Thread]
    BY <2>1
  <2> HIDE DEF info
  <2> QED BY <1>5, <2>2, <2>3 DEF pmi_pos
<1>6. ASSUME NEW t \in Thread, NEW l \in Lock, pmd_pos(t, l) PROVE TypeOK'
  BY <1>6 DEF pmd_pos, NewInfo
<1>7. ASSUME NEW t \in Thread, Locked(t) PROVE TypeOK'
  BY <1>7 DEF Locked, real_lock
<1>8. ASSUME NEW t \in Thread, pml_pos(t) PROVE TypeOK'
  <2>1. op[t] \in Lock
    BY <1>8 DEF pml_pos
  <2>2. edges' \subseteq Thread \X Thread
    BY <1>8, <2>1 DEF pml_pos, Repoint, graph_add_edges, graph_remove_edges, remove_waiter
  <2>3. unseen' \subseteq Thread
    BY <1>8, <2>1 DEF pml_pos, remove_waiter
  <2>4. mutex_list' \in [Lock -> [owner : Thread \cup {None}, is_recursive : BOOLEAN,
                                  waiters : SUBSET Thread]]
    <3> DEFINE info == [mutex_list[op[t]] EXCEPT !.owner = t,
                                                 !.waiters = remove_waiter(@, t)]
    <3>0. mutex_list[op[t]] \in [owner : Thread \cup {None}, is_recursive : BOOLEAN,
                                 waiters : SUBSET Thread]
      BY <2>1
    <3>1. info \in [owner : Thread \cup {None}, is_recursive : BOOLEAN, waiters : SUBSET Thread]
      BY <3>0 DEF remove_waiter
    <3>2. mutex_list' = [mutex_list EXCEPT ![op[t]] = info]
      BY <1>8, <2>1 DEF pml_pos
    <3> HIDE DEF info
    <3> QED BY <3>1, <3>2
  <2> QED BY <1>8, <2>2, <2>3, <2>4 DEF pml_pos
<1>9. ASSUME NEW t \in Thread, pmu_pos_owner(t) PROVE TypeOK'
  BY <1>9 DEF pmu_pos_owner
<1>10. ASSUME NEW t \in Thread, pmu_pos(t) PROVE TypeOK'
  BY <1>10 DEF pmu_pos, graph_remove_edges
<1>11. CASE UNCHANGED vars
  BY <1>11 DEF vars
<1> QED BY <1>1, <1>2, <1>3, <1>4, <1>5, <1>6, <1>7, <1>8, <1>9, <1>10, <1>11 DEF Next

LEMMA CallsStep == Base /\ [Next]_vars => CallsSound'
<1> SUFFICES ASSUME Base, [Next]_vars PROVE CallsSound'
  OBVIOUS
<1> USE GdlockAssumption
    DEF Base, TypeOK, CallsSound, Goto, Return, At, Info
<1>1. ASSUME NEW t \in Thread, NEW l \in Lock,
             pml_pre_free(t, l) \/ pml_pre_self(t, l) \/ pml_pre_wait(t, l)
      PROVE  CallsSound'
  BY <1>1 DEF pml_pre_free, pml_pre_self, pml_pre_wait
<1>4. ASSUME NEW t \in Thread, NEW l \in Lock, Unlocked(t, l) PROVE CallsSound'
  <2>1. \A u \in Thread : pc'[u] = "run" <=> op'[u] = None
    BY <1>4 DEF Unlocked
  <2>2. \A u \in Thread : pc'[u] = "locked" => owner'[op'[u]] = u
    BY <1>4 DEF Unlocked, real_unlock
  <2>3. \A m \in Lock : owner'[m] # None => depth'[m] > 0
    BY <1>4 DEF Unlocked, real_unlock
  <2> QED BY <2>1, <2>2, <2>3
<1>5. ASSUME NEW t \in Thread, NEW l \in Lock, pmi_pos(t, l) \/ pmd_pos(t, l) PROVE CallsSound'
  BY <1>5 DEF pmi_pos, pmd_pos
<1>7. ASSUME NEW t \in Thread, Locked(t) PROVE CallsSound'
  <2>1. \A u \in Thread : pc'[u] = "run" <=> op'[u] = None
    BY <1>7 DEF Locked
  <2>2. \A u \in Thread : pc'[u] = "locked" => owner'[op'[u]] = u
    BY <1>7 DEF Locked, real_lock, Available
  <2>3. \A m \in Lock : owner'[m] # None => depth'[m] > 0
    BY <1>7 DEF Locked, real_lock
  <2> QED BY <2>1, <2>2, <2>3
<1>8. ASSUME NEW t \in Thread, pml_pos(t) \/ pmu_pos_owner(t) \/ pmu_pos(t) PROVE CallsSound'
  <2>1. \A u \in Thread : pc'[u] = "run" <=> op'[u] = None
    BY <1>8 DEF pml_pos, pmu_pos_owner, pmu_pos
  <2>2. \A u \in Thread : pc'[u] = "locked" => pc[u] = "locked" /\ op'[u] = op[u]
    BY <1>8 DEF pml_pos, pmu_pos_owner, pmu_pos
  <2>3. UNCHANGED <<owner, depth>>
    BY <1>8 DEF pml_pos, pmu_pos_owner, pmu_pos
  <2> QED BY <2>1, <2>2, <2>3
<1>11. CASE UNCHANGED vars
  BY <1>11 DEF vars
<1> QED BY <1>1, <1>4, <1>5, <1>7, <1>8, <1>11 DEF Next

LEMMA RecordsStep == Base /\ TypeOK' /\ [Next]_vars => RecordsSound'
<1> SUFFICES ASSUME Base, TypeOK', [Next]_vars PROVE RecordsSound'
  OBVIOUS
<1> USE GdlockAssumption
    DEF Base, TypeOK, CallsSound, RecordsSound, Goto, Return, At, Info
<1>1. ASSUME NEW t \in Thread, NEW l \in Lock, pml_pre_free(t, l) \/ pml_pre_self(t, l)
      PROVE  RecordsSound'
  BY <1>1 DEF pml_pre_free, pml_pre_self
<1>3. ASSUME NEW t \in Thread, NEW l \in Lock, pml_pre_wait(t, l) PROVE RecordsSound'
  BY <1>3 DEF pml_pre_wait, add_waiter
<1>4. ASSUME NEW t \in Thread, NEW l \in Lock, Unlocked(t, l) PROVE RecordsSound'
  BY <1>4 DEF Unlocked, real_unlock
<1>5. ASSUME NEW t \in Thread, NEW l \in Lock, pmi_pos(t, l) \/ pmd_pos(t, l) PROVE RecordsSound'
  BY <1>5 DEF pmi_pos, pmd_pos, NewInfo, Unused
<1>7. ASSUME NEW t \in Thread, Locked(t) PROVE RecordsSound'
  BY <1>7 DEF Locked, real_lock, Available
<1>8. ASSUME NEW t \in Thread, pml_pos(t) PROVE RecordsSound'
  BY <1>8 DEF pml_pos, remove_waiter
<1>9. ASSUME NEW t \in Thread, pmu_pos_owner(t) PROVE RecordsSound'
  BY <1>9 DEF pmu_pos_owner
<1>10. ASSUME NEW t \in Thread, pmu_pos(t) PROVE RecordsSound'
  BY <1>10 DEF pmu_pos
<1>11. CASE UNCHANGED vars
  BY <1>11 DEF vars
<1> QED BY <1>1, <1>3, <1>4, <1>5, <1>7, <1>8, <1>9, <1>10, <1>11 DEF Next

LEMMA BaseStep == Base /\ [Next]_vars => Base'
  BY TypeStep, CallsStep, RecordsStep DEF Base

----------------------------------------------------------------------------
(* The edges.                                                              *)

\* What pml_pos writes: its caller is the owner and no waiter, the edges of the
\* other waiters lead to it, and it has none.
LEMMA PosEffect ==
  ASSUME Base, NEW t \in Thread, pml_pos(t)
  PROVE  /\ op[t] \in Lock /\ owner[op[t]] = t /\ reported = None
         /\ pc' = [pc EXCEPT ![t] = "run"] /\ op' = [op EXCEPT ![t] = None]
         /\ mutex_list'[op[t]].owner = t
         /\ mutex_list'[op[t]].waiters = Info(op[t]).waiters \ {t}
         /\ \A l \in Lock \ {op[t]} : Info(l)' = Info(l)
         /\ UNCHANGED <<owner, nodes, reported, overwritten>>
         /\ \A x, y \in Thread :
              <<x, y>> \in edges' <=>
                \/ /\ <<x, y>> \in edges
                   /\ ~(y = Info(op[t]).owner /\ x \in Info(op[t]).waiters \cup {t})
                \/ /\ x \in Info(op[t]).waiters \ {t}
                   /\ t \in nodes /\ y = t
<1> USE GdlockAssumption DEF Base, TypeOK, CallsSound, pml_pos, At, Goto, Return, Info
<1>1. op[t] \in Lock /\ owner[op[t]] = t
  OBVIOUS
<1>2. /\ mutex_list'[op[t]].owner = t
      /\ mutex_list'[op[t]].waiters = Info(op[t]).waiters \ {t}
      /\ \A l \in Lock \ {op[t]} : Info(l)' = Info(l)
  BY <1>1 DEF remove_waiter
<1>3. \A w \in Info(op[t]).waiters : w \in nodes
  BY <1>1 DEF RecordsSound
<1>4. ASSUME NEW x \in Thread, NEW y \in Thread
      PROVE  <<x, y>> \in edges' <=>
                \/ /\ <<x, y>> \in edges
                   /\ ~(y = Info(op[t]).owner /\ x \in Info(op[t]).waiters \cup {t})
                \/ /\ x \in Info(op[t]).waiters \ {t}
                   /\ t \in nodes /\ y = t
  BY <1>1, <1>3 DEF Repoint, graph_add_edges, graph_remove_edges, remove_waiter
<1> QED BY <1>1, <1>2, <1>4

LEMMA EdgesStep == Base /\ Base' /\ EdgesAreCurrent /\ [Next]_vars => EdgesAreCurrent'
<1> SUFFICES ASSUME Base, Base', EdgesAreCurrent, [Next]_vars,
                    reported' = None, ~overwritten',
                    NEW x \in Thread, NEW y \in Thread, <<x, y>> \in edges'
             PROVE  Waits(x, y)' /\ x # y
  BY DEF EdgesAreCurrent, Base, TypeOK
<1> USE GdlockAssumption DEF Base, TypeOK, Goto, Return, At, Info
<1>0. /\ reported = None /\ ~overwritten => (<<x, y>> \in edges => Waits(x, y) /\ x # y)
      /\ Waits(x, y) => op[x] \in Lock /\ x \in Info(op[x]).waiters /\ Info(op[x]).owner = y
                        /\ pc[x] \in {"locking", "locked"}
      /\ op'[x] \in Lock /\ x \in Info(op[x])'.waiters /\ Info(op[x])'.owner = y => Waits(x, y)'
  BY DEF EdgesAreCurrent, Waits, RecordsSound
<1>1. ASSUME NEW t \in Thread, NEW l \in Lock, pml_pre_free(t, l) PROVE Waits(x, y)' /\ x # y
  <2>1. Waits(x, y) /\ x # y /\ x # t
    BY <1>0, <1>1 DEF pml_pre_free
  <2> QED BY <1>0, <1>1, <2>1 DEF pml_pre_free, Waits
<1>2. ASSUME NEW t \in Thread, NEW l \in Lock, pml_pre_self(t, l) PROVE FALSE
  <2>1. <<t, t>> \in edges' /\ t \in nodes'
    BY <1>2 DEF pml_pre_self
  <2>2. WaitFor!Reaches(edges', t, t)
    BY <2>1 DEF WaitFor!Reaches
  <2> QED BY <1>2, <2>1, <2>2 DEF pml_pre_self, wait_graph_has_cycle
<1>3. ASSUME NEW t \in Thread, NEW l \in Lock, pml_pre_wait(t, l) PROVE Waits(x, y)' /\ x # y
  <2>1. ~would_create_cycle(t, Info(l).owner)
    BY <1>3 DEF pml_pre_wait
  <2>2. CASE <<x, y>> \in edges
    <3>1. Waits(x, y) /\ x # y /\ x # t
      BY <1>0, <1>3, <2>2 DEF pml_pre_wait
    <3> QED BY <1>0, <1>3, <3>1 DEF pml_pre_wait, Waits, add_waiter
  <2>3. CASE x = t /\ y = Info(l).owner
    BY <1>0, <1>3, <2>3 DEF pml_pre_wait, Waits, add_waiter
  <2> QED BY <1>3, <2>1, <2>2, <2>3 DEF pml_pre_wait
<1>4. ASSUME NEW t \in Thread, NEW l \in Lock, Unlocked(t, l) PROVE Waits(x, y)' /\ x # y
  <2>1. Waits(x, y) /\ x # y /\ x # t
    BY <1>0, <1>4 DEF Unlocked
  <2> QED BY <1>0, <1>4, <2>1 DEF Unlocked, Waits
<1>5. ASSUME NEW t \in Thread, NEW l \in Lock, pmi_pos(t, l) \/ pmd_pos(t, l)
      PROVE  Waits(x, y)' /\ x # y
  <2>1. Waits(x, y) /\ x # y /\ op[x] # l
    BY <1>0, <1>5 DEF pmi_pos, pmd_pos, Unused
  <2> QED BY <1>0, <1>5, <2>1 DEF pmi_pos, pmd_pos, Waits
<1>7. ASSUME NEW t \in Thread, Locked(t) PROVE Waits(x, y)' /\ x # y
  BY <1>0, <1>7 DEF Locked, Waits
<1>8. ASSUME NEW t \in Thread, pml_pos(t) PROVE Waits(x, y)' /\ x # y
  <2>1. CASE <<x, y>> \in edges
    <3>1. Waits(x, y) /\ x # y
      BY <1>0, <1>8, <2>1, PosEffect
    <3>2. CASE op[x] = op[t]
      BY <1>0, <1>8, <3>1, <3>2, PosEffect
    <3>3. CASE op[x] # op[t]
      BY <1>0, <1>8, <3>1, <3>3, PosEffect DEF Waits
    <3> QED BY <3>2, <3>3
  <2>2. CASE x \in Info(op[t]).waiters \ {t} /\ y = t
    <3>1. op[x] = op[t]
      BY <1>8, <2>2, PosEffect DEF RecordsSound
    <3> QED BY <1>8, <2>2, <3>1, PosEffect DEF Waits
  <2> QED BY <1>8, <2>1, <2>2, PosEffect
<1>9. ASSUME NEW t \in Thread, pmu_pos_owner(t) PROVE Waits(x, y)' /\ x # y
  <2>1. Waits(x, y) /\ x # y /\ x # t
    BY <1>0, <1>9 DEF pmu_pos_owner
  <2> QED BY <1>0, <1>9, <2>1 DEF pmu_pos_owner, Waits
<1>10. ASSUME NEW t \in Thread, pmu_pos(t) PROVE Waits(x, y)' /\ x # y
  <2>1. /\ Waits(x, y) /\ x # y /\ x # t
        /\ Info(op[t]).owner = t
        /\ ~(x \in Info(op[t]).waiters /\ y = t)
    BY <1>0, <1>10 DEF pmu_pos, graph_remove_edges
  <2>2. op[x] # op[t]
    BY <1>0, <2>1
  <2> QED BY <1>0, <1>10, <2>1, <2>2 DEF pmu_pos, Waits
<1>11. CASE UNCHANGED vars
  BY <1>0, <1>11 DEF vars, Waits
<1> QED BY <1>1, <1>2, <1>3, <1>4, <1>5, <1>7, <1>8, <1>9, <1>10, <1>11 DEF Next

\* Where the records of x's mutex, its wait and its edges stay, so does what
\* SeenHaveEdges says of it.
Seen(x) == pc[x] = "locking" =>
             IF x \in Info(op[x]).waiters
             THEN Info(op[x]).owner # None => <<x, Info(op[x]).owner>> \in edges
             ELSE owner[op[x]] = x /\ op[x] \in Recursive

LEMMA SeenStays ==
  ASSUME NEW x, Seen(x), pc[x] = "locking", op'[x] = op[x], owner'[op[x]] = owner[op[x]],
         x \in mutex_list'[op[x]].waiters <=> x \in Info(op[x]).waiters,
         mutex_list'[op[x]].owner = Info(op[x]).owner,
         <<x, Info(op[x]).owner>> \in edges => <<x, Info(op[x]).owner>> \in edges'
  PROVE  Seen(x)'
  BY DEF Seen, Info

LEMMA SeenStep == Base /\ Base' /\ SeenHaveEdges /\ [Next]_vars => SeenHaveEdges'
<1> SUFFICES ASSUME Base, Base', SeenHaveEdges, [Next]_vars, reported' = None,
                    NEW x \in Thread, x \notin unseen', pc'[x] = "locking"
             PROVE  Seen(x)'
  BY DEF SeenHaveEdges, Seen
<1> USE GdlockAssumption DEF Base, TypeOK, Goto, Return, At, Info
<1>0. /\ reported = None /\ x \notin unseen => Seen(x)
      /\ op'[x] \in Lock
  BY DEF SeenHaveEdges, Seen, CallsSound
<1>1. ASSUME NEW t \in Thread, NEW l \in Lock, pml_pre_free(t, l) PROVE Seen(x)'
  <2>1. CASE x = t
    <3>1. Info(l).owner = t /\ Info(l).is_recursive /\ op'[t] = l
      BY <1>1, <2>1 DEF pml_pre_free
    <3>2. owner[l] = t /\ l \in Recursive /\ t \notin Info(l).waiters
      BY <1>1, <3>1 DEF pml_pre_free, RecordsSound, CallsSound
    <3> QED BY <1>1, <2>1, <3>1, <3>2 DEF pml_pre_free, Seen
  <2>2. CASE x # t
    BY <1>0, <1>1, <2>2 DEF pml_pre_free, Seen
  <2> QED BY <2>1, <2>2
<1>2. ASSUME NEW t \in Thread, NEW l \in Lock, pml_pre_self(t, l) PROVE FALSE
  <2>1. <<t, t>> \in edges' /\ t \in nodes'
    BY <1>2 DEF pml_pre_self
  <2>2. WaitFor!Reaches(edges', t, t)
    BY <2>1 DEF WaitFor!Reaches
  <2> QED BY <1>2, <2>1, <2>2 DEF pml_pre_self, wait_graph_has_cycle
<1>3. ASSUME NEW t \in Thread, NEW l \in Lock, pml_pre_wait(t, l) PROVE Seen(x)'
  <2>1. edges' = edges \cup {<<t, Info(l).owner>>}
    BY <1>3 DEF pml_pre_wait
  <2>2. CASE x = t
    BY <1>3, <2>1, <2>2 DEF pml_pre_wait, add_waiter, Seen
  <2>3. CASE x # t
    <3>1. /\ Seen(x) /\ pc[x] = "locking" /\ op'[x] = op[x] /\ op[x] \in Lock
          /\ mutex_list'[op[x]].waiters \ {t} = mutex_list[op[x]].waiters \ {t}
          /\ mutex_list'[op[x]].owner = mutex_list[op[x]].owner
      BY <1>0, <1>3, <2>3 DEF pml_pre_wait, add_waiter
    <3> QED BY <1>3, <2>1, <2>3, <3>1, SeenStays DEF pml_pre_wait
  <2> QED BY <2>2, <2>3
<1>4. ASSUME NEW t \in Thread, NEW l \in Lock, Unlocked(t, l) PROVE Seen(x)'
  BY <1>0, <1>4 DEF Unlocked, real_unlock, Seen
<1>5. ASSUME NEW t \in Thread, NEW l \in Lock, pmi_pos(t, l) \/ pmd_pos(t, l) PROVE Seen(x)'
  <2>1. Seen(x) /\ op[x] # l
    BY <1>0, <1>5 DEF pmi_pos, pmd_pos, Unused
  <2>2. op[x] \in Lock /\ op'[x] = op[x] /\ mutex_list'[op[x]] = mutex_list[op[x]]
    BY <1>0, <1>5, <2>1 DEF pmi_pos, pmd_pos
  <2> QED BY <1>5, <2>1, <2>2, SeenStays DEF pmi_pos, pmd_pos
<1>7. ASSUME NEW t \in Thread, Locked(t) PROVE Seen(x)'
  <2>1. x # t /\ Seen(x)
    BY <1>0, <1>7 DEF Locked
  <2> QED BY <1>0, <1>7, <2>1 DEF Locked, real_lock, Available, Seen
<1>8. ASSUME NEW t \in Thread, pml_pos(t) PROVE Seen(x)'
  <2>1. x # t /\ pc[x] = "locking" /\ op'[x] = op[x]
    BY <1>8, PosEffect
  <2>2. CASE x \in Info(op[t]).waiters
    <3>1. op[x] = op[t]
      BY <1>8, <2>2, PosEffect DEF RecordsSound
    <3>2. t \in nodes
      BY <1>8, <2>1, <2>2 DEF pml_pos, remove_waiter
    <3>3. <<x, t>> \in edges'
      BY <1>8, <2>1, <2>2, <3>2, PosEffect
    <3>4. mutex_list'[op'[x]].owner = t /\ x \in mutex_list'[op'[x]].waiters
      BY <1>8, <2>1, <2>2, <3>1, PosEffect
    <3> QED BY <3>3, <3>4 DEF Seen
  <2>3. CASE x \notin Info(op[t]).waiters
    <3>1. Seen(x)
      BY <1>0, <1>8, <2>3 DEF pml_pos, remove_waiter
    <3>2. op[x] # op[t]
      BY <1>8, <2>1, <2>3, <3>1, PosEffect DEF Seen
    <3>3. \A y \in Thread : <<x, y>> \in edges => <<x, y>> \in edges'
      BY <1>8, <2>1, <2>3, PosEffect
    <3>4. /\ mutex_list'[op[x]] = mutex_list[op[x]] /\ op[x] \in Lock
          /\ owner'[op[x]] = owner[op[x]]
      BY <1>0, <1>8, <2>1, <3>2, PosEffect
    <3>5. Info(op[x]).owner \in Thread \cup {None}
      BY <3>4
    <3>6. None \notin Thread /\ <<x, None>> \notin edges
      OBVIOUS
    <3> QED BY <2>1, <3>1, <3>3, <3>4, <3>5, <3>6, SeenStays
  <2> QED BY <2>2, <2>3
<1>9. ASSUME NEW t \in Thread, pmu_pos_owner(t) PROVE Seen(x)'
  BY <1>0, <1>9 DEF pmu_pos_owner, Seen
<1>10. ASSUME NEW t \in Thread, pmu_pos(t) PROVE Seen(x)'
  <2>1. x # t /\ Seen(x) /\ op'[x] = op[x] /\ pc[x] = "locking" /\ op[t] \in Lock
    BY <1>0, <1>10 DEF pmu_pos, CallsSound
  <2>2. CASE op[x] = op[t]
    BY <1>10, <2>1, <2>2 DEF pmu_pos, Seen
  <2>3. CASE op[x] # op[t]
    <3>1. x \notin Info(op[t]).waiters
      BY <2>1, <2>3 DEF RecordsSound
    <3>2. \A y \in Thread : <<x, y>> \in edges => <<x, y>> \in edges'
      BY <1>10, <3>1 DEF pmu_pos, graph_remove_edges
    <3> QED BY <1>0, <1>10, <2>1, <2>3, <3>2 DEF pmu_pos, Seen
  <2> QED BY <2>2, <2>3
<1>11. CASE UNCHANGED vars
  BY <1>0, <1>11 DEF vars, Seen
<1> QED BY <1>1, <1>2, <1>3, <1>4, <1>5, <1>7, <1>8, <1>9, <1>10, <1>11 DEF Next

\* Fewer edges, fewer cycles; and a thread without edges is on none.
LEMMA SinkKeepsAcyclic ==
  ASSUME NEW E, NEW F, NEW t,
         \A x, y \in Thread : <<x, y>> \in F => x # t /\ (y = t \/ <<x, y>> \in E),
         \A x \in Thread : ~WaitFor!has_cycle(E, x),
         NEW z \in Thread
  PROVE  ~WaitFor!has_cycle(F, z)
<1> SUFFICES ASSUME NEW S \in SUBSET Thread, z \in S,
                    \A x \in S : \E y \in S : <<x, y>> \in F
             PROVE  FALSE
  BY DEF WaitFor!has_cycle
<1>1. t \notin S
  OBVIOUS
<1>2. \A x \in S : \E y \in S : <<x, y>> \in E
  BY <1>1
<1> QED BY <1>2 DEF WaitFor!has_cycle

LEMMA FewerEdgesAcyclic ==
  ASSUME NEW E, NEW F,
         \A x, y \in Thread : <<x, y>> \in F => <<x, y>> \in E,
         \A x \in Thread : ~WaitFor!has_cycle(E, x),
         NEW z \in Thread
  PROVE  ~WaitFor!has_cycle(F, z)
  BY DEF WaitFor!has_cycle

LEMMA AcyclicStep == Base /\ Base' /\ CurrentAcyclic /\ [Next]_vars => CurrentAcyclic'
<1> SUFFICES ASSUME Base, Base', CurrentAcyclic, [Next]_vars, reported' = None,
                    NEW z \in Thread
             PROVE  ~WaitFor!has_cycle(CurrentEdges', z)
  BY DEF CurrentAcyclic
<1> USE GdlockAssumption DEF Base, TypeOK, Goto, Return, At, Info
<1>a. \A x, y \in Thread :
        Waits(x, y) <=> op[x] \in Lock /\ x \in Info(op[x]).waiters /\ Info(op[x]).owner = y
  BY DEF Waits
<1>b. \A x, y \in Thread :
        Waits(x, y)' <=> op'[x] \in Lock /\ x \in Info(op[x])'.waiters /\ Info(op[x])'.owner = y
  BY DEF Waits
<1>c. \A x, y \in Thread : <<x, y>> \in CurrentEdges <=> <<x, y>> \in edges /\ Waits(x, y)
  BY DEF CurrentEdges
<1>d. \A x, y \in Thread : <<x, y>> \in CurrentEdges' <=> <<x, y>> \in edges' /\ Waits(x, y)'
  BY DEF CurrentEdges
<1>e. reported = None => \A x \in Thread : ~WaitFor!has_cycle(CurrentEdges, x)
  BY DEF CurrentAcyclic
<1>f. ASSUME reported = None,
             \A x, y \in Thread : <<x, y>> \in edges' /\ Waits(x, y)'
                                    => <<x, y>> \in edges /\ Waits(x, y)
      PROVE  ~WaitFor!has_cycle(CurrentEdges', z)
  BY <1>c, <1>d, <1>e, <1>f, FewerEdgesAcyclic
<1>1. ASSUME NEW t \in Thread, NEW l \in Lock, pml_pre_free(t, l)
      PROVE  ~WaitFor!has_cycle(CurrentEdges', z)
  <2>1. \A x, y \in Thread : Waits(x, y)' => Waits(x, y)
    BY <1>1, <1>a, <1>b DEF pml_pre_free, RecordsSound
  <2> QED BY <1>1, <1>f, <2>1 DEF pml_pre_free
<1>2. ASSUME NEW t \in Thread, NEW l \in Lock, pml_pre_self(t, l) PROVE FALSE
  <2>1. <<t, t>> \in edges' /\ t \in nodes'
    BY <1>2 DEF pml_pre_self
  <2>2. WaitFor!Reaches(edges', t, t)
    BY <2>1 DEF WaitFor!Reaches
  <2> QED BY <1>2, <2>1, <2>2 DEF pml_pre_self, wait_graph_has_cycle
<1>3. ASSUME NEW t \in Thread, NEW l \in Lock, pml_pre_wait(t, l)
      PROVE  ~WaitFor!has_cycle(CurrentEdges', z)
  <2> DEFINE o == Info(l).owner
  <2>1. /\ o \in Thread /\ o # t /\ reported = None
        /\ ~WaitFor!Reaches(edges, o, t)
        /\ edges' = edges \cup {<<t, o>>}
    BY <1>3 DEF pml_pre_wait, would_create_cycle
  <2>2. \A x, y \in Thread : Waits(x, y)' => Waits(x, y) \/ (x = t /\ y = o)
    BY <1>3, <1>a, <1>b DEF pml_pre_wait, add_waiter
  <2> HIDE DEF o
  <2>3. ~Graph!Reaches(CurrentEdges, o, t)
    <3>1. ~Graph!Reaches(edges, o, t) /\ CurrentEdges \subseteq edges
      BY <2>1, SameGraph DEF CurrentEdges
    <3> QED BY <3>1, Graph!ReachesGrows
  <2>4. \A x \in Thread : ~Graph!has_cycle(CurrentEdges, x)
    BY <1>e, <2>1, SameGraph
  <2>5. \A x \in Thread : ~Graph!has_cycle(CurrentEdges \cup {<<t, o>>}, x)
    BY <2>1, <2>3, <2>4, Graph!EdgeKeepsAcyclic
  <2>6. \A x \in Thread : ~WaitFor!has_cycle(CurrentEdges \cup {<<t, o>>}, x)
    BY <2>5, SameGraph
  <2>7. \A x, y \in Thread : <<x, y>> \in CurrentEdges' => <<x, y>> \in CurrentEdges \cup {<<t, o>>}
    BY <1>c, <1>d, <2>1, <2>2
  <2> QED BY <2>6, <2>7, FewerEdgesAcyclic
<1>4. ASSUME NEW t \in Thread, NEW l \in Lock, Unlocked(t, l)
      PROVE  ~WaitFor!has_cycle(CurrentEdges', z)
  <2>1. \A x, y \in Thread : Waits(x, y)' => Waits(x, y)
    BY <1>4, <1>a, <1>b DEF Unlocked, RecordsSound
  <2> QED BY <1>4, <1>f, <2>1 DEF Unlocked
<1>5. ASSUME NEW t \in Thread, NEW l \in Lock, pmi_pos(t, l) \/ pmd_pos(t, l)
      PROVE  ~WaitFor!has_cycle(CurrentEdges', z)
  <2>1. \A x, y \in Thread : Waits(x, y)' => Waits(x, y)
    BY <1>5, <1>a, <1>b DEF pmi_pos, pmd_pos, Unused
  <2> QED BY <1>5, <1>f, <2>1 DEF pmi_pos, pmd_pos
<1>7. ASSUME NEW t \in Thread, Locked(t) PROVE ~WaitFor!has_cycle(CurrentEdges', z)
  <2>1. \A x, y \in Thread : Waits(x, y)' => Waits(x, y)
    BY <1>7, <1>a, <1>b DEF Locked
  <2> QED BY <1>7, <1>f, <2>1 DEF Locked
<1>8. ASSUME NEW t \in Thread, pml_pos(t) PROVE ~WaitFor!has_cycle(CurrentEdges', z)
  <2>1. ASSUME NEW x \in Thread, NEW y \in Thread, <<x, y>> \in CurrentEdges'
        PROVE  x # t /\ (y = t \/ <<x, y>> \in CurrentEdges)
    <3>1. <<x, y>> \in edges' /\ Waits(x, y)'
      BY <1>d, <2>1
    <3>2. x # t /\ op'[x] = op[x]
      BY <1>8, <1>b, <3>1, PosEffect
    <3>3. CASE op[x] = op[t]
      BY <1>8, <1>b, <3>1, <3>2, <3>3, PosEffect
    <3>4. CASE op[x] # op[t]
      <4>1. x \notin Info(op[t]).waiters
        BY <1>8, <3>4, PosEffect DEF RecordsSound
      <4>2. Waits(x, y) /\ <<x, y>> \in edges
        BY <1>8, <1>a, <1>b, <3>1, <3>2, <3>4, <4>1, PosEffect
      <4> QED BY <1>c, <3>2, <4>2
    <3> QED BY <3>3, <3>4
  <2>2. reported = None
    BY <1>8, PosEffect
  <2> QED BY <1>e, <2>1, <2>2, SinkKeepsAcyclic
<1>9. ASSUME NEW t \in Thread, pmu_pos_owner(t) PROVE ~WaitFor!has_cycle(CurrentEdges', z)
  <2>1. \A x, y \in Thread : Waits(x, y)' => Waits(x, y)
    BY <1>9, <1>a, <1>b DEF pmu_pos_owner
  <2> QED BY <1>9, <1>f, <2>1 DEF pmu_pos_owner
<1>10. ASSUME NEW t \in Thread, pmu_pos(t) PROVE ~WaitFor!has_cycle(CurrentEdges', z)
  <2>1. \A x, y \in Thread : Waits(x, y)' => Waits(x, y)
    BY <1>10, <1>a, <1>b DEF pmu_pos
  <2> QED BY <1>10, <1>f, <2>1 DEF pmu_pos, graph_remove_edges
<1>11. CASE UNCHANGED vars
  <2>1. \A x, y \in Thread : Waits(x, y)' => Waits(x, y)
    BY <1>11, <1>a, <1>b DEF vars
  <2> QED BY <1>11, <1>f, <2>1 DEF vars
<1> QED BY <1>1, <1>2, <1>3, <1>4, <1>5, <1>7, <1>8, <1>9, <1>10, <1>11 DEF Next

LEMMA InvStep == IInv /\ [Next]_vars => IInv'
  BY BaseStep, EdgesStep, SeenStep, AcyclicStep DEF IInv, Base
THEOREM InvariantHolds == Spec => []IInv
  BY InitInv, InvStep, PTL DEF Spec

----------------------------------------------------------------------------
(* What the detector says, and what it does not.                           *)

(***************************************************************************)
(* The graph never holds a cycle nobody was told of (NoUntoldCycle): its   *)
(* edges are current, and these close none.                                *)
(***************************************************************************)
THEOREM NoCycleIsUntold == Spec => []NoUntoldCycle
<1>1. IInv => NoUntoldCycle
  <2> SUFFICES ASSUME IInv, reported = None, ~overwritten,
                      NEW n \in nodes, WaitFor!Reaches(edges, n, n)
               PROVE  FALSE
    BY DEF NoUntoldCycle, wait_graph_has_cycle
  <2>1. n \in Thread /\ edges = CurrentEdges
    BY DEF IInv, TypeOK, EdgesAreCurrent, CurrentEdges
  <2>2. Graph!has_cycle(CurrentEdges, n)
    BY <2>1, SameGraph, Graph!LoopIsCycle
  <2> QED BY <2>1, <2>2, SameGraph DEF IInv, CurrentAcyclic
<1> QED BY <1>1, InvariantHolds, PTL

(***************************************************************************)
(* A deadlock that is not reported has a thread without an edge, or one    *)
(* whose owner the record has lost (SilentOnlyWhenUnseen): otherwise each  *)
(* has a current edge to the owner of its mutex, and they close a cycle.   *)
(***************************************************************************)
THEOREM SilenceIsExplained == Spec => []SilentOnlyWhenUnseen
<1>1. IInv => SilentOnlyWhenUnseen
  <2> SUFFICES ASSUME IInv, reported = None, NEW D \in SUBSET Thread, CircularWait(D),
                      \A t \in D : t \notin unseen /\ ~OwnerLost(op[t])
               PROVE  FALSE
    BY DEF SilentOnlyWhenUnseen
  <2> USE GdlockAssumption DEF IInv, TypeOK, CallsSound, Info
  <2>1. ASSUME NEW t \in D
        PROVE  \E o \in D : <<t, o>> \in CurrentEdges
    <3> DEFINE o == owner[op[t]]
    <3>1. pc[t] = "locking" /\ o \in D /\ ~Available(t, op[t]) /\ op[t] \in Lock
      BY DEF CircularWait
    <3>2. Info(op[t]).owner = o /\ o # None
      BY <3>1 DEF OwnerLost
    <3>3. t \in Info(op[t]).waiters
      BY <3>1 DEF SeenHaveEdges, Available
    <3>4. <<t, o>> \in edges
      BY <3>1, <3>2, <3>3 DEF SeenHaveEdges
    <3>5. Waits(t, o)
      BY <3>1, <3>2, <3>3 DEF Waits
    <3> QED BY <3>1, <3>4, <3>5 DEF CurrentEdges
  <2>2. PICK t \in D : TRUE
    BY DEF CircularWait
  <2>3. WaitFor!has_cycle(CurrentEdges, t)
    BY <2>1 DEF WaitFor!has_cycle
  <2> QED BY <2>3 DEF CurrentAcyclic
<1> QED BY <1>1, InvariantHolds, PTL

\* Who waits according to the graph does, for a thread that owns the mutex: an
\* owner that is about to be forgotten waits for nobody.
LEMMA WaiterIsBlocked ==
  ASSUME Base, NEW x \in Thread, NEW y \in Thread, Waits(x, y), x # y,
         pc[y] \in {"run", "locking", "locked"}, pc[y] = "run" => op[y] = None
  PROVE  pc[x] = "locking" /\ op[x] \in Lock /\ owner[op[x]] = y /\ ~Available(x, op[x])
<1> USE GdlockAssumption DEF Base, TypeOK, CallsSound, RecordsSound, Info
<1>1. op[x] \in Lock /\ x \in Info(op[x]).waiters /\ Info(op[x]).owner = y
  BY DEF Waits
<1>2. owner[op[x]] = y
  BY <1>1
<1>3. pc[x] = "locking"
  BY <1>1, <1>2
<1> QED BY <1>1, <1>2, <1>3 DEF Available

LEMMA ReportStep == IInv /\ ReportIsDeadlock /\ [Next]_vars => ReportIsDeadlock'
<1> SUFFICES ASSUME IInv, ReportIsDeadlock, [Next]_vars,
                    reported' # None, TypesKnown', ~overwritten'
             PROVE  \E D \in SUBSET Thread : reported' \in D /\ CircularWait(D)'
  BY DEF ReportIsDeadlock
<1> USE GdlockAssumption DEF IInv, TypeOK, CallsSound, Info, Goto, At
<1>1. ASSUME NEW t \in Thread, NEW l \in Lock, pml_pre_self(t, l)
      PROVE  \E D \in SUBSET Thread : reported' \in D /\ CircularWait(D)'
  <2>1. l \notin Recursive
    BY <1>1 DEF pml_pre_self, TypesKnown
  <2>2. owner[l] = t
    BY <1>1 DEF pml_pre_self, RecordsSound
  <2>3. pc'[t] = "locking" /\ op'[t] = l /\ owner'[l] = t
    BY <1>1, <2>2 DEF pml_pre_self
  <2>4. reported' = t
    BY <1>1 DEF pml_pre_self
  <2>5. CircularWait({t})'
    BY <2>1, <2>3 DEF CircularWait, Available
  <2> QED BY <2>4, <2>5, {t} \in SUBSET Thread
<1>2. ASSUME NEW t \in Thread, NEW l \in Lock, pml_pre_wait(t, l)
      PROVE  \E D \in SUBSET Thread : reported' \in D /\ CircularWait(D)'
  <2> DEFINE o == Info(l).owner
             D == {t} \cup {x \in Thread : Graph!Reaches(edges, x, t)}
  <2>1. /\ pc[t] = "run" /\ op[t] = None /\ reported = None /\ ~overwritten
        /\ o \in Thread \ {t} /\ Graph!Reaches(edges, o, t) /\ reported' = t
        /\ pc' = [pc EXCEPT ![t] = "locking"] /\ op' = [op EXCEPT ![t] = l]
        /\ owner' = owner
    BY <1>2, SameGraph DEF pml_pre_wait, would_create_cycle
  <2>2. ASSUME NEW x \in Thread, Graph!Reaches(edges, x, t)
        PROVE  \E c \in D : Waits(x, c) /\ x # c
    <3>1. PICK c \in Thread : <<x, c>> \in edges /\ (c = t \/ Graph!Reaches(edges, c, t))
      BY <2>2, Graph!ReachesByChild
    <3>2. Waits(x, c) /\ x # c
      BY <2>1, <3>1 DEF EdgesAreCurrent
    <3> QED BY <3>1, <3>2
  <2>3. \A x \in D \ {t} : pc[x] \in {"locking", "locked"}
    BY <2>2 DEF Waits, RecordsSound
  <2>4. ASSUME NEW x \in D \ {t}
        PROVE  pc[x] = "locking" /\ op[x] \in Lock /\ owner[op[x]] \in D
               /\ ~Available(x, op[x])
    <3>1. PICK c \in D : Waits(x, c) /\ x # c
      BY <2>2
    <3>2. pc[c] \in {"run", "locking", "locked"} /\ (pc[c] = "run" => op[c] = None)
      BY <2>1, <2>3
    <3> QED BY <3>1, <3>2, WaiterIsBlocked DEF Base
  <2>5. owner[l] = o /\ o \in D
    <3>1. o \in D /\ pc[o] \in {"locking", "locked"}
      BY <2>1, <2>3
    <3> QED BY <2>1, <3>1 DEF RecordsSound
  <2>6. t \in D /\ D \in SUBSET Thread
    OBVIOUS
  <2>7. PICK C \in SUBSET Thread : C = D
    BY <2>6
  <2> HIDE DEF D, o
  <2>8. \A x \in C : pc'[x] = "locking" /\ owner'[op'[x]] \in C /\ ~Available(x, op[x])'
    BY <2>1, <2>4, <2>5, <2>6, <2>7 DEF Available
  <2>9. CircularWait(C)'
    BY <2>6, <2>7, <2>8 DEF CircularWait
  <2> QED BY <2>1, <2>6, <2>7, <2>9
<1>3. CASE UNCHANGED vars
  BY <1>3 DEF vars, ReportIsDeadlock, TypesKnown, CircularWait, Available
<1>4. ASSUME NEW t \in Thread, NEW l \in Lock,
             \/ pml_pre_free(t, l) \/ Unlocked(t, l) \/ pmi_pos(t, l) \/ pmd_pos(t, l)
      PROVE  FALSE
  BY <1>4 DEF pml_pre_free, Unlocked, pmi_pos, pmd_pos
<1>5. ASSUME NEW t \in Thread, Locked(t) \/ pml_pos(t) \/ pmu_pos_owner(t) \/ pmu_pos(t)
      PROVE  FALSE
  BY <1>5 DEF Locked, pml_pos, pmu_pos_owner, pmu_pos
<1> QED BY <1>1, <1>2, <1>3, <1>4, <1>5 DEF Next

(***************************************************************************)
(* A report is true (ReportIsDeadlock): with the edges current, whoever    *)
(* leads back to the caller sleeps on a mutex of another such thread.      *)
(***************************************************************************)
THEOREM ReportsAreDeadlocks == Spec => []ReportIsDeadlock
<1>1. Init => ReportIsDeadlock
  BY DEF Init, ReportIsDeadlock
<1> QED BY <1>1, InvariantHolds, ReportStep, PTL DEF Spec
=============================================================================
