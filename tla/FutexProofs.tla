---------------------------- MODULE FutexProofs ----------------------------
(***************************************************************************)
(* The three futex mutexes guard the counter and lose no wakeup, whatever  *)
(* the number of threads, of rounds and of tries before a thread sleeps,   *)
(* and whenever waits fail.                                                *)
(*                                                                         *)
(* The programs of Mufutex and SpinFutex share their steps, and one        *)
(* inductive invariant covers both: the label "spin" is one more place     *)
(* where a thread that has a round left may be.  EconomicFutex has its     *)
(* own; what concerns the critical section (Sound of Futex) is common.     *)
(***************************************************************************)
EXTENDS SpinFutex, EconomicFutex, TLAPS

----------------------------------------------------------------------------
(* What the steps of Futex keep in every program.                          *)

\* The abstract owner, from where the threads are.
LEMMA InsideIs ==
  ASSUME MutualExclusion
  PROVE  /\ \A t \in Thread : Holds(t) => Inside = t
         /\ (\A t \in Thread : ~ Holds(t)) => Inside = None
         /\ \A t \in Thread : Inside = t => Holds(t)
BY FutexAssumption DEF Inside, MutualExclusion

\* A thread that returns from the system call tries again.
LEMMA WokenKeeps ==
  ASSUME NEW labels, TypeOKFor(labels), Sound,
         NEW back \in labels \cap {"cas", "take"},
         NEW t \in Thread, Woken(t, back)
  PROVE  TypeOKFor(labels)' /\ Sound'
<1> USE DEF Sound, TypeOKFor, Woken, Goto, Locals
<1>1. TypeOKFor(labels)'
  OBVIOUS
<1>2. RoundsLeft' /\ QueueSound'
  BY DEF RoundsLeft, QueueSound
<1>3. MutualExclusion' /\ SeenIsCurrent'
  BY DEF MutualExclusion, Holds, SeenIsCurrent
<1> QED BY <1>1, <1>2, <1>3

\* The holder reads the counter.
LEMMA LoadKeeps ==
  ASSUME NEW labels, "store" \in labels, TypeOKFor(labels), Sound,
         NEW t \in Thread, Load(t)
  PROVE  TypeOKFor(labels)' /\ Sound'
<1> USE DEF Sound, TypeOKFor, Load, Goto, Locals
<1>1. TypeOKFor(labels)'
  OBVIOUS
<1>2. RoundsLeft' /\ QueueSound'
  BY DEF RoundsLeft, QueueSound
<1>3. MutualExclusion' /\ SeenIsCurrent'
  BY DEF MutualExclusion, Holds, SeenIsCurrent
<1> QED BY <1>1, <1>2, <1>3

\* The holder writes what it read plus 1; nobody else has read it.
LEMMA StoreKeeps ==
  ASSUME NEW labels, "leave" \in labels, TypeOKFor(labels), Sound,
         NEW t \in Thread, Store(t)
  PROVE  TypeOKFor(labels)' /\ Sound'
<1> USE DEF Sound, TypeOKFor, Store, Goto, Locals
<1>1. TypeOKFor(labels)'
  <2>1. round[t] < Rounds /\ round[t] \in 0 .. Rounds
    BY DEF RoundsLeft
  <2>2. round' \in [Thread -> 0 .. Rounds]
    BY <2>1, FutexAssumption
  <2>3. shared_counter' \in Nat
    OBVIOUS
  <2> QED BY <2>2, <2>3
<1>2. RoundsLeft' /\ QueueSound'
  BY DEF RoundsLeft, QueueSound
<1>3. MutualExclusion' /\ SeenIsCurrent'
  BY DEF MutualExclusion, Holds, SeenIsCurrent
<1> QED BY <1>1, <1>2, <1>3

(***************************************************************************)
(* The store is the increment of the region, the other steps of the        *)
(* threads are nothing to it.                                              *)
(***************************************************************************)
LEMMA StoreIncrements ==
  ASSUME NEW labels, TypeOKFor(labels), Sound, NEW t \in Thread, Store(t)
  PROVE  CS!Next
<1> USE DEF Sound, TypeOKFor, Store, Goto, Locals
<1>1. Inside = t
  BY InsideIs DEF Holds
<1>2. \A u \in Thread : Holds(u)' <=> Holds(u)
  BY DEF Holds
<1>3. Inside' = Inside
  BY <1>2 DEF Inside
<1>4. shared_counter' = shared_counter + 1
  BY DEF SeenIsCurrent
<1> QED BY <1>1, <1>3, <1>4 DEF CS!Next, CS!Increment

----------------------------------------------------------------------------
(* The two-state mutexes of e92_mufutex.c and main_futex.c.                *)

\* What both programs keep (IInv of Mufutex, with the label "spin").
SpinInv ==
  /\ TypeOKFor(Label \cup {"spin"})
  /\ word \in {0, 1}
  /\ Sound
  /\ NeverEPERM
  /\ NoLostWakeup

\* The first state: no thread has called enter_region.
LEMMA InitInvariant ==
  ASSUME NEW first \in {"cas", "spin"}, InitAt(first)
  PROVE  SpinInv
BY FutexAssumption
DEF InitAt, SpinInv, Sound, TypeOKFor, Label, RoundsLeft, QueueSound,
    MutualExclusion, Holds, SeenIsCurrent, NeverEPERM, NoLostWakeup

\* A thread that finds the word 0 becomes the only holder.
LEMMA LockInvariant ==
  ASSUME SpinInv, NEW t \in Thread, Lock(t)
  PROVE  SpinInv'
<1> USE DEF SpinInv, Sound, Lock, CompareExchange, Goto, Locals
<1>1. TypeOKFor(Label \cup {"spin"})' /\ word' \in {0, 1}
  BY DEF TypeOKFor, Label
<1>2. RoundsLeft'
  BY DEF TypeOKFor, RoundsLeft
<1>3. QueueSound'
  BY DEF TypeOKFor, QueueSound
<1>4. MutualExclusion'
  BY DEF TypeOKFor, MutualExclusion, Holds
<1>5. SeenIsCurrent' /\ NeverEPERM'
  BY DEF TypeOKFor, SeenIsCurrent, NeverEPERM
<1>6. NoLostWakeup'
  BY DEF TypeOKFor, NoLostWakeup, Awake, MutualExclusion, Holds
<1> QED BY <1>1, <1>2, <1>3, <1>4, <1>5, <1>6

\* A thread sleeps only if the mutex is locked at that moment.
LEMMA WaitInvariant ==
  ASSUME SpinInv, NEW t \in Thread, Wait(t)
  PROVE  SpinInv'
<1> USE DEF SpinInv, Sound, Wait, futex_wait, Goto, Locals
<1>1. TypeOKFor(Label \cup {"spin"})' /\ word' \in {0, 1}
  BY DEF TypeOKFor, Label
<1>2. RoundsLeft'
  BY DEF TypeOKFor, RoundsLeft
<1>3. QueueSound'
  BY DEF TypeOKFor, QueueSound
<1>4. MutualExclusion'
  BY DEF TypeOKFor, MutualExclusion, Holds
<1>5. SeenIsCurrent' /\ NeverEPERM'
  BY DEF TypeOKFor, SeenIsCurrent, NeverEPERM
<1>6. NoLostWakeup'
  BY DEF TypeOKFor, NoLostWakeup, Awake
<1> QED BY <1>1, <1>2, <1>3, <1>4, <1>5, <1>6

\* A thread that returns from the system call tries again.
LEMMA WokenInvariant ==
  ASSUME SpinInv, NEW t \in Thread, Woken(t, "cas")
  PROVE  SpinInv'
<1>1. TypeOKFor(Label \cup {"spin"})' /\ Sound'
  BY WokenKeeps DEF SpinInv, Label
<1>2. word' \in {0, 1} /\ NeverEPERM'
  BY DEF SpinInv, TypeOKFor, NeverEPERM, Woken, Goto
<1>3. NoLostWakeup'
  BY DEF SpinInv, Sound, QueueSound, TypeOKFor, NoLostWakeup, Awake, Woken, Goto
<1> QED BY <1>1, <1>2, <1>3 DEF SpinInv

\* The holder reads the counter.
LEMMA LoadInvariant ==
  ASSUME SpinInv, NEW t \in Thread, Load(t)
  PROVE  SpinInv'
<1>1. TypeOKFor(Label \cup {"spin"})' /\ Sound'
  BY LoadKeeps DEF SpinInv, Label
<1>2. word' \in {0, 1} /\ NeverEPERM'
  BY DEF SpinInv, TypeOKFor, NeverEPERM, Load, Goto
<1>3. NoLostWakeup'
  BY DEF SpinInv, Sound, QueueSound, TypeOKFor, NoLostWakeup, Awake, Load, Goto
<1> QED BY <1>1, <1>2, <1>3 DEF SpinInv

\* The holder writes what it read plus 1; nobody else has read it.
LEMMA StoreInvariant ==
  ASSUME SpinInv, NEW t \in Thread, Store(t)
  PROVE  SpinInv'
<1>1. TypeOKFor(Label \cup {"spin"})' /\ Sound'
  BY StoreKeeps DEF SpinInv, Label
<1>2. word' \in {0, 1} /\ NeverEPERM'
  BY DEF SpinInv, TypeOKFor, NeverEPERM, Store, Goto
<1>3. NoLostWakeup'
  BY DEF SpinInv, Sound, QueueSound, TypeOKFor, NoLostWakeup, Awake, Store, Goto
<1> QED BY <1>1, <1>2, <1>3 DEF SpinInv

\* The holder finds the word 1, and is then about to wake a sleeper.
LEMMA UnlockInvariant ==
  ASSUME SpinInv, NEW t \in Thread, Unlock(t)
  PROVE  SpinInv'
<1> USE DEF SpinInv, Sound, Unlock, CompareExchange, Goto, Locals
<1>1. TypeOKFor(Label \cup {"spin"})' /\ word' \in {0, 1}
  BY DEF TypeOKFor, Label
<1>2. RoundsLeft'
  BY DEF TypeOKFor, RoundsLeft
<1>3. QueueSound'
  BY DEF TypeOKFor, QueueSound
<1>4. MutualExclusion'
  BY DEF TypeOKFor, MutualExclusion, Holds
<1>5. SeenIsCurrent' /\ NeverEPERM'
  BY DEF TypeOKFor, SeenIsCurrent, NeverEPERM, MutualExclusion, Holds
<1>6. NoLostWakeup'
  BY DEF TypeOKFor, NoLostWakeup, Awake
<1> QED BY <1>1, <1>2, <1>3, <1>4, <1>5, <1>6

\* The thread taken off the queue is the one that is awake now.
LEMMA WakeInvariant ==
  ASSUME SpinInv, NEW t \in Thread, Wake(t)
  PROVE  SpinInv'
<1> USE DEF SpinInv, Sound, Wake, futex_wake, NextRound, Goto, Locals
<1>1. TypeOKFor(Label \cup {"spin"})' /\ word' \in {0, 1}
  BY DEF TypeOKFor, Label
<1>2. RoundsLeft'
  BY DEF TypeOKFor, RoundsLeft
<1>3. QueueSound'
  BY DEF TypeOKFor, QueueSound
<1>4. MutualExclusion'
  BY DEF TypeOKFor, MutualExclusion, Holds
<1>5. SeenIsCurrent' /\ NeverEPERM'
  BY DEF TypeOKFor, SeenIsCurrent, NeverEPERM
<1>6. NoLostWakeup'
  BY DEF TypeOKFor, NoLostWakeup, Awake, QueueSound
<1> QED BY <1>1, <1>2, <1>3, <1>4, <1>5, <1>6

\* One that spins and finds the word 0 holds the mutex, as after Lock.
LEMMA SpinSucceedsInvariant ==
  ASSUME SpinInv, NEW t \in Thread, SpinSucceeds(t)
  PROVE  SpinInv'
<1> USE DEF SpinInv, Sound, SpinSucceeds, Goto, Locals
<1>1. TypeOKFor(Label \cup {"spin"})' /\ word' \in {0, 1}
  BY DEF TypeOKFor, Label
<1>2. RoundsLeft'
  BY DEF TypeOKFor, RoundsLeft
<1>3. QueueSound'
  BY DEF TypeOKFor, QueueSound
<1>4. MutualExclusion'
  BY DEF TypeOKFor, MutualExclusion, Holds
<1>5. SeenIsCurrent' /\ NeverEPERM'
  BY DEF TypeOKFor, SeenIsCurrent, NeverEPERM, MutualExclusion, Holds
<1>6. NoLostWakeup'
  BY DEF TypeOKFor, NoLostWakeup, Awake, QueueSound, MutualExclusion, Holds
<1> QED BY <1>1, <1>2, <1>3, <1>4, <1>5, <1>6

\* One that spins in vain tries again, or gives up spinning.
LEMMA SpinFailsInvariant ==
  ASSUME SpinInv, NEW t \in Thread, SpinFails(t)
  PROVE  SpinInv'
<1> USE DEF SpinInv, Sound, SpinFails, Goto, Locals
<1>1. TypeOKFor(Label \cup {"spin"})' /\ word' \in {0, 1}
  BY DEF TypeOKFor, Label
<1>2. RoundsLeft'
  BY DEF TypeOKFor, RoundsLeft
<1>3. QueueSound'
  BY DEF TypeOKFor, QueueSound
<1>4. MutualExclusion'
  BY DEF TypeOKFor, MutualExclusion, Holds
<1>5. SeenIsCurrent' /\ NeverEPERM'
  BY DEF TypeOKFor, SeenIsCurrent, NeverEPERM, MutualExclusion, Holds
<1>6. NoLostWakeup'
  BY DEF TypeOKFor, NoLostWakeup, Awake, QueueSound, MutualExclusion, Holds
<1> QED BY <1>1, <1>2, <1>3, <1>4, <1>5, <1>6

\* Only the holder stores 0, and it is then about to wake a sleeper.
LEMMA StoreZeroInvariant ==
  ASSUME SpinInv, NEW t \in Thread, StoreZero(t)
  PROVE  SpinInv'
<1> USE DEF SpinInv, Sound, StoreZero, Goto, Locals
<1>1. TypeOKFor(Label \cup {"spin"})' /\ word' \in {0, 1}
  BY DEF TypeOKFor, Label
<1>2. RoundsLeft'
  BY DEF TypeOKFor, RoundsLeft
<1>3. QueueSound'
  BY DEF TypeOKFor, QueueSound
<1>4. MutualExclusion'
  BY DEF TypeOKFor, MutualExclusion, Holds
<1>5. SeenIsCurrent' /\ NeverEPERM'
  BY DEF TypeOKFor, SeenIsCurrent, NeverEPERM, MutualExclusion, Holds
<1>6. NoLostWakeup'
  BY DEF TypeOKFor, NoLostWakeup, Awake, QueueSound, MutualExclusion, Holds
<1> QED BY <1>1, <1>2, <1>3, <1>4, <1>5, <1>6

\* The thread taken off the queue is the one that is awake now.
LEMMA SpinWakeInvariant ==
  ASSUME SpinInv, NEW t \in Thread, SpinWake(t)
  PROVE  SpinInv'
<1> USE DEF SpinInv, Sound, SpinWake, futex_wake, NextRound, Goto, Locals
<1>1. TypeOKFor(Label \cup {"spin"})' /\ word' \in {0, 1}
  BY DEF TypeOKFor, Label
<1>2. RoundsLeft'
  BY DEF TypeOKFor, RoundsLeft
<1>3. QueueSound'
  BY DEF TypeOKFor, QueueSound
<1>4. MutualExclusion'
  BY DEF TypeOKFor, MutualExclusion, Holds
<1>5. SeenIsCurrent' /\ NeverEPERM'
  BY DEF TypeOKFor, SeenIsCurrent, NeverEPERM, MutualExclusion, Holds
<1>6. NoLostWakeup'
  BY DEF TypeOKFor, NoLostWakeup, Awake, QueueSound, MutualExclusion, Holds
<1> QED BY <1>1, <1>2, <1>3, <1>4, <1>5, <1>6

\* A step in which no variable changes.
LEMMA StutterInvariant == SpinInv /\ UNCHANGED vars => SpinInv'
BY DEF SpinInv, Sound, vars, TypeOKFor, RoundsLeft, QueueSound, MutualExclusion,
       Holds, SeenIsCurrent, NeverEPERM, NoLostWakeup, Awake

LEMMA StepInvariant == SpinInv /\ [Next]_vars => SpinInv'
<1> SUFFICES ASSUME SpinInv, [Next]_vars PROVE SpinInv'
  OBVIOUS
<1>1. CASE UNCHANGED vars
  BY <1>1, StutterInvariant
<1>2. ASSUME NEW t \in Thread, Run(t) PROVE SpinInv'
  BY <1>2, LockInvariant, WaitInvariant, WokenInvariant, LoadInvariant,
     StoreInvariant, UnlockInvariant, WakeInvariant DEF Run
<1> QED BY <1>1, <1>2 DEF Next

LEMMA SpinStepInvariant == SpinInv /\ [SpinNext]_spinvars => SpinInv'
<1> SUFFICES ASSUME SpinInv, [SpinNext]_spinvars PROVE SpinInv'
  OBVIOUS
<1>1. CASE UNCHANGED spinvars
  BY <1>1, StutterInvariant DEF spinvars
<1>2. ASSUME NEW t \in Thread, SpinRun(t) PROVE SpinInv'
  BY <1>2, LockInvariant, WaitInvariant, WokenInvariant, LoadInvariant,
     StoreInvariant, UnlockInvariant, WakeInvariant, SpinSucceedsInvariant,
     SpinFailsInvariant, StoreZeroInvariant, SpinWakeInvariant DEF SpinRun
<1> QED BY <1>1, <1>2 DEF SpinNext

\* In e92_mufutex.c no thread spins.
LEMMA NobodySpins ==
  ASSUME TypeOK, [Next]_vars
  PROVE  pc' \in [Thread -> Label]
<1>1. CASE UNCHANGED vars
  BY <1>1 DEF TypeOK, TypeOKFor, vars
<1>2. ASSUME NEW t \in Thread, Run(t) PROVE pc' \in [Thread -> Label]
  <2>1. \E l \in Label : Goto(t, l)
    BY <1>2 DEF Run, Lock, Wait, Woken, Load, Store, Unlock, Wake, NextRound,
                CompareExchange, futex_wait, Label
  <2> QED BY <2>1 DEF TypeOK, TypeOKFor, Goto
<1> QED BY <1>1, <1>2 DEF Next

(***************************************************************************)
(* The inductive invariant of the mutex of e92_mufutex.c, for any number   *)
(* of threads and rounds.                                                  *)
(***************************************************************************)
THEOREM InvariantHolds == Spec => []IInv
<1>1. Init => IInv
  <2>1. Init => SpinInv
    BY InitInvariant DEF Init
  <2>2. Init => pc \in [Thread -> Label]
    BY DEF Init, InitAt, Label
  <2> QED BY <2>1, <2>2 DEF SpinInv, Sound, IInv, TypeOK, TypeOKFor
<1>2. IInv => SpinInv
  BY DEF IInv, SpinInv, TypeOK, TypeOKFor, Label
<1>3. IInv /\ [Next]_vars => IInv'
  BY <1>2, StepInvariant, NobodySpins DEF IInv, SpinInv, TypeOK, TypeOKFor
<1> QED BY <1>1, <1>3, PTL DEF Spec

\* A thread sleeps while the mutex is unlocked only if another will see to it.
THEOREM WakeupsAreKept == Spec => []NoLostWakeup
<1>1. IInv => NoLostWakeup
  BY DEF IInv
<1> QED BY <1>1, InvariantHolds, PTL

\* The inductive invariant of either program, however long a thread spins.
THEOREM SpinInvariantHolds == SpinSpec => []SpinInv
<1>1. SpinInit => SpinInv
  BY InitInvariant DEF SpinInit, First
<1> QED BY <1>1, SpinStepInvariant, PTL DEF SpinSpec

(***************************************************************************)
(* main_futex.c: a thread that spins may take the mutex from the one that  *)
(* was woken for it, and still no wakeup is lost.                          *)
(***************************************************************************)
THEOREM SpinningKeepsWakeups == SpinSpec => []NoLostWakeup
<1>1. SpinInv => NoLostWakeup
  BY DEF SpinInv
<1> QED BY <1>1, SpinInvariantHolds, PTL

----------------------------------------------------------------------------
(* The mutexes implement CriticalSection.                                  *)

LEMMA InitRefines ==
  ASSUME NEW first \in {"cas", "spin"}, InitAt(first)
  PROVE  CS!Init
<1>1. \A t \in Thread : ~ Holds(t)
  BY DEF InitAt, Holds
<1> QED BY <1>1 DEF CS!Init, Inside, InitAt

(***************************************************************************)
(* Locking enters, the store increments and unlocking leaves; every other  *)
(* step leaves the owner and the counter as they are.                      *)
(***************************************************************************)
LEMMA StepRefines ==
  ASSUME SpinInv, SpinInv',
         \/ UNCHANGED vars
         \/ \E t \in Thread :
              \/ Lock(t) \/ Wait(t) \/ Woken(t, "cas") \/ Load(t) \/ Store(t)
              \/ Unlock(t) \/ Wake(t)
              \/ SpinSucceeds(t) \/ SpinFails(t) \/ StoreZero(t) \/ SpinWake(t)
  PROVE  [CS!Next]_<<Inside, shared_counter>>
<1>1. /\ \A t \in Thread : Holds(t) => Inside = t
      /\ (\A t \in Thread : ~ Holds(t)) => Inside = None
  BY InsideIs DEF SpinInv, Sound
<1>2. /\ \A t \in Thread : Holds(t)' => Inside' = t
      /\ (\A t \in Thread : ~ Holds(t)') => Inside' = None
  BY FutexAssumption DEF SpinInv, Sound, MutualExclusion, Inside
<1>3. ASSUME \A t \in Thread : Holds(t)' <=> Holds(t)
      PROVE  Inside' = Inside
  BY <1>1, <1>2, <1>3
<1>4. CASE UNCHANGED vars
  <2>1. \A t \in Thread : Holds(t)' <=> Holds(t)
    BY <1>4 DEF vars, Holds
  <2> QED BY <2>1, <1>3, <1>4 DEF vars
<1>5. ASSUME NEW t \in Thread,
             \/ Lock(t) \/ Wait(t) \/ Woken(t, "cas") \/ Load(t) \/ Store(t)
             \/ Unlock(t) \/ Wake(t)
             \/ SpinSucceeds(t) \/ SpinFails(t) \/ StoreZero(t) \/ SpinWake(t)
      PROVE  CS!Next \/ UNCHANGED <<Inside, shared_counter>>
  <2> USE DEF SpinInv, Sound, TypeOKFor, Goto
  <2>1. CASE Lock(t)
    <3>1. CASE word = 0
      <4>1. Inside = None
        BY <3>1, <1>1 DEF MutualExclusion
      <4>2. Inside' = t
        BY <3>1, <2>1, <1>2 DEF Lock, CompareExchange, Holds
      <4> QED BY <4>1, <4>2, <2>1 DEF Lock, CS!Next, CS!Enter
    <3>2. CASE word # 0
      <4>1. \A u \in Thread : Holds(u)' <=> Holds(u)
        BY <3>2, <2>1 DEF Lock, CompareExchange, Holds
      <4> QED BY <4>1, <1>3, <2>1 DEF Lock
    <3> QED BY <3>1, <3>2
  <2>2. CASE Unlock(t)
    <3>1. Inside = t /\ word = 1
      BY <2>2, <1>1 DEF Unlock, Holds, MutualExclusion
    <3>2. Inside' = None
      <4>1. word' = 0
        BY <3>1, <2>2 DEF Unlock, CompareExchange
      <4> QED BY <4>1, <1>2 DEF MutualExclusion
    <3> QED BY <3>1, <3>2, <2>2 DEF Unlock, CS!Next, CS!Leave
  <2>3. CASE Store(t)
    BY <2>3, StoreIncrements
  <2>4. CASE \/ Wait(t) \/ Woken(t, "cas") \/ Load(t) \/ Wake(t)
             \/ SpinFails(t) \/ SpinWake(t)
    <3>1. \A u \in Thread : Holds(u)' <=> Holds(u)
      BY <2>4 DEF Wait, futex_wait, Woken, Load, Wake, NextRound, Holds,
                  SpinFails, SpinWake
    <3> QED
      BY <3>1, <1>3, <2>4 DEF Wait, futex_wait, Woken, Load, Wake, SpinFails,
                              SpinWake
  <2>5. CASE SpinSucceeds(t)
    <3>1. Inside = None
      BY <2>5, <1>1 DEF SpinSucceeds, MutualExclusion
    <3>2. Inside' = t
      BY <2>5, <1>2 DEF SpinSucceeds, Holds
    <3> QED BY <3>1, <3>2, <2>5 DEF SpinSucceeds, CS!Next, CS!Enter
  <2>6. CASE StoreZero(t)
    <3>1. Inside = t
      BY <2>6, <1>1 DEF StoreZero, Holds
    <3>2. Inside' = None
      BY <2>6, <1>2 DEF StoreZero, MutualExclusion
    <3> QED BY <3>1, <3>2, <2>6 DEF StoreZero, CS!Next, CS!Leave
  <2> QED BY <1>5, <2>1, <2>2, <2>3, <2>4, <2>5, <2>6
<1> QED BY <1>4, <1>5


(***************************************************************************)
(* The mutex of e92_mufutex.c is a lock around the critical section: one   *)
(* thread at a time holds it, and no increment is lost.                    *)
(***************************************************************************)
THEOREM MufutexIsALock == Spec => GuardsTheCounter
<1>1. Init => CS!Init
  BY InitRefines DEF Init
<1>2. IInv => SpinInv
  BY DEF IInv, SpinInv, TypeOK, TypeOKFor, Label
<1>3. IInv /\ IInv' /\ [Next]_vars
        => [CS!Next]_<<Inside, shared_counter>>
  <2>1. IInv' => SpinInv'
    BY DEF IInv, SpinInv, TypeOK, TypeOKFor, Label
  <2> QED BY <1>2, <2>1, StepRefines DEF Next, Run
<1>4. [CS!Next]_<<Inside, shared_counter>> => [CS!Next]_CS!csvars
  BY DEF CS!csvars
<1> QED BY <1>1, <1>3, <1>4, InvariantHolds, PTL
        DEF GuardsTheCounter, CS!Spec, Spec

(***************************************************************************)
(* So is the mutex of main_futex.c, which is taken without a system call   *)
(* while it spins and released by a store that asks nothing.               *)
(***************************************************************************)
THEOREM SpinningIsALock == SpinSpec => GuardsTheCounter
<1>1. SpinInit => CS!Init
  BY InitRefines DEF SpinInit, First
<1>2. SpinInv /\ SpinInv' /\ [SpinNext]_spinvars
        => [CS!Next]_<<Inside, shared_counter>>
  BY StepRefines DEF SpinNext, SpinRun, spinvars
<1>3. [CS!Next]_<<Inside, shared_counter>> => [CS!Next]_CS!csvars
  BY DEF CS!csvars
<1> QED BY <1>1, <1>2, <1>3, SpinInvariantHolds, PTL
        DEF GuardsTheCounter, CS!Spec, SpinSpec

----------------------------------------------------------------------------
(* The three-state mutex of e93_economic_futex.c.                          *)

\* The first state: no thread has called enter_region.
LEMMA EconomicInitInvariant == EconomicInit => EconomicInv
BY FutexAssumption
DEF EconomicInit, InitAt, EconomicInv, Sound, EconomicTypeOK, TypeOKFor,
    EconomicLabel, RoundsLeft, QueueSound,
    MutualExclusion, Holds, MarksLocked, SeenIsCurrent, NoWakeupSkipped

\* A thread that finds the word 0 becomes the only holder; otherwise it has
\* seen a word that is not 0.
LEMMA TryInvariant ==
  ASSUME EconomicInv, NEW t \in Thread, Try(t)
  PROVE  EconomicInv'
<1> USE DEF EconomicInv, Sound, Try, CompareExchangeInto, CompareExchange,
            Goto, Locals
<1>1. EconomicTypeOK'
  BY DEF EconomicTypeOK, TypeOKFor, EconomicLabel
<1>2. RoundsLeft'
  BY DEF EconomicTypeOK, TypeOKFor, RoundsLeft
<1>3. QueueSound'
  BY DEF EconomicTypeOK, TypeOKFor, QueueSound
<1>4. MutualExclusion'
  BY DEF EconomicTypeOK, TypeOKFor, MutualExclusion, Holds
<1>5. MarksLocked'
  BY DEF EconomicTypeOK, TypeOKFor, MarksLocked
<1>6. SeenIsCurrent'
  BY DEF EconomicTypeOK, TypeOKFor, SeenIsCurrent
<1>7. NoWakeupSkipped'
  BY DEF EconomicTypeOK, TypeOKFor, NoWakeupSkipped, SeesToIt, MutualExclusion,
         Holds
<1> QED BY <1>1, <1>2, <1>3, <1>4, <1>5, <1>6, <1>7

\* The word goes from 1 to 2, never from 0.
LEMMA MarkInvariant ==
  ASSUME EconomicInv, NEW t \in Thread, Mark(t)
  PROVE  EconomicInv'
<1> USE DEF EconomicInv, Sound, Mark, CompareExchange, Goto, Locals
<1>1. EconomicTypeOK'
  BY DEF EconomicTypeOK, TypeOKFor, EconomicLabel
<1>2. RoundsLeft'
  BY DEF EconomicTypeOK, TypeOKFor, RoundsLeft
<1>3. QueueSound'
  BY DEF EconomicTypeOK, TypeOKFor, QueueSound
<1>4. MutualExclusion'
  BY DEF EconomicTypeOK, TypeOKFor, MutualExclusion, Holds, MarksLocked
<1>5. MarksLocked'
  BY DEF EconomicTypeOK, TypeOKFor, MarksLocked
<1>6. SeenIsCurrent'
  BY DEF EconomicTypeOK, TypeOKFor, SeenIsCurrent
<1>7. NoWakeupSkipped'
  BY DEF EconomicTypeOK, TypeOKFor, NoWakeupSkipped, SeesToIt
<1> QED BY <1>1, <1>2, <1>3, <1>4, <1>5, <1>6, <1>7

\* A thread sleeps only if the word is 2 at that moment.
LEMMA EconomicWaitInvariant ==
  ASSUME EconomicInv, NEW t \in Thread, FutexWait(t)
  PROVE  EconomicInv'
<1> USE DEF EconomicInv, Sound, FutexWait, futex_wait, Goto, Locals
<1>1. EconomicTypeOK'
  BY DEF EconomicTypeOK, TypeOKFor, EconomicLabel
<1>2. RoundsLeft'
  BY DEF EconomicTypeOK, TypeOKFor, RoundsLeft
<1>3. QueueSound'
  BY DEF EconomicTypeOK, TypeOKFor, QueueSound
<1>4. MutualExclusion'
  BY DEF EconomicTypeOK, TypeOKFor, MutualExclusion, Holds
<1>5. MarksLocked'
  BY DEF EconomicTypeOK, TypeOKFor, MarksLocked
<1>6. SeenIsCurrent'
  BY DEF EconomicTypeOK, TypeOKFor, SeenIsCurrent
<1>7. NoWakeupSkipped'
  BY DEF EconomicTypeOK, TypeOKFor, NoWakeupSkipped, SeesToIt
<1> QED BY <1>1, <1>2, <1>3, <1>4, <1>5, <1>6, <1>7

\* A thread whose wait fails is awake, and no longer in the queue.
LEMMA WaitFailsInvariant ==
  ASSUME EconomicInv, NEW t \in Thread, WaitFails(t)
  PROVE  EconomicInv'
<1> USE DEF EconomicInv, Sound, WaitFails, Goto, Locals
<1>1. EconomicTypeOK'
  BY DEF EconomicTypeOK, TypeOKFor, EconomicLabel
<1>2. RoundsLeft'
  BY DEF EconomicTypeOK, TypeOKFor, RoundsLeft, QueueSound
<1>3. QueueSound'
  BY DEF EconomicTypeOK, TypeOKFor, QueueSound
<1>4. MutualExclusion'
  BY DEF EconomicTypeOK, TypeOKFor, MutualExclusion, Holds, QueueSound
<1>5. MarksLocked'
  BY DEF EconomicTypeOK, TypeOKFor, MarksLocked
<1>6. SeenIsCurrent'
  BY DEF EconomicTypeOK, TypeOKFor, SeenIsCurrent
<1>7. NoWakeupSkipped'
  BY DEF EconomicTypeOK, TypeOKFor, NoWakeupSkipped, SeesToIt, QueueSound
<1> QED BY <1>1, <1>2, <1>3, <1>4, <1>5, <1>6, <1>7

\* A thread that waited sets the word to 2 when it gets the mutex.
LEMMA TakeInvariant ==
  ASSUME EconomicInv, NEW t \in Thread, Take(t)
  PROVE  EconomicInv'
<1> USE DEF EconomicInv, Sound, Take, CompareExchangeInto, CompareExchange,
            Goto, Locals
<1>1. EconomicTypeOK'
  BY DEF EconomicTypeOK, TypeOKFor, EconomicLabel
<1>2. RoundsLeft'
  BY DEF EconomicTypeOK, TypeOKFor, RoundsLeft
<1>3. QueueSound'
  BY DEF EconomicTypeOK, TypeOKFor, QueueSound
<1>4. MutualExclusion'
  BY DEF EconomicTypeOK, TypeOKFor, MutualExclusion, Holds
<1>5. MarksLocked'
  BY DEF EconomicTypeOK, TypeOKFor, MarksLocked
<1>6. SeenIsCurrent'
  BY DEF EconomicTypeOK, TypeOKFor, SeenIsCurrent
<1>7. NoWakeupSkipped'
  BY DEF EconomicTypeOK, TypeOKFor, NoWakeupSkipped, SeesToIt
<1> QED BY <1>1, <1>2, <1>3, <1>4, <1>5, <1>6, <1>7

\* A thread that returns from the system call tries again.
LEMMA EconomicWokenInvariant ==
  ASSUME EconomicInv, NEW t \in Thread, Woken(t, "take") /\ UNCHANGED v
  PROVE  EconomicInv'
<1>1. TypeOKFor(EconomicLabel)' /\ Sound'
  BY WokenKeeps DEF EconomicInv, EconomicTypeOK, EconomicLabel
<1>2. word' \in 0 .. 2 /\ v' \in [Thread -> 0 .. 2] /\ MarksLocked'
  BY DEF EconomicInv, EconomicTypeOK, TypeOKFor, MarksLocked, Woken, Goto
<1>3. NoWakeupSkipped'
  BY DEF EconomicInv, EconomicTypeOK, Sound, QueueSound, TypeOKFor,
         NoWakeupSkipped, SeesToIt, Woken, Goto
<1> QED BY <1>1, <1>2, <1>3 DEF EconomicInv, EconomicTypeOK

\* The holder reads the counter.
LEMMA EconomicLoadInvariant ==
  ASSUME EconomicInv, NEW t \in Thread, Load(t) /\ UNCHANGED v
  PROVE  EconomicInv'
<1>1. TypeOKFor(EconomicLabel)' /\ Sound'
  BY LoadKeeps DEF EconomicInv, EconomicTypeOK, EconomicLabel
<1>2. word' \in 0 .. 2 /\ v' \in [Thread -> 0 .. 2] /\ MarksLocked'
  BY DEF EconomicInv, EconomicTypeOK, TypeOKFor, MarksLocked, Load, Goto
<1>3. NoWakeupSkipped'
  BY DEF EconomicInv, EconomicTypeOK, Sound, QueueSound, TypeOKFor,
         NoWakeupSkipped, SeesToIt, Load, Goto
<1> QED BY <1>1, <1>2, <1>3 DEF EconomicInv, EconomicTypeOK

\* The holder writes what it read plus 1; nobody else has read it.
LEMMA EconomicStoreInvariant ==
  ASSUME EconomicInv, NEW t \in Thread, Store(t) /\ UNCHANGED v
  PROVE  EconomicInv'
<1>1. TypeOKFor(EconomicLabel)' /\ Sound'
  BY StoreKeeps DEF EconomicInv, EconomicTypeOK, EconomicLabel
<1>2. word' \in 0 .. 2 /\ v' \in [Thread -> 0 .. 2] /\ MarksLocked'
  BY DEF EconomicInv, EconomicTypeOK, TypeOKFor, MarksLocked, Store, Goto
<1>3. NoWakeupSkipped'
  BY DEF EconomicInv, EconomicTypeOK, Sound, QueueSound, TypeOKFor,
         NoWakeupSkipped, SeesToIt, Store, Goto
<1> QED BY <1>1, <1>2, <1>3 DEF EconomicInv, EconomicTypeOK

\* The holder subtracts 1: it has left if the word was 1, and is about to
\* clear the word if it was 2.
LEMMA LeaveInvariant ==
  ASSUME EconomicInv, NEW t \in Thread, Leave(t)
  PROVE  EconomicInv'
<1> USE DEF EconomicInv, Sound, Leave, NextRound, Goto, Locals
<1>1. EconomicTypeOK'
  <2>1. word \in {1, 2}
    BY DEF EconomicTypeOK, MutualExclusion, Holds
  <2> QED BY <2>1 DEF EconomicTypeOK, TypeOKFor, EconomicLabel
<1>2. RoundsLeft'
  BY DEF EconomicTypeOK, TypeOKFor, RoundsLeft
<1>3. QueueSound'
  BY DEF EconomicTypeOK, TypeOKFor, QueueSound
<1>4. MutualExclusion'
  BY DEF EconomicTypeOK, TypeOKFor, MutualExclusion, Holds
<1>5. MarksLocked'
  BY DEF EconomicTypeOK, TypeOKFor, MarksLocked
<1>6. SeenIsCurrent'
  BY DEF EconomicTypeOK, TypeOKFor, SeenIsCurrent
<1>7. NoWakeupSkipped'
  BY DEF EconomicTypeOK, TypeOKFor, NoWakeupSkipped, SeesToIt, MutualExclusion,
         Holds
<1> QED BY <1>1, <1>2, <1>3, <1>4, <1>5, <1>6, <1>7

\* The holder clears the word, and is then about to wake a sleeper.
LEMMA ClearInvariant ==
  ASSUME EconomicInv, NEW t \in Thread, Clear(t)
  PROVE  EconomicInv'
<1> USE DEF EconomicInv, Sound, Clear, Goto, Locals
<1>1. EconomicTypeOK'
  BY DEF EconomicTypeOK, TypeOKFor, EconomicLabel
<1>2. RoundsLeft'
  BY DEF EconomicTypeOK, TypeOKFor, RoundsLeft
<1>3. QueueSound'
  BY DEF EconomicTypeOK, TypeOKFor, QueueSound
<1>4. MutualExclusion'
  BY DEF EconomicTypeOK, TypeOKFor, MutualExclusion, Holds
<1>5. MarksLocked'
  BY DEF EconomicTypeOK, TypeOKFor, MarksLocked
<1>6. SeenIsCurrent'
  BY DEF EconomicTypeOK, TypeOKFor, SeenIsCurrent
<1>7. NoWakeupSkipped'
  BY DEF EconomicTypeOK, TypeOKFor, NoWakeupSkipped, SeesToIt
<1> QED BY <1>1, <1>2, <1>3, <1>4, <1>5, <1>6, <1>7

\* The thread taken off the queue is the one that is awake now.
LEMMA EconomicWakeInvariant ==
  ASSUME EconomicInv, NEW t \in Thread, FutexWake(t)
  PROVE  EconomicInv'
<1> USE DEF EconomicInv, Sound, FutexWake, futex_wake, NextRound, Goto, Locals
<1>1. EconomicTypeOK'
  BY DEF EconomicTypeOK, TypeOKFor, EconomicLabel
<1>2. RoundsLeft'
  BY DEF EconomicTypeOK, TypeOKFor, RoundsLeft
<1>3. QueueSound'
  BY DEF EconomicTypeOK, TypeOKFor, QueueSound
<1>4. MutualExclusion'
  BY DEF EconomicTypeOK, TypeOKFor, MutualExclusion, Holds
<1>5. MarksLocked'
  BY DEF EconomicTypeOK, TypeOKFor, MarksLocked
<1>6. SeenIsCurrent'
  BY DEF EconomicTypeOK, TypeOKFor, SeenIsCurrent
<1>7. NoWakeupSkipped'
  BY DEF EconomicTypeOK, TypeOKFor, NoWakeupSkipped, SeesToIt, QueueSound
<1> QED BY <1>1, <1>2, <1>3, <1>4, <1>5, <1>6, <1>7

\* A step in which no variable changes.
LEMMA EconomicStutterInvariant ==
  EconomicInv /\ UNCHANGED economicvars => EconomicInv'
BY DEF EconomicInv, Sound, economicvars, EconomicTypeOK, TypeOKFor, RoundsLeft,
       QueueSound, MutualExclusion,
       Holds, MarksLocked, SeenIsCurrent, NoWakeupSkipped, SeesToIt

LEMMA EconomicStepInvariant ==
  EconomicInv /\ [EconomicNext]_economicvars => EconomicInv'
<1> SUFFICES ASSUME EconomicInv, [EconomicNext]_economicvars PROVE EconomicInv'
  OBVIOUS
<1>1. CASE UNCHANGED economicvars
  BY <1>1, EconomicStutterInvariant
<1>2. ASSUME NEW t \in Thread, EconomicRun(t) PROVE EconomicInv'
  BY <1>2, TryInvariant, MarkInvariant, EconomicWaitInvariant, TakeInvariant,
     EconomicWokenInvariant, EconomicLoadInvariant, EconomicStoreInvariant,
     LeaveInvariant, ClearInvariant, EconomicWakeInvariant DEF EconomicRun
<1>3. ASSUME NEW t \in Thread, WaitFails(t) PROVE EconomicInv'
  BY <1>3, WaitFailsInvariant
<1> QED BY <1>1, <1>2, <1>3 DEF EconomicNext

(***************************************************************************)
(* The inductive invariant of the mutex of e93_economic_futex.c, for any   *)
(* number of threads and rounds.                                           *)
(***************************************************************************)
THEOREM EconomicInvariantHolds == EconomicSpec => []EconomicInv
BY EconomicInitInvariant, EconomicStepInvariant, PTL DEF EconomicSpec

\* A thread sleeps while the word is not 2 only if another will see to it,
\* although an unlock that finds the word 1 wakes nobody.
THEOREM NoWakeupIsSkipped == EconomicSpec => []NoWakeupSkipped
<1>1. EconomicInv => NoWakeupSkipped
  BY DEF EconomicInv
<1> QED BY <1>1, EconomicInvariantHolds, PTL

----------------------------------------------------------------------------
(* The mutex implements CriticalSection.                                   *)

LEMMA EconomicInitRefines == EconomicInit => CS!Init
<1> SUFFICES ASSUME EconomicInit PROVE CS!Init
  OBVIOUS
<1>1. \A t \in Thread : ~ Holds(t)
  BY DEF EconomicInit, InitAt, Holds
<1> QED BY <1>1 DEF CS!Init, Inside, EconomicInit, InitAt

(***************************************************************************)
(* Trying and taking enter, the store increments, and the subtraction or   *)
(* the store of leave_region leaves; every other step leaves the owner and *)
(* the counter as they are.                                                *)
(***************************************************************************)
LEMMA EconomicStepRefines ==
  ASSUME EconomicInv, EconomicInv', [EconomicNext]_economicvars
  PROVE  [CS!Next]_<<Inside, shared_counter>>
<1>1. /\ \A t \in Thread : Holds(t) => Inside = t
      /\ (\A t \in Thread : ~ Holds(t)) => Inside = None
  BY InsideIs DEF EconomicInv, Sound
<1>2. /\ \A t \in Thread : Holds(t)' => Inside' = t
      /\ (\A t \in Thread : ~ Holds(t)') => Inside' = None
  BY FutexAssumption DEF EconomicInv, Sound, MutualExclusion, Inside
<1>3. ASSUME \A t \in Thread : Holds(t)' <=> Holds(t)
      PROVE  Inside' = Inside
  BY <1>1, <1>2, <1>3
<1>4. CASE UNCHANGED economicvars
  <2>1. \A t \in Thread : Holds(t)' <=> Holds(t)
    BY <1>4 DEF economicvars, Holds
  <2> QED BY <2>1, <1>3, <1>4 DEF economicvars
<1>5. ASSUME NEW t \in Thread, EconomicRun(t)
      PROVE  CS!Next \/ UNCHANGED <<Inside, shared_counter>>
  <2> USE DEF EconomicInv, Sound, EconomicTypeOK, TypeOKFor, Goto
  <2>1. CASE Try(t) \/ Take(t)
    <3>1. CASE word = 0
      <4>1. Inside = None
        BY <3>1, <1>1 DEF MutualExclusion
      <4>2. Inside' = t
        BY <3>1, <2>1, <1>2
        DEF Try, Take, CompareExchangeInto, CompareExchange, Holds
      <4> QED BY <4>1, <4>2, <2>1 DEF Try, Take, CS!Next, CS!Enter
    <3>2. CASE word # 0
      <4>1. \A u \in Thread : Holds(u)' <=> Holds(u)
        BY <3>2, <2>1
        DEF Try, Take, CompareExchangeInto, CompareExchange, Holds
      <4> QED BY <4>1, <1>3, <2>1 DEF Try, Take
    <3> QED BY <3>1, <3>2
  <2>2. CASE Leave(t) \/ Clear(t)
    <3>1. Inside = t
      BY <2>2, <1>1 DEF Leave, Clear, Holds
    <3>2. CASE word' = 0
      <4>1. Inside' = None
        BY <3>2, <1>2 DEF MutualExclusion
      <4> QED BY <3>1, <4>1, <2>2 DEF Leave, Clear, CS!Next, CS!Leave
    <3>3. CASE word' # 0
      <4>1. \A u \in Thread : Holds(u)' <=> Holds(u)
        BY <3>3, <2>2 DEF Leave, Clear, Holds
      <4> QED BY <4>1, <1>3, <2>2 DEF Leave, Clear
    <3> QED BY <3>2, <3>3
  <2>3. CASE Store(t)
    BY <2>3, StoreIncrements
  <2>4. CASE \/ Mark(t) \/ FutexWait(t) \/ Woken(t, "take") \/ Load(t)
             \/ FutexWake(t)
    <3>1. \A u \in Thread : Holds(u)' <=> Holds(u)
      BY <2>4
      DEF Mark, CompareExchange, FutexWait, futex_wait, Woken, Load, FutexWake,
          NextRound, Holds
    <3> QED
      BY <3>1, <1>3, <2>4
      DEF Mark, FutexWait, futex_wait, Woken, Load, FutexWake
  <2> QED BY <1>5, <2>1, <2>2, <2>3, <2>4 DEF EconomicRun
<1>6. ASSUME NEW t \in Thread, WaitFails(t)
      PROVE  UNCHANGED <<Inside, shared_counter>>
  <2>1. \A u \in Thread : Holds(u)' <=> Holds(u)
    BY <1>6
    DEF WaitFails, Goto, Holds, EconomicInv, EconomicTypeOK, Sound, TypeOKFor,
        QueueSound
  <2> QED BY <2>1, <1>3, <1>6 DEF WaitFails
<1> QED BY <1>4, <1>5, <1>6 DEF EconomicNext

(***************************************************************************)
(* The mutex of e93_economic_futex.c is a lock around the critical         *)
(* section: one thread at a time holds it, and no increment is lost.       *)
(***************************************************************************)
THEOREM EconomicFutexIsALock == EconomicSpec => GuardsTheCounter
<1>1. EconomicInv /\ EconomicInv' /\ [EconomicNext]_economicvars
        => [CS!Next]_<<Inside, shared_counter>>
  BY EconomicStepRefines
<1>2. [CS!Next]_<<Inside, shared_counter>> => [CS!Next]_CS!csvars
  BY DEF CS!csvars
<1> QED BY <1>1, <1>2, EconomicInitRefines, EconomicInvariantHolds, PTL
        DEF GuardsTheCounter, CS!Spec, EconomicSpec
============================================================================
