----------------------- MODULE ProducerConsumerProofs -----------------------
(***************************************************************************)
(* Proofs about module ProducerConsumer: its programs with a lock, and the *)
(* others with one consumer, implement BoundedBuffer; and no signal is     *)
(* lost where threads wait for conditions.                                 *)
(*                                                                         *)
(* The invariant has three parts: one thread at most is inside the lock    *)
(* (Exclusion); the ring holds, from remover on, the numbers after the     *)
(* last one consumed (Filled), and who is at the ring may use it (AtRing); *)
(* and with semaphores, the slots count what is not in the ring            *)
(* (SlotsCount).                                                           *)
(***************************************************************************)
EXTENDS ProducerConsumer, FiniteSetTheorems, TLAPS

Places == 0 .. TAMANHO - 1

\* Where a thread can be, and where it is inside the lock.
Labels == {"down", "enter", "mark", "wait", "asleep", "take", "test", "put", "advance",
           "load", "store", "signal", "leave", "clear", "wake", "up", "done"}
Inside == {"test", "put", "advance", "load", "store", "signal", "leave", "clear"}

TypeOK ==
  /\ program \in Programs
  /\ consumers \subseteq Consumer
  /\ pc \in [Thread -> Labels]
  /\ inserir \in Places /\ remover \in Places
  /\ dados \in [Places -> Nat]
  /\ count \in Int
  /\ trava \in 0 .. 2
  /\ v \in [Thread -> 0 .. 2]
  /\ asleep \subseteq Thread
  /\ slots \in [{"empty", "filled"} -> Nat]
  /\ seen \in [Thread -> Nat]
  /\ at \in [Thread -> Places]
  /\ produced \in Nat /\ consumed \in Nat

\* Where the threads of each program can be.
LabelsOf ==
  CASE program.lock = "none" -> {"test", "put", "advance", "load", "store"}
    [] program.lock = "futex" -> Labels \ {"down", "up", "signal", "done"}
    [] program.lock = "mutex" /\ program.wait = "poll" ->
         {"enter", "test", "put", "advance", "load", "store", "leave"}
    [] program.wait = "sem" ->
         {"down", "enter", "put", "advance", "load", "store", "leave", "up"}
    [] OTHER ->
         {"enter", "test", "asleep", "put", "advance", "load", "store", "signal", "leave"}

PlacesSound ==
  \A p \in Thread :
    /\ pc[p] \in IF p \in consumers \cup {produtor} THEN LabelsOf ELSE {"done"}
    /\ p = produtor => pc[p] \notin {"load", "store"}
    /\ p # produtor => pc[p] # "advance"
    /\ p \in asleep => pc[p] = "asleep"

\* One thread at most is inside, and the word tells whether one is. A thread
\* marks only a word it saw locked.
Exclusion ==
  program.lock # "none" =>
    /\ \A p, q \in Thread : pc[p] \in Inside /\ pc[q] \in Inside => p = q
    /\ trava # 0 <=> \E p \in Thread : pc[p] \in Inside
    /\ \A p \in Thread : pc[p] = "mark" => v[p] # 0
    /\ program.lock = "mutex" => trava # 2

\* The place j further than r, and how far r is behind i.
At(r, j) == (r + j) % TAMANHO
Dist(i, r) == (i - r) % TAMANHO

\* The numbers in the ring: from remover on, those after the last consumed.
Left == produced - consumed

Filled ==
   /\ Left \in 0 .. TAMANHO - 1
   /\ Left = Dist(inserir, remover)
   /\ \A i \in 1 .. Left : dados[At(remover, i - 1)] = consumed + i
   /\ program.wait = "cond" => count = Left

\* The producer at the ring has room, a consumer there a number, which nobody
\* else takes.
AtRing ==
   /\ pc[produtor] \in {"put", "advance"} => Left < TAMANHO - 1
   /\ pc[produtor] = "advance" => dados[inserir] = produced + 1
   /\ \A c \in Consumer :
       /\ pc[c] \in {"put", "load", "store"} => Left > 0
       /\ pc[c] \in {"load", "store"} => seen[c] = consumed + 1
       /\ pc[c] = "store" => at[c] = remover

\* How many consumers are at one of these labels.
Among(labels) == Cardinality({c \in Consumer : pc[c] \in labels})
One(q) == IF q THEN 1 ELSE 0

\* A place of the ring is a slot, or a number, or on its way from one thread's
\* semaphore to the other's.
SlotsCount ==
  program.wait = "sem" =>
    /\ slots["empty"] + One(pc[produtor] \in {"enter", "put", "advance"})
         + Left + Among({"leave", "up"}) = TAMANHO - 1
    /\ slots["filled"] + One(pc[produtor] \in {"leave", "up"})
         + Among({"enter", "put", "load", "store"}) = Left

----------------------------------------------------------------------------
(* Where threads are, and who is inside.                                   *)

LEMMA ProgramKinds ==
  ASSUME program \in Programs
  PROVE  \/ program.lock = "none" /\ program.wait = "spin"
         \/ program.lock = "futex" /\ program.wait = "poll"
         \/ program.lock = "mutex" /\ program.wait \in {"poll", "sem", "cond"}
  BY DEF Programs, original, a_pc, b_pc, c_pc, d_pc, e_pc, mutex_solution,
         semaphore_solution, condition_var_solution

LEMMA FirstLabel ==
  ASSUME program \in Programs
  PROVE  First \in LabelsOf \cap {"down", "enter", "test"}
  BY ProgramKinds DEF First, LabelsOf, Labels

LEMMA ProgramStays ==
  ASSUME [Next]_vars
  PROVE  program' = program /\ consumers' = consumers
  BY DEF Next, Run, Return, vars, fixed

LEMMA InitSound == Init => TypeOK /\ PlacesSound /\ Exclusion
<1> SUFFICES ASSUME Init PROVE TypeOK /\ PlacesSound /\ Exclusion
  OBVIOUS
<1>1. TypeOK
  BY ProducerConsumerAssumption, FirstLabel
  DEF Init, TypeOK, Places, Thread, Labels
<1>2. PlacesSound
  BY FirstLabel DEF Init, PlacesSound, Thread, Consumer, produtor
<1>3. Exclusion
  BY ProgramKinds DEF Init, Exclusion, Inside, First
<1> QED BY <1>1, <1>2, <1>3

\* What the tests and the exchanges of a program can come to.
LEMMA TestEffects ==
  ASSUME TypeOK, PlacesSound, NEW p \in Thread, Test(p)
  PROVE  /\ pc[p] = "test"
         /\ program.wait # "sem"
         /\ UNCHANGED <<indices, v, slots, spurious>>
         /\ \/ ~MustWait(p) /\ Goto(p, "put") /\ UNCHANGED <<trava, asleep>>
            \/ /\ MustWait(p) /\ program.lock = "none"
               /\ Goto(p, "test") /\ UNCHANGED <<trava, asleep>>
            \/ /\ MustWait(p) /\ program.lock # "none"
               /\ Goto(p, "leave") /\ UNCHANGED <<trava, asleep>>
            \/ /\ MustWait(p) /\ program.wait = "cond" /\ program.lock = "mutex"
               /\ Goto(p, "asleep") /\ trava' = 0 /\ asleep' = asleep \cup {p}
<1>1. pc[p] = "test" /\ UNCHANGED <<indices, v, slots, spurious>>
  BY DEF Test
<1>2. program.wait # "sem"
  <2>1. pc[p] \in LabelsOf
    BY <1>1 DEF PlacesSound
  <2> QED BY <1>1, <2>1, ProgramKinds DEF TypeOK, LabelsOf
<1>3. CASE ~MustWait(p)
  BY <1>1, <1>2, <1>3 DEF Test
<1>4. CASE MustWait(p) /\ program.wait = "spin"
  <2>1. pc' = pc /\ UNCHANGED <<trava, asleep>>
    BY <1>4 DEF Test
  <2>2. program.lock = "none"
    BY <1>4, ProgramKinds DEF TypeOK
  <2>3. Goto(p, "test")
    BY <1>1, <2>1 DEF Goto, TypeOK
  <2> QED BY <1>1, <1>2, <1>4, <2>1, <2>2, <2>3
<1>5. CASE MustWait(p) /\ program.wait \in {"poll", "cond"}
  BY <1>1, <1>2, <1>5, ProgramKinds DEF Test, TypeOK
<1> QED BY <1>2, <1>3, <1>4, <1>5, ProgramKinds DEF TypeOK

LEMMA EnterEffects ==
  ASSUME TypeOK, PlacesSound, NEW p \in Thread, Lock(p) \/ Take(p)
  PROVE  /\ pc[p] \in {"enter", "take"} /\ program.lock # "none"
         /\ UNCHANGED <<indices, waiting>>
         /\ \/ /\ trava = 0 /\ Held(p) /\ UNCHANGED v
               /\ trava' \in {1, 2}
               /\ program.lock = "mutex" => trava' = 1
            \/ /\ program.lock = "futex" /\ trava # 0
               /\ Goto(p, "mark") /\ v' = [v EXCEPT ![p] = trava] /\ UNCHANGED trava
<1>1. \/ pc[p] = "enter" /\ Lock(p)
      \/ pc[p] = "take" /\ Take(p)
  BY DEF Lock, Take
<1>2. program.lock # "none" /\ (pc[p] = "take" => program.lock = "futex")
  <2>1. pc[p] \in LabelsOf
    BY <1>1 DEF PlacesSound
  <2> QED BY <1>1, <2>1, ProgramKinds DEF TypeOK, LabelsOf
<1>3. CASE trava = 0
  BY <1>1, <1>2, <1>3 DEF Lock, Take, CompareExchange
<1>4. CASE trava # 0
  BY <1>1, <1>2, <1>4, ProgramKinds DEF Lock, Take, CompareExchange, TypeOK
<1> QED BY <1>3, <1>4

LEMMA RunActions ==
  ASSUME NEW p \in Thread, Run(p)
  PROVE  \/ Lock(p) \/ Take(p)
         \/ Mark(p) \/ FutexWait(p)
         \/ Woken(p) \/ Down(p)
         \/ Unlock(p)
         \/ Clear(p) \/ Up(p)
         \/ Wake(p) \/ Signal(p)
         \/ Test(p)
         \/ Get(p) \/ Load(p)
         \/ Store(p) \/ (p = produtor /\ (Put \/ Advance))
  BY Zenon DEF Run

\* Where a step takes its thread, and who falls asleep.
MovesTo(p, label) ==
  /\ pc' = [pc EXCEPT ![p] = label]
  /\ label \in LabelsOf
  /\ label \in {"load", "store"} => p # produtor
  /\ label = "advance" => p = produtor
  /\ asleep' \subseteq asleep \cup {p}
  /\ p \in asleep' => label = "asleep"

LEMMA StepMoves ==
  ASSUME TypeOK, PlacesSound, Exclusion, NEW p \in Thread, Run(p)
  PROVE  /\ p \in consumers \cup {produtor}
         /\ \E label \in Labels : MovesTo(p, label)
<1> USE DEF TypeOK, PlacesSound, MovesTo, Goto, indices, waiting, locking
<1>0. /\ pc[p] \in Labels
      /\ p \in asleep => pc[p] = "asleep"
      /\ pc[p] \in {"load", "store"} => p # produtor
      /\ pc[p] = "advance" => p = produtor
      /\ pc[p] # "done" => pc[p] \in LabelsOf /\ p \in consumers \cup {produtor}
  OBVIOUS
<1> HIDE DEF PlacesSound
<1>a. First \in Labels /\ First \in LabelsOf /\ First \notin {"load", "store", "advance"}
  BY FirstLabel DEF LabelsOf, Labels
<1> USE <1>0, <1>a, ProgramKinds DEF Labels, LabelsOf, CompareExchange
<1>1. CASE Lock(p) \/ Take(p)
  <2>1. CASE Held(p)
    BY <1>1, <2>1, EnterEffects DEF Held
  <2>2. CASE ~Held(p)
    <3>1. "mark" \in LabelsOf
      BY <1>1, <2>2, EnterEffects
    <3> QED BY <1>1, <2>2, <3>1, EnterEffects
  <2> QED BY <2>1, <2>2
<1>2. CASE Mark(p) \/ FutexWait(p)
  BY <1>2 DEF Mark, FutexWait
<1>3. CASE Woken(p) \/ Down(p)
  BY <1>3 DEF Woken, Down
<1>4. CASE Unlock(p)
  <2>1. CASE trava = 1
    BY <1>4, <2>1 DEF Unlock, AfterLeave, NextItem
  <2>2. CASE trava # 1
    <3>1. pc[p] = "leave" /\ pc' = [pc EXCEPT ![p] = "clear"] /\ asleep' = asleep
      BY <1>4, <2>2 DEF Unlock
    <3>2. program.lock = "futex"
      BY <3>1, <2>2 DEF Exclusion, Inside
    <3>3. "clear" \in LabelsOf
      BY <3>2
    <3> QED BY <3>1, <3>3
  <2> QED BY <2>1, <2>2
<1>5. CASE Clear(p) \/ Up(p)
  BY <1>5 DEF Clear, Up, NextItem
<1>6. CASE Wake(p) \/ Signal(p)
  BY <1>6 DEF Wake, Signal, WakeOne, AfterLeave, NextItem
<1>7. CASE Test(p)
  BY <1>7, TestEffects
<1>8. CASE Get(p) \/ Load(p)
  BY <1>8 DEF Get, Load
<1>9. CASE Store(p) \/ (p = produtor /\ (Put \/ Advance))
  BY <1>9 DEF Store, Put, Advance, AfterChange, NextItem
<1> HIDE <1>0, <1>a, ProgramKinds DEF Labels, LabelsOf, CompareExchange, TypeOK, MovesTo, Goto, indices, waiting, locking
<1> QED BY RunActions, <1>1, <1>2, <1>3, <1>4, <1>5, <1>6, <1>7, <1>8, <1>9

LEMMA PlacesStep ==
  ASSUME TypeOK, PlacesSound, Exclusion, NEW p \in Thread, Run(p)
  PROVE  PlacesSound' /\ pc' \in [Thread -> Labels] /\ asleep' \subseteq Thread
<1>1. PICK label \in Labels : MovesTo(p, label)
  BY StepMoves
<1>2. p \in consumers \cup {produtor}
  BY StepMoves
<1>3. LabelsOf' = LabelsOf /\ consumers' = consumers
  BY DEF Run, fixed, LabelsOf
<1> QED BY <1>1, <1>2, <1>3 DEF TypeOK, PlacesSound, MovesTo

\* What a step does to the lock.
LockingStep(p) ==
  \/ /\ pc[p] \notin Inside /\ pc'[p] \in Inside
     /\ trava = 0 /\ trava' \in {1, 2}
  \/ /\ pc[p] \in Inside /\ pc'[p] \notin Inside
     /\ trava' = 0
  \/ /\ pc'[p] \in Inside <=> pc[p] \in Inside
     /\ trava' \in 0 .. 2
     /\ trava' = 0 <=> trava = 0

LEMMA StepLocks ==
  ASSUME TypeOK, PlacesSound, Exclusion, program.lock # "none", NEW p \in Thread, Run(p)
  PROVE  LockingStep(p)
<1> USE DEF TypeOK, Goto, LockingStep, Inside, CompareExchange, locking, waiting
<1>0. /\ pc[p] \in LabelsOf \cup {"done"}
      /\ pc[p] \in Inside => trava # 0
      /\ pc[p] = "mark" => v[p] # 0
      /\ First \in {"down", "enter"} 
      /\ program.wait # "spin"
  BY ProgramKinds DEF First, PlacesSound, Exclusion
<1> USE <1>0, ProgramKinds
<1>1. CASE Lock(p) \/ Take(p)
  <2>1. CASE Held(p)
    BY <1>1, <2>1, EnterEffects DEF Held
  <2>2. CASE ~Held(p)
    BY <1>1, <2>2, EnterEffects
  <2> QED BY <2>1, <2>2
<1>2. CASE Mark(p) \/ FutexWait(p)
  BY <1>2 DEF Mark, FutexWait
<1>3. CASE Woken(p) \/ Down(p)
  BY <1>3 DEF Woken, Down
<1>4. CASE Unlock(p)
  <2>1. CASE trava = 1
    BY <1>4, <2>1 DEF Unlock, AfterLeave, NextItem
  <2>2. CASE trava # 1
    BY <1>4, <2>2 DEF Unlock
  <2> QED BY <2>1, <2>2
<1>5. CASE Clear(p) \/ Up(p)
  BY <1>5 DEF Clear, Up, NextItem
<1>6. CASE Wake(p) \/ Signal(p)
  BY <1>6 DEF Wake, Signal, AfterLeave, NextItem
<1>7. CASE Test(p)
  BY <1>7, TestEffects
<1>8. CASE Get(p) \/ Load(p)
  BY <1>8 DEF Get, Load
<1>9. CASE Store(p) \/ (p = produtor /\ (Put \/ Advance))
  BY <1>9 DEF Store, Put, Advance, AfterChange, NextItem
<1> HIDE <1>0, ProgramKinds DEF TypeOK, Goto, LockingStep, Inside, CompareExchange, locking, waiting
<1> QED BY RunActions, <1>1, <1>2, <1>3, <1>4, <1>5, <1>6, <1>7, <1>8, <1>9

\* A thread marks only a word it saw locked, and a mutex is never marked.
LEMMA StepMarks ==
  ASSUME TypeOK, PlacesSound, Exclusion, program.lock # "none", NEW p \in Thread, Run(p)
  PROVE  /\ v' \in [Thread -> 0 .. 2]
         /\ \A q \in Thread : pc'[q] = "mark" => v'[q] # 0
         /\ program.lock = "mutex" => trava' # 2
<1> USE DEF TypeOK, Goto, CompareExchange, locking, waiting
<1>0. /\ pc[p] \in LabelsOf \cup {"done"}
      /\ \A q \in Thread : pc[q] = "mark" => v[q] # 0
      /\ program.lock = "mutex" => trava \in {0, 1}
      /\ First \in {"down", "enter"}
  BY ProgramKinds DEF First, PlacesSound, Exclusion
<1> USE <1>0
<1>1. CASE Lock(p) \/ Take(p)
  <2>1. CASE Held(p)
    BY <1>1, <2>1, EnterEffects DEF Held
  <2>2. CASE ~Held(p)
    BY <1>1, <2>2, EnterEffects
  <2> QED BY <2>1, <2>2
<1>2. CASE Mark(p)
  BY <1>2, ProgramKinds DEF Mark, LabelsOf
<1>3. CASE FutexWait(p) \/ Woken(p) \/ Down(p)
  BY <1>3 DEF FutexWait, Woken, Down
<1>4. CASE Unlock(p)
  <2>1. CASE trava = 1
    BY <1>4, <2>1 DEF Unlock, AfterLeave, NextItem
  <2>2. CASE trava # 1
    BY <1>4, <2>2 DEF Unlock
  <2> QED BY <2>1, <2>2
<1>5. CASE Clear(p) \/ Up(p)
  BY <1>5 DEF Clear, Up, NextItem
<1>6. CASE Wake(p) \/ Signal(p)
  BY <1>6 DEF Wake, Signal, AfterLeave, NextItem
<1>7. CASE Test(p)
  BY <1>7, TestEffects
<1>8. CASE Get(p) \/ Load(p)
  BY <1>8 DEF Get, Load
<1>9. CASE Store(p) \/ (p = produtor /\ (Put \/ Advance))
  BY <1>9 DEF Store, Put, Advance, AfterChange, NextItem
<1> HIDE <1>0 DEF TypeOK, Goto, CompareExchange, locking, waiting
<1> QED BY RunActions, <1>1, <1>2, <1>3, <1>4, <1>5, <1>6, <1>7, <1>8, <1>9

LEMMA ExclusionStep ==
  ASSUME TypeOK, PlacesSound, Exclusion, NEW p \in Thread, Run(p)
  PROVE  Exclusion'
<1> SUFFICES ASSUME program.lock # "none" PROVE Exclusion'
  BY DEF Exclusion, Run, fixed
<1>1. PICK label \in Labels : pc' = [pc EXCEPT ![p] = label]
  BY StepMoves DEF MovesTo
<1>2. /\ \A q, r \in Thread : pc'[q] \in Inside /\ pc'[r] \in Inside => q = r
      /\ trava' # 0 <=> \E q \in Thread : pc'[q] \in Inside
  BY <1>1, StepLocks DEF LockingStep, TypeOK, Exclusion
<1>3. \A q \in Thread : pc'[q] = "mark" => v'[q] # 0
  BY StepMarks
<1>4. program.lock = "mutex" => trava' # 2
  BY StepMarks
<1> QED BY <1>2, <1>3, <1>4 DEF Exclusion, Run, fixed

\* Without a lock no thread touches one.
LEMMA NoLockStep ==
  ASSUME TypeOK, PlacesSound, program.lock = "none", NEW p \in Thread, Run(p)
  PROVE  UNCHANGED <<trava, v, slots>>
<1>1. pc[p] \in {"test", "put", "advance", "load", "store", "done"}
  <2>1. LabelsOf = {"test", "put", "advance", "load", "store"}
    BY ProgramKinds DEF TypeOK, LabelsOf
  <2> QED BY <2>1 DEF PlacesSound
<1>2. CASE Test(p)
  BY <1>2, TestEffects
<1>3. CASE Get(p) \/ Load(p) \/ Store(p) \/ (p = produtor /\ (Put \/ Advance))
  BY <1>3 DEF Get, Load, Store, Put, Advance, locking
<1>4. Test(p) \/ Get(p) \/ Load(p) \/ Store(p) \/ (p = produtor /\ (Put \/ Advance))
  BY <1>1, RunActions DEF Lock, Take, Mark, FutexWait, Woken, Down, Unlock, Clear, Up,
                          Wake, Signal
<1> QED BY <1>2, <1>3, <1>4

LEMMA LockTypes ==
  ASSUME TypeOK, PlacesSound, Exclusion, NEW p \in Thread, Run(p)
  PROVE  trava' \in 0 .. 2 /\ v' \in [Thread -> 0 .. 2]
<1>1. CASE program.lock = "none"
  BY <1>1, NoLockStep DEF TypeOK
<1>2. CASE program.lock # "none"
  BY <1>2, StepLocks, StepMarks DEF LockingStep, TypeOK
<1> QED BY <1>1, <1>2

\* Most steps leave the ring alone, and only those of semaphores their slots.
\* Who comes to the ring has seen that it may, or has a slot.
MayUse(p) == \/ ~MustWait(p) /\ program.wait # "sem"
             \/ pc[p] = "enter" /\ program.wait = "sem"

RingStep(p) ==
  \/ /\ UNCHANGED <<indices, slots>>
     /\ pc'[p] \in {"put", "advance", "load", "store"} => pc'[p] = "put" /\ MayUse(p)
  \/ UNCHANGED indices /\ (Down(p) \/ Up(p))
  \/ UNCHANGED slots /\ (Get(p) \/ Load(p) \/ Store(p))
  \/ UNCHANGED slots /\ p = produtor /\ (Put \/ Advance)

LEMMA RingSteps ==
  ASSUME TypeOK, PlacesSound, NEW p \in Thread, Run(p)
  PROVE  RingStep(p)
<1> USE DEF TypeOK, Goto, RingStep
<1>a. First \in {"down", "enter", "test"}
  BY FirstLabel
<1>1. CASE Lock(p) \/ Take(p)
  <2>1. program.wait = "sem" => pc[p] = "enter"
    <3>1. pc[p] \in {"enter", "take"} /\ pc[p] \in LabelsOf
      BY <1>1, EnterEffects DEF PlacesSound
    <3> QED BY <3>1, ProgramKinds DEF LabelsOf
  <2> QED BY <1>1, <2>1, EnterEffects DEF Held, MayUse, waiting
<1>2. CASE Mark(p)
  BY <1>2 DEF Mark, CompareExchange, waiting
<1>3. CASE FutexWait(p) \/ Woken(p) \/ Clear(p) \/ Wake(p) \/ Signal(p)
  BY <1>3, <1>a DEF FutexWait, Woken, Clear, Wake, Signal, AfterLeave, NextItem, waiting
<1>4. CASE Unlock(p)
  BY <1>4, <1>a DEF Unlock, AfterLeave, NextItem, waiting
<1>5. CASE Down(p) \/ Up(p)
  BY <1>5 DEF Down, Up
<1>6. CASE Test(p)
  BY <1>6, TestEffects DEF MayUse
<1>7. CASE Get(p) \/ Load(p) \/ Store(p) \/ (p = produtor /\ (Put \/ Advance))
  BY <1>7 DEF Get, Load, Store, Put, Advance
<1> QED BY Zenon, <1>1, <1>2, <1>3, <1>4, <1>5, <1>6, <1>7, RunActions

\* A remainder is a place.
LEMMA PlaceAfter ==
  ASSUME NEW x \in Int
  PROVE  x % TAMANHO \in Places
  BY ProducerConsumerAssumption DEF Places

LEMMA RingTypes ==
  ASSUME TypeOK, PlacesSound, NEW p \in Thread, Run(p)
  PROVE  /\ inserir' \in Places /\ remover' \in Places
         /\ dados' \in [Places -> Nat]
         /\ count' \in Int
         /\ slots' \in [{"empty", "filled"} -> Nat]
         /\ seen' \in [Thread -> Nat]
         /\ at' \in [Thread -> Places]
         /\ produced' \in Nat /\ consumed' \in Nat
<1> USE DEF TypeOK
<1>1. CASE UNCHANGED <<indices, slots>>
  BY <1>1 DEF indices
<1>2. CASE UNCHANGED indices /\ (Down(p) \/ Up(p))
  BY <1>2 DEF indices, Down, Up, Own, Others
<1>3. CASE UNCHANGED slots /\ (Get(p) \/ Load(p))
  BY <1>3 DEF Get, Load
<1>4. CASE UNCHANGED slots /\ Store(p)
  <2>1. at[p] \in Int
    BY DEF Places
  <2> QED BY <1>4, <2>1, PlaceAfter DEF Store
<1>5. CASE UNCHANGED slots /\ p = produtor /\ (Put \/ Advance)
  <2>1. inserir \in Int
    BY DEF Places
  <2> QED BY <1>5, <2>1, PlaceAfter DEF Put, Advance
<1> QED BY <1>1, <1>2, <1>3, <1>4, <1>5, RingSteps DEF RingStep

LEMMA RunSound ==
  ASSUME TypeOK, PlacesSound, Exclusion, NEW p \in Thread, Run(p)
  PROVE  TypeOK' /\ PlacesSound' /\ Exclusion'
<1>1. TypeOK'
  BY PlacesStep, LockTypes, RingTypes DEF TypeOK, Run, fixed
<1> QED BY <1>1, PlacesStep, ExclusionStep

\* A wait that ends without a signal, the return of main and stuttering.
Idle(p) ==
  /\ UNCHANGED <<program, consumers, pc, indices, trava, v, slots>>
  /\ UNCHANGED asleep \/ asleep' = asleep \ {p}

LEMMA NextSteps ==
  ASSUME [Next]_vars
  PROVE  (\E p \in Thread : Run(p)) \/ (\E p \in Thread : Idle(p))
<1>1. CASE \E p \in Thread : ~returned /\ WakesAlone(p) /\ UNCHANGED fixed
  BY <1>1 DEF WakesAlone, Idle, fixed
<1>2. CASE Return \/ UNCHANGED vars
  <2>1. produtor \in Thread
    BY DEF Thread
  <2> QED BY <1>2, <2>1 DEF Return, vars, Idle, fixed, locking
<1> QED BY <1>1, <1>2 DEF Next

LEMMA SoundStep ==
  ASSUME TypeOK, PlacesSound, Exclusion, [Next]_vars
  PROVE  TypeOK' /\ PlacesSound' /\ Exclusion'
<1>1. ASSUME NEW p \in Thread, Idle(p)
      PROVE  TypeOK' /\ PlacesSound' /\ Exclusion'
  BY <1>1 DEF Idle, indices, TypeOK, PlacesSound, LabelsOf, Exclusion
<1> QED BY <1>1, RunSound, NextSteps

\* The mutex and the futex of these programs exclude: with a lock, one thread
\* at most is between enter_region and leave_region (or the mutex's calls).
THEOREM TypesAndExclusion == Spec => [](TypeOK /\ PlacesSound /\ Exclusion)
  BY InitSound, SoundStep, PTL DEF Spec

----------------------------------------------------------------------------
(* The numbers in the ring.                                                *)

\* One turn around the ring, either way.
LEMMA WrapAround ==
  ASSUME NEW x \in Int, -TAMANHO <= x, x < 2 * TAMANHO
  PROVE  x % TAMANHO = IF x < 0 THEN x + TAMANHO
                       ELSE IF x < TAMANHO THEN x ELSE x - TAMANHO
<1>1. CASE x < 0
  BY <1>1, ProducerConsumerAssumption
<1>2. CASE 0 <= x /\ x < TAMANHO
  BY <1>2, ProducerConsumerAssumption
<1>3. CASE TAMANHO <= x
  BY <1>3, ProducerConsumerAssumption
<1> QED BY <1>1, <1>2, <1>3, ProducerConsumerAssumption


LEMMA AtIs ==
  ASSUME NEW r \in Places, NEW j \in Places
  PROVE  At(r, j) = IF r + j < TAMANHO THEN r + j ELSE r + j - TAMANHO
<1>1. r + j \in Int /\ -TAMANHO <= r + j /\ r + j < 2 * TAMANHO /\ ~(r + j < 0)
  BY ProducerConsumerAssumption DEF Places
<1>2. (r + j) % TAMANHO = IF r + j < TAMANHO THEN r + j ELSE (r + j) - TAMANHO
  BY <1>1, WrapAround
<1> QED BY <1>2, ProducerConsumerAssumption DEF At, Places

LEMMA DistIs ==
  ASSUME NEW r \in Places, NEW i \in Places
  PROVE  Dist(i, r) = IF i < r THEN i - r + TAMANHO ELSE i - r
<1>1. i - r \in Int /\ -TAMANHO <= i - r /\ i - r < TAMANHO /\ (i - r < 0 <=> i < r)
  BY ProducerConsumerAssumption DEF Places
<1> QED BY <1>1, WrapAround, ProducerConsumerAssumption DEF Dist

LEMMA DistanceFacts ==
  ASSUME NEW i \in Places, NEW r \in Places
  PROVE  /\ Dist(i, r) \in Places
         /\ Dist(i, r) = 0 <=> i = r
         /\ Dist(i, r) = TAMANHO - 1 <=> At(i, 1) = r
         /\ At(i, 1) \in Places
         /\ Dist(i, r) # TAMANHO - 1 => Dist(At(i, 1), r) = Dist(i, r) + 1
         /\ Dist(i, r) # 0 => Dist(i, At(r, 1)) = Dist(i, r) - 1
         /\ At(r, Dist(i, r)) = i
<1>1. 1 \in Places
  BY ProducerConsumerAssumption DEF Places
<1>2. Dist(i, r) \in Places /\ At(i, 1) \in Places /\ At(r, 1) \in Places
  <2>1. Dist(i, r) \in Places
    BY DistIs, ProducerConsumerAssumption DEF Places
  <2>2. At(i, 1) = IF i + 1 < TAMANHO THEN i + 1 ELSE i + 1 - TAMANHO
    BY <1>1, AtIs
  <2>3. At(r, 1) = IF r + 1 < TAMANHO THEN r + 1 ELSE r + 1 - TAMANHO
    BY <1>1, AtIs
  <2> QED BY <2>1, <2>2, <2>3, ProducerConsumerAssumption DEF Places
<1>3. At(r, Dist(i, r)) = IF r + Dist(i, r) < TAMANHO THEN r + Dist(i, r)
                                                    ELSE r + Dist(i, r) - TAMANHO
  BY <1>2, AtIs
<1>4. /\ At(i, 1) = IF i + 1 < TAMANHO THEN i + 1 ELSE i + 1 - TAMANHO
      /\ At(r, 1) = IF r + 1 < TAMANHO THEN r + 1 ELSE r + 1 - TAMANHO
  BY <1>1, AtIs
<1>5. /\ Dist(At(i, 1), r) = IF At(i, 1) < r THEN At(i, 1) - r + TAMANHO ELSE At(i, 1) - r
      /\ Dist(i, At(r, 1)) = IF i < At(r, 1) THEN i - At(r, 1) + TAMANHO ELSE i - At(r, 1)
      /\ Dist(i, r) = IF i < r THEN i - r + TAMANHO ELSE i - r
  BY <1>2, DistIs
<1> QED BY <1>2, <1>3, <1>4, <1>5, ProducerConsumerAssumption DEF Places

\* The places from r onwards.
LEMMA PlacesFrom ==
  ASSUME NEW r \in Places, NEW j \in Places, NEW k \in Places
  PROVE  /\ At(r, j) \in Places
         /\ At(r, j) = At(r, k) => j = k
         /\ j + 1 < TAMANHO => At(At(r, 1), j) = At(r, j + 1)
<1>1. 1 \in Places
  BY ProducerConsumerAssumption DEF Places
<1>2. /\ At(r, j) = IF r + j < TAMANHO THEN r + j ELSE r + j - TAMANHO
      /\ At(r, k) = IF r + k < TAMANHO THEN r + k ELSE r + k - TAMANHO
      /\ At(r, 1) = IF r + 1 < TAMANHO THEN r + 1 ELSE r + 1 - TAMANHO
  BY <1>1, AtIs
<1>3. ASSUME j + 1 < TAMANHO
      PROVE  At(At(r, 1), j) = At(r, j + 1)
  <2>1. j + 1 \in Places /\ At(r, 1) \in Places
    BY <1>2, <1>3, ProducerConsumerAssumption DEF Places
  <2>2. At(r, j + 1) = IF r + (j + 1) < TAMANHO THEN r + (j + 1) ELSE r + (j + 1) - TAMANHO
    BY <2>1, AtIs
  <2>3. At(At(r, 1), j) = IF At(r, 1) + j < TAMANHO THEN At(r, 1) + j
                                                    ELSE At(r, 1) + j - TAMANHO
    BY <2>1, AtIs
  <2> QED BY <1>2, <1>3, <2>2, <2>3, ProducerConsumerAssumption DEF Places
<1> QED BY <1>2, <1>3, ProducerConsumerAssumption DEF Places

LEMMA ConsumersFinite ==
  /\ IsFiniteSet(Consumer)
  /\ \A S \in SUBSET Consumer : IsFiniteSet(S) /\ Cardinality(S) \in Nat
<1>1. IsFiniteSet(Consumer)
  BY FS_Interval, ProducerConsumerAssumption DEF Consumer
<1> QED BY <1>1, FS_Subset, FS_CardinalityType

\* Whoever takes from the ring is alone there: it has the lock, or is the only
\* consumer.
LEMMA OneTaker ==
  ASSUME TypeOK, PlacesSound, Exclusion, Promised, NEW c \in Consumer, NEW d \in Consumer,
         pc[c] \in {"put", "load", "store"}, pc[d] \in {"put", "load", "store"}
  PROVE  c = d
<1>1. CASE program.lock # "none"
  BY <1>1 DEF Exclusion, Inside, Thread
<1>2. CASE Cardinality(consumers) <= 1
  <2> SUFFICES ASSUME c # d PROVE FALSE
    OBVIOUS
  <2>1. c \in consumers /\ d \in consumers
    BY ProducerConsumerAssumption DEF PlacesSound, Thread, Consumer, produtor
  <2>2. IsFiniteSet({c}) /\ Cardinality({c}) = 1
    BY FS_Singleton
  <2>3. Cardinality({c} \cup {d}) = 2
    BY <2>2, FS_AddElement
  <2>4. {c} \cup {d} \subseteq consumers /\ IsFiniteSet(consumers)
    BY <2>1, ConsumersFinite DEF TypeOK
  <2>5. Cardinality({c} \cup {d}) <= Cardinality(consumers)
    BY <2>4, FS_Subset
  <2>6. Cardinality(consumers) \in Nat
    BY ConsumersFinite DEF TypeOK
  <2> QED BY <1>2, <2>3, <2>5, <2>6
<1> QED BY <1>1, <1>2 DEF Promised

\* How many consumers are where, after one thread has moved.
LEMMA AmongStep ==
  ASSUME TypeOK, NEW p \in Thread, NEW label, pc' = [pc EXCEPT ![p] = label], NEW labels
  PROVE  /\ Among(labels) \in Nat /\ Among(labels)' \in Nat
         /\ Among(labels)' = Among(labels)
              + (One(p \in Consumer /\ label \in labels)
                   - One(p \in Consumer /\ pc[p] \in labels))
         /\ p \in Consumer /\ pc[p] \in labels => Among(labels) > 0
<1> DEFINE S == {c \in Consumer : pc[c] \in labels}
           S2 == {c \in Consumer : pc'[c] \in labels}
<1>1. Among(labels) = Cardinality(S) /\ Among(labels)' = Cardinality(S2)
  BY DEF Among
<1>2. /\ IsFiniteSet(S) /\ Cardinality(S) \in Nat
      /\ IsFiniteSet(S2) /\ Cardinality(S2) \in Nat
  BY ConsumersFinite
<1>3. \A c \in Consumer \ {p} : c \in S2 <=> c \in S
  BY DEF TypeOK, Thread
<1>4. p \in S <=> p \in Consumer /\ pc[p] \in labels
  OBVIOUS
<1>5. p \in S2 <=> p \in Consumer /\ label \in labels
  BY DEF TypeOK
<1> HIDE DEF S, S2
<1>6. S \subseteq Consumer /\ S2 \subseteq Consumer
  BY DEF S, S2
<1>7. CASE p \in S <=> p \in S2
  <2>1. S2 = S
    BY <1>3, <1>6, <1>7
  <2> QED BY <1>1, <1>2, <1>4, <1>5, <1>7, <2>1, FS_EmptySet DEF One
<1>8. CASE p \in S /\ p \notin S2
  <2>1. S2 = S \ {p}
    BY <1>3, <1>6, <1>8
  <2>2. Cardinality(S2) = Cardinality(S) - 1
    BY <1>2, <1>8, <2>1, FS_RemoveElement
  <2> QED BY <1>1, <1>2, <1>4, <1>5, <1>8, <2>2 DEF One
<1>9. CASE p \notin S /\ p \in S2
  <2>1. S2 = S \cup {p}
    BY <1>3, <1>6, <1>9
  <2>2. Cardinality(S2) = Cardinality(S) + 1
    BY <1>2, <1>9, <2>1, FS_AddElement
  <2> QED BY <1>1, <1>2, <1>4, <1>5, <1>9, <2>2 DEF One
<1> QED BY <1>7, <1>8, <1>9

\* A slot taken is a place that waits for a number, or a number that waits for
\* a consumer.
LEMMA SlotsAllow ==
  ASSUME TypeOK, SlotsCount, program.wait = "sem"
  PROVE  /\ pc[produtor] \in {"enter", "put", "advance"} => Left < TAMANHO - 1
         /\ \A c \in Consumer : pc[c] \in {"enter", "put", "load", "store"} => Left > 0
<1>1. /\ slots["empty"] \in Nat /\ slots["filled"] \in Nat /\ Left \in Int
      /\ One(pc[produtor] \in {"leave", "up"}) \in Nat
      /\ pc[produtor] \in {"enter", "put", "advance"}
           => One(pc[produtor] \in {"enter", "put", "advance"}) = 1
  BY DEF TypeOK, Left, One
<1>2. \A labels : Among(labels) \in Nat
  BY ConsumersFinite DEF Among
<1>3. pc[produtor] \in {"enter", "put", "advance"} => Left < TAMANHO - 1
  BY <1>1, <1>2, ProducerConsumerAssumption DEF SlotsCount
<1>4. ASSUME NEW c \in Consumer, pc[c] \in {"enter", "put", "load", "store"}
      PROVE  Left > 0
  <2>1. c \in Thread /\ pc = [pc EXCEPT ![c] = pc[c]]
    BY DEF Thread, TypeOK
  <2>2. Among({"enter", "put", "load", "store"}) # 0
    <3>1. c \in {d \in Consumer : pc[d] \in {"enter", "put", "load", "store"}}
      BY <1>4
    <3> QED BY <3>1, ConsumersFinite, FS_EmptySet DEF Among
  <2>3. Among({"enter", "put", "load", "store"}) \in Nat
    BY <1>2
  <2> QED BY <1>1, <2>2, <2>3 DEF SlotsCount
<1> QED BY <1>3, <1>4

LEMMA MayUseFacts ==
  ASSUME TypeOK, SlotsCount, Filled, NEW p \in Thread, MayUse(p)
  PROVE  IF p = produtor THEN Left < TAMANHO - 1 ELSE Left > 0
<1>1. CASE program.wait = "sem"
  BY <1>1, SlotsAllow DEF MayUse, Thread
<1>2. CASE program.wait = "cond"
  BY <1>2, ProducerConsumerAssumption DEF MayUse, MustWait, Full, Empty, Filled
<1>3. CASE program.wait \notin {"sem", "cond"}
  <2>1. ~MustWait(p) /\ Left = Dist(inserir, remover) /\ Left \in 0 .. TAMANHO - 1
    BY <1>3 DEF MayUse, Filled
  <2>2. /\ Left = 0 <=> inserir = remover
        /\ Left = TAMANHO - 1 <=> (inserir + 1) % TAMANHO = remover
    BY <2>1, DistanceFacts DEF At, TypeOK
  <2> QED BY <1>3, <2>1, <2>2, ProducerConsumerAssumption DEF MustWait, Full, Empty
<1> QED BY <1>1, <1>2, <1>3

\* Who is not at the ring does not come to it by leaving it.
LEMMA AfterChangeLeaves ==
  ASSUME TypeOK, NEW p \in Thread, AfterChange(p)
  PROVE  /\ pc' = [pc EXCEPT ![p] = pc'[p]]
         /\ pc'[p] \notin {"put", "advance", "load", "store"}
<1>1. First \in {"down", "enter", "test"}
  BY FirstLabel DEF TypeOK
<1> QED BY <1>1 DEF AfterChange, Goto, NextItem, TypeOK

LEMMA AwayStep ==
  ASSUME TypeOK, SlotsCount, Filled, AtRing, NEW p \in Thread, NEW label,
         pc' = [pc EXCEPT ![p] = label], UNCHANGED <<program, indices>>,
         label \in {"put", "advance", "load", "store"} => label = "put" /\ MayUse(p)
  PROVE  Filled' /\ AtRing'
<1> USE DEF indices
<1>1. Filled' /\ Left' = Left
  BY DEF Filled, Left
<1>2. /\ \A q \in Thread : pc'[q] = IF q = p THEN label ELSE pc[q]
      /\ produtor \in Thread /\ \A c \in Consumer : c \in Thread /\ c # produtor
  BY ProducerConsumerAssumption DEF TypeOK, Thread, Consumer, produtor
<1>3. label = "put" => IF p = produtor THEN Left < TAMANHO - 1 ELSE Left > 0
  BY MayUseFacts
<1> QED BY <1>1, <1>2, <1>3 DEF AtRing

LEMMA GetStep ==
  ASSUME TypeOK, Filled, AtRing, NEW c \in Thread, Get(c), UNCHANGED program
  PROVE  Filled' /\ AtRing'
<1>1. Filled' /\ Left' = Left
  BY DEF Get, Filled, Left
<1>2. c \in Consumer /\ Left > 0 /\ pc' = [pc EXCEPT ![c] = "load"]
  BY DEF Get, Thread, AtRing, Goto
<1>3. At(remover, 0) = remover
  <2>1. remover \in Places /\ 0 \in Places
    BY ProducerConsumerAssumption DEF TypeOK, Places
  <2> QED BY <2>1, AtIs, ProducerConsumerAssumption DEF Places
<1>4. dados[remover] = consumed + 1
  BY <1>2, <1>3 DEF Filled
<1>5. \A d \in Consumer : d \in Thread /\ d # produtor
  BY ProducerConsumerAssumption DEF Thread, Consumer, produtor
<1> QED BY <1>1, <1>2, <1>4, <1>5 DEF Get, AtRing, TypeOK

LEMMA LoadStep ==
  ASSUME TypeOK, Filled, AtRing, NEW c \in Thread, Load(c), UNCHANGED program
  PROVE  Filled' /\ AtRing'
<1>1. Filled' /\ Left' = Left
  BY DEF Load, Filled, Left
<1>2. \A d \in Consumer : d \in Thread /\ d # produtor
  BY ProducerConsumerAssumption DEF Thread, Consumer, produtor
<1> QED BY <1>1, <1>2 DEF Load, AtRing, TypeOK, Goto

\* A store takes the oldest number: nobody else has moved remover since it was
\* loaded.
LEMMA StoreEffect ==
  ASSUME TypeOK, PlacesSound, AtRing, NEW c \in Thread, Store(c)
  PROVE  /\ c \in Consumer /\ Left > 0 /\ Left' = Left - 1
         /\ consumed' = consumed + 1 /\ produced' = produced
         /\ remover' = At(remover, 1) /\ inserir' = inserir /\ dados' = dados
<1>1. c \in Consumer
  BY DEF Store, PlacesSound, Thread
<1> QED BY <1>1 DEF Store, AtRing, Left, At, TypeOK

LEMMA StoreStep ==
  ASSUME TypeOK, PlacesSound, Exclusion, Promised, Filled, AtRing,
         NEW c \in Thread, Store(c), UNCHANGED program
  PROVE  Filled' /\ AtRing'
<1>1. /\ c \in Consumer /\ Left > 0 /\ Left' = Left - 1
      /\ consumed' = consumed + 1 /\ produced' = produced
      /\ remover' = At(remover, 1) /\ inserir' = inserir /\ dados' = dados
  BY StoreEffect
<1>2. remover \in Places /\ inserir \in Places /\ consumed \in Nat /\ TAMANHO \in Nat
  BY ProducerConsumerAssumption DEF TypeOK
<1>3. Left \in 1 .. TAMANHO - 1 /\ Left = Dist(inserir, remover)
  BY <1>1 DEF Filled
<1>4. Left' = Dist(inserir', remover')
  BY <1>1, <1>2, <1>3, DistanceFacts
<1>5. ASSUME NEW i \in 1 .. Left'
      PROVE  dados'[At(remover', i - 1)] = consumed' + i
  <2>1. i + 1 \in 1 .. Left /\ i - 1 \in Places /\ (i - 1) + 1 = i /\ i < TAMANHO
    BY <1>1, <1>2, <1>3, <1>5 DEF Places
  <2>2. At(At(remover, 1), i - 1) = At(remover, i)
    BY <1>2, <2>1, PlacesFrom
  <2>3. dados[At(remover, (i + 1) - 1)] = consumed + (i + 1)
    BY <2>1 DEF Filled
  <2> QED BY <1>1, <1>2, <2>1, <2>2, <2>3
<1>6. program.wait = "cond" => count' = Left'
  BY <1>1, <1>3 DEF Filled, Store
<1>7. Filled'
  BY <1>1, <1>2, <1>3, <1>4, <1>5, <1>6 DEF Filled
<1>8. /\ pc' = [pc EXCEPT ![c] = pc'[c]]
      /\ pc'[c] \notin {"put", "advance", "load", "store"}
  BY AfterChangeLeaves DEF Store
<1>9. /\ \A q \in Thread : q # c => pc'[q] = pc[q]
      /\ produtor \in Thread /\ \A d \in Consumer : d \in Thread /\ d # produtor
  BY <1>8, ProducerConsumerAssumption DEF TypeOK, Thread, Consumer, produtor
<1>10. \A d \in Consumer : pc'[d] \notin {"put", "load", "store"}
  <2>1. pc[c] = "store"
    BY DEF Store
  <2> QED BY <1>1, <1>8, <1>9, <2>1, OneTaker
<1>11. pc'[produtor] = pc[produtor]
  BY <1>1, <1>9
<1> QED BY <1>1, <1>2, <1>3, <1>7, <1>10, <1>11 DEF AtRing

LEMMA PutStep ==
  ASSUME TypeOK, PlacesSound, Filled, AtRing, Put, UNCHANGED program
  PROVE  Filled' /\ AtRing'
<1>1. /\ Left < TAMANHO - 1 /\ Left' = Left
      /\ inserir = At(remover, Left)
      /\ Left \in Places
  BY DistanceFacts, ProducerConsumerAssumption
  DEF Put, AtRing, Filled, TypeOK, Left, Places
<1>2. ASSUME NEW i \in 1 .. Left
      PROVE  dados'[At(remover, i - 1)] = dados[At(remover, i - 1)]
  <2>1. i - 1 \in Places /\ i - 1 # Left /\ remover \in Places
    BY <1>1, <1>2, ProducerConsumerAssumption DEF Places, TypeOK
  <2>2. At(remover, i - 1) \in Places /\ At(remover, i - 1) # inserir
    BY <1>1, <2>1, PlacesFrom
  <2> QED BY <2>2 DEF Put, TypeOK
<1>3. Filled'
  BY <1>1, <1>2 DEF Put, Filled
<1>4. dados'[inserir'] = produced' + 1
  BY DEF Put, TypeOK
<1>5. /\ produtor \in Thread /\ \A d \in Consumer : d \in Thread /\ d # produtor
  BY ProducerConsumerAssumption DEF Thread, Consumer, produtor
<1> QED BY <1>1, <1>3, <1>4, <1>5 DEF Put, AtRing, TypeOK, Goto

LEMMA AdvanceStep ==
  ASSUME TypeOK, PlacesSound, Filled, AtRing, Advance, UNCHANGED program
  PROVE  Filled' /\ AtRing'
<1>1. /\ Left < TAMANHO - 1 /\ Left' = Left + 1 /\ Left \in Places
      /\ produced' = produced + 1 /\ consumed' = consumed
      /\ inserir' = At(inserir, 1) /\ remover' = remover /\ dados' = dados
      /\ dados[inserir] = produced + 1
  BY DEF Advance, AtRing, Filled, Left, At, Places, TypeOK
<1>2. remover \in Places /\ inserir \in Places /\ TAMANHO \in Nat
      /\ produced \in Nat /\ consumed \in Nat
  BY ProducerConsumerAssumption DEF TypeOK
<1>3. Left' = Dist(inserir', remover') /\ At(remover, Left) = inserir
  BY <1>1, <1>2, DistanceFacts DEF Filled
<1>4. ASSUME NEW i \in 1 .. Left'
      PROVE  dados'[At(remover', i - 1)] = consumed' + i
  <2>1. CASE i \in 1 .. Left
    BY <1>1, <2>1 DEF Filled
  <2>2. CASE i = Left + 1
    <3>1. i - 1 = Left /\ consumed + i = produced + 1
      BY <1>1, <1>2, <2>2 DEF Left, Places
    <3> QED BY <1>1, <1>3, <3>1
  <2> QED BY <1>1, <1>2, <1>4, <2>1, <2>2 DEF Places
<1>5. program.wait = "cond" => count' = Left'
  BY <1>1 DEF Filled, Advance
<1>6. Filled'
  BY <1>1, <1>2, <1>3, <1>4, <1>5 DEF Filled, Places
<1>7. produtor \in Thread /\ \A d \in Consumer : d \in Thread /\ d # produtor
  BY ProducerConsumerAssumption DEF Thread, Consumer, produtor
<1>8. /\ pc' = [pc EXCEPT ![produtor] = pc'[produtor]]
      /\ pc'[produtor] \notin {"put", "advance", "load", "store"}
  BY <1>7, AfterChangeLeaves DEF Advance
<1>9. \A d \in Consumer : pc'[d] = pc[d]
  BY <1>7, <1>8 DEF TypeOK
<1> QED BY <1>1, <1>2, <1>6, <1>8, <1>9 DEF AtRing, Advance, Places

\* The steps of a program with semaphores, which count what is in the ring.
SlotStep(p, from, to) == pc[p] = from /\ pc' = [pc EXCEPT ![p] = to]

LEMMA SlotSteps ==
  ASSUME TypeOK, PlacesSound, Exclusion, AtRing, program.wait = "sem",
         NEW p \in Thread, Run(p)
  PROVE  \/ /\ SlotStep(p, "down", "enter") /\ Left' = Left
            /\ slots' = [slots EXCEPT ![Own(p)] = @ - 1]
         \/ /\ SlotStep(p, "up", "down") /\ Left' = Left
            /\ slots' = [slots EXCEPT ![Others(p)] = @ + 1]
         \/ /\ SlotStep(p, "enter", "put") \/ SlotStep(p, "leave", "up")
            /\ Left' = Left /\ slots' = slots
         \/ /\ p = produtor /\ SlotStep(p, "put", "advance")
            /\ Left' = Left /\ slots' = slots
         \/ /\ p = produtor /\ SlotStep(p, "advance", "leave")
            /\ Left' = Left + 1 /\ slots' = slots
         \/ /\ p # produtor /\ (SlotStep(p, "put", "load") \/ SlotStep(p, "load", "store"))
            /\ Left' = Left /\ slots' = slots
         \/ /\ p # produtor /\ SlotStep(p, "store", "leave")
            /\ Left' = Left - 1 /\ slots' = slots
<1>0. /\ program.lock = "mutex" /\ First = "down"
      /\ pc[p] \in {"down", "enter", "put", "advance", "load", "store", "leave", "up", "done"}
  <2>1. program.lock = "mutex"
    BY ProgramKinds DEF TypeOK
  <2>2. LabelsOf = {"down", "enter", "put", "advance", "load", "store", "leave", "up"}
    BY <2>1 DEF LabelsOf
  <2> QED BY <2>1, <2>2 DEF First, PlacesSound
<1> USE DEF SlotStep, Goto
<1>1. CASE Lock(p) \/ Take(p)
  BY <1>0, <1>1, EnterEffects DEF Held, indices, waiting, Left
<1>2. CASE Unlock(p)
  <2>1. trava = 1
    BY <1>0, <1>2 DEF Unlock, Exclusion, Inside, TypeOK
  <2> QED BY <1>2, <2>1 DEF Unlock, AfterLeave, indices, waiting, Left
<1>3. CASE Down(p)
  BY <1>3 DEF Down, indices, Left
<1>4. CASE Up(p)
  BY <1>0, <1>4 DEF Up, NextItem, indices, Left
<1>5. CASE Get(p) \/ Load(p)
  BY <1>5 DEF Get, Load, Left, PlacesSound
<1>6. CASE Store(p)
  BY <1>0, <1>6, StoreEffect DEF Store, AfterChange, PlacesSound
<1>7. CASE p = produtor /\ Put
  BY <1>7 DEF Put, Left
<1>8. CASE p = produtor /\ Advance
  BY <1>0, <1>8 DEF Advance, AfterChange, Left, TypeOK
<1>9. ~(Mark(p) \/ FutexWait(p) \/ Woken(p) \/ Clear(p) \/ Wake(p) \/ Signal(p) \/ Test(p))
  BY <1>0 DEF Mark, FutexWait, Woken, Clear, Wake, Signal, Test
<1> HIDE DEF SlotStep, Goto
<1> QED BY <1>1, <1>2, <1>3, <1>4, <1>5, <1>6, <1>7, <1>8, <1>9, RunActions

LEMMA SlotsStep ==
  ASSUME TypeOK, PlacesSound, Exclusion, AtRing, SlotsCount, program.wait = "sem",
         NEW p \in Thread, Run(p)
  PROVE  SlotsCount'
<1> DEFINE going == {"leave", "up"}
           coming == {"enter", "put", "load", "store"}
           making == {"enter", "put", "advance"}
<1> HIDE DEF going, coming, making
<1>0. /\ slots["empty"] + One(pc[produtor] \in making) + Left + Among(going) = TAMANHO - 1
      /\ slots["filled"] + One(pc[produtor] \in going) + Among(coming) = Left
  BY DEF SlotsCount, going, coming, making
<1>1. /\ slots["empty"] \in Nat /\ slots["filled"] \in Nat /\ Left \in Int
      /\ Among(going) \in Nat /\ Among(coming) \in Nat
      /\ TAMANHO \in Nat
  BY ConsumersFinite, ProducerConsumerAssumption DEF TypeOK, Left, Among
<1>2. /\ produtor \in Thread /\ Thread \ {produtor} = Consumer
      /\ p = produtor <=> p \notin Consumer
  BY ProducerConsumerAssumption DEF Thread, Consumer, produtor
<1>3. SUFFICES
        /\ slots'["empty"] + One(pc'[produtor] \in making) + Left' + Among(going)' = TAMANHO - 1
        /\ slots'["filled"] + One(pc'[produtor] \in going) + Among(coming)' = Left'
  BY DEF SlotsCount, going, coming, making
<1>4. \A label, labels : pc' = [pc EXCEPT ![p] = label] =>
        Among(labels)' = Among(labels)
              + (One(p \in Consumer /\ label \in labels)
                   - One(p \in Consumer /\ pc[p] \in labels))
  BY AmongStep
<1>5. CASE p = produtor
  <2>1. ASSUME NEW from, NEW to, SlotStep(p, from, to)
        PROVE  /\ Among(going)' = Among(going) /\ Among(coming)' = Among(coming)
               /\ pc[produtor] = from /\ pc'[produtor] = to
    <3>1. pc' = [pc EXCEPT ![p] = to] /\ pc[p] = from
      BY <2>1 DEF SlotStep
    <3>2. \A q : One(p \in Consumer /\ q) = 0
      BY <1>2, <1>5 DEF One
    <3>3. Among(going)' = Among(going) + (0 - 0) /\ Among(coming)' = Among(coming) + (0 - 0)
      BY <1>4, <3>1, <3>2
    <3> QED BY <1>1, <1>2, <1>5, <3>1, <3>3 DEF TypeOK
  <2>2. CASE /\ SlotStep(p, "down", "enter") /\ Left' = Left
             /\ slots' = [slots EXCEPT ![Own(p)] = @ - 1]
    BY <1>0, <1>1, <1>5, <2>1, <2>2 DEF One, Own, TypeOK, going, making
  <2>3. CASE /\ SlotStep(p, "up", "down") /\ Left' = Left
             /\ slots' = [slots EXCEPT ![Others(p)] = @ + 1]
    BY <1>0, <1>1, <1>5, <2>1, <2>3 DEF One, Others, TypeOK, going, making
  <2>4. CASE /\ \/ SlotStep(p, "enter", "put") \/ SlotStep(p, "leave", "up")
                \/ SlotStep(p, "put", "advance")
             /\ Left' = Left /\ slots' = slots
    BY <1>0, <1>1, <1>5, <2>1, <2>4 DEF One, going, making
  <2>5. CASE SlotStep(p, "advance", "leave") /\ Left' = Left + 1 /\ slots' = slots
    BY <1>0, <1>1, <1>5, <2>1, <2>5 DEF One, going, making
  <2> QED BY <1>5, <2>2, <2>3, <2>4, <2>5, SlotSteps
<1>6. CASE p \in Consumer
  <2>1. ASSUME NEW from, NEW to, SlotStep(p, from, to)
        PROVE  /\ Among(going)' = Among(going) + (One(to \in going) - One(from \in going))
               /\ Among(coming)' = Among(coming) + (One(to \in coming) - One(from \in coming))
               /\ pc'[produtor] = pc[produtor]
    <3>1. pc' = [pc EXCEPT ![p] = to] /\ pc[p] = from
      BY <2>1 DEF SlotStep
    <3> QED BY <1>2, <1>4, <1>6, <3>1 DEF One, TypeOK
  <2>2. CASE /\ SlotStep(p, "down", "enter") /\ Left' = Left
             /\ slots' = [slots EXCEPT ![Own(p)] = @ - 1]
    BY <1>0, <1>1, <1>2, <1>6, <2>1, <2>2 DEF One, Own, TypeOK, going, coming
  <2>3. CASE /\ SlotStep(p, "up", "down") /\ Left' = Left
             /\ slots' = [slots EXCEPT ![Others(p)] = @ + 1]
    BY <1>0, <1>1, <1>2, <1>6, <2>1, <2>3 DEF One, Others, TypeOK, going, coming
  <2>4. CASE /\ \/ SlotStep(p, "enter", "put") \/ SlotStep(p, "put", "load")
                \/ SlotStep(p, "load", "store")
             /\ Left' = Left /\ slots' = slots
    BY <1>0, <1>1, <2>1, <2>4 DEF One, going, coming
  <2>5. CASE SlotStep(p, "leave", "up") /\ Left' = Left /\ slots' = slots
    BY <1>0, <1>1, <2>1, <2>5 DEF One, going, coming
  <2>6. CASE SlotStep(p, "store", "leave") /\ Left' = Left - 1 /\ slots' = slots
    <3>1. /\ Among(going)' = Among(going) + 1 /\ Among(coming)' = Among(coming) - 1
          /\ pc'[produtor] = pc[produtor]
      BY <1>1, <2>1, <2>6 DEF One, going, coming
    <3> QED BY <1>0, <1>1, <2>6, <3>1 DEF One
  <2> QED BY <1>2, <1>6, <2>2, <2>3, <2>4, <2>5, <2>6, SlotSteps
<1> QED BY <1>2, <1>5, <1>6

\* The invariant of the ring.
RingInv == SlotsCount /\ (Promised => Filled /\ AtRing)

LEMMA InitRing == Init => RingInv
<1> SUFFICES ASSUME Init PROVE RingInv
  OBVIOUS
<1> USE ProducerConsumerAssumption
<1>1. First \in {"down", "enter", "test"}
  BY FirstLabel DEF Init
<1>2. produtor \in Thread /\ \A c \in Consumer : c \in Thread
  BY DEF Thread
<1>3. \A q \in Thread : pc[q] \in {"down", "enter", "test", "done"}
  BY <1>1 DEF Init
<1>4. Left = 0 /\ Dist(inserir, remover) = 0
  BY DistanceFacts DEF Init, Left, Places
<1>5. Filled /\ AtRing
  BY <1>2, <1>3, <1>4 DEF Filled, AtRing, Init
<1>6. ASSUME program.wait = "sem" PROVE SlotsCount
  <2>1. \A q \in Thread : pc[q] \in {"down", "done"}
    BY <1>6 DEF Init, First
  <2>2. Among({"leave", "up"}) = 0 /\ Among({"enter", "put", "load", "store"}) = 0
    <3>1. /\ {c \in Consumer : pc[c] \in {"leave", "up"}} = {}
          /\ {c \in Consumer : pc[c] \in {"enter", "put", "load", "store"}} = {}
      BY <1>2, <2>1
    <3> QED BY <3>1, FS_EmptySet DEF Among
  <2> QED BY <1>2, <1>4, <2>1, <2>2 DEF SlotsCount, One, Init
<1> QED BY <1>5, <1>6 DEF RingInv, SlotsCount

LEMMA RingInvStep ==
  ASSUME TypeOK, PlacesSound, Exclusion, RingInv, [Next]_vars
  PROVE  RingInv'
<1>1. program' = program /\ Promised' = Promised
  BY ProgramStays DEF Promised
<1>2. ASSUME NEW p \in Thread, Run(p) PROVE RingInv'
  <2>1. SlotsCount'
    <3>1. CASE program.wait = "sem"
      <4>1. AtRing
        BY <3>1, ProgramKinds DEF TypeOK, RingInv, Promised
      <4> QED BY <1>2, <3>1, <4>1, SlotsStep DEF RingInv
    <3> QED BY <1>1, <3>1 DEF SlotsCount
  <2>2. ASSUME Promised PROVE Filled' /\ AtRing'
    <3>1. Filled /\ AtRing /\ SlotsCount
      BY <2>2 DEF RingInv
    <3>2. PICK label \in Labels : pc' = [pc EXCEPT ![p] = label]
      BY <1>2, StepMoves DEF MovesTo
    <3>3. pc'[p] = label
      BY <3>2 DEF TypeOK
    <3>4. CASE /\ UNCHANGED <<indices, slots>>
               /\ pc'[p] \in {"put", "advance", "load", "store"}
                    => pc'[p] = "put" /\ MayUse(p)
      BY <1>1, <3>1, <3>2, <3>3, <3>4, AwayStep
    <3>5. CASE UNCHANGED indices /\ (Down(p) \/ Up(p))
      <4>1. label \notin {"put", "advance", "load", "store"}
        BY <3>3, <3>5, FirstLabel DEF Down, Up, NextItem, Goto, TypeOK
      <4> QED BY <1>1, <3>1, <3>2, <3>5, <4>1, AwayStep
    <3>6. CASE Get(p)
      BY <1>1, <3>1, <3>6, GetStep
    <3>7. CASE Load(p)
      BY <1>1, <3>1, <3>7, LoadStep
    <3>8. CASE Store(p)
      BY <1>1, <2>2, <3>1, <3>8, StoreStep
    <3>9. CASE Put
      BY <1>1, <3>1, <3>9, PutStep
    <3>10. CASE Advance
      BY <1>1, <3>1, <3>10, AdvanceStep
    <3> QED BY <1>2, <3>4, <3>5, <3>6, <3>7, <3>8, <3>9, <3>10, RingSteps DEF RingStep
  <2> QED BY <1>1, <2>1, <2>2 DEF RingInv
<1>3. ASSUME NEW p \in Thread, Idle(p) PROVE RingInv'
  BY <1>1, <1>3 DEF Idle, RingInv, indices, SlotsCount, Filled, AtRing, Left, Among
<1> QED BY <1>2, <1>3, NextSteps

----------------------------------------------------------------------------
(* The ring is a bounded buffer.                                           *)

LEMMA RingHolds ==
  ASSUME TypeOK, Filled
  PROVE  InRing = [i \in 1 .. Left |-> consumed + i]
<1>1. /\ Left = (inserir - remover) % TAMANHO
      /\ \A i \in 1 .. Left : dados[(remover + i - 1) % TAMANHO] = consumed + i
  BY DEF Filled, At, Dist
<1> QED BY <1>1 DEF InRing

\* The numbers from k + 1 on, one put behind them and one taken in front.
LEMMA NumbersFacts ==
  ASSUME NEW n \in Nat, NEW k \in Nat
  PROVE  /\ Len([i \in 1 .. n |-> k + i]) = n
         /\ Append([i \in 1 .. n |-> k + i], k + n + 1) = [i \in 1 .. n + 1 |-> k + i]
         /\ n # 0 => /\ [i \in 1 .. n |-> k + i] # <<>>
                     /\ Head([i \in 1 .. n |-> k + i]) = k + 1
                     /\ Tail([i \in 1 .. n |-> k + i]) = [i \in 1 .. n - 1 |-> (k + 1) + i]
<1>1. Len([i \in 1 .. n |-> k + i]) = n
  OBVIOUS
<1>2. Append([i \in 1 .. n |-> k + i], k + n + 1) = [i \in 1 .. n + 1 |-> k + i]
  OBVIOUS
<1>3. ASSUME n # 0
      PROVE  /\ [i \in 1 .. n |-> k + i] # <<>>
             /\ Head([i \in 1 .. n |-> k + i]) = k + 1
  BY <1>1, <1>3
<1>4. ASSUME n # 0
      PROVE  Tail([i \in 1 .. n |-> k + i]) = [i \in 1 .. n - 1 |-> (k + 1) + i]
  BY <1>4
<1> QED BY <1>1, <1>2, <1>3, <1>4

\* What a step does to the numbers: none, one more or one less.
LEMMA NumbersStep ==
  ASSUME TypeOK, PlacesSound, Exclusion, RingInv, Promised, [Next]_vars
  PROVE  \/ produced' = produced /\ consumed' = consumed
         \/ /\ Left < TAMANHO - 1
            /\ produced' = produced + 1 /\ consumed' = consumed
         \/ /\ Left > 0
            /\ produced' = produced /\ consumed' = consumed + 1
<1>1. ASSUME NEW p \in Thread, Run(p), ~Store(p), ~(p = produtor /\ Advance)
      PROVE  produced' = produced /\ consumed' = consumed
  BY <1>1, RingSteps DEF RingStep, Get, Load, Put, indices
<1>2. ASSUME NEW p \in Thread, Store(p)
      PROVE  /\ Left > 0
             /\ produced' = produced /\ consumed' = consumed + 1
  BY <1>2, StoreEffect DEF RingInv
<1>3. ASSUME Advance
      PROVE  /\ Left < TAMANHO - 1
             /\ produced' = produced + 1 /\ consumed' = consumed
  BY <1>3 DEF Advance, RingInv, AtRing
<1>4. ASSUME NEW p \in Thread, Idle(p)
      PROVE  produced' = produced /\ consumed' = consumed
  BY <1>4 DEF Idle, indices
<1> QED BY <1>1, <1>2, <1>3, <1>4, NextSteps

LEMMA BufferStep ==
  ASSUME TypeOK, PlacesSound, Exclusion, RingInv, [Next]_vars, TypeOK', RingInv'
  PROVE  Buffer!Next \/ UNCHANGED Buffer!buffervars
<1>1. Promised' = Promised
  BY ProgramStays DEF Promised
<1>2. CASE ~Promised
  BY <1>1, <1>2 DEF Buffer!buffervars
<1>3. CASE Promised
  <2>1. /\ InRing = [i \in 1 .. Left |-> consumed + i]
        /\ InRing' = [i \in 1 .. Left' |-> consumed' + i]
        /\ Left \in Nat /\ Left' \in Nat
    <3>1. Filled /\ Filled'
      BY <1>1, <1>3 DEF RingInv
    <3>2. (TypeOK /\ Filled => InRing = [i \in 1 .. Left |-> consumed + i])'
      BY RingHolds, PTL
    <3> QED BY <3>1, <3>2, RingHolds DEF Filled
  <2>2. /\ produced \in Nat /\ consumed \in Nat /\ TAMANHO \in Nat
        /\ Left = produced - consumed /\ Left' = produced' - consumed'
    BY ProducerConsumerAssumption DEF TypeOK, Left
  <2>3. CASE produced' = produced /\ consumed' = consumed
    BY <1>1, <1>3, <2>1, <2>2, <2>3 DEF Buffer!buffervars
  <2>4. CASE /\ Left < TAMANHO - 1
             /\ produced' = produced + 1 /\ consumed' = consumed
    <3>1. Left' = Left + 1 /\ consumed + Left + 1 = produced + 1
      BY <2>2, <2>4
    <3>2. Len(InRing) < TAMANHO - 1 /\ InRing' = Append(InRing, produced + 1)
      BY <2>1, <2>2, <2>4, <3>1, NumbersFacts
    <3> QED BY <1>1, <1>3, <2>4, <3>2 DEF Buffer!Next, Buffer!Produce
  <2>5. CASE /\ Left > 0
             /\ produced' = produced /\ consumed' = consumed + 1
    <3>1. Left' = Left - 1
      BY <2>2, <2>5
    <3>2. InRing # <<>> /\ Head(InRing) = consumed + 1 /\ InRing' = Tail(InRing)
      <4> DEFINE n == Left
                 k == consumed
      <4>1. n \in Nat /\ n # 0 /\ k \in Nat
        BY <2>1, <2>2, <2>5
      <4>2. /\ [i \in 1 .. n |-> k + i] # <<>>
            /\ Head([i \in 1 .. n |-> k + i]) = k + 1
            /\ Tail([i \in 1 .. n |-> k + i]) = [i \in 1 .. n - 1 |-> (k + 1) + i]
        <5> HIDE DEF n, k
        <5> QED BY <4>1, NumbersFacts
      <4> QED BY <2>1, <2>5, <3>1, <4>2
    <3> QED BY <1>1, <1>3, <2>5, <3>2 DEF Buffer!Next, Buffer!Consume
  <2> QED BY <1>3, <2>3, <2>4, <2>5, NumbersStep
<1> QED BY <1>2, <1>3

LEMMA InitBuffer == Init => Buffer!Init
<1> SUFFICES ASSUME Init PROVE Buffer!Init
  OBVIOUS
<1>1. TypeOK /\ RingInv
  BY InitSound, InitRing
<1>2. Promised => InRing = <<>>
  BY <1>1, RingHolds DEF RingInv, Left, Init
<1> QED BY <1>2 DEF Buffer!Init, Init

\* The programs with a lock, with any number of consumers, and those without as
\* long as there is one, implement a bounded buffer: no number is lost, taken
\* twice or out of order (inserir, remover and dados of the programs).
THEOREM BuffersAreBounded == Spec => IsBoundedBuffer
<1>1. Spec => [](TypeOK /\ PlacesSound /\ Exclusion /\ RingInv)
  BY InitSound, InitRing, SoundStep, RingInvStep, PTL DEF Spec
<1> QED BY <1>1, InitBuffer, BufferStep, PTL DEF Spec, IsBoundedBuffer, Buffer!Spec

----------------------------------------------------------------------------
(* No signal is lost.                                                      *)

\* The consumers that can still take a number without another signal.
Awake == {p \in consumers \ asleep : pc[p] # "signal"}

\* The steps of a program with conditions.
CondStep(p) ==
  \/ /\ UNCHANGED <<count, asleep>>
     /\ pc[p] # "signal" /\ pc'[p] # "signal"
  \/ /\ MustWait(p) /\ UNCHANGED count /\ asleep' = asleep \cup {p}
     /\ pc[p] # "signal" /\ pc'[p] # "signal"
  \/ /\ p # produtor /\ count' = count - 1 /\ UNCHANGED asleep
     /\ pc[p] = "store" /\ pc'[p] = "signal"
  \/ /\ p = produtor /\ count' = count + 1 /\ UNCHANGED asleep
     /\ pc[p] = "advance" /\ pc'[p] = "signal"
  \/ /\ Signal(p) /\ UNCHANGED count
     /\ pc[p] = "signal" /\ pc'[p] # "signal"

LEMMA CondSteps ==
  ASSUME TypeOK, PlacesSound, Exclusion, program.wait = "cond", NEW p \in Thread, Run(p)
  PROVE  CondStep(p)
<1>0. /\ program.lock = "mutex" /\ First = "enter"
      /\ pc[p] \in {"enter", "test", "asleep", "put", "advance", "load", "store",
                    "signal", "leave", "done"}
  <2>1. program.lock = "mutex"
    BY ProgramKinds DEF TypeOK
  <2>2. LabelsOf = {"enter", "test", "asleep", "put", "advance", "load", "store",
                    "signal", "leave"}
    BY <2>1 DEF LabelsOf
  <2> QED BY <2>1, <2>2 DEF First, PlacesSound
<1> USE DEF CondStep, Goto, TypeOK, indices, waiting, locking
<1>1. CASE Lock(p) \/ Take(p)
  BY <1>0, <1>1, EnterEffects DEF Held
<1>2. CASE Unlock(p)
  BY <1>0, <1>2 DEF Unlock, AfterLeave, NextItem
<1>3. CASE Woken(p)
  BY <1>0, <1>3 DEF Woken
<1>4. CASE Test(p)
  BY <1>4, TestEffects
<1>5. CASE Get(p) \/ Load(p)
  BY <1>5 DEF Get, Load
<1>6. CASE Store(p)
  BY <1>6 DEF Store, AfterChange, PlacesSound
<1>7. CASE p = produtor /\ (Put \/ Advance)
  BY <1>7 DEF Put, Advance, AfterChange
<1>8. CASE Signal(p)
  BY <1>8 DEF Signal
<1>9. ~(Mark(p) \/ FutexWait(p) \/ Down(p) \/ Up(p) \/ Clear(p) \/ Wake(p))
  BY <1>0 DEF Mark, FutexWait, Down, Up, Clear, Wake
<1> HIDE DEF CondStep, Goto, TypeOK, indices, waiting, locking
<1> QED BY <1>1, <1>2, <1>3, <1>4, <1>5, <1>6, <1>7, <1>8, <1>9, RunActions

\* SignalsReachSleepers, with the producer's signal as a number.
SleepersKnown ==
  /\ asleep \cap Consumer # {} => count <= Cardinality(Awake) + One(pc[produtor] = "signal")
  /\ produtor \in asleep => count = TAMANHO - 1 \/ \E c \in consumers : pc[c] = "signal"

LEMMA AwakeFinite ==
  ASSUME TypeOK
  PROVE  /\ Awake \subseteq Consumer
         /\ IsFiniteSet(Awake) /\ Cardinality(Awake) \in Nat
  BY ConsumersFinite DEF TypeOK, Awake

LEMMA SleepersStep ==
  ASSUME TypeOK, TypeOK', PlacesSound, SleepersKnown, program.wait = "cond",
         UNCHANGED consumers, NEW p \in Thread,
         NEW label, pc' = [pc EXCEPT ![p] = label], CondStep(p)
  PROVE  SleepersKnown'
<1>0. /\ produtor \in Thread /\ Thread \ {produtor} = Consumer
      /\ p = produtor <=> p \notin Consumer
      /\ \A q \in Thread : pc'[q] = IF q = p THEN label ELSE pc[q]
      /\ consumers \subseteq Consumer /\ asleep \subseteq Thread
      /\ \A q \in asleep : pc[q] = "asleep" /\ (q # produtor => q \in consumers)
  BY ProducerConsumerAssumption DEF TypeOK, PlacesSound, Thread, Consumer, produtor
<1>1. /\ Awake \subseteq Consumer /\ Awake' \subseteq Consumer
      /\ IsFiniteSet(Awake) /\ Cardinality(Awake) \in Nat
      /\ IsFiniteSet(Awake') /\ Cardinality(Awake') \in Nat
      /\ count \in Int
  <2>1. (TypeOK => /\ Awake \subseteq Consumer
                   /\ IsFiniteSet(Awake) /\ Cardinality(Awake) \in Nat)'
    BY AwakeFinite, PTL
  <2> QED BY <2>1, AwakeFinite DEF TypeOK
<1>2. CASE /\ UNCHANGED <<count, asleep>>
           /\ pc[p] # "signal" /\ pc'[p] # "signal"
  <2>1. Awake' = Awake
    BY <1>0, <1>2 DEF Awake
  <2>2. \A q \in Thread : pc'[q] = "signal" <=> pc[q] = "signal"
    BY <1>0, <1>2
  <2> QED BY <1>0, <1>2, <2>1, <2>2 DEF SleepersKnown, One
<1>3. CASE /\ MustWait(p) /\ UNCHANGED count /\ asleep' = asleep \cup {p}
           /\ pc[p] # "signal" /\ pc'[p] # "signal"
  <2>2. \A q \in Thread : pc'[q] = "signal" <=> pc[q] = "signal"
    BY <1>0, <1>3
  <2>3. CASE p = produtor
    <3>1. Awake' = Awake /\ asleep' \cap Consumer = asleep \cap Consumer
      BY <1>0, <1>3, <2>2, <2>3 DEF Awake
    <3>2. count = TAMANHO - 1
      BY <1>3, <2>3 DEF MustWait, Full
    <3> QED BY <1>0, <1>3, <2>2, <3>1, <3>2 DEF SleepersKnown, One
  <2>4. CASE p # produtor
    <3>1. count = 0
      BY <1>3, <2>4 DEF MustWait, Empty
    <3> QED BY <1>0, <1>1, <1>3, <2>2, <2>4, <3>1 DEF SleepersKnown, One
  <2> QED BY <2>3, <2>4
<1>4. CASE /\ p # produtor /\ count' = count - 1 /\ UNCHANGED asleep
           /\ pc[p] = "store" /\ pc'[p] = "signal"
  <2>1. Awake' = Awake \ {p}
    BY <1>0, <1>4 DEF Awake
  <2>2. Cardinality(Awake') >= Cardinality(Awake) - 1
    BY <1>1, <2>1, FS_RemoveElement
  <2>3. p \in consumers /\ pc'[produtor] = pc[produtor]
    BY <1>0, <1>4 DEF PlacesSound
  <2> QED BY <1>0, <1>1, <1>4, <2>2, <2>3 DEF SleepersKnown, One
<1>5. CASE /\ p = produtor /\ count' = count + 1 /\ UNCHANGED asleep
           /\ pc[p] = "advance" /\ pc'[p] = "signal"
  <2>1. Awake' = Awake
    BY <1>0, <1>5 DEF Awake
  <2>2. produtor \notin asleep
    BY <1>0, <1>5
  <2> QED BY <1>0, <1>1, <1>5, <2>1, <2>2 DEF SleepersKnown, One
<1>6. CASE /\ Signal(p) /\ UNCHANGED count
           /\ pc[p] = "signal" /\ pc'[p] # "signal"
  <2>1. CASE p = produtor
    <3>1. {q \in asleep : Own(q) = Others(p)} = asleep \cap Consumer
      BY <1>0, <2>1 DEF Own, Others
    <3>2. CASE asleep \cap Consumer = {}
      BY <1>0, <1>6, <2>1, <3>1, <3>2 DEF Signal, WakeOne, SleepersKnown
    <3>3. CASE asleep \cap Consumer # {}
      <4>1. PICK c \in asleep \cap Consumer : asleep' = asleep \ {c}
        BY <1>6, <3>1, <3>3 DEF Signal, WakeOne
      <4>2. Awake' = Awake \cup {c} /\ c \notin Awake
        BY <1>0, <1>6, <2>1, <4>1 DEF Awake
      <4>3. Cardinality(Awake') = Cardinality(Awake) + 1
        BY <1>1, <4>2, FS_AddElement
      <4> QED BY <1>0, <1>1, <1>6, <2>1, <3>3, <4>1, <4>3 DEF SleepersKnown, One
    <3> QED BY <3>2, <3>3
  <2>2. CASE p # produtor
    <3>1. {q \in asleep : Own(q) = Others(p)} = asleep \cap {produtor}
      BY <2>2 DEF Own, Others
    <3>2. asleep' = asleep \ {produtor}
      BY <1>6, <3>1 DEF Signal, WakeOne
    <3>3. Awake \subseteq Awake'
      BY <1>0, <1>6, <2>2, <3>2 DEF Awake
    <3>4. Cardinality(Awake) <= Cardinality(Awake')
      BY <1>1, <3>3, FS_Subset
    <3> QED BY <1>0, <1>1, <1>6, <2>2, <3>2, <3>4 DEF SleepersKnown, One
  <2> QED BY <2>1, <2>2
<1> QED BY <1>2, <1>3, <1>4, <1>5, <1>6 DEF CondStep

\* The invariant of programs with conditions.
SleepersInv == program.wait = "cond" => SleepersKnown

LEMMA SleepersInvStep ==
  ASSUME TypeOK, TypeOK', PlacesSound, Exclusion, SleepersInv, [Next]_vars
  PROVE  SleepersInv'
<1>1. program' = program /\ consumers' = consumers
  BY ProgramStays
<1> SUFFICES ASSUME program.wait = "cond" PROVE SleepersKnown'
  BY <1>1 DEF SleepersInv
<1>2. SleepersKnown
  BY DEF SleepersInv
<1>3. ASSUME NEW p \in Thread, Run(p) PROVE SleepersKnown'
  <2>1. PICK label \in Labels : pc' = [pc EXCEPT ![p] = label]
    BY <1>3, StepMoves DEF MovesTo
  <2>2. CondStep(p)
    BY <1>3, CondSteps
  <2> QED BY <1>1, <1>2, <2>1, <2>2, SleepersStep
<1>4. ASSUME NEW p \in Thread, Idle(p) PROVE SleepersKnown'
  <2>1. Awake \subseteq Awake' /\ asleep' \subseteq asleep
    BY <1>1, <1>4 DEF Idle, Awake
  <2>2. (TypeOK => /\ Awake \subseteq Consumer
                   /\ IsFiniteSet(Awake) /\ Cardinality(Awake) \in Nat)'
    BY AwakeFinite, PTL
  <2>3. Cardinality(Awake) \in Nat
    BY AwakeFinite
  <2>4. Cardinality(Awake) <= Cardinality(Awake')
    BY <2>1, <2>2, FS_Subset
  <2>5. count' = count /\ count \in Int /\ pc' = pc
    BY <1>4 DEF Idle, indices, TypeOK
  <2>6. One(pc[produtor] = "signal") \in Nat
    BY DEF One
  <2> QED BY <1>1, <1>2, <2>1, <2>2, <2>3, <2>4, <2>5, <2>6 DEF SleepersKnown
<1> QED BY <1>3, <1>4, NextSteps

\* No signal is lost in condition_var_solution.c: while a consumer sleeps, there
\* are no more numbers than consumers awake and signals to come; while the
\* producer sleeps, the ring is full or a signal is to come.
THEOREM NoSignalIsLost == Spec => []SignalsReachSleepers
<1>1. Init => SleepersInv
  BY DEF Init, SleepersInv, SleepersKnown
<1>2. TypeOK /\ SleepersInv => SignalsReachSleepers
  <2> SUFFICES ASSUME TypeOK, SleepersKnown, program.wait = "cond"
               PROVE  SignalsReachSleepers
    BY DEF SleepersInv, SignalsReachSleepers
  <2>1. Cardinality({p \in {produtor} : pc[p] = "signal"}) = One(pc[produtor] = "signal")
    <3>1. CASE pc[produtor] = "signal"
      <4>1. {p \in {produtor} : pc[p] = "signal"} = {produtor}
        BY <3>1
      <4> QED BY <3>1, <4>1, FS_Singleton DEF One
    <3>2. CASE pc[produtor] # "signal"
      <4>1. {p \in {produtor} : pc[p] = "signal"} = {}
        BY <3>2
      <4> QED BY <3>2, <4>1, FS_EmptySet DEF One
    <3> QED BY <3>1, <3>2
  <2> QED BY <2>1 DEF SignalsReachSleepers, SleepersKnown, Awake
<1> QED
  BY <1>1, <1>2, InitSound, SoundStep, SleepersInvStep, PTL DEF Spec

============================================================================
