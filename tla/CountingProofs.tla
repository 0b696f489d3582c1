--------------------------- MODULE CountingProofs ---------------------------
(***************************************************************************)
(* Proofs about module Counting: the programs with a lock or with          *)
(* Peterson's algorithm and barriers implement CriticalSection, though     *)
(* their stores reach the memory late; Peterson's algorithm lets nobody    *)
(* pass twice; and what main prints lies between the bounds the module     *)
(* states, in every program, for any number of rounds.                     *)
(*                                                                         *)
(* In the programs with a region the invariant says what a buffer may      *)
(* still hold where its thread is (BuffersSound): nobody enters before its *)
(* own stores are in the memory, and what the last one inside counted may  *)
(* be on its way, but nobody else is there to read it (CounterSound).  In  *)
(* the others it bounds every copy of the counter, in the buffers, in the  *)
(* memory and in the threads (RaceSound).                                  *)
(***************************************************************************)
EXTENDS Counting, WellFoundedInduction, TLAPS

Record == [to : Place, value : Nat]

Label == {"out", "turn", "test_turn", "test_other", "lock", "wait", "asleep",
          "load", "store", "leave", "wake", "done"}

TypeOK ==
  /\ program \in Programs
  /\ pc \in [Process -> Label]
  /\ memory \in [Place -> Nat]
  /\ buffer \in [Process -> Seq(Record)]
  /\ asleep \subseteq Process
  /\ seen \in [Process -> Nat]
  /\ round \in [Process -> 0 .. MAX_COUNT]
  /\ passed \in [Process -> Nat]

\* What the programs have in common.
Shape ==
  /\ program.first \in {"load", "lock", "wait", "out"}
  /\ program.threads \in {2, 4}
  /\ program.fenced \in BOOLEAN /\ program.timeout \in BOOLEAN
  /\ program.add \in {"plain", "merged", "atomic"}
  /\ program.add = "merged" => program.first = "load"
  /\ Locks => program.add = "plain"
  /\ Petersons => program.threads = 2 /\ program.test \in Tests
  /\ program.timeout => Petersons
  /\ Petersons /\ program.add = "atomic" => program.fenced /\ ~program.timeout

\* How often all threads have counted; of the four there are N_THREADS.
Sum(f) == f[0] + f[1] + (IF N_THREADS > 2 THEN f[2] ELSE 0)
                      + (IF N_THREADS > 3 THEN f[3] ELSE 0)

\* Where a thread can be, and whether it has a round left there.
PlacesSound ==
  \A p \in Process :
    /\ pc[p] # "done" => p \in Threads
    /\ pc[p] \in {"out", "turn"} \cup Tests => Petersons
    /\ pc[p] \in {"lock", "wait", "asleep", "wake"} => Locks
    /\ pc[p] = "store" => program.add # "atomic"
    /\ pc[p] \notin {"leave", "wake", "done"} => round[p] < MAX_COUNT
    /\ pc[p] = "done" => round[p] = IF p \in Threads THEN MAX_COUNT ELSE 0

----------------------------------------------------------------------------
(* The programs with a region.                                             *)

\* What is on its way to the memory.
BuffersSound ==
  \A p \in Process : \A i \in DOMAIN buffer[p] :
    \/ pc[p] \in {"out", "turn", "done"} /\ buffer[p][i].to = interested(p)
    \/ pc[p] \in Tests /\ buffer[p][i] = [to |-> turn, value |-> p]
    \/ /\ pc[p] = "leave"
       /\ buffer[p][i] = [to |-> shared_counter, value |-> Sum(round)]

Exclusion == \A p, q \in Process : InRegion(p) /\ InRegion(q) => p = q

LockSound ==
  Locks => (memory[trava] = 0 <=> \A p \in Process : ~InRegion(p))

CounterSound ==
  /\ (\A p \in Process : pc[p] = "leave" => Drained(p))
       => memory[shared_counter] = Sum(round)
  /\ \A p \in Process : pc[p] = "store" => seen[p] = Sum(round)

\* The thread waits for the other, which can see it.
Waiting(p) == pc[p] \in Tests /\ Drained(p)

\* Who waits while the other is in the region, or after it passed it, has the
\* turn, for which the other waits in its turn.
PetersonSound ==
  Petersons =>
    /\ memory[turn] \in {0, 1}
    /\ \A p \in {0, 1} :
         /\ pc[p] \in Tests \/ InRegion(p) \/ (pc[p] = "turn" /\ Drained(p))
              => memory[interested(p)] = 1
         /\ pc[p] = "turn" /\ ~Drained(p) => buffer[p][Len(buffer[p])].value = 1
         /\ Waiting(p) /\ (InRegion(Other(p)) \/ passed[Other(p)] > 0)
              => memory[turn] = p

PassedSound ==
  \A p \in Process : passed[p] \in {0, 1} /\ (passed[p] = 1 => Waiting(p))

RegionSound ==
  /\ BuffersSound /\ Exclusion /\ LockSound /\ CounterSound
  /\ PetersonSound /\ PassedSound

----------------------------------------------------------------------------
(* The programs without.                                                   *)

AtomicSound ==
  /\ \A p \in Process : Drained(p)
  /\ memory[shared_counter] = Sum(round)

\* What a thread that counted n times makes sure of.
AtLeast(n) == IF n < 2 THEN n ELSE 2

\* The copies of the counter that a thread sees or has made.
CopiesSound(p) ==
  /\ Pending(p, shared_counter) # {} => p \in Threads
  /\ \A i \in Pending(p, shared_counter) : buffer[p][i].value \in 1 .. Sum(round)
  /\ \A i \in Pending(p, shared_counter) :
       (\A j \in Pending(p, shared_counter) : j <= i)
         => buffer[p][i].value >= AtLeast(round[p])
  /\ round[p] > 0 /\ Pending(p, shared_counter) = {} => memory[shared_counter] > 0
  /\ pc[p] = "store" => seen[p] <= Sum(round) /\ (round[p] > 0 => seen[p] > 0)

RaceSound ==
  /\ memory[shared_counter] <= Sum(round)
  /\ \A p \in Process : CopiesSound(p)
  /\ \E p \in Threads : \/ Pending(p, shared_counter) # {}
                        \/ memory[shared_counter] >= AtLeast(round[p])

----------------------------------------------------------------------------
Inv ==
  /\ TypeOK
  /\ PlacesSound
  /\ Excludes => RegionSound
  /\ ~Excludes /\ program.add = "atomic" => AtomicSound
  /\ ~Excludes /\ program.add # "atomic" => RaceSound

----------------------------------------------------------------------------
(* The places of the memory are different ones.                            *)

LEMMA PlacesDiffer ==
  /\ turn \in Place /\ shared_counter \in Place /\ trava \in Place
  /\ \A p \in {0, 1} : interested(p) \in Place
  /\ turn # shared_counter /\ turn # trava /\ shared_counter # trava
  /\ \A p : interested(p) \notin {turn, shared_counter, trava}
  /\ interested(0) # interested(1)
BY DEF Place, turn, shared_counter, trava, interested

LEMMA ProgramShape ==
  ASSUME program \in Programs
  PROVE  Shape
<1> USE DEF Shape, Locks, Petersons, Tests
<1>1. CASE program \in {e01_data_race, e01_data_race_silent, e93_data_race_silent,
                        e03_peterson}
  <2>1. program = e01_data_race
    BY <1>1 DEF e01_data_race_silent, e93_data_race_silent, e03_peterson
  <2> QED BY <2>1 DEF e01_data_race
<1>2. CASE program \in {e02_atomic, tarefa5_main, tarefa5_main_atomic, tarefa5_clumsy}
  BY <1>2 DEF e02_atomic, tarefa5_main, tarefa5_main_atomic, tarefa5_clumsy, e01_data_race
<1>3. CASE program \in {thread_counting_mutex, tarefa5_main_mutex, tarefa7_main_sync,
                        peterson, peterson2, peterson3, sync_peterson1, e90_atomic}
  <2>1. program = thread_counting_mutex
    BY <1>3 DEF tarefa5_main_mutex, tarefa7_main_sync, peterson, peterson2, peterson3,
                sync_peterson1, e90_atomic
  <2> QED BY <2>1 DEF thread_counting_mutex
<1>4. CASE program \in {e91_futex, e92_mufutex_silent, e92_mufutex_waf}
  BY <1>4 DEF e91_futex, e92_mufutex_silent, e92_mufutex_waf, thread_counting_mutex
<1>5. CASE program \in {tarefa7_main, tarefa7_main_pragma, tarefa7_clumsy}
  <2>1. program = tarefa7_main
    BY <1>5 DEF tarefa7_main_pragma, tarefa7_clumsy
  <2> QED BY <2>1 DEF tarefa7_main
<1>6. CASE program \in {tarefa7_main_barrier, tarefa7_main_atomic,
                        tarefa7_main_atomicLanguage}
  BY <1>6 DEF tarefa7_main_barrier, tarefa7_main_atomic, tarefa7_main_atomicLanguage,
              tarefa7_main
<1> QED BY <1>1, <1>2, <1>3, <1>4, <1>5, <1>6 DEF Programs

----------------------------------------------------------------------------
(* The sum of the rounds.                                                  *)

LEMMA SumIsNat ==
  ASSUME NEW f \in [Process -> Nat]
  PROVE  Sum(f) \in Nat
<1>1. {0, 1} \subseteq Process
  BY CountingAssumption DEF Process
<1>2. /\ N_THREADS > 2 => 2 \in Process
      /\ N_THREADS > 3 => 3 \in Process
  BY CountingAssumption DEF Process
<1> QED BY <1>1, <1>2 DEF Sum

LEMMA SumGrows ==
  ASSUME NEW f \in [Process -> Nat], NEW p \in Process, NEW n \in Nat
  PROVE  Sum([f EXCEPT ![p] = @ + n]) = Sum(f) + n
<1> DEFINE g == [f EXCEPT ![p] = @ + n]
<1>1. g \in [Process -> Nat] /\ g[p] = f[p] + n /\ \A q \in Process \ {p} : g[q] = f[q]
  OBVIOUS
<1>2. p \in {0, 1, 2, 3} /\ {0, 1} \subseteq Process
  BY CountingAssumption DEF Process
<1>3. /\ N_THREADS > 2 <=> 2 \in Process
      /\ N_THREADS > 3 <=> 3 \in Process
  BY CountingAssumption DEF Process
<1> HIDE DEF g
<1>4. Sum(g) = Sum(f) + n
  BY <1>1, <1>2, <1>3 DEF Sum
<1> QED BY <1>4 DEF g

----------------------------------------------------------------------------
(* The buffers.                                                            *)

LEMMA BufferIs ==
  ASSUME TypeOK, NEW p \in Process
  PROVE  /\ buffer[p] \in Seq(Record) /\ Len(buffer[p]) \in Nat
         /\ DOMAIN buffer[p] = 1 .. Len(buffer[p])
         /\ \A i \in DOMAIN buffer[p] : buffer[p][i] \in Record
         /\ Drained(p) <=> Len(buffer[p]) = 0
         /\ Drained(p) <=> DOMAIN buffer[p] = {}
<1> DEFINE b == buffer[p]
<1>1. b \in Seq(Record)
  BY DEF TypeOK
<1>2. Drained(p) <=> b = <<>>
  BY DEF Drained
<1> HIDE DEF b
<1>3. /\ Len(b) \in Nat /\ DOMAIN b = 1 .. Len(b)
      /\ \A i \in DOMAIN b : b[i] \in Record
  BY <1>1
<1>4. b = <<>> <=> Len(b) = 0
  BY <1>1
<1>5. Len(b) = 0 <=> 1 .. Len(b) = {}
  BY <1>3
<1> QED BY <1>1, <1>2, <1>3, <1>4, <1>5 DEF b

\* A store comes after the others.
LEMMA WriteAppends ==
  ASSUME TypeOK, NEW p \in Process, NEW x \in Place, NEW val \in Nat,
         Write(p, x, val)
  PROVE  /\ buffer' \in [Process -> Seq(Record)]
         /\ \A q \in Process \ {p} : buffer'[q] = buffer[q]
         /\ Len(buffer'[p]) = Len(buffer[p]) + 1
         /\ DOMAIN buffer'[p] = DOMAIN buffer[p] \cup {Len(buffer[p]) + 1}
         /\ \A i \in DOMAIN buffer[p] : buffer'[p][i] = buffer[p][i]
         /\ buffer'[p][Len(buffer[p]) + 1] = [to |-> x, value |-> val]
<1> DEFINE s == [to |-> x, value |-> val]
           b == buffer[p]
<1>1. s \in Record
  BY DEF Record
<1>2. b \in Seq(Record)
  BY DEF TypeOK
<1>3. buffer' = [buffer EXCEPT ![p] = Append(b, s)]
  BY DEF Write
<1>4. buffer'[p] = Append(b, s) /\ \A q \in Process \ {p} : buffer'[q] = buffer[q]
  BY <1>3 DEF TypeOK
<1> HIDE DEF s, b
<1>5. /\ Append(b, s) \in Seq(Record)
      /\ Len(Append(b, s)) = Len(b) + 1 /\ Len(b) \in Nat
      /\ DOMAIN b = 1 .. Len(b) /\ DOMAIN Append(b, s) = 1 .. Len(b) + 1
      /\ \A i \in 1 .. Len(b) : Append(b, s)[i] = b[i]
      /\ Append(b, s)[Len(b) + 1] = s
  BY <1>1, <1>2
<1>6. buffer' \in [Process -> Seq(Record)]
  BY <1>3, <1>5 DEF TypeOK
<1>7. 1 .. Len(b) + 1 = (1 .. Len(b)) \cup {Len(b) + 1}
  BY <1>5
<1> QED BY <1>4, <1>5, <1>6, <1>7 DEF s, b

LEMMA WriteFills ==
  ASSUME TypeOK, NEW p \in Process, NEW x \in Place, NEW val \in Nat, Write(p, x, val)
  PROVE  ~Drained(p)'
<1>1. Len(buffer'[p]) = Len(buffer[p]) + 1 /\ Len(buffer[p]) \in Nat
  BY WriteAppends, BufferIs
<1>2. Drained(p)' => Len(buffer'[p]) = 0
  BY DEF Drained
<1> QED BY <1>1, <1>2

\* The oldest store leaves the buffer.
LEMMA DrainTakesTheFirst ==
  ASSUME TypeOK, NEW p \in Process, Drain(p)
  PROVE  /\ buffer' \in [Process -> Seq(Record)]
         /\ \A q \in Process \ {p} : buffer'[q] = buffer[q]
         /\ Len(buffer[p]) > 0 /\ 1 \in DOMAIN buffer[p]
         /\ Len(buffer'[p]) = Len(buffer[p]) - 1
         /\ \A i \in 1 .. Len(buffer[p]) - 1 : buffer'[p][i] = buffer[p][i + 1]
         /\ DOMAIN buffer'[p] = 1 .. Len(buffer[p]) - 1
         /\ \A i \in DOMAIN buffer'[p] : i + 1 \in DOMAIN buffer[p]
         /\ memory' = [memory EXCEPT ![buffer[p][1].to] = buffer[p][1].value]
         /\ buffer[p][1].to \in Place /\ buffer[p][1].value \in Nat
<1> DEFINE b == buffer[p]
<1>1. b \in Seq(Record) /\ b # <<>>
  BY DEF TypeOK, Drain, Drained
<1>2. buffer' = [buffer EXCEPT ![p] = Tail(b)]
  BY DEF Drain
<1>3. buffer'[p] = Tail(b) /\ \A q \in Process \ {p} : buffer'[q] = buffer[q]
  BY <1>2 DEF TypeOK
<1>4. memory' = [memory EXCEPT ![Head(b).to] = Head(b).value]
  BY DEF Drain
<1> HIDE DEF b
<1>5. /\ Tail(b) \in Seq(Record)
      /\ Len(b) \in Nat \ {0} /\ Len(Tail(b)) = Len(b) - 1
      /\ DOMAIN b = 1 .. Len(b) /\ DOMAIN Tail(b) = 1 .. Len(b) - 1
      /\ \A i \in 1 .. Len(b) - 1 : Tail(b)[i] = b[i + 1]
      /\ Head(b) = b[1]
  BY <1>1
<1>6. buffer' \in [Process -> Seq(Record)]
  BY <1>2, <1>5 DEF TypeOK
<1>7. 1 \in DOMAIN b /\ \A i \in 1 .. Len(b) - 1 : i + 1 \in DOMAIN b
  BY <1>5
<1>8. b[1].to \in Place /\ b[1].value \in Nat
  <2>1. b[1] \in Record
    BY <1>1, <1>7
  <2> QED BY <2>1 DEF Record
<1> QED BY <1>3, <1>4, <1>5, <1>6, <1>7, <1>8 DEF b

\* A non-empty set of places in a sequence has a last one.
LEMMA HasLast ==
  ASSUME NEW n \in Nat, NEW S \in SUBSET (1 .. n), S # {}
  PROVE  \E i \in S : \A j \in S : j <= i
<1> DEFINE R == OpToRel(<, Nat)
           T == {n - i : i \in S}
<1>1. IsWellFoundedOn(R, Nat)
  BY NatLessThanWellFounded
<1>2. \A x, y \in Nat : y < x => <<y, x>> \in R
  BY DEF OpToRel
<1>3. T \subseteq Nat /\ T # {}
  OBVIOUS
<1> HIDE DEF R, T
<1>4. PICK x \in T : \A y \in T : ~(<<y, x>> \in R)
  BY <1>1, <1>3, WFMin
<1>5. PICK i \in S : x = n - i
  BY DEF T
<1>6. ASSUME NEW j \in S PROVE j <= i
  <2>1. n - j \in T
    BY DEF T
  <2>2. ~(n - j < x)
    BY <2>1, <1>2, <1>3, <1>4, Zenon
  <2> QED BY <2>2, <1>5
<1> QED BY <1>6

\* What a thread reads.
LEMMA ReadsMemory ==
  ASSUME TypeOK, NEW p \in Process, NEW x, Drained(p)
  PROVE  Read(p, x) = memory[x]
<1>1. Pending(p, x) = {}
  BY BufferIs DEF Pending
<1> QED BY <1>1 DEF Read

LEMMA ReadsLastStore ==
  ASSUME TypeOK, NEW p \in Process, NEW x, Pending(p, x) # {}
  PROVE  \E i \in Pending(p, x) : /\ \A j \in Pending(p, x) : j <= i
                                  /\ Read(p, x) = buffer[p][i].value
<1>1. Pending(p, x) \in SUBSET (1 .. Len(buffer[p])) /\ Len(buffer[p]) \in Nat
  BY BufferIs DEF Pending
<1>2. \E i \in Pending(p, x) : \A j \in Pending(p, x) : j <= i
  BY <1>1, HasLast
<1>3. /\ Max(Pending(p, x)) \in Pending(p, x)
      /\ \A j \in Pending(p, x) : j <= Max(Pending(p, x))
  BY <1>1, <1>2 DEF Max
<1> QED BY <1>3 DEF Read

----------------------------------------------------------------------------
(* Types and places.                                                       *)

LEMMA InitSound == Init => TypeOK /\ PlacesSound
<1> SUFFICES ASSUME Init PROVE TypeOK /\ PlacesSound
  OBVIOUS
<1> USE DEF Init
<1>1. Shape
  BY ProgramShape
<1>2. program.first \in Label
  BY <1>1 DEF Shape, Label
<1>3. TypeOK
  <2>1. pc \in [Process -> Label]
    BY <1>2 DEF Label
  <2>2. buffer \in [Process -> Seq(Record)]
    OBVIOUS
  <2> QED BY <2>1, <2>2, CountingAssumption DEF TypeOK
<1>4. PlacesSound
  BY <1>1, CountingAssumption DEF PlacesSound, Shape, Threads, Petersons, Locks, Tests
<1> QED BY <1>3, <1>4

LEMMA OtherTestIs ==
  ASSUME NEW l \in Tests
  PROVE  OtherTest(l) \in Tests
BY DEF OtherTest, Tests

\* Where a thread goes after a round.
LEMMA AgainGoesTo ==
  ASSUME TypeOK, PlacesSound, NEW p \in Process, pc[p] \in {"leave", "wake"}, Again(p)
  PROVE  /\ pc' \in [Process -> Label]
         /\ \A q \in Process \ {p} : pc'[q] = pc[q]
         /\ p \in Threads
         /\ \/ round[p] = MAX_COUNT /\ pc'[p] = "done"
            \/ /\ round[p] < MAX_COUNT /\ pc'[p] = program.first
               /\ program.first \in {"load", "lock", "wait", "out"}
<1>1. program.first \in {"load", "lock", "wait", "out"}
  BY ProgramShape DEF TypeOK, Shape
<1>2. round[p] \in 0 .. MAX_COUNT
  BY DEF TypeOK
<1>3. p \in Threads
  BY DEF PlacesSound
<1>4. pc' = [pc EXCEPT ![p] = IF round[p] < MAX_COUNT THEN program.first ELSE "done"]
  BY DEF Again, Goto
<1> QED BY <1>1, <1>2, <1>3, <1>4, CountingAssumption DEF TypeOK, Label

LEMMA TypeStep ==
  ASSUME TypeOK, PlacesSound, NEW p \in Process, Run(p)
  PROVE  TypeOK'
<1>1. Shape
  BY ProgramShape DEF TypeOK
<1>2. pc[p] \in {"out", "turn"} \cup Tests => Petersons /\ p \in {0, 1}
  BY <1>1, CountingAssumption DEF PlacesSound, Shape, Threads, Process, Tests
<1>3. /\ turn \in Place /\ shared_counter \in Place /\ trava \in Place
      /\ p \in {0, 1} => interested(p) \in Place
  BY PlacesDiffer
<1>4. p \in Nat
  BY DEF Process
<1>5. pc[p] \in Tests => OtherTest(pc[p]) \in Label
  BY OtherTestIs DEF Tests, Label
<1>6. ASSUME Enter(p) PROVE pc' \in [Process -> Label] /\ passed' \in [Process -> Nat]
  BY <1>6 DEF Enter, Goto, TypeOK, Label
<1> USE DEF Goto
<1>7. CASE ShowInterest(p)
  <2>1. buffer' \in [Process -> Seq(Record)]
    BY <1>7, <1>2, <1>3, WriteAppends DEF ShowInterest
  <2> QED BY <1>7, <2>1 DEF ShowInterest, TypeOK, Label
<1>8. CASE SetTurn(p)
  <2>1. buffer' \in [Process -> Seq(Record)]
    BY <1>8, <1>3, <1>4, WriteAppends DEF SetTurn
  <2>2. program.test \in Label
    BY <1>1, <1>2, <1>8 DEF SetTurn, Shape, Tests, Label
  <2> QED BY <1>8, <2>1, <2>2 DEF SetTurn, TypeOK
<1>9. CASE Test(p)
  BY <1>9, <1>5, <1>6 DEF Test, TypeOK
<1>10. CASE TimeOut(p)
  BY <1>10, <1>6 DEF TimeOut, TypeOK
<1>11. CASE FutexWait(p) \/ WaitFails(p) \/ Woken(p) \/ LockTaken(p)
  BY <1>11 DEF FutexWait, WaitFails, Woken, LockTaken, TypeOK, Label
<1>12. CASE Lock(p)
  BY <1>12, <1>3 DEF Lock, Exchange, TypeOK, Label
<1>13. CASE Load(p)
  <2>1. Read(p, shared_counter) \in Nat
    <3>1. CASE Pending(p, shared_counter) = {}
      BY <3>1, <1>3 DEF Read, TypeOK
    <3>2. CASE Pending(p, shared_counter) # {}
      <4>1. PICK i \in DOMAIN buffer[p] : Read(p, shared_counter) = buffer[p][i].value
        BY <3>2, ReadsLastStore DEF Pending
      <4> QED BY <4>1, BufferIs DEF Record
    <3> QED BY <3>1, <3>2
  <2> QED BY <1>13, <2>1 DEF Load, TypeOK, Label
<1>14. CASE Store(p)
  <2>1. PICK n \in 1 .. MAX_COUNT - round[p] :
          /\ Write(p, shared_counter, seen[p] + n)
          /\ round' = [round EXCEPT ![p] = @ + n]
    BY <1>14 DEF Store
  <2>2. seen[p] + n \in Nat /\ round[p] + n \in 0 .. MAX_COUNT
    BY <2>1, CountingAssumption DEF TypeOK
  <2>3. buffer' \in [Process -> Seq(Record)]
    BY <2>1, <2>2, <1>3, WriteAppends
  <2>4. round' \in [Process -> 0 .. MAX_COUNT]
    BY <2>1, <2>2 DEF TypeOK
  <2> QED BY <1>14, <2>3, <2>4 DEF Store, TypeOK, Label
<1>15. CASE AtomicAdd(p)
  <2>1. round[p] < MAX_COUNT
    BY <1>15 DEF AtomicAdd, PlacesSound
  <2>2. round[p] + 1 \in 0 .. MAX_COUNT
    BY <2>1, CountingAssumption DEF TypeOK
  <2>3. round' \in [Process -> 0 .. MAX_COUNT]
    BY <2>2, <1>15 DEF AtomicAdd, TypeOK
  <2>4. memory' \in [Place -> Nat]
    BY <1>15, <1>3 DEF AtomicAdd, Exchange, TypeOK
  <2> QED BY <1>15, <2>3, <2>4 DEF AtomicAdd, TypeOK, Label
<1>16. CASE Leave(p)
  <2>1. p \in {0, 1}
    BY <1>16, <1>1, CountingAssumption DEF Leave, PlacesSound, Shape, Threads, Process
  <2>2. buffer' \in [Process -> Seq(Record)]
    BY <2>1, <1>16, <1>3, WriteAppends DEF Leave
  <2>3. pc' \in [Process -> Label]
    BY <1>16, AgainGoesTo DEF Leave
  <2> QED BY <1>16, <2>2, <2>3 DEF Leave, TypeOK
<1>17. CASE NextRound(p)
  <2>1. pc' \in [Process -> Label]
    BY <1>17, AgainGoesTo DEF NextRound
  <2> QED BY <1>17, <2>1 DEF NextRound, TypeOK
<1>18. CASE Unlock(p)
  <2>1. pc' \in [Process -> Label]
    BY <1>18, AgainGoesTo DEF Unlock, TypeOK, Label
  <2>2. memory' \in [Place -> Nat]
    BY <1>18, <1>3 DEF Unlock, Exchange, TypeOK
  <2> QED BY <1>18, <2>1, <2>2 DEF Unlock, TypeOK
<1>19. CASE FutexWake(p)
  <2>1. pc' \in [Process -> Label]
    BY <1>19, AgainGoesTo DEF FutexWake
  <2>2. asleep' \subseteq Process
    BY <1>19 DEF FutexWake, TypeOK
  <2> QED BY <1>19, <2>1, <2>2 DEF FutexWake, TypeOK
<1> QED
  BY <1>7, <1>8, <1>9, <1>10, <1>11, <1>12, <1>13, <1>14, <1>15, <1>16, <1>17,
     <1>18, <1>19 DEF Run, Scheduled

\* What moves one thread only, and the program stays what it is.
LEMMA OneMoves ==
  ASSUME TypeOK, PlacesSound, NEW p \in Process, Run(p)
  PROVE  /\ program' = program
         /\ \A q \in Process \ {p} : /\ pc'[q] = pc[q]
                                     /\ round'[q] = round[q]
                                     /\ seen'[q] = seen[q]
                                     /\ buffer'[q] = buffer[q]
<1> USE DEF Goto
<1>1. ASSUME NEW x, NEW val, Write(p, x, val)
      PROVE  \A q \in Process \ {p} : buffer'[q] = buffer[q]
  BY <1>1 DEF Write, TypeOK
<1>2. CASE ShowInterest(p) \/ SetTurn(p)
  BY <1>1, <1>2 DEF ShowInterest, SetTurn, TypeOK
<1>3. CASE Test(p) \/ TimeOut(p)
  BY <1>3 DEF Test, TimeOut, Enter, TypeOK
<1>4. CASE FutexWait(p) \/ WaitFails(p) \/ Woken(p) \/ Lock(p) \/ LockTaken(p)
  BY <1>4 DEF FutexWait, WaitFails, Woken, Lock, LockTaken, TypeOK
<1>5. CASE Load(p) \/ AtomicAdd(p)
  BY <1>5 DEF Load, AtomicAdd, TypeOK
<1>6. CASE Store(p)
  BY <1>1, <1>6 DEF Store, TypeOK
<1>7. CASE Leave(p) \/ NextRound(p)
  BY <1>1, <1>7 DEF Leave, NextRound, Again, TypeOK
<1>8. CASE Unlock(p) \/ FutexWake(p)
  BY <1>8 DEF Unlock, FutexWake, Again, TypeOK
<1> QED BY <1>2, <1>3, <1>4, <1>5, <1>6, <1>7, <1>8 DEF Run, Scheduled

LEMMA PlacesStep ==
  ASSUME TypeOK, PlacesSound, NEW p \in Process, Run(p)
  PROVE  PlacesSound'
<1> DEFINE Sound(q) ==
      /\ pc[q] # "done" => q \in Threads
      /\ pc[q] \in {"out", "turn"} \cup Tests => Petersons
      /\ pc[q] \in {"lock", "wait", "asleep", "wake"} => Locks
      /\ pc[q] = "store" => program.add # "atomic"
      /\ pc[q] \notin {"leave", "wake", "done"} => round[q] < MAX_COUNT
      /\ pc[q] = "done" => round[q] = IF q \in Threads THEN MAX_COUNT ELSE 0
<1>1. /\ program' = program /\ Threads' = Threads /\ (Petersons <=> Petersons')
      /\ (Locks <=> Locks')
  BY OneMoves DEF Threads, Petersons, Locks
<1>2. ASSUME NEW q \in Process, q # p PROVE Sound(q)'
  <2>1. pc'[q] = pc[q] /\ round'[q] = round[q]
    BY <1>2, OneMoves
  <2> QED BY <2>1, <1>1 DEF PlacesSound
<1>3. Sound(p)'
  <2>1. Sound(p) /\ pc[p] \in Label /\ round[p] \in 0 .. MAX_COUNT
    BY DEF PlacesSound, TypeOK
  <2>2. Shape
    BY ProgramShape DEF TypeOK
  <2>3. CASE ShowInterest(p) \/ SetTurn(p)
    <3>1. pc'[p] \in {"turn"} \cup Tests /\ round'[p] = round[p] /\ Petersons
      BY <2>1, <2>2, <2>3 DEF ShowInterest, SetTurn, Goto, TypeOK, Shape
    <3>2. pc[p] \in {"out", "turn"}
      BY <2>3 DEF ShowInterest, SetTurn
    <3> QED BY <3>1, <3>2, <2>1, <1>1 DEF Tests
  <2>4. CASE Test(p) \/ TimeOut(p)
    <3>1. pc[p] \in Tests
      BY <2>2, <2>4 DEF Test, TimeOut, Shape
    <3>2. pc'[p] \in {"load"} \cup Tests /\ round'[p] = round[p]
      BY <2>4, <3>1, OtherTestIs DEF Test, TimeOut, Enter, Goto, TypeOK
    <3> QED BY <3>1, <3>2, <2>1, <1>1 DEF Tests
  <2>5. CASE FutexWait(p) \/ WaitFails(p) \/ Woken(p) \/ Lock(p) \/ LockTaken(p)
    <3>1. /\ pc[p] \in {"lock", "wait", "asleep"} /\ round'[p] = round[p]
          /\ pc'[p] \in {"lock", "wait", "asleep", "load"}
      BY <2>5 DEF FutexWait, WaitFails, Woken, Lock, LockTaken, Goto, TypeOK
    <3> QED BY <3>1, <2>1, <1>1 DEF Tests
  <2>6. CASE Load(p)
    <3>1. pc[p] = "load" /\ pc'[p] = "store" /\ round'[p] = round[p] /\ program.add # "atomic"
      BY <2>6 DEF Load, Goto, TypeOK
    <3> QED BY <3>1, <2>1, <1>1 DEF Tests
  <2>7. CASE Store(p) \/ AtomicAdd(p)
    <3>1. pc[p] \in {"load", "store"} /\ pc'[p] = "leave"
      BY <2>7 DEF Store, AtomicAdd, Goto, TypeOK
    <3> QED BY <3>1, <2>1, <1>1 DEF Tests
  <2>8. ASSUME pc[p] \in {"leave", "wake"}, Again(p), round'[p] = round[p]
        PROVE  Sound(p)'
    <3>1. /\ p \in Threads
          /\ \/ round[p] = MAX_COUNT /\ pc'[p] = "done"
             \/ /\ round[p] < MAX_COUNT /\ pc'[p] = program.first
                /\ program.first \in {"load", "lock", "wait", "out"}
      BY <2>8, AgainGoesTo
    <3> QED BY <3>1, <2>8, <1>1 DEF Tests, Petersons, Locks
  <2>9. CASE Leave(p) \/ NextRound(p) \/ FutexWake(p)
    BY <2>8, <2>9 DEF Leave, NextRound, FutexWake
  <2>10. CASE Unlock(p)
    <3>1. CASE Again(p)
      BY <2>8, <2>10, <3>1 DEF Unlock
    <3>2. CASE ~Again(p)
      <4>1. pc[p] = "leave" /\ pc'[p] = "wake" /\ round'[p] = round[p] /\ Locks
        BY <3>2, <2>10 DEF Unlock, Goto, TypeOK
      <4> QED BY <4>1, <2>1, <1>1 DEF Tests
    <3> QED BY <3>1, <3>2
  <2> QED BY <2>3, <2>4, <2>5, <2>6, <2>7, <2>9, <2>10 DEF Run, Scheduled
<1> QED BY <1>2, <1>3 DEF PlacesSound

----------------------------------------------------------------------------
(* When a buffer drains.                                                   *)

LEMMA DrainKeepsTypes ==
  ASSUME TypeOK, PlacesSound, NEW p \in Process, Drain(p)
  PROVE  TypeOK' /\ PlacesSound'
<1>1. /\ buffer' \in [Process -> Seq(Record)]
      /\ memory' = [memory EXCEPT ![buffer[p][1].to] = buffer[p][1].value]
      /\ buffer[p][1].to \in Place /\ buffer[p][1].value \in Nat
  BY DrainTakesTheFirst
<1>2. UNCHANGED <<program, pc, asleep, seen, round, passed>>
  BY DEF Drain
<1>3. memory' \in [Place -> Nat]
  BY <1>1 DEF TypeOK
<1>4. TypeOK'
  BY <1>1, <1>2, <1>3 DEF TypeOK
<1>5. PlacesSound'
  BY <1>2 DEF PlacesSound, Threads, Petersons, Locks
<1> QED BY <1>4, <1>5

----------------------------------------------------------------------------
(* Atomic additions.                                                       *)

\* An atomic addition is made at once.
LEMMA AtomicStep ==
  ASSUME TypeOK, PlacesSound, ~Excludes, program.add = "atomic", AtomicSound,
         NEW p \in Process, Run(p) \/ Drain(p)
  PROVE  AtomicSound'
<1>1. ~Petersons /\ ~Locks
  BY ProgramShape DEF TypeOK, Shape, Excludes
<1>2. pc[p] \in {"load", "leave", "done"}
  BY <1>1 DEF PlacesSound, TypeOK, Label, Tests
<1>3. round \in [Process -> Nat] /\ shared_counter \in Place
  BY PlacesDiffer, CountingAssumption DEF TypeOK
<1>4. CASE Drain(p)
  BY <1>4 DEF AtomicSound, Drain
<1>5. CASE AtomicAdd(p)
  <2>1. round' = [round EXCEPT ![p] = @ + 1] /\ UNCHANGED buffer
    BY <1>5 DEF AtomicAdd
  <2>2. memory'[shared_counter] = memory[shared_counter] + 1
    BY <1>5, <1>3 DEF AtomicAdd, Exchange, TypeOK
  <2>3. Sum(round') = Sum(round) + 1
    BY <2>1, <1>3, SumGrows
  <2> QED BY <2>1, <2>2, <2>3 DEF AtomicSound, Drained
<1>6. CASE NextRound(p)
  BY <1>6 DEF NextRound, AtomicSound, Drained
<1>7. pc[p] \notin Tests /\ (TimeOut(p) => pc[p] \in Tests)
  BY <1>1, <1>2, ProgramShape DEF Tests, TimeOut, Shape, TypeOK
<1> QED
  BY <1>1, <1>2, <1>4, <1>5, <1>6, <1>7
  DEF Run, Scheduled, ShowInterest, SetTurn, Test, FutexWait, WaitFails, Woken, Lock,
      LockTaken, Load, Store, Leave, Unlock, FutexWake

----------------------------------------------------------------------------
(* Races.                                                                  *)

LEMMA WritePends ==
  ASSUME TypeOK, NEW p \in Process, NEW x \in Place, NEW val \in Nat,
         Write(p, x, val), NEW y
  PROVE  Pending(p, y)' = IF x = y THEN Pending(p, y) \cup {Len(buffer[p]) + 1}
                                   ELSE Pending(p, y)
<1> DEFINE last == Len(buffer[p]) + 1
<1>1. /\ DOMAIN buffer'[p] = DOMAIN buffer[p] \cup {last}
      /\ \A i \in DOMAIN buffer[p] : buffer'[p][i] = buffer[p][i]
      /\ buffer'[p][last] = [to |-> x, value |-> val]
  BY WriteAppends
<1>2. last \notin DOMAIN buffer[p]
  BY BufferIs
<1> HIDE DEF last
<1>3. buffer'[p][last].to = x
  BY <1>1
<1>4. Pending(p, y)' = {i \in DOMAIN buffer'[p] : buffer'[p][i].to = y}
  BY DEF Pending
<1> QED BY <1>1, <1>2, <1>3, <1>4 DEF Pending, last

LEMMA DrainPends ==
  ASSUME TypeOK, NEW p \in Process, Drain(p), NEW y
  PROVE  \A i : i \in Pending(p, y)' <=> i \in Nat \ {0} /\ i + 1 \in Pending(p, y)
<1>1. /\ Len(buffer[p]) \in Nat \ {0}
      /\ \A i \in 1 .. Len(buffer[p]) - 1 : buffer'[p][i] = buffer[p][i + 1]
      /\ DOMAIN buffer'[p] = 1 .. Len(buffer[p]) - 1
      /\ DOMAIN buffer[p] = 1 .. Len(buffer[p])
  BY DrainTakesTheFirst, BufferIs
<1> QED BY <1>1 DEF Pending

\* A step that has nothing to do with the counter.
LEMMA RaceElsewhere ==
  ASSUME TypeOK, RaceSound, NEW p \in Process, UNCHANGED <<program, memory, seen, round>>,
         \A q \in Process \ {p} : pc'[q] = pc[q],
         pc'[p] # "store",
         \A q \in Process :
           /\ Pending(q, shared_counter)' = Pending(q, shared_counter)
           /\ \A i \in Pending(q, shared_counter) : buffer'[q][i] = buffer[q][i]
  PROVE  RaceSound'
<1>1. Threads' = Threads
  BY DEF Threads
<1>2. ASSUME NEW q \in Process PROVE CopiesSound(q)'
  BY <1>1 DEF RaceSound, CopiesSound
<1>3. Threads \subseteq Process
  BY DEF Threads
<1> QED BY <1>1, <1>2, <1>3 DEF RaceSound

LEMMA RaceStep ==
  ASSUME TypeOK, TypeOK', PlacesSound, ~Excludes, program.add # "atomic", RaceSound,
         NEW p \in Process, Run(p)
  PROVE  RaceSound'
<1>1. ~Locks
  BY DEF Excludes
<1>2. /\ shared_counter \in Place /\ turn \in Place /\ turn # shared_counter
      /\ interested(p) # shared_counter
      /\ p \in {0, 1} => interested(p) \in Place
  BY PlacesDiffer
<1>3. Petersons /\ pc[p] # "done" => p \in {0, 1}
  <2>1. Petersons => program.threads = 2
    BY ProgramShape DEF TypeOK, Shape
  <2>2. pc[p] # "done" => p < program.threads
    BY DEF PlacesSound, Threads
  <2> QED BY <2>1, <2>2 DEF Process
<1>4. round \in [Process -> Nat] /\ Sum(round) \in Nat
  BY SumIsNat, CountingAssumption DEF TypeOK
<1>5. /\ program' = program /\ Threads' = Threads
      /\ \A q \in Process \ {p} : /\ pc'[q] = pc[q] /\ round'[q] = round[q]
                                  /\ seen'[q] = seen[q] /\ buffer'[q] = buffer[q]
  BY OneMoves DEF Threads
<1>6. \A q \in Process \ {p} : Pending(q, shared_counter)' = Pending(q, shared_counter)
  BY <1>5 DEF Pending
<1>7. ASSUME UNCHANGED <<memory, seen, round, buffer>>, pc'[p] # "store" PROVE RaceSound'
  <2>1. \A q \in Process : Pending(q, shared_counter)' = Pending(q, shared_counter)
    BY <1>7 DEF Pending
  <2> QED BY <2>1, <1>5, <1>7, RaceElsewhere
<1>8. ASSUME UNCHANGED <<memory, seen, round>>, pc'[p] # "store", NEW x \in Place,
             x # shared_counter, NEW val \in Nat, Write(p, x, val)
      PROVE  RaceSound'
  <2>1. Pending(p, shared_counter)' = Pending(p, shared_counter)
    BY <1>8, WritePends
  <2>2. \A i \in Pending(p, shared_counter) : buffer'[p][i] = buffer[p][i]
    BY <1>8, WriteAppends DEF Pending
  <2>3. \A q \in Process : /\ Pending(q, shared_counter)' = Pending(q, shared_counter)
                           /\ \A i \in Pending(q, shared_counter) : buffer'[q][i] = buffer[q][i]
    BY <2>1, <2>2, <1>5, <1>6
  <2> QED BY <2>3, <1>5, <1>8, RaceElsewhere
<1>9. CASE ShowInterest(p) \/ SetTurn(p) \/ Leave(p)
  <2>1. /\ UNCHANGED <<memory, seen, round>>
        /\ Write(p, interested(p), 1) \/ Write(p, turn, p) \/ Write(p, interested(p), 0)
    BY <1>9 DEF ShowInterest, SetTurn, Leave
  <2>2. p \in {0, 1}
    BY <1>9, <1>3 DEF ShowInterest, SetTurn, Leave, PlacesSound
  <2>3. pc'[p] # "store"
    BY <1>9, AgainGoesTo, ProgramShape
    DEF ShowInterest, SetTurn, Leave, Goto, TypeOK, Shape, PlacesSound, Tests
  <2> QED BY <2>1, <2>2, <2>3, <1>2, <1>8
<1>10. CASE Test(p) \/ TimeOut(p)
  <2>1. pc'[p] # "store"
    BY <1>10, OtherTestIs DEF Test, TimeOut, Enter, Goto, Tests, TypeOK
  <2> QED BY <2>1, <1>7, <1>10 DEF Test, TimeOut
<1>11. CASE NextRound(p)
  <2>1. pc'[p] # "store"
    BY <1>11, AgainGoesTo DEF NextRound
  <2> QED BY <2>1, <1>7, <1>11 DEF NextRound
<1>12. CASE Load(p)
  <2>1. Read(p, shared_counter) <= Sum(round)
        /\ (round[p] > 0 => Read(p, shared_counter) > 0)
    <3>1. CASE Pending(p, shared_counter) = {}
      BY <3>1 DEF Read, RaceSound, CopiesSound
    <3>2. CASE Pending(p, shared_counter) # {}
      <4>1. PICK i \in Pending(p, shared_counter) :
               Read(p, shared_counter) = buffer[p][i].value
        BY <3>2, ReadsLastStore
      <4>2. buffer[p][i].value \in 1 .. Sum(round)
        BY DEF RaceSound, CopiesSound
      <4> QED BY <4>1, <4>2, <1>4
    <3> QED BY <3>1, <3>2
  <2>2. UNCHANGED <<memory, round, buffer>> /\ seen'[p] = Read(p, shared_counter)
    BY <1>12 DEF Load, TypeOK
  <2>3. \A q \in Process : Pending(q, shared_counter)' = Pending(q, shared_counter)
    BY <2>2 DEF Pending
  <2>4. ASSUME NEW q \in Process PROVE CopiesSound(q)'
    BY <2>1, <2>2, <2>3, <1>5 DEF RaceSound, CopiesSound
  <2> QED BY <2>2, <2>3, <2>4, <1>5 DEF RaceSound, Threads
<1>13. CASE Store(p)
  <2>1. PICK n \in 1 .. MAX_COUNT - round[p] :
          /\ Write(p, shared_counter, seen[p] + n)
          /\ round' = [round EXCEPT ![p] = @ + n]
    BY <1>13 DEF Store
  <2>2. n \in Nat \ {0} /\ seen[p] \in Nat /\ round[p] \in Nat /\ seen[p] + n \in Nat
    BY <1>4, CountingAssumption DEF TypeOK
  <2>3. /\ pc[p] = "store" /\ pc'[p] = "leave" /\ UNCHANGED memory /\ p \in Threads
    BY <1>13 DEF Store, Goto, TypeOK, PlacesSound
  <2>4. Sum(round') = Sum(round) + n /\ round'[p] = round[p] + n
    BY <2>1, <2>2, <1>4, SumGrows
  <2>5. seen[p] <= Sum(round) /\ (round[p] > 0 => seen[p] > 0)
    BY <2>3 DEF RaceSound, CopiesSound
  <2> DEFINE last == Len(buffer[p]) + 1
  <2>6. /\ Pending(p, shared_counter)' = Pending(p, shared_counter) \cup {last}
        /\ \A i \in Pending(p, shared_counter) : buffer'[p][i] = buffer[p][i] /\ i < last
        /\ buffer'[p][last].value = seen[p] + n
        /\ last \in Nat
    <3>1. Pending(p, shared_counter)' = Pending(p, shared_counter) \cup {last}
      BY <2>1, <2>2, <1>2, WritePends
    <3>2. /\ \A i \in DOMAIN buffer[p] : buffer'[p][i] = buffer[p][i]
          /\ buffer'[p][last] = [to |-> shared_counter, value |-> seen[p] + n]
      BY <2>1, <2>2, <1>2, WriteAppends
    <3>3. last \in Nat /\ \A i \in DOMAIN buffer[p] : i < last
      BY BufferIs
    <3>4. Pending(p, shared_counter) \subseteq DOMAIN buffer[p]
      BY DEF Pending
    <3>5. buffer'[p][last].value = seen[p] + n
      BY <3>2
    <3> HIDE DEF last
    <3> QED BY <3>1, <3>2, <3>3, <3>4, <3>5
  <2> HIDE DEF last
  <2>7. memory[shared_counter] \in Nat
    BY <1>2 DEF TypeOK
  <2>8. /\ seen[p] + n \in 1 .. Sum(round')
        /\ seen[p] + n >= AtLeast(round'[p])
    BY <2>2, <2>4, <2>5, <1>4 DEF AtLeast
  <2>9. CopiesSound(p)'
    <3>1. \A i \in Pending(p, shared_counter)' : buffer'[p][i].value \in 1 .. Sum(round')
      BY <2>2, <2>4, <2>6, <2>8, <1>4 DEF RaceSound, CopiesSound
    <3>2. \A i \in Pending(p, shared_counter)' :
            (\A j \in Pending(p, shared_counter)' : j <= i)
              => buffer'[p][i].value >= AtLeast(round'[p])
      <4>1. \A i \in Pending(p, shared_counter) : ~(last <= i)
        BY <2>6, BufferIs DEF Pending
      <4> QED BY <4>1, <2>6, <2>8
    <3> QED BY <3>1, <3>2, <2>3, <2>6, <1>5 DEF CopiesSound
  <2>10. ASSUME NEW q \in Process \ {p} PROVE CopiesSound(q)'
    <3>1. \A i \in Pending(q, shared_counter) : buffer[q][i].value \in 1 .. Sum(round')
      BY <2>2, <2>4, <1>4 DEF RaceSound, CopiesSound
    <3>2. seen[q] \in Nat
      BY DEF TypeOK
    <3> QED BY <3>1, <3>2, <2>2, <2>3, <2>4, <1>4, <1>5, <1>6 DEF RaceSound, CopiesSound
  <2>11. memory[shared_counter] <= Sum(round')
    BY <2>2, <2>4, <2>7, <1>4 DEF RaceSound
  <2> QED BY <2>3, <2>6, <2>9, <2>10, <2>11, <1>5 DEF RaceSound
<1>14. pc[p] \notin {"lock", "wait", "asleep", "wake"}
  BY <1>1 DEF PlacesSound
<1> QED
  BY <1>1, <1>9, <1>10, <1>11, <1>12, <1>13, <1>14
  DEF Run, Scheduled, FutexWait, WaitFails, Woken, Lock, LockTaken, AtomicAdd, Unlock, FutexWake

\* The last store of a thread to the counter that reaches the memory is that
\* of its last round.
LEMMA RaceDrain ==
  ASSUME TypeOK, RaceSound, NEW p \in Process, Drain(p)
  PROVE  RaceSound'
<1> DEFINE s == buffer[p][1]
           x == shared_counter
<1>1. /\ \A q \in Process \ {p} : buffer'[q] = buffer[q]
      /\ 1 \in DOMAIN buffer[p]
      /\ \A i \in DOMAIN buffer'[p] : buffer'[p][i] = buffer[p][i + 1]
      /\ memory' = [memory EXCEPT ![s.to] = s.value]
      /\ s.to \in Place /\ s.value \in Nat
  BY DrainTakesTheFirst
<1>2. UNCHANGED <<program, pc, seen, round>> /\ Threads' = Threads
  BY DEF Drain, Threads
<1>3. \A i : i \in Pending(p, x)' <=> i \in Nat \ {0} /\ i + 1 \in Pending(p, x)
  BY DrainPends
<1>4. \A i \in Pending(p, x)' : buffer'[p][i] = buffer[p][i + 1]
  BY <1>1 DEF Pending
<1>5. \A q \in Process \ {p} : Pending(q, x)' = Pending(q, x)
  BY <1>1 DEF Pending
<1>6. x \in Place /\ memory[x] \in Nat
  BY PlacesDiffer DEF TypeOK
<1>7. memory'[x] = IF s.to = x THEN s.value ELSE memory[x]
  BY <1>1, <1>6 DEF TypeOK
<1>8. s.to = x <=> 1 \in Pending(p, x)
  BY <1>1 DEF Pending
<1>9. Pending(p, x) \subseteq Nat \ {0} /\ round \in [Process -> Nat] /\ Sum(round) \in Nat
  BY BufferIs, SumIsNat, CountingAssumption DEF Pending, TypeOK
<1>10. \A q \in Process : CopiesSound(q)
  BY DEF RaceSound
<1> HIDE DEF s, x
<1>11. memory'[x] <= Sum(round)
  <2>1. 1 \in Pending(p, x) => s.value \in 1 .. Sum(round)
    BY <1>10 DEF CopiesSound, s, x
  <2> QED BY <2>1, <1>7, <1>8, <1>9 DEF RaceSound, x
<1>12. s.to = x => memory'[x] > 0
  <2>1. 1 \in Pending(p, x) => s.value \in 1 .. Sum(round)
    BY <1>10 DEF CopiesSound, s, x
  <2> QED BY <2>1, <1>7, <1>8, <1>9
<1>13. ASSUME NEW q \in Process \ {p} PROVE CopiesSound(q)'
  BY <1>1, <1>2, <1>5, <1>7, <1>10, <1>12 DEF CopiesSound, x
<1>14. ASSUME \A j \in Pending(p, x)' : FALSE, 1 \in Pending(p, x)
       PROVE  s.value >= AtLeast(round[p])
  <2>1. ASSUME NEW j \in Pending(p, x) PROVE j <= 1
    <3>1. j - 1 \in Nat /\ (j - 1) + 1 = j
      BY <1>9
    <3>2. j - 1 \notin Nat \ {0}
      BY <3>1, <1>3, <1>14
    <3> QED BY <3>1, <3>2, <1>9
  <2> QED BY <2>1, <1>10, <1>14 DEF CopiesSound, s, x
<1>15. CopiesSound(p)'
  <2>1. \A i \in Pending(p, x)' : buffer'[p][i].value \in 1 .. Sum(round)
    BY <1>3, <1>4, <1>10 DEF CopiesSound, x
  <2>2. ASSUME NEW i \in Pending(p, x)', \A j \in Pending(p, x)' : j <= i
        PROVE  buffer'[p][i].value >= AtLeast(round[p])
    <3>1. i + 1 \in Pending(p, x) /\ i \in Nat \ {0}
      BY <1>3
    <3>2. \A j \in Pending(p, x) : j <= i + 1
      <4>1. \A j \in Pending(p, x) : j = 1 \/ (j - 1 \in Nat \ {0} /\ (j - 1) + 1 \in Pending(p, x))
        BY <1>9
      <4>2. \A j \in Pending(p, x) : j = 1 \/ j - 1 \in Pending(p, x)'
        BY <4>1, <1>3
      <4> QED BY <4>2, <2>2, <3>1, <1>9
    <3> QED BY <3>1, <3>2, <1>4, <1>10 DEF CopiesSound, x
  <2>3. Pending(p, x)' # {} => p \in Threads
    BY <1>3, <1>10 DEF CopiesSound, x
  <2>4. round[p] > 0 /\ Pending(p, x)' = {} => memory'[x] > 0
    <3>1. CASE s.to = x
      BY <3>1, <1>12
    <3>2. CASE s.to # x
      <4>1. \A j \in Pending(p, x) : j - 1 \in Pending(p, x)'
        <5>1. \A j \in Pending(p, x) : j - 1 \in Nat \ {0} /\ (j - 1) + 1 \in Pending(p, x)
          BY <3>2, <1>8, <1>9
        <5> QED BY <5>1, <1>3
      <4> QED BY <4>1, <3>2, <1>7, <1>10 DEF CopiesSound, x
    <3> QED BY <3>1, <3>2
  <2> QED BY <2>1, <2>2, <2>3, <2>4, <1>2, <1>10 DEF CopiesSound, x
<1>16. \E q \in Threads : Pending(q, x)' # {} \/ memory'[x] >= AtLeast(round[q])
  <2>1. PICK q \in Threads : Pending(q, x) # {} \/ memory[x] >= AtLeast(round[q])
    BY DEF RaceSound, x
  <2>2. CASE s.to = x
    <3>1. p \in Threads
      BY <2>2, <1>8, <1>10 DEF CopiesSound, x
    <3> QED BY <3>1, <2>2, <1>7, <1>8, <1>14
  <2>3. CASE s.to # x
    <3>1. \A j \in Pending(p, x) : j - 1 \in Pending(p, x)'
      <4>1. \A j \in Pending(p, x) : j - 1 \in Nat \ {0} /\ (j - 1) + 1 \in Pending(p, x)
        BY <2>3, <1>8, <1>9
      <4> QED BY <4>1, <1>3
    <3>2. q \in Process
      BY DEF Threads
    <3> QED BY <3>1, <3>2, <2>1, <2>3, <1>5, <1>7
  <2> QED BY <2>2, <2>3
<1> QED BY <1>2, <1>11, <1>13, <1>15, <1>16 DEF RaceSound, x

----------------------------------------------------------------------------
(* The programs with a region: what follows from the invariant.            *)

\* A thread of Peterson's algorithm is one of two.
LEMMA TwoThreads ==
  ASSUME TypeOK, PlacesSound, Petersons, NEW p \in Process, pc[p] # "done"
  PROVE  p \in {0, 1} /\ Other(p) \in {0, 1} /\ Other(p) # p
<1>1. program.threads = 2
  BY ProgramShape DEF TypeOK, Shape
<1>2. p \in Nat /\ p < 2
  BY <1>1 DEF PlacesSound, Threads, Process
<1> QED BY <1>2 DEF Other

\* Where a thread has no store under way.
LEMMA DrainedAt ==
  ASSUME TypeOK, BuffersSound, NEW p \in Process,
         pc[p] \in {"lock", "wait", "asleep", "wake", "load", "store"}
  PROVE  Drained(p)
<1>1. pc[p] \notin Tests
  BY DEF Tests
<1>2. DOMAIN buffer[p] = {}
  BY <1>1 DEF BuffersSound
<1> QED BY <1>2, BufferIs

\* Who is in the region, with nothing under way, sees all that was counted.
LEMMA RegionSees ==
  ASSUME TypeOK, RegionSound, NEW p \in Process, InRegion(p), Drained(p)
  PROVE  memory[shared_counter] = Sum(round)
<1>1. \A q \in Process : pc[q] = "leave" => q = p
  BY DEF RegionSound, Exclusion, InRegion
<1> QED BY <1>1 DEF RegionSound, CounterSound

\* These programs have barriers where they need them, and no timeout.
LEMMA RegionPrograms ==
  ASSUME TypeOK, Excludes
  PROVE  /\ Petersons \/ Locks
         /\ ~(Petersons /\ Locks)
         /\ Petersons => program.fenced
         /\ ~program.timeout
         /\ program.add # "merged"
BY ProgramShape DEF TypeOK, Excludes, Shape, Petersons, Locks

\* Who passes the test finds nobody in the region, and the turn of the other
\* if it waits.
LEMMA TestExcludes ==
  ASSUME TypeOK, PlacesSound, Excludes, RegionSound, NEW p \in Process,
         pc[p] \in Tests, Drained(p), ~Waits(p)
  PROVE  /\ \A q \in Process : ~InRegion(q)
         /\ \A q \in Process \ {p} :
              Waiting(q) => memory[turn] = q /\ passed[q] = 0
<1>1. Petersons /\ pc[p] # "done"
  BY DEF PlacesSound, Tests
<1>2. p \in {0, 1} /\ Other(p) \in {0, 1} /\ Other(p) # p
  BY <1>1, TwoThreads
<1>3. Read(p, turn) = memory[turn]
      /\ Read(p, interested(Other(p))) = memory[interested(Other(p))]
  BY ReadsMemory
<1>4. IF pc[p] = "test_turn" THEN memory[turn] # p
                             ELSE memory[interested(Other(p))] # 1
  BY <1>3 DEF Waits
<1>5. Waiting(p)
  BY DEF Waiting
<1>6a. \A a \in {0, 1} :
         /\ pc[a] \in Tests \/ InRegion(a) => memory[interested(a)] = 1
         /\ Waiting(a) /\ (InRegion(Other(a)) \/ passed[Other(a)] > 0) => memory[turn] = a
  BY <1>1 DEF RegionSound, PetersonSound
<1>6. ASSUME NEW q \in Process, InRegion(q) PROVE FALSE
  <2>1. q # p /\ pc[q] # "done"
    BY <1>6 DEF InRegion, Tests
  <2>2. q = Other(p)
    BY <2>1, <1>1, <1>2, TwoThreads
  <2>3. /\ InRegion(Other(p)) => memory[interested(Other(p))] = 1
        /\ Waiting(p) /\ InRegion(Other(p)) => memory[turn] = p
    BY <1>2, <1>6a
  <2> QED BY <2>2, <2>3, <1>4, <1>5, <1>6
<1>7. ASSUME NEW q \in Process \ {p}, Waiting(q) PROVE memory[turn] = q /\ passed[q] = 0
  <2>1. pc[q] \in Tests /\ pc[q] # "done"
    BY <1>7 DEF Waiting, Tests
  <2>2. q = Other(p) /\ p = Other(q) /\ q \in {0, 1}
    BY <2>1, <1>1, <1>2, TwoThreads DEF Other
  <2>3. memory[interested(Other(p))] = 1
    BY <2>1, <2>2, <1>6a
  <2>4. memory[turn] # p /\ memory[turn] \in {0, 1}
    BY <2>3, <1>1, <1>4 DEF RegionSound, PetersonSound
  <2>5. ~(passed[q] > 0)
    BY <2>2, <2>4, <1>1, <1>2, <1>5 DEF RegionSound, PetersonSound
  <2>6. passed[q] \in {0, 1}
    BY DEF RegionSound, PassedSound
  <2> QED BY <2>2, <2>4, <2>5, <2>6, <1>2
<1> QED BY <1>6, <1>7

----------------------------------------------------------------------------
(* What a step does in these programs.                                     *)

Shows(p) ==
  /\ pc[p] = "out" /\ pc'[p] = "turn"
  /\ Write(p, interested(p), 1)
  /\ UNCHANGED <<memory, round, seen, passed>>

TakesTurn(p) ==
  /\ pc[p] = "turn" /\ pc'[p] \in Tests /\ Drained(p)
  /\ Write(p, turn, p)
  /\ UNCHANGED <<memory, round, seen, passed>>

Asks(p) ==
  /\ pc[p] \in Tests /\ pc'[p] \in Tests /\ Drained(p)
  /\ UNCHANGED <<memory, buffer, round, seen, passed>>

Passes(p) ==
  /\ pc[p] \in Tests /\ pc'[p] = "load" /\ Drained(p)
  /\ ~Waits(p)
  /\ Enter(p)
  /\ UNCHANGED <<memory, buffer, round, seen>>

\* Outside of the region, with the word or the queue.
Queues(p) ==
  /\ pc[p] \in {"lock", "wait", "asleep", "wake"}
  /\ pc'[p] \in {"lock", "wait", "asleep", "done"}
  /\ UNCHANGED <<memory, buffer, round, seen, passed>>

Locked(p) ==
  /\ pc[p] = "lock" /\ pc'[p] = "load" /\ memory[trava] = 0
  /\ memory' = [memory EXCEPT ![trava] = 1]
  /\ UNCHANGED <<buffer, round, seen, passed>>

Loads(p) ==
  /\ pc[p] = "load" /\ pc'[p] = "store"
  /\ seen'[p] = Sum(round)
  /\ UNCHANGED <<memory, buffer, round, passed>>

Stores(p) ==
  /\ pc[p] = "store" /\ pc'[p] = "leave" /\ Drained(p)
  /\ round' = [round EXCEPT ![p] = @ + 1]
  /\ Write(p, shared_counter, Sum(round) + 1)
  /\ UNCHANGED <<memory, passed>>

Adds(p) ==
  /\ pc[p] = "load" /\ pc'[p] = "leave" /\ Drained(p)
  /\ round' = [round EXCEPT ![p] = @ + 1]
  /\ memory' = [memory EXCEPT ![shared_counter] = Sum(round) + 1]
  /\ UNCHANGED <<buffer, seen, passed>>

Leaves(p) ==
  /\ pc[p] = "leave" /\ pc'[p] \in {"out", "done"} /\ Drained(p) /\ Petersons
  /\ Write(p, interested(p), 0)
  /\ UNCHANGED <<memory, round, seen, passed>>

Unlocks(p) ==
  /\ pc[p] = "leave" /\ pc'[p] \in {"lock", "wait", "wake", "done"}
  /\ Drained(p) /\ Locks
  /\ memory' = [memory EXCEPT ![trava] = 0]
  /\ UNCHANGED <<buffer, round, seen, passed>>

LEMMA RegionStep ==
  ASSUME TypeOK, PlacesSound, Excludes, RegionSound, NEW p \in Process, Run(p)
  PROVE  \/ Shows(p) \/ TakesTurn(p) \/ Asks(p) \/ Passes(p)
         \/ Queues(p) \/ Locked(p)
         \/ Loads(p) \/ Stores(p) \/ Adds(p)
         \/ Leaves(p) \/ Unlocks(p)
<1>1. /\ Petersons \/ Locks
      /\ ~(Petersons /\ Locks)
      /\ Petersons => program.fenced
      /\ ~program.timeout
      /\ program.add # "merged"
  BY RegionPrograms
<1>2. Shape
  BY ProgramShape DEF TypeOK
<1> USE DEF Goto
<1>3. CASE ShowInterest(p)
  BY <1>3 DEF ShowInterest, TypeOK, Shows
<1>4. CASE SetTurn(p)
  <2>1. Petersons
    BY <1>4 DEF SetTurn, PlacesSound
  <2> QED BY <2>1, <1>1, <1>2, <1>4 DEF SetTurn, Barrier, Shape, TypeOK, TakesTurn
<1>5. CASE Test(p)
  <2>1. Petersons
    BY <1>5 DEF Test, PlacesSound
  <2>2. Drained(p) /\ pc[p] \in Tests
    BY <2>1, <1>1, <1>5 DEF Test, Barrier
  <2>3. CASE Waits(p)
    <3>1. pc'[p] \in Tests /\ UNCHANGED passed
      BY <2>2, <2>3, <1>5, OtherTestIs DEF Test, TypeOK
    <3> QED BY <3>1, <2>2, <1>5 DEF Test, Asks
  <2>4. CASE ~Waits(p)
    <3>1. Enter(p) /\ pc'[p] = "load"
      BY <2>4, <1>5 DEF Test, Enter, TypeOK
    <3> QED BY <3>1, <2>2, <2>4, <1>5 DEF Test, Passes
  <2> QED BY <2>3, <2>4
<1>6. CASE TimeOut(p)
  BY <1>1, <1>6 DEF TimeOut
<1>7. CASE FutexWait(p) \/ WaitFails(p) \/ Woken(p) \/ LockTaken(p)
  <2>1. pc[p] \in {"lock", "wait", "asleep"} /\ pc'[p] \in {"lock", "wait", "asleep"}
    BY <1>7 DEF FutexWait, WaitFails, Woken, LockTaken, TypeOK
  <2> QED BY <2>1, <1>7 DEF FutexWait, WaitFails, Woken, LockTaken, Queues
<1>8. CASE Lock(p)
  BY <1>8 DEF Lock, Exchange, TypeOK, Locked
<1>9. CASE Load(p)
  <2>1. pc[p] = "load" /\ Drained(p) /\ InRegion(p)
    BY <1>9, DrainedAt DEF Load, RegionSound, InRegion
  <2>2. Read(p, shared_counter) = Sum(round)
    BY <2>1, ReadsMemory, RegionSees
  <2> QED BY <2>1, <2>2, <1>9 DEF Load, TypeOK, Loads
<1>10. CASE Store(p)
  <2>1. pc[p] = "store" /\ Drained(p)
    BY <1>10, DrainedAt DEF Store, RegionSound
  <2>2. seen[p] = Sum(round)
    BY <2>1 DEF RegionSound, CounterSound
  <2>3. PICK n \in 1 .. MAX_COUNT - round[p] :
          /\ n > 1 => program.add = "merged"
          /\ Write(p, shared_counter, seen[p] + n)
          /\ round' = [round EXCEPT ![p] = @ + n]
    BY <1>10 DEF Store
  <2>4. n = 1
    BY <2>3, <1>1, CountingAssumption DEF TypeOK
  <2> QED BY <2>1, <2>2, <2>3, <2>4, <1>10 DEF Store, TypeOK, Stores
<1>11. CASE AtomicAdd(p)
  <2>1. pc[p] = "load" /\ Drained(p) /\ InRegion(p)
    BY <1>11, DrainedAt DEF AtomicAdd, RegionSound, InRegion
  <2>2. memory[shared_counter] = Sum(round)
    BY <2>1, RegionSees
  <2> QED BY <2>1, <2>2, <1>11 DEF AtomicAdd, Exchange, TypeOK, Adds
<1>12. CASE Leave(p)
  <2>1. pc[p] = "leave" /\ Drained(p) /\ Petersons /\ Again(p)
    BY <1>1, <1>12 DEF Leave, Barrier
  <2>2. pc'[p] \in {"out", "done"}
    BY <2>1, AgainGoesTo DEF Petersons
  <2> QED BY <2>1, <2>2, <1>12 DEF Leave, Leaves
<1>13. CASE NextRound(p)
  BY <1>1, <1>13 DEF NextRound
<1>14. ASSUME pc[p] \in {"leave", "wake"}, Again(p), Locks
       PROVE  pc'[p] \in {"lock", "wait", "done"}
  BY <1>14, AgainGoesTo DEF Locks
<1>15. CASE Unlock(p)
  <2>1. pc[p] = "leave" /\ Drained(p) /\ Locks
    BY <1>15 DEF Unlock, Exchange
  <2>2. pc'[p] \in {"lock", "wait", "wake", "done"}
    BY <2>1, <1>14, <1>15 DEF Unlock, TypeOK
  <2> QED BY <2>1, <2>2, <1>15 DEF Unlock, Exchange, Unlocks
<1>16. CASE FutexWake(p)
  <2>1. pc[p] = "wake" /\ Locks
    BY <1>16 DEF FutexWake, PlacesSound
  <2>2. pc'[p] \in {"lock", "wait", "done"}
    BY <2>1, <1>14, <1>16 DEF FutexWake
  <2> QED BY <2>1, <2>2, <1>16 DEF FutexWake, Queues
<1> QED
  BY <1>3, <1>4, <1>5, <1>6, <1>7, <1>8, <1>9, <1>10, <1>11, <1>12, <1>13, <1>15,
     <1>16 DEF Run, Scheduled

\* Who takes the word finds nobody in the region.
LEMMA LockExcludes ==
  ASSUME PlacesSound, RegionSound, NEW p \in Process, Locked(p)
  PROVE  \A q \in Process : ~InRegion(q)
<1>1. Locks
  BY DEF Locked, PlacesSound
<1> QED BY <1>1 DEF Locked, RegionSound, LockSound

\* Who moves, from where and whereto.
LEMMA RegionMoves ==
  ASSUME TypeOK, PlacesSound, Excludes, RegionSound, NEW p \in Process, Run(p)
  PROVE  /\ \A q \in Process \ {p} : InRegion(q)' <=> InRegion(q)
         /\ Passes(p) \/ Locked(p) \/ ~InRegion(p)' \/ InRegion(p)
         /\ Stores(p) \/ Adds(p) \/ UNCHANGED round
         /\ Stores(p) \/ Adds(p) => InRegion(p) /\ Drained(p) /\ InRegion(p)'
         /\ \A q \in Process \ {p} : Drained(q)' <=> Drained(q)
         /\ \A q \in Process \ {p} : Waiting(q)' <=> Waiting(q)
<1>1. \A q \in Process \ {p} : pc'[q] = pc[q] /\ buffer'[q] = buffer[q]
  BY OneMoves
<1>2. \A q \in Process \ {p} : /\ InRegion(q)' <=> InRegion(q)
                               /\ Drained(q)' <=> Drained(q)
                               /\ Waiting(q)' <=> Waiting(q)
  BY <1>1 DEF InRegion, Drained, Waiting
<1>3. Stores(p) \/ Adds(p) => InRegion(p) /\ Drained(p) /\ InRegion(p)'
  BY DEF Stores, Adds, InRegion
<1>4. Stores(p) \/ Adds(p) \/ UNCHANGED round
  BY RegionStep DEF Shows, TakesTurn, Asks, Passes, Queues, Locked, Loads, Leaves, Unlocks
<1>5. \A l \in Tests : l \notin {"load", "store", "leave"}
  BY DEF Tests
<1>6. Passes(p) \/ Locked(p) \/ ~InRegion(p)' \/ InRegion(p)
  BY RegionStep, <1>5
     DEF InRegion, Shows, TakesTurn, Asks, Queues, Loads, Stores, Adds, Leaves, Unlocks
<1> HIDE DEF Passes, Locked, Stores, Adds
<1> QED BY <1>2, <1>3, <1>4, <1>6

LEMMA ExclusionStep ==
  ASSUME TypeOK, PlacesSound, Excludes, RegionSound, NEW p \in Process, Run(p)
  PROVE  Exclusion'
<1>1. /\ \A q \in Process \ {p} : InRegion(q)' <=> InRegion(q)
      /\ Passes(p) \/ Locked(p) \/ ~InRegion(p)' \/ InRegion(p)
  BY RegionMoves
<1>2. Passes(p) \/ Locked(p) => \A q \in Process : ~InRegion(q)
  BY TestExcludes, LockExcludes DEF Passes
<1>3. \A q, r \in Process : InRegion(q) /\ InRegion(r) => q = r
  BY DEF RegionSound, Exclusion
<1>4. ASSUME NEW q \in Process, NEW r \in Process, InRegion(q)', InRegion(r)' PROVE q = r
  BY <1>1, <1>2, <1>3, <1>4
<1> QED BY <1>4 DEF Exclusion

\* The word is 1 while a thread is in the region.
LEMMA LockStep ==
  ASSUME TypeOK, PlacesSound, Excludes, RegionSound, NEW p \in Process, Run(p)
  PROVE  LockSound'
<1>1. program' = program /\ Process' = Process
  BY OneMoves
<1>2. (Locks' <=> Locks)
  BY <1>1 DEF Locks
<1> SUFFICES ASSUME Locks
             PROVE  memory'[trava] = 0 <=> \A q \in Process : ~InRegion(q)'
  BY <1>2 DEF LockSound
<1>3. memory[trava] = 0 <=> \A q \in Process : ~InRegion(q)
  BY DEF RegionSound, LockSound
<1>4. \A q \in Process \ {p} : InRegion(q)' <=> InRegion(q)
  BY RegionMoves
<1>5. ~Petersons /\ pc[p] \notin {"out", "turn"} \cup Tests
  BY RegionPrograms DEF PlacesSound
<1>6. CASE Queues(p)
  <2>1. UNCHANGED memory /\ ~InRegion(p) /\ ~InRegion(p)'
    BY <1>6 DEF Queues, InRegion
  <2> QED BY <2>1, <1>3, <1>4
<1>7. CASE Locked(p)
  <2>1. memory'[trava] = 1 /\ InRegion(p)'
    BY <1>7, PlacesDiffer DEF Locked, InRegion, TypeOK
  <2> QED BY <2>1
<1>8. CASE Loads(p) \/ Stores(p) \/ Adds(p)
  <2>1. memory'[trava] = memory[trava] /\ InRegion(p) /\ InRegion(p)'
    BY <1>8, PlacesDiffer DEF Loads, Stores, Adds, InRegion, TypeOK
  <2> QED BY <2>1, <1>3, <1>4
<1>9. CASE Unlocks(p)
  <2>1. memory'[trava] = 0 /\ InRegion(p) /\ ~InRegion(p)'
    BY <1>9, PlacesDiffer DEF Unlocks, InRegion, TypeOK
  <2>2. \A q \in Process \ {p} : ~InRegion(q)
    BY <2>1 DEF RegionSound, Exclusion
  <2> QED BY <2>1, <2>2, <1>4
<1>10. ~Shows(p) /\ ~TakesTurn(p) /\ ~Asks(p) /\ ~Passes(p) /\ ~Leaves(p)
  BY <1>5 DEF Shows, TakesTurn, Asks, Passes, Leaves
<1> QED BY <1>6, <1>7, <1>8, <1>9, <1>10, RegionStep

\* What is on its way, after a step.
LEMMA BuffersStep ==
  ASSUME TypeOK, PlacesSound, Excludes, RegionSound, NEW p \in Process, Run(p)
  PROVE  BuffersSound'
<1> DEFINE OnItsWay(q, i) ==
      \/ pc[q] \in {"out", "turn", "done"} /\ buffer[q][i].to = interested(q)
      \/ pc[q] \in Tests /\ buffer[q][i] = [to |-> turn, value |-> q]
      \/ /\ pc[q] = "leave"
         /\ buffer[q][i] = [to |-> shared_counter, value |-> Sum(round)]
<1>1. \A q \in Process : \A i \in DOMAIN buffer[q] : OnItsWay(q, i)
  BY DEF RegionSound, BuffersSound
<1>2. \A q \in Process \ {p} : pc'[q] = pc[q] /\ buffer'[q] = buffer[q]
  BY OneMoves
<1>3. ASSUME NEW q \in Process \ {p}, NEW i \in DOMAIN buffer'[q]
      PROVE  OnItsWay(q, i)'
  <2>1. OnItsWay(q, i)
    BY <1>1, <1>2
  <2>2. CASE UNCHANGED round
    BY <1>2, <2>1, <2>2
  <2>3. CASE ~UNCHANGED round
    <3>1. InRegion(p)
      BY <2>3, RegionMoves
    <3>2. pc[q] # "leave"
      BY <3>1 DEF RegionSound, Exclusion, InRegion
    <3> QED BY <1>2, <2>1, <3>2
  <2> QED BY <2>2, <2>3
<1>4. /\ Len(buffer[p]) \in Nat /\ DOMAIN buffer[p] = 1 .. Len(buffer[p])
      /\ Drained(p) => Len(buffer[p]) = 0 /\ DOMAIN buffer[p] = {}
  BY BufferIs
<1>5. ASSUME NEW i \in DOMAIN buffer'[p]
      PROVE  OnItsWay(p, i)'
  <2>1. CASE UNCHANGED buffer /\ Drained(p)
    BY <2>1, <1>4
  <2>2. ASSUME NEW x \in Place, NEW val \in Nat, Write(p, x, val), Drained(p)
        PROVE  buffer'[p][i] = [to |-> x, value |-> val]
    BY <2>2, <1>4, WriteAppends
  <2>3. CASE Shows(p)
    <3>1. p \in {0, 1}
      BY <2>3, TwoThreads DEF Shows, PlacesSound
    <3>2. Write(p, interested(p), 1) /\ interested(p) \in Place
      BY <2>3, <3>1, PlacesDiffer DEF Shows
    <3>3. /\ DOMAIN buffer'[p] = DOMAIN buffer[p] \cup {Len(buffer[p]) + 1}
          /\ \A j \in DOMAIN buffer[p] : buffer'[p][j] = buffer[p][j]
          /\ buffer'[p][Len(buffer[p]) + 1] = [to |-> interested(p), value |-> 1]
      BY <3>2, WriteAppends
    <3>4. pc[p] \notin Tests /\ pc[p] = "out" /\ pc'[p] = "turn"
      BY <2>3 DEF Shows, Tests
    <3>5. \A j \in DOMAIN buffer[p] : buffer[p][j].to = interested(p)
      BY <1>1, <3>4
    <3>6. CASE i \in DOMAIN buffer[p]
      BY <3>3, <3>4, <3>5, <3>6
    <3>7. CASE i = Len(buffer[p]) + 1
      <4>1. buffer'[p][i].to = interested(p)
        BY <3>3, <3>7
      <4> QED BY <4>1, <3>4
    <3> QED BY <3>3, <3>6, <3>7
  <2>4. CASE TakesTurn(p)
    <3>1. p \in Nat /\ turn \in Place
      BY PlacesDiffer DEF Process
    <3> QED BY <2>4, <3>1, <2>2 DEF TakesTurn
  <2>5. CASE Asks(p) \/ Passes(p) \/ Adds(p) \/ Unlocks(p)
    BY <2>1, <2>5 DEF Asks, Passes, Adds, Unlocks
  <2>6. CASE Queues(p) \/ Locked(p) \/ Loads(p)
    <3>1. Drained(p)
      BY <2>6, DrainedAt DEF Queues, Locked, Loads, RegionSound
    <3> QED BY <2>1, <2>6, <3>1 DEF Queues, Locked, Loads
  <2>7. CASE Stores(p)
    <3>1. /\ Sum(round) \in Nat
          /\ Sum([round EXCEPT ![p] = @ + 1]) = Sum(round) + 1
      <4>1. round \in [Process -> Nat]
        BY CountingAssumption DEF TypeOK
      <4> QED BY <4>1, SumIsNat, SumGrows
    <3>2. /\ Write(p, shared_counter, Sum(round) + 1) /\ Drained(p) /\ pc'[p] = "leave"
          /\ round' = [round EXCEPT ![p] = @ + 1]
      BY <2>7 DEF Stores
    <3>3. buffer'[p][i] = [to |-> shared_counter, value |-> Sum(round) + 1]
      BY <3>1, <3>2, <2>2, PlacesDiffer
    <3>4. Sum(round)' = Sum(round) + 1
      BY <3>1, <3>2 DEF Sum
    <3> QED BY <3>2, <3>3, <3>4
  <2>8. CASE Leaves(p)
    <3>1. p \in {0, 1}
      BY <2>8, TwoThreads DEF Leaves
    <3>2. interested(p) \in Place /\ pc'[p] \in {"out", "done"}
      BY <2>8, <3>1, PlacesDiffer DEF Leaves
    <3>3. buffer'[p][i] = [to |-> interested(p), value |-> 0]
      BY <2>8, <3>2, <2>2 DEF Leaves
    <3>4. buffer'[p][i].to = interested(p)
      BY <3>3
    <3> QED BY <3>2, <3>4
  <2> QED BY <2>3, <2>4, <2>5, <2>6, <2>7, <2>8, RegionStep
<1>6. \A q \in Process : \A i \in DOMAIN buffer'[q] : OnItsWay(q, i)'
  BY <1>3, <1>5
<1> QED BY <1>6 DEF BuffersSound

\* The counter, after a step.
LEMMA CounterStep ==
  ASSUME TypeOK, PlacesSound, Excludes, RegionSound, NEW p \in Process, Run(p)
  PROVE  CounterSound'
<1>1. \A q \in Process \ {p} : pc'[q] = pc[q] /\ buffer'[q] = buffer[q] /\ seen'[q] = seen[q]
  BY OneMoves
<1>2. /\ Stores(p) \/ Adds(p) \/ UNCHANGED round
      /\ Stores(p) \/ Adds(p) => InRegion(p)
      /\ \A q \in Process \ {p} : Drained(q)' <=> Drained(q)
  BY RegionMoves
<1>3. UNCHANGED round => Sum(round)' = Sum(round)
  BY DEF Sum
<1>4. ASSUME NEW q \in Process, pc'[q] = "store" PROVE seen'[q] = Sum(round)'
  <2>1. CASE q # p
    <3>1. pc[q] = "store" /\ seen'[q] = seen[q]
      BY <1>1, <1>4, <2>1
    <3>2. seen[q] = Sum(round)
      BY <3>1 DEF RegionSound, CounterSound
    <3>3. ~InRegion(p)
      BY <2>1, <3>1 DEF RegionSound, Exclusion, InRegion
    <3> QED BY <1>2, <1>3, <3>1, <3>2, <3>3
  <2>2. CASE q = p
    <3>1. Loads(p)
      BY <1>4, <2>2, RegionStep
         DEF Shows, TakesTurn, Asks, Passes, Queues, Locked, Stores, Adds, Leaves, Unlocks,
             Tests
    <3> QED BY <1>3, <2>2, <3>1 DEF Loads
  <2> QED BY <2>1, <2>2
<1>5. ASSUME \A q \in Process : pc'[q] = "leave" => Drained(q)'
      PROVE  memory'[shared_counter] = Sum(round)'
  <2>1. CASE Stores(p)
    <3>1. Sum(round) \in Nat
      BY SumIsNat, CountingAssumption DEF TypeOK
    <3>2. pc'[p] = "leave" /\ Write(p, shared_counter, Sum(round) + 1)
      BY <2>1 DEF Stores
    <3>3. ~Drained(p)'
      BY <3>1, <3>2, WriteFills, PlacesDiffer
    <3> QED BY <1>5, <3>2, <3>3
  <2>2. CASE Adds(p)
    <3>1. Sum([round EXCEPT ![p] = @ + 1]) = Sum(round) + 1
      <4>1. round \in [Process -> Nat]
        BY CountingAssumption DEF TypeOK
      <4> QED BY <4>1, SumGrows
    <3>2. Sum(round)' = Sum(round) + 1
      BY <2>2, <3>1 DEF Adds, Sum
    <3> QED BY <2>2, <3>2, PlacesDiffer DEF Adds, TypeOK
  <2>3. CASE ~Stores(p) /\ ~Adds(p)
    <3>1. memory'[shared_counter] = memory[shared_counter]
      BY <2>3, RegionStep, PlacesDiffer
         DEF Shows, TakesTurn, Asks, Passes, Queues, Locked, Loads, Leaves, Unlocks, TypeOK
    <3>2. pc[p] = "leave" => Drained(p)
      BY RegionStep
         DEF Shows, TakesTurn, Asks, Passes, Queues, Locked, Loads, Stores, Adds, Leaves,
             Unlocks, Tests
    <3>3. \A q \in Process : pc[q] = "leave" => Drained(q)
      BY <1>1, <1>2, <1>5, <3>2
    <3>4. memory[shared_counter] = Sum(round)
      BY <3>3 DEF RegionSound, CounterSound
    <3> QED BY <1>2, <1>3, <2>3, <3>1, <3>4
  <2> QED BY <2>1, <2>2, <2>3
<1> QED BY <1>4, <1>5 DEF CounterSound

\* Who enters is seen by those that wait.
LEMMA PassedStep ==
  ASSUME TypeOK, PlacesSound, Excludes, RegionSound, NEW p \in Process, Run(p)
  PROVE  PassedSound'
<1>1. \A q \in Process \ {p} : Waiting(q)' <=> Waiting(q)
  BY RegionMoves
<1>2. \A q \in Process : passed[q] \in {0, 1} /\ (passed[q] = 1 => Waiting(q))
  BY DEF RegionSound, PassedSound
<1>3. CASE Passes(p)
  <2>1. \A q \in Process \ {p} : Waiting(q) => passed[q] = 0
    BY <1>3, TestExcludes DEF Passes
  <2>2. passed' = [q \in Process |-> IF q = p THEN 0
                                     ELSE IF Waiting(q) THEN passed[q] + 1
                                     ELSE passed[q]]
    BY <1>3 DEF Passes, Enter, Waiting
  <2>3. ASSUME NEW q \in Process PROVE passed'[q] \in {0, 1} /\ (passed'[q] = 1 => Waiting(q)')
    BY <1>1, <1>2, <2>1, <2>2
  <2> QED BY <2>3 DEF PassedSound
<1>4. CASE ~Passes(p)
  <2>1. UNCHANGED passed
    BY <1>4, RegionStep
       DEF Shows, TakesTurn, Asks, Queues, Locked, Loads, Stores, Adds, Leaves, Unlocks
  <2>2. Waiting(p) => Waiting(p)'
    <3>1. \A l \in Tests : l \notin {"out", "turn", "lock", "wait", "asleep", "wake", "load",
                                     "store", "leave"}
      BY DEF Tests
    <3>2. Waiting(p) => Asks(p)
      BY <1>4, <3>1, RegionStep
         DEF Waiting, Shows, TakesTurn, Queues, Locked, Loads, Stores, Adds, Leaves, Unlocks
    <3> QED BY <3>2 DEF Asks, Waiting, Drained
  <2> QED BY <1>1, <1>2, <2>1, <2>2 DEF PassedSound
<1> QED BY <1>3, <1>4

\* Peterson's algorithm, after a step.
LEMMA PetersonStep ==
  ASSUME TypeOK, PlacesSound, Excludes, RegionSound, NEW p \in Process, Run(p)
  PROVE  PetersonSound'
<1>1. program' = program
  BY OneMoves
<1>2. Petersons' <=> Petersons
  BY <1>1 DEF Petersons
<1> DEFINE Shown(a) == pc[a] \in Tests \/ InRegion(a) \/ (pc[a] = "turn" /\ Drained(a))
           Behind(a) == Waiting(a) /\ (InRegion(Other(a)) \/ passed[Other(a)] > 0)
           Last(a) == buffer[a][Len(buffer[a])].value = 1
<1> SUFFICES ASSUME Petersons
             PROVE  /\ memory'[turn] \in {0, 1}
                    /\ \A a \in {0, 1} :
                         /\ Shown(a)' => memory'[interested(a)] = 1
                         /\ pc'[a] = "turn" /\ ~Drained(a)' => Last(a)'
                         /\ Behind(a)' => memory'[turn] = a
  BY <1>2 DEF PetersonSound
<1>3. /\ memory[turn] \in {0, 1}
      /\ \A a \in {0, 1} :
           /\ Shown(a) => memory[interested(a)] = 1
           /\ pc[a] = "turn" /\ ~Drained(a) => Last(a)
           /\ Behind(a) => memory[turn] = a
  BY DEF RegionSound, PetersonSound
<1>4. p \in {0, 1} /\ Other(p) \in {0, 1} /\ Other(p) # p /\ Other(Other(p)) = p
  <2>1. pc[p] # "done"
    BY RegionStep
       DEF Shows, TakesTurn, Asks, Passes, Queues, Locked, Loads, Stores, Adds, Leaves,
           Unlocks, Tests
  <2> QED BY <2>1, TwoThreads DEF Other
<1>5. {0, 1} \subseteq Process
  BY CountingAssumption DEF Process
<1>6. /\ memory'[turn] = memory[turn]
      /\ \A a \in {0, 1} : memory'[interested(a)] = memory[interested(a)]
  <2>1. ~Locked(p) /\ ~Unlocks(p)
    BY RegionPrograms DEF Locked, Unlocks, PlacesSound
  <2> QED BY <2>1, RegionStep, PlacesDiffer
         DEF Shows, TakesTurn, Asks, Passes, Queues, Loads, Stores, Adds, Leaves, TypeOK
<1>7. \A q \in Process \ {p} : pc'[q] = pc[q] /\ buffer'[q] = buffer[q]
  BY OneMoves
<1>8. \A q \in Process \ {p} : /\ InRegion(q)' <=> InRegion(q)
                               /\ Drained(q)' <=> Drained(q)
                               /\ Waiting(q)' <=> Waiting(q)
  BY RegionMoves
<1>9. Shown(p)' => Shown(p)
  <2>1. Shows(p) => ~Drained(p)'
    <3>1. interested(p) \in Place /\ 1 \in Nat
      BY <1>4, PlacesDiffer
    <3> QED BY <3>1, WriteFills DEF Shows
  <2>2. Shows(p) => ~Shown(p)'
    BY <2>1 DEF Shows, InRegion, Tests
  <2>3. TakesTurn(p) \/ Asks(p) \/ Passes(p) => Shown(p)
    BY DEF TakesTurn, Asks, Passes
  <2>4. Loads(p) \/ Stores(p) \/ Adds(p) => Shown(p)
    BY DEF Loads, Stores, Adds, InRegion
  <2>5. Leaves(p) \/ Unlocks(p) => Shown(p)
    BY DEF Leaves, Unlocks, InRegion
  <2>6. Queues(p) => ~Shown(p)'
    BY DEF Queues, InRegion, Tests
  <2>7. Locked(p) => FALSE
    BY RegionPrograms DEF Locked, PlacesSound
  <2> HIDE DEF Shown
  <2> QED BY <2>2, <2>3, <2>4, <2>5, <2>6, <2>7, RegionStep
<1>10. pc'[p] = "turn" /\ ~Drained(p)' => Last(p)'
  <2>1. pc'[p] = "turn" => Shows(p)
    BY RegionStep
       DEF TakesTurn, Asks, Passes, Queues, Locked, Loads, Stores, Adds, Leaves,
           Unlocks, Tests
  <2>2. ASSUME Shows(p) PROVE Last(p)'
    <3>1. Write(p, interested(p), 1) /\ interested(p) \in Place
      BY <1>4, <2>2, PlacesDiffer DEF Shows
    <3>2. buffer'[p][Len(buffer'[p])] = [to |-> interested(p), value |-> 1]
      BY <3>1, WriteAppends, BufferIs
    <3> QED BY <3>2
  <2> QED BY <2>1, <2>2
<1>11. Waiting(p)' => Asks(p)
  <2>1. \A l \in Tests : l \notin {"out", "turn", "lock", "wait", "asleep", "wake", "load",
                                   "store", "leave", "done"}
    BY DEF Tests
  <2>2. TakesTurn(p) => ~Drained(p)'
    <3>1. p \in Nat /\ turn \in Place
      BY PlacesDiffer DEF Process
    <3> QED BY <3>1, WriteFills DEF TakesTurn
  <2> QED BY <2>1, <2>2, RegionStep
         DEF Waiting, Shows, Passes, Queues, Locked, Loads, Stores, Adds, Leaves, Unlocks
<1>12. Behind(p)' => Behind(p)
  <2>1. Asks(p) => UNCHANGED passed /\ Waiting(p)
    BY DEF Asks, Waiting
  <2>2. InRegion(Other(p))' <=> InRegion(Other(p))
    BY <1>4, <1>5, <1>8 DEF InRegion, Other
  <2>3. UNCHANGED passed => (passed[Other(p)] > 0)' = (passed[Other(p)] > 0)
    BY DEF Other
  <2> QED BY <1>11, <2>1, <2>2, <2>3
<1>13. ASSUME NEW a \in {0, 1}, a # p
       PROVE  Behind(a)' => memory[turn] = a
  <2>1. a = Other(p) /\ Other(a) = p /\ a \in Process
    BY <1>4, <1>5, <1>13 DEF Other
  <2>2. Waiting(a)' <=> Waiting(a)
    BY <1>8, <1>13, <2>1
  <2>3. CASE Passes(p)
    <3>1. Waiting(a) => memory[turn] = a
      BY <2>1, <2>3, <1>13, TestExcludes DEF Passes
    <3> QED BY <2>2, <3>1
  <2>4. CASE ~Passes(p)
    <3>1. UNCHANGED passed
      BY <2>4, RegionStep
         DEF Shows, TakesTurn, Asks, Queues, Locked, Loads, Stores, Adds, Leaves, Unlocks
    <3>2. ~Locked(p)
      BY RegionPrograms DEF Locked, PlacesSound
    <3>3. InRegion(p)' => InRegion(p)
      BY <2>4, <3>2, RegionMoves
    <3>4. Behind(a)' => Behind(a)
      BY <2>1, <2>2, <3>1, <3>3
    <3> QED BY <1>3, <3>4
  <2> QED BY <2>3, <2>4
<1>14. ASSUME NEW a \in {0, 1}
       PROVE  /\ Shown(a)' => memory'[interested(a)] = 1
              /\ pc'[a] = "turn" /\ ~Drained(a)' => Last(a)'
              /\ Behind(a)' => memory'[turn] = a
  <2>1. CASE a = p
    BY <1>3, <1>6, <1>9, <1>10, <1>12, <2>1
  <2>2. CASE a # p
    <3>1. Shown(a)' => Shown(a)
      BY <1>5, <1>7, <1>8, <2>2
    <3>2. pc'[a] = "turn" /\ ~Drained(a)' => Last(a)'
      BY <1>3, <1>5, <1>7, <1>8, <2>2
    <3> QED BY <1>3, <1>6, <1>13, <2>2, <3>1, <3>2
  <2> QED BY <2>1, <2>2
<1> QED BY <1>3, <1>6, <1>14

----------------------------------------------------------------------------
(* A store that reaches the memory, in the programs with a region.         *)

LEMMA DrainIs ==
  ASSUME TypeOK, PlacesSound, Excludes, RegionSound, NEW p \in Process, Drain(p)
  PROVE  \/ /\ pc[p] \in {"out", "turn", "done"} /\ p \in {0, 1}
            /\ memory' = [memory EXCEPT ![interested(p)] = buffer[p][1].value]
         \/ /\ pc[p] \in Tests /\ p \in {0, 1} /\ Petersons
            /\ memory' = [memory EXCEPT ![turn] = p]
         \/ /\ pc[p] = "leave"
            /\ memory' = [memory EXCEPT ![shared_counter] = Sum(round)]
<1> DEFINE s == buffer[p][1]
<1>1. /\ 1 \in DOMAIN buffer[p]
      /\ memory' = [memory EXCEPT ![s.to] = s.value]
      /\ s.to \in Place
  BY DrainTakesTheFirst
<1>2. \/ pc[p] \in {"out", "turn", "done"} /\ s.to = interested(p)
      \/ pc[p] \in Tests /\ s = [to |-> turn, value |-> p]
      \/ pc[p] = "leave" /\ s = [to |-> shared_counter, value |-> Sum(round)]
  BY <1>1 DEF RegionSound, BuffersSound
<1>3. CASE pc[p] \in {"out", "turn", "done"} /\ s.to = interested(p)
  <2>1. p \in {0, 1}
    BY <1>1, <1>3 DEF Place, interested, turn, shared_counter, trava
  <2> QED BY <1>1, <1>3, <2>1
<1>4. CASE pc[p] \in Tests /\ s = [to |-> turn, value |-> p]
  <2>1. Petersons /\ pc[p] # "done"
    BY <1>4 DEF PlacesSound, Tests
  <2>2. s.to = turn /\ s.value = p
    BY <1>4
  <2> QED BY <1>1, <1>4, <2>1, <2>2, TwoThreads
<1>5. CASE pc[p] = "leave" /\ s = [to |-> shared_counter, value |-> Sum(round)]
  <2>1. s.to = shared_counter /\ s.value = Sum(round)
    BY <1>5
  <2> QED BY <1>1, <1>5, <2>1
<1> QED BY <1>2, <1>3, <1>4, <1>5

LEMMA RegionDrain ==
  ASSUME TypeOK, PlacesSound, Excludes, RegionSound, NEW p \in Process, Drain(p)
  PROVE  RegionSound'
<1>1. UNCHANGED <<program, pc, seen, round, passed>>
  BY DEF Drain
<1>2. \A q \in Process \ {p} : buffer'[q] = buffer[q]
  BY DrainTakesTheFirst
<1>3. /\ DOMAIN buffer'[p] = 1 .. Len(buffer[p]) - 1
      /\ Len(buffer'[p]) = Len(buffer[p]) - 1 /\ Len(buffer[p]) \in Nat /\ Len(buffer[p]) > 0
      /\ \A i \in DOMAIN buffer'[p] : /\ i + 1 \in DOMAIN buffer[p]
                                      /\ buffer'[p][i] = buffer[p][i + 1]
  BY DrainTakesTheFirst, BufferIs
<1>4. ~Drained(p) /\ ~Waiting(p)
  BY DEF Drain, Waiting
<1>5. Sum(round)' = Sum(round)
  BY <1>1 DEF Sum
<1>6. \A q \in Process : InRegion(q)' <=> InRegion(q)
  BY <1>1 DEF InRegion
<1>7. \A q \in Process \ {p} : /\ Drained(q)' <=> Drained(q)
                               /\ Waiting(q)' <=> Waiting(q)
  BY <1>1, <1>2 DEF Drained, Waiting
<1>8. (Locks' <=> Locks) /\ (Petersons' <=> Petersons)
  BY <1>1 DEF Locks, Petersons
<1>9. memory \in [Place -> Nat]
  BY DEF TypeOK
<1>10. BuffersSound'
  <2> DEFINE OnItsWay(q, i) ==
        \/ pc[q] \in {"out", "turn", "done"} /\ buffer[q][i].to = interested(q)
        \/ pc[q] \in Tests /\ buffer[q][i] = [to |-> turn, value |-> q]
        \/ /\ pc[q] = "leave"
           /\ buffer[q][i] = [to |-> shared_counter, value |-> Sum(round)]
  <2>1. \A q \in Process : \A i \in DOMAIN buffer[q] : OnItsWay(q, i)
    BY DEF RegionSound, BuffersSound
  <2>2. ASSUME NEW q \in Process \ {p}, NEW i \in DOMAIN buffer'[q]
        PROVE  OnItsWay(q, i)'
    BY <1>1, <1>2, <1>5, <2>1
  <2>3. ASSUME NEW i \in DOMAIN buffer'[p]
        PROVE  OnItsWay(p, i)'
    <3>1. OnItsWay(p, i + 1) /\ buffer'[p][i] = buffer[p][i + 1]
      BY <1>3, <2>1
    <3> QED BY <1>1, <1>5, <3>1
  <2>4. \A q \in Process : \A i \in DOMAIN buffer'[q] : OnItsWay(q, i)'
    BY <2>2, <2>3
  <2> QED BY <2>4 DEF BuffersSound
<1>11. Exclusion'
  BY <1>6 DEF RegionSound, Exclusion
<1>12. LockSound'
  <2>1. memory'[trava] = memory[trava]
    BY <1>9, DrainIs, PlacesDiffer
  <2>2. Locks => (memory[trava] = 0 <=> \A q \in Process : ~InRegion(q))
    BY DEF RegionSound, LockSound
  <2> QED BY <1>6, <1>8, <2>1, <2>2 DEF LockSound
<1>13. CounterSound'
  <2>1. \A q \in Process : pc'[q] = "store" => seen'[q] = Sum(round)'
    BY <1>1, <1>5 DEF RegionSound, CounterSound
  <2>2. ASSUME \A q \in Process : pc'[q] = "leave" => Drained(q)'
        PROVE  memory'[shared_counter] = Sum(round)'
    <3>1. CASE pc[p] = "leave"
      <4>1. memory' = [memory EXCEPT ![shared_counter] = Sum(round)]
        BY <3>1, DrainIs DEF Tests
      <4> QED BY <1>5, <1>9, <4>1, PlacesDiffer
    <3>2. CASE pc[p] # "leave"
      <4>1. memory'[shared_counter] = memory[shared_counter]
        BY <1>9, <3>2, DrainIs, PlacesDiffer
      <4>2. \A q \in Process : pc[q] = "leave" => Drained(q)
        BY <1>1, <1>7, <2>2, <3>2
      <4>3. memory[shared_counter] = Sum(round)
        BY <4>2 DEF RegionSound, CounterSound
      <4> QED BY <1>5, <4>1, <4>3
    <3> QED BY <3>1, <3>2
  <2> QED BY <2>1, <2>2 DEF CounterSound
<1>14. PetersonSound'
  <2> DEFINE Shown(a) == pc[a] \in Tests \/ InRegion(a) \/ (pc[a] = "turn" /\ Drained(a))
             Behind(a) == Waiting(a) /\ (InRegion(Other(a)) \/ passed[Other(a)] > 0)
             Last(a) == buffer[a][Len(buffer[a])].value = 1
  <2> SUFFICES ASSUME Petersons
               PROVE  /\ memory'[turn] \in {0, 1}
                      /\ \A a \in {0, 1} :
                           /\ Shown(a)' => memory'[interested(a)] = 1
                           /\ pc'[a] = "turn" /\ ~Drained(a)' => Last(a)'
                           /\ Behind(a)' => memory'[turn] = a
    BY <1>8 DEF PetersonSound
  <2>1. /\ memory[turn] \in {0, 1}
        /\ \A a \in {0, 1} :
             /\ Shown(a) => memory[interested(a)] = 1
             /\ pc[a] = "turn" /\ ~Drained(a) => Last(a)
             /\ Behind(a) => memory[turn] = a
    BY DEF RegionSound, PetersonSound
  <2>2. {0, 1} \subseteq Process
    BY CountingAssumption DEF Process
  <2>3. /\ pc[p] \in Tests => memory'[turn] = p /\ p \in {0, 1}
        /\ pc[p] \notin Tests => memory'[turn] = memory[turn]
    BY <1>9, DrainIs, PlacesDiffer DEF Tests
  <2>4. ASSUME NEW a \in {0, 1} PROVE Shown(a)' => memory'[interested(a)] = 1
    <3>1. CASE a # p
      <4>1. memory'[interested(a)] = memory[interested(a)]
        BY <1>9, <3>1, DrainIs, PlacesDiffer
      <4>2. Shown(a)' => Shown(a)
        BY <1>1, <1>6, <1>7, <2>2, <3>1
      <4> QED BY <2>1, <4>1, <4>2
    <3>2. CASE a = p /\ pc[p] = "turn"
      <4>1. memory' = [memory EXCEPT ![interested(p)] = buffer[p][1].value]
        BY <3>2, DrainIs DEF Tests
      <4>2. Shown(p)' => Drained(p)'
        BY <1>1, <3>2 DEF InRegion, Tests
      <4>3. Drained(p)' => Len(buffer[p]) = 1
        BY <1>3 DEF Drained
      <4>4. buffer[p][Len(buffer[p])].value = 1
        BY <1>4, <2>1, <3>2
      <4> QED BY <1>9, <3>2, <4>1, <4>2, <4>3, <4>4, PlacesDiffer
    <3>3. CASE a = p /\ pc[p] # "turn"
      <4>1. Shown(a)' => Shown(a)
        BY <1>1, <1>6, <2>2, <3>3
      <4>2. Shown(a) => pc[p] \notin {"out", "turn", "done"}
        BY <3>3 DEF InRegion, Tests
      <4>3. Shown(a) => memory'[interested(a)] = memory[interested(a)]
        BY <1>9, <4>2, DrainIs, PlacesDiffer
      <4> HIDE DEF Shown
      <4> QED BY <2>1, <4>1, <4>3
    <3> QED BY <3>1, <3>2, <3>3
  <2>5. ASSUME NEW a \in {0, 1}, pc'[a] = "turn", ~Drained(a)' PROVE Last(a)'
    <3>1. CASE a # p
      BY <1>1, <1>2, <1>7, <2>1, <2>2, <2>5, <3>1
    <3>2. CASE a = p
      <4>1. Last(p)
        BY <1>1, <1>4, <2>1, <2>5, <3>2
      <4>2. Len(buffer'[p]) # 0
        <5>1. buffer' \in [Process -> Seq(Record)]
          BY DrainTakesTheFirst
        <5>2. Len(buffer'[p]) = 0 => buffer'[p] = <<>>
          BY <5>1
        <5> QED BY <2>5, <3>2, <5>2 DEF Drained
      <4>3. buffer'[p][Len(buffer'[p])] = buffer[p][Len(buffer[p])]
        <5> DEFINE n == Len(buffer'[p])
                   m == Len(buffer[p])
        <5>1. n = m - 1 /\ m \in Nat /\ m > 0 /\ n # 0 /\ DOMAIN buffer'[p] = 1 .. m - 1
          BY <1>3, <4>2
        <5> HIDE DEF n, m
        <5>2. n \in DOMAIN buffer'[p] /\ n + 1 = m
          BY <5>1
        <5>3. buffer'[p][n] = buffer[p][n + 1]
          BY <1>3, <5>2
        <5> QED BY <5>2, <5>3 DEF n, m
      <4> QED BY <3>2, <4>1, <4>3
    <3> QED BY <3>1, <3>2
  <2>6. ASSUME NEW a \in {0, 1}, Behind(a)' PROVE memory'[turn] = a
    <3>1. CASE a = p
      <4>1. pc[p] \in Tests
        BY <1>1, <2>6, <3>1 DEF Waiting
      <4> QED BY <2>3, <3>1, <4>1
    <3>2. CASE a # p
      <4>1. Waiting(a) /\ (InRegion(Other(a)) \/ passed[Other(a)] > 0)
        <5>1. Other(a) \in Process
          BY <2>2 DEF Other
        <5>2. Waiting(a)
          BY <1>7, <2>2, <2>6, <3>2
        <5>3. InRegion(Other(a))' <=> InRegion(Other(a))
          BY <1>6, <5>1 DEF InRegion, Other
        <5>4. passed'[Other(a)] = passed[Other(a)]
          BY <1>1
        <5>5. InRegion(Other(a))' \/ passed'[Other(a)] > 0
          BY <2>6 DEF Other
        <5> QED BY <5>2, <5>3, <5>4, <5>5
      <4>2. memory[turn] = a
        BY <2>1, <4>1
      <4>3. CASE pc[p] \in Tests
        <5>1. p = Other(a)
          BY <2>3, <3>2, <4>3 DEF Other
        <5>2. ~InRegion(p)
          BY <4>3 DEF InRegion, Tests
        <5>3. passed[p] \in {0, 1} /\ (passed[p] = 1 => Waiting(p))
          BY DEF RegionSound, PassedSound
        <5> QED BY <1>4, <4>1, <5>1, <5>2, <5>3
      <4> QED BY <2>3, <4>2, <4>3
    <3> QED BY <3>1, <3>2
  <2>7. memory'[turn] \in {0, 1}
    BY <2>1, <2>3
  <2> QED BY <2>4, <2>5, <2>6, <2>7
<1>15. PassedSound'
  BY <1>1, <1>4, <1>7 DEF RegionSound, PassedSound
<1> QED BY <1>10, <1>11, <1>12, <1>13, <1>14, <1>15 DEF RegionSound

----------------------------------------------------------------------------
(* The invariant.                                                          *)

LEMMA InitInv == Init => Inv
<1> SUFFICES ASSUME Init PROVE Inv
  OBVIOUS
<1>1. TypeOK /\ PlacesSound
  BY InitSound
<1>2. Shape
  BY <1>1, ProgramShape DEF TypeOK
<1>3. /\ {0, 1} \subseteq Process
      /\ N_THREADS > 2 => 2 \in Process
      /\ N_THREADS > 3 => 3 \in Process
  BY CountingAssumption DEF Process
<1>4. Sum(round) = 0
  BY <1>3, CountingAssumption DEF Init, Sum
<1>5. \A p \in Process :
        /\ Drained(p) /\ DOMAIN buffer[p] = {}
        /\ round[p] = 0 /\ passed[p] = 0
        /\ pc[p] \in {"load", "lock", "wait", "out", "done"}
        /\ Petersons \/ Locks => ~InRegion(p)
  BY <1>2 DEF Init, Drained, Shape, InRegion, Petersons, Locks
<1>6. \A x \in Place : memory[x] = 0
  BY DEF Init
<1>7. \A p \in Process : pc[p] \notin Tests /\ pc[p] \notin {"turn", "store", "leave"}
  BY <1>5 DEF Tests
<1>8. ASSUME Excludes PROVE RegionSound
  <2>1. \A p \in Process : ~InRegion(p)
    BY <1>1, <1>5, <1>8, RegionPrograms
  <2>2. BuffersSound
    BY <1>5 DEF BuffersSound
  <2>3. LockSound
    BY <1>6, <2>1, PlacesDiffer DEF LockSound
  <2>4. CounterSound
    BY <1>4, <1>6, <1>7, PlacesDiffer DEF CounterSound
  <2>5. PetersonSound
    BY <1>3, <1>6, <1>7, <2>1, PlacesDiffer DEF PetersonSound, Waiting
  <2>6. PassedSound
    BY <1>5 DEF PassedSound
  <2>7. Exclusion
    BY <2>1 DEF Exclusion
  <2> QED BY <2>2, <2>3, <2>4, <2>5, <2>6, <2>7 DEF RegionSound
<1>9. AtomicSound
  BY <1>4, <1>5, <1>6, PlacesDiffer DEF AtomicSound
<1>10. RaceSound
  <2>1. \A p \in Process : Pending(p, shared_counter) = {}
    BY <1>5 DEF Pending
  <2>2. \A p \in Process : CopiesSound(p)
    BY <1>5, <1>7, <2>1 DEF CopiesSound
  <2>3. 0 \in Threads /\ AtLeast(round[0]) = 0
    BY <1>2, <1>3, <1>5 DEF Shape, Threads, AtLeast
  <2> QED BY <1>4, <1>6, <2>2, <2>3, PlacesDiffer DEF RaceSound
<1> QED BY <1>1, <1>8, <1>9, <1>10 DEF Inv

LEMMA InvStep == Inv /\ [Next]_vars => Inv'
<1> SUFFICES ASSUME Inv, [Next]_vars PROVE Inv'
  OBVIOUS
<1>1. CASE UNCHANGED vars
  BY <1>1
  DEF vars, Inv, TypeOK, PlacesSound, RegionSound, BuffersSound, Exclusion, LockSound,
      CounterSound, PetersonSound, PassedSound, AtomicSound, RaceSound, CopiesSound, Waiting,
      InRegion, Drained, Pending, Sum, Excludes, Petersons, Locks, Threads
<1>2. ASSUME NEW p \in Process, Run(p) \/ Drain(p) PROVE Inv'
  <2>1. TypeOK /\ PlacesSound
    BY DEF Inv
  <2>2. TypeOK' /\ PlacesSound' /\ program' = program
    <3>1. CASE Run(p)
      BY <2>1, <3>1, TypeStep, PlacesStep, OneMoves
    <3>2. CASE Drain(p)
      <4>1. program' = program
        BY <3>2 DEF Drain
      <4> QED BY <2>1, <3>2, <4>1, DrainKeepsTypes
    <3> QED BY <1>2, <3>1, <3>2
  <2>3. Excludes' <=> Excludes
    BY <2>2 DEF Excludes, Petersons, Locks
  <2>4. ASSUME Excludes PROVE RegionSound'
    <3>1. RegionSound
      BY <2>4 DEF Inv
    <3>2. CASE Run(p)
      BY <2>1, <2>4, <3>1, <3>2, BuffersStep, ExclusionStep, LockStep, CounterStep,
         PetersonStep, PassedStep DEF RegionSound
    <3>3. CASE Drain(p)
      BY <2>1, <2>4, <3>1, <3>3, RegionDrain
    <3> QED BY <1>2, <3>2, <3>3
  <2>5. ASSUME ~Excludes, program.add = "atomic" PROVE AtomicSound'
    BY <1>2, <2>1, <2>5, AtomicStep DEF Inv
  <2>6. ASSUME ~Excludes, program.add # "atomic" PROVE RaceSound'
    <3>1. RaceSound
      BY <2>6 DEF Inv
    <3> QED BY <1>2, <2>1, <2>2, <2>6, <3>1, RaceStep, RaceDrain
  <2>7. (program.add = "atomic")' <=> program.add = "atomic"
    BY <2>2
  <2> QED BY <2>2, <2>3, <2>4, <2>5, <2>6, <2>7 DEF Inv
<1> QED BY <1>1, <1>2 DEF Next

\* The inductive invariant of the counting programs: what each of them makes
\* sure of while stores are under way, for any number of rounds.
THEOREM InvariantHolds == Spec => []Inv
BY InitInv, InvStep, PTL DEF Spec

\* Nobody is passed twice by Peterson's algorithm with barriers (enter_region
\* of tarefa7/main_barrier.c and its atomic variants).
THEOREM NobodyIsPassedTwice == Spec => []PassedOnce
<1>1. Inv => PassedOnce
  BY DEF Inv, RegionSound, PassedSound, PassedOnce
<1> QED BY <1>1, InvariantHolds, PTL

----------------------------------------------------------------------------
(* What main prints.                                                       *)

LEMMA RoundsAtTheEnd ==
  ASSUME Inv, Joined
  PROVE  Sum(round) = Total /\ \A p \in Threads : round[p] = MAX_COUNT
<1>1. \A p \in Process : round[p] = IF p \in Threads THEN MAX_COUNT ELSE 0
  BY DEF Inv, PlacesSound, Joined
<1>2. MAX_COUNT \in Nat
  BY CountingAssumption
<1>3. program.threads \in {2, 4}
  BY ProgramShape DEF Inv, TypeOK, Shape
<1>4. /\ {0, 1} \subseteq Threads /\ {0, 1} \subseteq Process
      /\ N_THREADS > 2 => 2 \in Process /\ (2 \in Threads <=> program.threads = 4)
      /\ N_THREADS > 3 => 3 \in Process /\ (3 \in Threads <=> program.threads = 4)
  BY <1>3, CountingAssumption DEF Threads, Process
<1>5. Sum(round) = Total
  <2>1. CASE N_THREADS = 2
    BY <1>1, <1>2, <1>3, <1>4, <2>1 DEF Sum, Total
  <2>2. CASE N_THREADS = 3
    BY <1>1, <1>2, <1>3, <1>4, <2>2 DEF Sum, Total
  <2>3. CASE N_THREADS = 4
    BY <1>1, <1>2, <1>3, <1>4, <2>3 DEF Sum, Total
  <2> QED BY <2>1, <2>2, <2>3, CountingAssumption
<1> QED BY <1>1, <1>5 DEF Threads

\* With a lock or atomic additions main prints all that was counted; without,
\* at least two additions survive (one if a thread counts once only).
THEOREM CountsAreBounded == Spec => []CountedAtTheEnd
<1>1. ASSUME Inv, Joined
      PROVE  IF Excludes \/ program.add = "atomic"
             THEN memory[shared_counter] = Total
             ELSE memory[shared_counter] \in (IF MAX_COUNT = 1 THEN 1 ELSE 2) .. Total
  <2>1. Sum(round) = Total /\ \A p \in Threads : round[p] = MAX_COUNT
    BY <1>1, RoundsAtTheEnd
  <2>2. \A p \in Process : Drained(p) /\ pc[p] = "done"
    BY <1>1 DEF Joined
  <2>3. CASE Excludes
    <3>1. CounterSound
      BY <1>1, <2>3 DEF Inv, RegionSound
    <3> QED BY <2>1, <2>2, <2>3, <3>1 DEF CounterSound
  <2>4. CASE ~Excludes /\ program.add = "atomic"
    BY <1>1, <2>1, <2>4 DEF Inv, AtomicSound
  <2>5. CASE ~Excludes /\ program.add # "atomic"
    <3>1. RaceSound
      BY <1>1, <2>5 DEF Inv
    <3>2. \A p \in Process : Pending(p, shared_counter) = {}
      BY <2>2 DEF Drained, Pending
    <3>3. PICK p \in Threads : memory[shared_counter] >= AtLeast(round[p])
      BY <3>1, <3>2 DEF RaceSound, Threads
    <3>4. memory[shared_counter] \in Nat /\ memory[shared_counter] <= Total
      BY <1>1, <2>1, <3>1, PlacesDiffer DEF Inv, TypeOK, RaceSound
    <3>5. AtLeast(round[p]) = IF MAX_COUNT = 1 THEN 1 ELSE 2
      BY <2>1, CountingAssumption DEF AtLeast
    <3>6. Total \in Nat
      BY <2>1, <1>1, SumIsNat, CountingAssumption DEF Inv, TypeOK
    <3> QED BY <2>5, <3>3, <3>4, <3>5, <3>6
  <2> QED BY <2>3, <2>4, <2>5
<1>2. Inv => CountedAtTheEnd
  BY <1>1 DEF CountedAtTheEnd
<1> QED BY <1>2, InvariantHolds, PTL

----------------------------------------------------------------------------
(* The region of the programs that have one.                               *)

\* The counter that was stored last is what all threads have counted.
LEMMA CountedIsSum == Inv /\ Excludes => Counted = Sum(round)
<1> SUFFICES ASSUME Inv, Excludes PROVE Counted = Sum(round)
  OBVIOUS
<1>1. TypeOK /\ BuffersSound /\ CounterSound
  BY DEF Inv, RegionSound
<1>2. ASSUME NEW p \in Process, NEW i \in Pending(p, shared_counter)
      PROVE  buffer[p][i].value = Sum(round)
  <2>1. i \in DOMAIN buffer[p] /\ buffer[p][i].to = shared_counter
    BY DEF Pending
  <2>2. buffer[p][i].to # interested(p) /\ buffer[p][i].to # turn
    BY <2>1, PlacesDiffer
  <2>3. buffer[p][i] # [to |-> turn, value |-> p]
    BY <2>2
  <2>4. buffer[p][i] = [to |-> shared_counter, value |-> Sum(round)]
    BY <1>1, <2>1, <2>2, <2>3 DEF BuffersSound
  <2> QED BY <2>4
<1>3. CASE \E p \in Process : Pending(p, shared_counter) # {}
  <2> DEFINE q == CHOOSE p \in Process : Pending(p, shared_counter) # {}
  <2>1. q \in Process /\ Pending(q, shared_counter) # {}
    BY <1>3
  <2>2. Counted = Read(q, shared_counter)
    BY <1>3 DEF Counted
  <2> HIDE DEF q
  <2>3. \E i \in Pending(q, shared_counter) : Read(q, shared_counter) = buffer[q][i].value
    BY <1>1, <2>1, ReadsLastStore
  <2> QED BY <1>2, <2>1, <2>2, <2>3
<1>4. CASE \A p \in Process : Pending(p, shared_counter) = {}
  <2>1. ASSUME NEW p \in Process, pc[p] = "leave" PROVE Drained(p)
    <3>1. ASSUME NEW i \in DOMAIN buffer[p] PROVE i \in Pending(p, shared_counter)
      <4>1. buffer[p][i] = [to |-> shared_counter, value |-> Sum(round)]
        BY <1>1, <2>1 DEF BuffersSound, Tests
      <4>2. buffer[p][i].to = shared_counter
        BY <4>1
      <4> QED BY <4>2 DEF Pending
    <3> QED BY <1>1, <1>4, <3>1, BufferIs
  <2>2. memory[shared_counter] = Sum(round)
    BY <1>1, <2>1 DEF CounterSound
  <2> QED BY <1>4, <2>2 DEF Counted
<1> QED BY <1>3, <1>4

\* What inside is mapped to.
InsideSound ==
  /\ \A q \in Process : InRegion(q) => Inside = q
  /\ (\A q \in Process : ~InRegion(q)) => Inside = -1

LEMMA InsideIs == Inv /\ Excludes => InsideSound
<1> SUFFICES ASSUME Inv, Excludes PROVE InsideSound
  OBVIOUS
<1>1. \A p, q \in Process : InRegion(p) /\ InRegion(q) => p = q
  BY DEF Inv, RegionSound, Exclusion
<1> QED BY <1>1 DEF InsideSound, Inside

LEMMA OtherwiseNothing == ~Excludes => Inside = -1
BY DEF Inside

\* The mapping of the state to that of CriticalSection.
counterbar == IF Excludes THEN Counted ELSE 0

LEMMA InitRefines == Init => CS!Init
<1> SUFFICES ASSUME Init PROVE CS!Init
  OBVIOUS
<1>1. Inv
  BY InitInv
<1>2. CASE Excludes
  <2>1. /\ {0, 1} \subseteq Process
        /\ N_THREADS > 2 => 2 \in Process
        /\ N_THREADS > 3 => 3 \in Process
    BY CountingAssumption DEF Process
  <2>2. Sum(round) = 0
    BY <2>1, CountingAssumption DEF Init, Sum
  <2>3. program.first \in {"lock", "wait", "out"}
    BY <1>2 DEF Excludes, Locks, Petersons
  <2>4. \A p \in Process : ~InRegion(p)
    BY <2>3 DEF Init, InRegion
  <2> QED BY <1>1, <1>2, <2>2, <2>4, CountedIsSum, InsideIs DEF InsideSound, CS!Init
<1>3. CASE ~Excludes
  BY <1>3, OtherwiseNothing DEF CS!Init
<1> QED BY <1>2, <1>3

LEMMA StepRefines ==
  Inv /\ Inv' /\ [Next]_vars => [CS!Next]_<<Inside, counterbar>>
<1> SUFFICES ASSUME Inv, Inv', [Next]_vars PROVE [CS!Next]_<<Inside, counterbar>>
  OBVIOUS
<1>1. CASE UNCHANGED vars
  BY <1>1 DEF vars, Inside, counterbar, Counted, Excludes, Petersons, Locks, InRegion,
              Pending, Read
<1>2. ASSUME NEW p \in Process, Run(p) \/ Drain(p)
      PROVE  [CS!Next]_<<Inside, counterbar>>
  <2>1. TypeOK /\ PlacesSound
    BY DEF Inv
  <2>2. program' = program
    BY <1>2, <2>1, OneMoves DEF Drain
  <2>3. Excludes' <=> Excludes
    BY <2>2 DEF Excludes, Petersons, Locks
  <2>4. CASE ~Excludes
    <3>1. (~Excludes => Inside = -1)'
      BY OtherwiseNothing, PTL
    <3>2. Inside' = Inside
      BY <2>3, <2>4, <3>1, OtherwiseNothing
    <3> QED BY <2>3, <2>4, <3>2 DEF counterbar
  <2>5. CASE Excludes
    <3>1. /\ counterbar = Sum(round) /\ counterbar' = Sum(round)'
          /\ \A q \in Process : InRegion(q) => Inside = q
          /\ (\A q \in Process : ~InRegion(q)) => Inside = -1
          /\ \A q \in Process : InRegion(q)' => Inside' = q
          /\ (\A q \in Process : ~InRegion(q)') => Inside' = -1
      <4>1. (Inv /\ Excludes => Counted = Sum(round))'
        BY CountedIsSum, PTL
      <4>2. (Inv /\ Excludes => InsideSound)'
        BY InsideIs, PTL
      <4> QED BY <2>3, <2>5, <4>1, <4>2, CountedIsSum, InsideIs
          DEF counterbar, InsideSound
    <3>2. RegionSound
      BY <2>5 DEF Inv
    <3>3. ASSUME \A q \in Process : InRegion(q)' <=> InRegion(q), UNCHANGED round
          PROVE  UNCHANGED <<Inside, counterbar>>
      <4>1. Sum(round)' = Sum(round)
        BY <3>3 DEF Sum
      <4> QED BY <3>1, <3>3, <4>1
    <3>4. CASE Drain(p)
      BY <3>3, <3>4 DEF Drain, InRegion
    <3>5. CASE Run(p)
      <4>1. /\ \A q \in Process \ {p} : InRegion(q)' <=> InRegion(q)
            /\ Stores(p) \/ Adds(p) \/ UNCHANGED round
            /\ InRegion(p) => \A q \in Process \ {p} : ~InRegion(q)
        BY <2>1, <2>5, <3>2, <3>5, RegionMoves DEF RegionSound, Exclusion
      <4>2. CASE Passes(p) \/ Locked(p)
        <5>1. \A q \in Process : ~InRegion(q)
          BY <2>1, <2>5, <3>2, <4>2, TestExcludes, LockExcludes DEF Passes
        <5>2. InRegion(p)' /\ UNCHANGED round
          BY <4>2 DEF Passes, Locked, InRegion
        <5>3. Sum(round)' = Sum(round)
          BY <5>2 DEF Sum
        <5> QED BY <3>1, <5>1, <5>2, <5>3 DEF CS!Next, CS!Enter, counterbar
      <4>3. CASE Stores(p) \/ Adds(p)
        <5>1. InRegion(p) /\ InRegion(p)'
          BY <4>3 DEF Stores, Adds, InRegion
        <5>2. round' = [round EXCEPT ![p] = @ + 1]
          BY <4>3 DEF Stores, Adds
        <5>3. Sum(round)' = Sum(round) + 1
          <6>1. round \in [Process -> Nat]
            BY <2>1, CountingAssumption DEF TypeOK
          <6>2. Sum([round EXCEPT ![p] = @ + 1]) = Sum(round) + 1
            BY <6>1, SumGrows
          <6> QED BY <5>2, <6>2 DEF Sum
        <5> QED BY <3>1, <5>1, <5>3 DEF CS!Next, CS!Increment, counterbar
      <4>4. CASE Leaves(p) \/ Unlocks(p)
        <5>1. InRegion(p) /\ ~InRegion(p)' /\ UNCHANGED round
          BY <4>4 DEF Leaves, Unlocks, InRegion
        <5>2. \A q \in Process : ~InRegion(q)'
          BY <4>1, <5>1
        <5>3. Sum(round)' = Sum(round)
          BY <5>1 DEF Sum
        <5> QED BY <3>1, <5>1, <5>2, <5>3 DEF CS!Next, CS!Leave, counterbar
      <4>5. CASE Shows(p) \/ TakesTurn(p) \/ Asks(p) \/ Queues(p) \/ Loads(p)
        <5>1. InRegion(p)' <=> InRegion(p)
          BY <4>5 DEF Shows, TakesTurn, Asks, Queues, Loads, InRegion, Tests
        <5>2. UNCHANGED round
          BY <4>5 DEF Shows, TakesTurn, Asks, Queues, Loads
        <5> QED BY <3>3, <4>1, <5>1, <5>2
      <4> QED BY <2>1, <2>5, <3>2, <3>5, <4>2, <4>3, <4>4, <4>5, RegionStep
    <3> QED BY <1>2, <3>4, <3>5
  <2> QED BY <2>4, <2>5
<1> QED BY <1>1, <1>2 DEF Next

(***************************************************************************)
(* enter_region and leave_region of the programs with a lock, and of those *)
(* with Peterson's algorithm and barriers, keep the promise of             *)
(* CriticalSection: one thread at a time, and what it adds stays, although *)
(* the stores of a processor reach the memory late.                        *)
(***************************************************************************)
THEOREM RegionsGuardTheCounter == Spec => GuardsTheCounter
<1>1. [CS!Next]_<<Inside, counterbar>> => [CS!Next]_CS!csvars
  BY DEF CS!csvars, counterbar
<1> QED BY <1>1, InitRefines, StepRefines, InvariantHolds, PTL
        DEF GuardsTheCounter, CS!Spec, Spec

=============================================================================
