-------------------------- MODULE ProducerConsumer --------------------------
(***************************************************************************)
(* The producer and its consumers (e_pthread/e94_produce_consume,          *)
(* z_atividade/tarefa9): a ring of TAMANHO places, of which one stays      *)
(* free.  A program is a record of what guards the ring and of how a       *)
(* thread waits; a run is of one program.                                  *)
(*                                                                         *)
(* The consumers come one after the other: a run in which only some have   *)
(* come is a run with these only.  d_pc.c, whose main uses names it does   *)
(* not declare, is modelled as if it did.                                  *)
(***************************************************************************)
EXTENDS Integers, Sequences, FiniteSets

CONSTANTS
  TAMANHO,      \* places of the ring (10 in the code)
  N_CONSUMERS,  \* 2 in the code, 10 in d_pc.c and e_pc.c
  MAX_ITEMS,    \* bound: the numbers the producer makes (no bound in the code)
  MAX_SPURIOUS  \* bound: waits of a condition that end without a signal

ASSUME ProducerConsumerAssumption ==
  /\ TAMANHO \in Nat \ {0, 1}
  /\ {N_CONSUMERS, MAX_ITEMS, MAX_SPURIOUS} \subseteq Nat

produtor == 0
Consumer == 1 .. N_CONSUMERS
Thread == {produtor} \cup Consumer

VARIABLES
  program,   \* the program that runs
  consumers, \* its consumers
  pc,
  inserir,   \* where the next number is put
  remover,   \* where the next one is taken
  dados,     \* the ring
  count,     \* numbers in the ring (condition_var_solution.c)
  trava,     \* the mutex or the futex word; 2 is "somebody may sleep"
  v,         \* what enter_region knows of the word
  asleep,    \* threads in the kernel's queue: for the word or for a condition
  slots,     \* the semaphores
  seen,      \* the number a consumer loaded
  at,        \* the index it loaded for remover + 1
  produced, consumed,  \* the last number put and the last one taken
  spurious,  \* waits that ended without a signal
  returned   \* main has returned, and the process ended with it

indices == <<inserir, remover, dados, count, seen, at, produced, consumed>>
locking == <<trava, v, asleep>>
waiting == <<asleep, slots, spurious>>
fixed == <<program, consumers, returned>>
vars == <<fixed, pc, indices, locking, slots, spurious>>

----------------------------------------------------------------------------
(* The programs.  timed: main returns after RUNTIME_SECONDS; in the others *)
(* it joins threads that never end.                                        *)

original == [lock |-> "none", wait |-> "spin", timed |-> TRUE]
a_pc == [original EXCEPT !.timed = FALSE]  \* the producer only, and no main
b_pc == a_pc
c_pc == a_pc  \* its enter_region is not called
d_pc == [lock |-> "futex", wait |-> "poll", timed |-> FALSE]
e_pc == d_pc
mutex_solution == [lock |-> "mutex", wait |-> "poll", timed |-> TRUE]
semaphore_solution == [mutex_solution EXCEPT !.wait = "sem"]
condition_var_solution == [mutex_solution EXCEPT !.wait = "cond"]

Programs == {original, a_pc, b_pc, c_pc, d_pc, e_pc,
             mutex_solution, semaphore_solution, condition_var_solution}

First == CASE program.wait = "sem" -> "down"
           [] program.lock # "none" /\ program.wait # "sem" -> "enter"
           [] OTHER -> "test"

Goto(p, label) == pc' = [pc EXCEPT ![p] = label]

\* for (v = 1;; v++), for (;;)
NextItem(p) == Goto(p, First)

----------------------------------------------------------------------------
(* enter_region, pthread_mutex_lock                                        *)

Held(p) == IF program.wait = "sem" THEN Goto(p, "put") ELSE Goto(p, "test")

CompareExchange(p, expected, desired, failure) ==
  IF trava = expected
    THEN trava' = desired /\ UNCHANGED v
    ELSE v' = [v EXCEPT ![p] = trava] /\ Goto(p, failure) /\ UNCHANGED trava

\* Faulty variant: a mutex that is held does not stop a thread.
LockAnyway(p) ==
  /\ pc[p] = "enter"
  /\ trava' = 1
  /\ Held(p)
  /\ UNCHANGED <<indices, waiting, v>>

Lock(p) ==
  /\ pc[p] = "enter"
  /\ program.lock = "mutex" => trava = 0
  /\ CompareExchange(p, 0, 1, "mark")
  /\ trava = 0 => Held(p)
  /\ UNCHANGED <<indices, waiting>>

Mark(p) ==
  /\ pc[p] = "mark"
  /\ IF v[p] = 2
       THEN Goto(p, "wait") /\ UNCHANGED <<trava, v>>
       ELSE /\ CompareExchange(p, v[p], 2, "take")
            /\ trava = v[p] => Goto(p, "wait")
  /\ UNCHANGED <<indices, waiting>>

\* FUTEX_WAIT fails if the word is not 2, and for whatever the timeout is that
\* the call does not pass.
FutexWait(p) ==
  /\ pc[p] = "wait"
  /\ \/ trava = 2 /\ asleep' = asleep \cup {p} /\ Goto(p, "asleep")
     \/ Goto(p, "take") /\ UNCHANGED asleep
  /\ UNCHANGED <<indices, slots, spurious, trava, v>>

\* A wait that has ended: woken, or out of time. The mutex of a condition is
\* locked again.
Woken(p) ==
  /\ pc[p] = "asleep"
  /\ p \notin asleep
  /\ Goto(p, IF program.lock = "futex" THEN "take" ELSE "enter")
  /\ UNCHANGED <<indices, locking, slots, spurious>>

WakesAlone(p) ==
  /\ p \in asleep
  /\ program.wait = "cond" => spurious < MAX_SPURIOUS
  /\ spurious' = IF program.wait = "cond" THEN spurious + 1 ELSE spurious
  /\ asleep' = asleep \ {p}
  /\ UNCHANGED <<pc, indices, trava, v, slots>>

Take(p) ==
  /\ pc[p] = "take"
  /\ CompareExchange(p, 0, 2, "mark")
  /\ trava = 0 => Held(p)
  /\ UNCHANGED <<indices, waiting>>

----------------------------------------------------------------------------
(* leave_region, pthread_mutex_unlock                                      *)

AfterLeave(p) ==
  IF program.wait = "sem" THEN Goto(p, "up") ELSE NextItem(p)

Unlock(p) ==
  /\ pc[p] = "leave"
  /\ trava' = trava - 1
  /\ IF trava = 1 THEN AfterLeave(p) ELSE Goto(p, "clear")
  /\ UNCHANGED <<indices, waiting, v>>

Clear(p) ==
  /\ pc[p] = "clear"
  /\ trava' = 0
  /\ Goto(p, "wake")
  /\ UNCHANGED <<indices, waiting, v>>

WakeOne(sleepers) ==
  IF sleepers = {} THEN UNCHANGED asleep
                   ELSE \E p \in sleepers : asleep' = asleep \ {p}

Wake(p) ==
  /\ pc[p] = "wake"
  /\ WakeOne(asleep)
  /\ AfterLeave(p)
  /\ UNCHANGED <<indices, trava, v, slots, spurious>>

----------------------------------------------------------------------------
(* Semaphores: empty_slots for the producer, filled_slots for consumers.   *)

Own(p) == IF p = produtor THEN "empty" ELSE "filled"
Others(p) == IF p = produtor THEN "filled" ELSE "empty"

Down(p) ==
  /\ pc[p] = "down"
  /\ slots[Own(p)] > 0
  /\ slots' = [slots EXCEPT ![Own(p)] = @ - 1]
  /\ Goto(p, "enter")
  /\ UNCHANGED <<indices, locking, spurious>>

\* Faulty variant: a thread gives back the slot it took.
UpOwn(p) ==
  /\ pc[p] = "up"
  /\ slots' = [slots EXCEPT ![Own(p)] = @ + 1]
  /\ NextItem(p)
  /\ UNCHANGED <<indices, locking, spurious>>

Up(p) ==
  /\ pc[p] = "up"
  /\ slots' = [slots EXCEPT ![Others(p)] = @ + 1]
  /\ NextItem(p)
  /\ UNCHANGED <<indices, locking, spurious>>

----------------------------------------------------------------------------
(* The ring.                                                               *)

Full == IF program.wait = "cond" THEN count = TAMANHO - 1
                                 ELSE (inserir + 1) % TAMANHO = remover
Empty == IF program.wait = "cond" THEN count = 0 ELSE inserir = remover

MustWait(p) == IF p = produtor THEN Full ELSE Empty

\* A thread that finds nothing to do spins, lets the lock go and asks again,
\* or sleeps, which lets the mutex go in the same step.
Test(p) ==
  /\ pc[p] = "test"
  /\ CASE ~MustWait(p) -> Goto(p, "put") /\ UNCHANGED <<trava, asleep>>
       [] MustWait(p) /\ program.wait = "spin" -> UNCHANGED <<pc, trava, asleep>>
       [] MustWait(p) /\ program.wait = "poll" ->
            Goto(p, "leave") /\ UNCHANGED <<trava, asleep>>
       [] MustWait(p) /\ program.wait = "cond" ->
            Goto(p, "asleep") /\ trava' = 0 /\ asleep' = asleep \cup {p}
  /\ UNCHANGED <<indices, v, slots, spurious>>

AfterChange(p) ==
  IF program.wait = "cond" THEN Goto(p, "signal")
  ELSE IF program.lock # "none" THEN Goto(p, "leave") ELSE NextItem(p)

\* dados[inserir] = v
Put ==
  /\ pc[produtor] = "put"
  /\ dados' = [dados EXCEPT ![inserir] = produced + 1]
  /\ Goto(produtor, "advance")
  /\ UNCHANGED <<inserir, remover, count, seen, at, produced, consumed,
                 locking, slots, spurious>>

\* inserir = (inserir + 1) % TAMANHO: only the producer writes it.
Advance ==
  /\ pc[produtor] = "advance"
  /\ inserir' = (inserir + 1) % TAMANHO
  /\ produced' = produced + 1
  /\ count' = IF program.wait = "cond" THEN count + 1 ELSE count
  /\ AfterChange(produtor)
  /\ UNCHANGED <<remover, dados, seen, at, consumed, locking, slots, spurious>>

\* data = dados[remover]; printf
Get(c) ==
  /\ pc[c] = "put" /\ c # produtor
  /\ seen' = [seen EXCEPT ![c] = dados[remover]]
  /\ Goto(c, "load")
  /\ UNCHANGED <<inserir, remover, dados, count, at, produced, consumed,
                 locking, slots, spurious>>

\* remover = (remover + 1) % TAMANHO is a load and a store.
Load(c) ==
  /\ pc[c] = "load"
  /\ at' = [at EXCEPT ![c] = remover]
  /\ Goto(c, "store")
  /\ UNCHANGED <<inserir, remover, dados, count, seen, produced, consumed,
                 locking, slots, spurious>>

Store(c) ==
  /\ pc[c] = "store"
  /\ remover' = (at[c] + 1) % TAMANHO
  /\ consumed' = seen[c]
  /\ count' = IF program.wait = "cond" THEN count - 1 ELSE count
  /\ AfterChange(c)
  /\ UNCHANGED <<inserir, dados, seen, at, produced, locking, slots, spurious>>

\* Faulty variant: a signal only when the ring was empty, or was full.
SignalAtEdge(p) ==
  /\ pc[p] = "signal"
  /\ IF count = (IF p = produtor THEN 1 ELSE TAMANHO - 2)
       THEN WakeOne({q \in asleep : Own(q) = Others(p)})
       ELSE UNCHANGED asleep
  /\ Goto(p, "leave")
  /\ UNCHANGED <<indices, trava, v, slots, spurious>>

\* pthread_cond_signal of not_empty or not_full.
Signal(p) ==
  /\ pc[p] = "signal"
  /\ WakeOne({q \in asleep : Own(q) = Others(p)})
  /\ Goto(p, "leave")
  /\ UNCHANGED <<indices, trava, v, slots, spurious>>

----------------------------------------------------------------------------
Init ==
  /\ program \in Programs
  /\ consumers \in SUBSET Consumer
  /\ pc = [p \in Thread |-> IF p \in consumers \cup {produtor} THEN First ELSE "done"]
  /\ inserir = 0 /\ remover = 0 /\ count = 0
  /\ dados = [i \in 0 .. TAMANHO - 1 |-> 0]
  /\ trava = 0
  /\ v = [p \in Thread |-> 0]
  /\ asleep = {}
  /\ slots = [empty |-> TAMANHO - 1, filled |-> 0]
  /\ seen = [p \in Thread |-> 0]
  /\ at = [p \in Thread |-> 0]
  /\ produced = 0 /\ consumed = 0
  /\ spurious = 0
  /\ returned = FALSE

Run(p) ==
  /\ ~returned
  /\ p = produtor /\ pc[p] = First => produced < MAX_ITEMS
  /\ \/ Lock(p) \/ Mark(p) \/ FutexWait(p) \/ Woken(p) \/ Take(p)
     \/ Unlock(p) \/ Clear(p) \/ Wake(p)
     \/ Down(p) \/ Up(p)
     \/ Test(p) \/ Get(p) \/ Load(p) \/ Store(p) \/ Signal(p)
     \/ p = produtor /\ (Put \/ Advance)
  /\ UNCHANGED fixed

\* sleep(RUNTIME_SECONDS); return 0
Return ==
  /\ program.timed
  /\ returned' = TRUE
  /\ UNCHANGED <<program, consumers, pc, indices, locking, slots, spurious>>

Next ==
  \/ \E p \in Thread : Run(p)
  \/ \E p \in Thread : ~returned /\ WakesAlone(p) /\ UNCHANGED fixed
  \/ Return

Spec == Init /\ [][Next]_vars

\* The scheduler runs every thread that can run; main need not return, and no
\* wait has to end without a signal.
FairSpec == Spec /\ \A p \in Thread : WF_vars(Run(p))

----------------------------------------------------------------------------
(* Properties.                                                             *)

\* The programs that promise a buffer: those with a lock, and the others as
\* long as one consumer has come.
Promised == program.lock # "none" \/ Cardinality(consumers) <= 1

\* The ring is a bounded buffer (BoundedBuffer!Spec): no number is lost, taken
\* twice or taken out of order, and no place is used again before its number
\* is taken, with any number of consumers if there is a lock, and without one
\* as long as there is one consumer.
InRing == [i \in 1 .. (inserir - remover) % TAMANHO |-> dados[(remover + i - 1) % TAMANHO]]
Buffer == INSTANCE BoundedBuffer WITH
            Capacity <- TAMANHO - 1,
            produced <- IF Promised THEN produced ELSE 0,
            held <- IF Promised THEN InRing ELSE <<>>,
            consumed <- IF Promised THEN consumed ELSE 0
IsBoundedBuffer == Buffer!Spec

\* No lost signal: while a consumer sleeps, there are no more numbers in the
\* ring than consumers awake to take them and signals about to be sent, and
\* while the producer sleeps, the ring is full or a signal is about to be sent.
SignalsReachSleepers ==
  program.wait = "cond" =>
    /\ asleep \cap Consumer # {} =>
         count <= Cardinality({p \in consumers \ asleep : pc[p] # "signal"})
                  + Cardinality({p \in {produtor} : pc[p] = "signal"})
    /\ produtor \in asleep =>
         count = TAMANHO - 1 \/ \E c \in consumers : pc[c] = "signal"

\* Every number reaches a consumer, where threads wait by semaphores or
\* conditions, or spin and are two. (Where they ask for an unfair
\* lock again and again, one of them may never get it.)
AllConsumed ==
  (consumers # {} /\ (program.wait \in {"sem", "cond"} \/ (program.wait = "spin" /\ Promised)))
    => <>(returned \/ consumed = MAX_ITEMS)
=============================================================================
