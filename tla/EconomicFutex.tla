--------------------------- MODULE EconomicFutex ---------------------------
(***************************************************************************)
(* The three-state mutex of e_pthread/e93_futex_economic: the word is 2    *)
(* while the mutex is locked and somebody may sleep for it, and an unlock  *)
(* makes no system call when the word was 1.                               *)
(*                                                                         *)
(* The program passes three arguments to a system call that takes four:    *)
(* the timeout is whatever the register holds, so that a wait may fail at  *)
(* once or end at any time.                                                *)
(***************************************************************************)
EXTENDS Futex

VARIABLE v  \* what each thread knows of the word (v in enter_region)

economicvars == <<pc, word, sleeping, shared_counter, seen, round, v>>

EconomicLabel == {"try", "mark", "wait", "asleep", "take",
          "load", "store", "leave", "clear", "wake", "done"}

\* A failed compare-exchange leaves the value it found in v.
CompareExchangeInto(t, expected, desired, success, failure) ==
  /\ CompareExchange(t, expected, desired, success, failure)
  /\ v' = IF word = expected THEN v ELSE [v EXCEPT ![t] = word]

----------------------------------------------------------------------------
(* enter_region                                                            *)

Try(t) ==
  /\ pc[t] = "try"
  /\ CompareExchangeInto(t, 0, 1, "load", "mark")
  /\ UNCHANGED <<sleeping, shared_counter, Locals>>

\* v == 2 || compare_exchange(&trava, &v, 2); v = 0 comes after both.
Mark(t) ==
  /\ pc[t] = "mark"
  /\ IF v[t] = 2 THEN UNCHANGED word /\ Goto(t, "wait")
                 ELSE CompareExchange(t, v[t], 2, "wait", "take")
  /\ UNCHANGED <<sleeping, shared_counter, Locals, v>>

\* Faulty variant: the kernel is not told what the word should be.
FutexWaitWhatever(t) ==
  /\ pc[t] = "wait"
  /\ sleeping' = sleeping \cup {t}
  /\ Goto(t, "asleep")
  /\ UNCHANGED <<word, shared_counter, Locals, v>>

FutexWait(t) ==
  /\ pc[t] = "wait"
  /\ futex_wait(t, 2, "take")
  /\ UNCHANGED v

\* The timeout the program does not pass: no address, a bad time, or a time.
WaitFails(t) ==
  /\ \/ pc[t] = "wait" /\ UNCHANGED sleeping
     \/ t \in sleeping /\ sleeping' = sleeping \ {t}
  /\ Goto(t, "take")
  /\ UNCHANGED <<word, shared_counter, Locals, v>>

\* Faulty variant: the mutex is taken with 1 after a wait as well.
TakeAsFirst(t) ==
  /\ pc[t] = "take"
  /\ CompareExchangeInto(t, 0, 1, "load", "mark")
  /\ UNCHANGED <<sleeping, shared_counter, Locals>>

\* Faulty variant: the value found is not checked.
TakeAnyway(t) ==
  /\ pc[t] = "take"
  /\ word' = 2
  /\ Goto(t, "load")
  /\ UNCHANGED <<sleeping, shared_counter, Locals, v>>

Take(t) ==
  /\ pc[t] = "take"
  /\ CompareExchangeInto(t, 0, 2, "load", "mark")
  /\ UNCHANGED <<sleeping, shared_counter, Locals>>

----------------------------------------------------------------------------
(* leave_region                                                            *)

\* atomic_fetch_sub: EconomicTypeOK says that it never wraps around.
Leave(t) ==
  /\ pc[t] = "leave"
  /\ word' = word - 1
  /\ IF word = 1 THEN NextRound(t, "try") ELSE Goto(t, "clear")
  /\ UNCHANGED <<sleeping, shared_counter, Locals, v>>

Clear(t) ==
  /\ pc[t] = "clear"
  /\ word' = 0
  /\ Goto(t, "wake")
  /\ UNCHANGED <<sleeping, shared_counter, Locals, v>>

\* Faulty variant: nobody is woken.
FutexWakeNobody(t) ==
  /\ pc[t] = "wake"
  /\ NextRound(t, "try")
  /\ UNCHANGED <<sleeping, word, shared_counter, Locals, v>>

FutexWake(t) ==
  /\ pc[t] = "wake"
  /\ futex_wake
  /\ NextRound(t, "try")
  /\ UNCHANGED <<word, shared_counter, Locals, v>>

----------------------------------------------------------------------------
EconomicInit == InitAt("try") /\ v = [t \in Thread |-> 0]

EconomicRun(t) ==
  \/ Try(t) \/ Mark(t) \/ FutexWait(t) \/ Take(t)
  \/ Leave(t) \/ Clear(t) \/ FutexWake(t)
  \/ (Woken(t, "take") \/ Load(t) \/ Store(t)) /\ UNCHANGED v

EconomicNext ==
  \/ \E t \in Thread : EconomicRun(t) \/ WaitFails(t)
  \/ Joined /\ UNCHANGED economicvars

EconomicSpec == EconomicInit /\ [][EconomicNext]_economicvars

\* The scheduler runs every thread that can run; no wait has to fail.
EconomicFairSpec == EconomicSpec /\ \A t \in Thread : WF_economicvars(EconomicRun(t))

----------------------------------------------------------------------------
(* Properties, besides GuardsTheCounter and AllCounted of Futex: a thread  *)
(* may mark the word as contended between the subtraction and the store of *)
(* leave_region, and no wait has to time out.                              *)

EconomicTypeOK ==
  /\ TypeOKFor(EconomicLabel)
  /\ word \in 0 .. 2
  /\ v \in [Thread -> 0 .. 2]

(***************************************************************************)
(* No lost wakeup: while a thread sleeps, either the word is 2, so that    *)
(* the next unlock makes the system call, or another thread is on its way  *)
(* to wake one or to set the word to 2. A thread that has just called      *)
(* enter_region does not count: it may leave the word at 1.                *)
(***************************************************************************)
SeesToIt(t) ==
  \/ pc[t] \in {"clear", "wake", "take", "mark", "wait"}
  \/ pc[t] = "asleep" /\ t \notin sleeping

NoWakeupSkipped ==
  sleeping # {} /\ word # 2 => \E t \in Thread : SeesToIt(t)

----------------------------------------------------------------------------
(* The inductive invariant.                                                *)

\* No thread marks a word it saw unlocked: it would sleep for nobody.
MarksLocked == \A t \in Thread : pc[t] = "mark" => v[t] # 0

EconomicInv ==
  /\ EconomicTypeOK
  /\ Sound
  /\ MarksLocked
  /\ NoWakeupSkipped
============================================================================
