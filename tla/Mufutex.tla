------------------------------ MODULE Mufutex ------------------------------
(***************************************************************************)
(* The two-state mutex of e_pthread/e92_mutex_from_futex/e92_mufutex.c:    *)
(* the word is 1 while the mutex is locked, and every unlock makes a       *)
(* system call to wake one waiter.                                         *)
(***************************************************************************)
EXTENDS Futex

vars == <<pc, word, sleeping, shared_counter, seen, round>>

Label == {"cas", "wait", "asleep", "load", "store", "leave", "wake",
          "eperm", "done"}

----------------------------------------------------------------------------
(* mufutex_lock                                                            *)

\* Faulty variant: the word is read, and written later if it was 0.
LockNotAtomic(t) ==
  /\ pc[t] = "cas"
  /\ \/ word = 0 /\ word' = 1 /\ Goto(t, "load")
     \/ word = 1 /\ word' = 1 /\ \E l \in {"wait", "load"} : Goto(t, l)
  /\ UNCHANGED <<sleeping, shared_counter, Locals>>

Lock(t) ==
  /\ pc[t] = "cas"
  /\ CompareExchange(t, 0, 1, "load", "wait")
  /\ UNCHANGED <<sleeping, shared_counter, Locals>>

\* Faulty variant: the kernel is not told what the word should be.
WaitWhatever(t) ==
  /\ pc[t] = "wait"
  /\ sleeping' = sleeping \cup {t}
  /\ Goto(t, "asleep")
  /\ UNCHANGED <<word, shared_counter, Locals>>

Wait(t) == pc[t] = "wait" /\ futex_wait(t, 1, "cas")

----------------------------------------------------------------------------
(* mufutex_unlock                                                          *)

\* Unlocking a mutex that is not locked is an error the threads never meet.
Unlock(t) ==
  /\ pc[t] = "leave"
  /\ CompareExchange(t, 1, 0, "wake", "eperm")
  /\ UNCHANGED <<sleeping, shared_counter, Locals>>

\* Faulty variant: nobody is woken.
WakeNobody(t) ==
  /\ pc[t] = "wake"
  /\ NextRound(t, "cas")
  /\ UNCHANGED <<sleeping, word, shared_counter, Locals>>

Wake(t) ==
  /\ pc[t] = "wake"
  /\ futex_wake
  /\ NextRound(t, "cas")
  /\ UNCHANGED <<word, shared_counter, Locals>>

----------------------------------------------------------------------------
Init == InitAt("cas")

Run(t) ==
  \/ Lock(t) \/ Wait(t) \/ Woken(t, "cas")
  \/ Load(t) \/ Store(t)
  \/ Unlock(t) \/ Wake(t)

Next == (\E t \in Thread : Run(t)) \/ (Joined /\ UNCHANGED vars)

Spec == Init /\ [][Next]_vars

\* The scheduler runs every thread that can run.
FairSpec == Spec /\ \A t \in Thread : WF_vars(Run(t))

----------------------------------------------------------------------------
(* Properties, besides GuardsTheCounter and AllCounted of Futex.           *)

TypeOK == TypeOKFor(Label) /\ word \in {0, 1}

(***************************************************************************)
(* No lost wakeup: a thread sleeps while the mutex is unlocked only if     *)
(* another is about to wake one, or to try for the mutex itself and to     *)
(* wake one later.                                                         *)
(***************************************************************************)
Awake(t) ==
  \/ pc[t] \in {"cas", "wait", "wake"}
  \/ pc[t] = "asleep" /\ t \notin sleeping

NoLostWakeup ==
  sleeping # {} /\ word = 0 => \E t \in Thread : Awake(t)

\* mufutex_unlock never returns -EPERM: no thread unlocks what another did.
NeverEPERM == \A t \in Thread : pc[t] # "eperm"

----------------------------------------------------------------------------
(* The inductive invariant.                                                *)

IInv ==
  /\ TypeOK
  /\ Sound
  /\ NeverEPERM
  /\ NoLostWakeup
============================================================================
