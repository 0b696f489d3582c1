----------------------------- MODULE SpinFutex -----------------------------
(***************************************************************************)
(* The mutex of z_atividade/tarefa8/main_futex.c: enter_region spins for a *)
(* while before it takes the loop of the two-state mutex (the compare-     *)
(* exchange and the wait of Mufutex, in the same words), and leave_region  *)
(* stores 0 whatever the word is.  The file has no threads of its own:     *)
(* they are those of Futex.  With limit = 0 nobody spins, and the program  *)
(* is that of Mufutex: one run covers both.                                *)
(***************************************************************************)
EXTENDS Mufutex

CONSTANT SPIN_LIMIT  \* how often a thread tries before it may sleep

ASSUME SpinFutexAssumption == SPIN_LIMIT \in Nat \ {0}

VARIABLES
  limit,  \* SPIN_LIMIT, or 0 in e92_mufutex.c, which does not spin
  spins   \* the tries of each thread in this call of enter_region

spinvars == <<vars, limit, spins>>

First == IF limit = 0 THEN "cas" ELSE "spin"

----------------------------------------------------------------------------
SpinSucceeds(t) ==
  /\ pc[t] = "spin"
  /\ word = 0
  /\ word' = 1
  /\ Goto(t, "load")
  /\ UNCHANGED <<sleeping, shared_counter, Locals, limit, spins>>

\* A weak compare-exchange may fail although the word is 0.
SpinFails(t) ==
  /\ pc[t] = "spin"
  /\ spins' = [spins EXCEPT ![t] = @ + 1]
  /\ Goto(t, IF spins[t] + 1 < limit THEN "spin" ELSE "cas")
  /\ UNCHANGED <<word, sleeping, shared_counter, Locals, limit>>

\* leave_region: an unconditional store, then the system call.
StoreZero(t) ==
  /\ pc[t] = "leave"
  /\ limit > 0
  /\ word' = 0
  /\ Goto(t, "wake")
  /\ UNCHANGED <<sleeping, shared_counter, Locals, limit, spins>>

\* Faulty variant: nobody is woken.
SpinWakeNobody(t) ==
  /\ pc[t] = "wake"
  /\ limit > 0
  /\ NextRound(t, "spin")
  /\ spins' = [spins EXCEPT ![t] = 0]
  /\ UNCHANGED <<sleeping, word, shared_counter, Locals, limit>>

SpinWake(t) ==
  /\ pc[t] = "wake"
  /\ limit > 0
  /\ futex_wake
  /\ NextRound(t, "spin")
  /\ spins' = [spins EXCEPT ![t] = 0]
  /\ UNCHANGED <<word, shared_counter, Locals, limit>>

----------------------------------------------------------------------------
\* Either program; the run is of one of them.
SpinInit ==
  /\ limit \in {0, SPIN_LIMIT}
  /\ spins = [t \in Thread |-> 0]
  /\ InitAt(First)

SpinRun(t) ==
  \/ SpinSucceeds(t) \/ SpinFails(t) \/ StoreZero(t) \/ SpinWake(t)
  \/ /\ \/ Lock(t) \/ Wait(t) \/ Woken(t, "cas") \/ Load(t) \/ Store(t)
        \/ limit = 0 /\ (Unlock(t) \/ Wake(t))
     /\ UNCHANGED <<limit, spins>>

SpinNext == (\E t \in Thread : SpinRun(t)) \/ (Joined /\ UNCHANGED spinvars)

SpinSpec == SpinInit /\ [][SpinNext]_spinvars

\* The scheduler runs every thread that can run; a weak compare-exchange may
\* fail every time.
SpinFairSpec == SpinSpec /\ \A t \in Thread : WF_spinvars(SpinRun(t))

----------------------------------------------------------------------------
(***************************************************************************)
(* Properties: NoLostWakeup of Mufutex, GuardsTheCounter and AllCounted of *)
(* Futex hold with spinning too: although a thread that spins may take the *)
(* mutex from the one that was woken for it, a thread sleeps while the     *)
(* mutex is unlocked only if another will wake one, or tries again after   *)
(* it slept or gave up spinning (one that spins does not count).           *)
(***************************************************************************)
============================================================================
