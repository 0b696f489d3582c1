-------------------------- MODULE CriticalSection --------------------------
(***************************************************************************)
(* What enter_region and leave_region promise to the threads of the        *)
(* counting programs of the course: one thread at a time is inside, and    *)
(* what it adds to the shared counter stays there.                         *)
(***************************************************************************)
EXTENDS Naturals

CONSTANTS Thread, None

VARIABLES
  inside,  \* the thread in the critical section, or None
  counter  \* shared_counter

csvars == <<inside, counter>>

Init ==
  /\ inside = None
  /\ counter = 0

Enter(t) ==
  /\ inside = None
  /\ inside' = t
  /\ UNCHANGED counter

Increment(t) ==
  /\ inside = t
  /\ counter' = counter + 1
  /\ UNCHANGED inside

Leave(t) ==
  /\ inside = t
  /\ inside' = None
  /\ UNCHANGED counter

Next == \E t \in Thread : Enter(t) \/ Increment(t) \/ Leave(t)

Spec == Init /\ [][Next]_csvars
============================================================================
