----------------------------- MODULE Backtrace -----------------------------
(***************************************************************************)
(* backtrace.c of the ptrace monitor: what it would say of the target. The *)
(* program initialises it and never asks ("TODO: Implement safer backtrace *)
(* capture", main.c); here it is asked in every state of PtraceMonitor.    *)
(*                                                                         *)
(* The name of a function matters for the words the code looks for in it:  *)
(* a symbol is the set of those it contains. The stacks are those of the   *)
(* C library's mutexes, the innermost frame first.                         *)
(***************************************************************************)
EXTENDS PtraceMonitor, SequencesExt

user_function == {}
futex_wait == {"futex_wait", "futex", "wait"}
futex_wake == {"futex"}
__lll_lock_wait == {"__lll_lock_wait", "lock", "wait"}
__lll_lock_wake == {"lock"}
pthread_mutex_lock == {"pthread_mutex_lock", "mutex", "lock"}
pthread_mutex_unlock == {"mutex", "lock"}

\* Where a thread of the target is.
stack(t) ==
  CASE tpc[t] \in {"wait", "asleep", "waited"} ->
         <<futex_wait, __lll_lock_wait, pthread_mutex_lock, user_function>>
    [] tpc[t] \in {"wake", "woke"} ->
         <<futex_wake, __lll_lock_wake, pthread_mutex_unlock, user_function>>
    [] OTHER -> <<user_function>>

\* Stopped for its tracer, and so readable.
Stopped(t) == t \in frozen \/ (t = target_pid /\ stopped)

----------------------------------------------------------------------------
\* The registers give the innermost frame. The return addresses come from rbp,
\* which is the caller's if the library keeps no frame pointers.
unwind_stack_fp(t, frame_pointers) ==
  CASE ~Stopped(t) -> <<>>
    [] Stopped(t) /\ frame_pointers -> stack(t)
    [] OTHER -> <<Head(stack(t)), user_function>>

\* The tables of the ELF file are never asked, as strtab stays NULL. addr2line
\* knows the functions that are in the executable, at the addresses it has there;
\* the name of the others is ??.
find_symbol_info(symbol, resolved) == IF resolved THEN symbol ELSE {}

backtrace_capture(t, frame_pointers, resolved) ==
  LET frames == unwind_stack_fp(t, frame_pointers)
  IN  [i \in DOMAIN frames |-> find_symbol_info(frames[i], resolved)]

\* The threads in the order of /proc.
backtrace_capture_all_threads(task, frame_pointers, resolved) ==
  [i \in DOMAIN task |-> backtrace_capture(task[i], frame_pointers, resolved)]

Has(frame, words) == frame \cap words # {}

\* Faulty variant: any futex operation is taken for a wait.
backtrace_is_waiting_for_futex(backtrace) ==
  \E i \in DOMAIN backtrace : Has(backtrace[i], {"pthread_mutex_lock", "futex"})

\* A frame that waits for a mutex and, from the first such frame outwards, one
\* that looks like blocking.
backtrace_is_waiting_for_mutex(backtrace) ==
  LET MutexWait(frame) == \/ Has(frame, {"pthread_mutex_lock", "__lll_lock_wait", "futex_wait"})
                          \/ {"futex", "wait"} \subseteq frame
  IN  \E i \in DOMAIN backtrace :
        /\ MutexWait(backtrace[i])
        /\ \A j \in 1 .. i - 1 : ~MutexWait(backtrace[j])
        /\ \E j \in i .. Len(backtrace) :
             Has(backtrace[j], {"schedule", "wait", "sleep", "block", "futex"})

\* The frame before one of a lock, its address standing for a mutex, is taken
\* for a mutex held. As many threads are compared as wait, from the first on.
backtrace_detect_deadlocks(backtraces) ==
  LET waiting == {i \in DOMAIN backtraces : backtrace_is_waiting_for_mutex(backtraces[i])}
      holding == {i \in waiting : \E j \in 2 .. Len(backtraces[i]) :
                    j <= 16 /\ Has(backtraces[i][j], {"pthread_mutex_lock", "__lll_lock_wait"})}
      first == 1 .. Cardinality(waiting)
      mutex_frames(i) == {j \in DOMAIN backtraces[i] :
                            Has(backtraces[i][j], {"mutex", "lock", "futex"})}
      complex_patterns == {i \in DOMAIN backtraces : Cardinality(mutex_frames(i)) >= 2}
  IN  /\ Cardinality(waiting) >= 2
      /\ \/ \E i \in first \cap waiting, j \in first \cap holding : i # j
         \/ Cardinality(complex_patterns) >= 2

----------------------------------------------------------------------------
(***************************************************************************)
(* The backtraces tell a deadlock if and only if two stopped threads are   *)
(* in the slow path of a lock: whatever mutexes they wait for, and also    *)
(* when they have been woken. So no deadlock of stopped threads escapes,   *)
(* in whichever order they are listed; but only in a program whose library *)
(* is linked into it at its own addresses and keeps frame pointers. In any *)
(* other, nothing is told.                                                 *)
(***************************************************************************)
BacktraceTellsWaiters ==
  LET waiters == {t \in Pid : Stopped(t) /\ tpc[t] \in {"wait", "asleep", "waited"}}
      alive == {t \in Pid : tpc[t] \notin {"unborn", "gone"}}
  IN  \A task \in SetToSeqs(alive) : \A frame_pointers, resolved \in BOOLEAN :
        backtrace_detect_deadlocks(
          backtrace_capture_all_threads(task, frame_pointers, resolved))
        <=> frame_pointers /\ resolved /\ Cardinality(waiters) >= 2
============================================================================
