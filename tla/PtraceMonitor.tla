--------------------------- MODULE PtraceMonitor ---------------------------
(***************************************************************************)
(* ptrace-lockdep (z_atividade/projeto/gois/src/ptrace): the loop of       *)
(* main.c over ptrace_attach.c and the handlers of syscall_intercept.c,    *)
(* feeding LockTracker, beside the target it traces.                       *)
(*                                                                         *)
(* The target's threads use mutexes over futexes: only a lock that is      *)
(* taken and an unlock somebody waits for are system calls.  The loop      *)
(* restarts and waits for target_pid alone.  The pending futex operations  *)
(* of syscall_intercept.c are written and dropped and decide nothing: they *)
(* are left out, and so are the stops no handler acts on.                  *)
(*                                                                         *)
(* The tracker is also driven, in place of the loop, by any caller of its  *)
(* header: driver says which, once and for all.                            *)
(***************************************************************************)
EXTENDS LockTracker

CONSTANTS
  target_pid,  \* the thread the monitor is given
  MaxThreads   \* bound: how many threads the target ever has

ASSUME PtraceMonitorAssumption == target_pid \in Pid /\ MaxThreads \in Nat \ {0}

VARIABLES
  driver,          \* "main.c" or "lock_tracker.h"
  config,          \* the options: continuous_mode, monitor_all_threads
  mon,             \* where main is
  deadlock_found,  \* what it prints in the summary
  exit_requested,  \* a signal came, or timeout_seconds are over
  stopped,         \* target_pid is stopped for its tracer
  frozen,          \* the threads stopped by ptrace_attach_all_threads
  tpc,             \* where each thread of the target is
  op,              \* the mutex, or the new thread, of its call
  owner,           \* the real owners
  contended        \* the mutexes whose word says that somebody waits

target == <<tpc, op, owner, contended>>
vars == <<tracker, driver, config, mon, deadlock_found, exit_requested, stopped,
          frozen, target>>

config_t == [continuous_mode : BOOLEAN, monitor_all_threads : BOOLEAN]

----------------------------------------------------------------------------
(* The target and the kernel.                                              *)

Goto(t, x, label) ==
  /\ tpc' = [tpc EXCEPT ![t] = label]
  /\ op' = [op EXCEPT ![t] = x]

\* pthread_mutex_lock, and its loop after a wait.
Lock_(t, l) ==
  /\ tpc[t] = "run" \/ (tpc[t] = "waited" /\ op[t] = l)
  /\ IF owner[l] = None
     THEN /\ owner' = [owner EXCEPT ![l] = t]
          /\ contended' = IF tpc[t] = "run" THEN contended ELSE contended \cup {l}
          /\ Goto(t, None, "run")
     ELSE /\ contended' = contended \cup {l}
          /\ Goto(t, l, "wait")
          /\ UNCHANGED owner

\* FUTEX_WAIT sleeps if the word still says contended; else EAGAIN.
Wait(t) ==
  /\ tpc[t] = "wait"
  /\ Goto(t, op[t], IF op[t] \in contended THEN "asleep" ELSE "waited")
  /\ UNCHANGED <<owner, contended>>

Unlock(t, l) ==
  /\ tpc[t] = "run"
  /\ owner[l] = t
  /\ owner' = [owner EXCEPT ![l] = None]
  /\ contended' = contended \ {l}
  /\ IF l \in contended THEN Goto(t, l, "wake") ELSE Goto(t, None, "run")

\* FUTEX_WAKE wakes one of those that sleep.
Wake(t) ==
  LET Sleepers == {u \in Pid : tpc[u] = "asleep" /\ op[u] = op[t]} IN
  /\ tpc[t] = "wake"
  /\ \/ Sleepers = {} /\ Goto(t, op[t], "woke")
     \/ \E u \in Sleepers : tpc' = [tpc EXCEPT ![t] = "woke", ![u] = "waited"]
                            /\ UNCHANGED op
  /\ UNCHANGED <<owner, contended>>

Clone(t) ==
  /\ tpc[t] = "run"
  /\ Cardinality({u \in Pid : tpc[u] # "unborn"}) < MaxThreads
  /\ \E u \in Pid : /\ tpc[u] = "unborn"
                    /\ tpc' = [tpc EXCEPT ![t] = "cloned", ![u] = "run"]
                    /\ op' = [op EXCEPT ![t] = u]
  /\ UNCHANGED <<owner, contended>>

Back(t) ==
  /\ tpc[t] \in {"woke", "cloned"}
  /\ Goto(t, None, "run")
  /\ UNCHANGED <<owner, contended>>

Exit(t) ==
  /\ tpc[t] = "run"
  /\ Goto(t, None, "exit")
  /\ UNCHANGED <<owner, contended>>

\* target_pid ends with exit_group, and the others with it.
Gone(t) ==
  /\ tpc[t] = "exit"
  /\ tpc' = [u \in Pid |-> IF u = t \/ t = target_pid THEN "gone" ELSE tpc[u]]
  /\ UNCHANGED <<op, owner, contended>>

\* Where target_pid stops, if traced: system calls, and its end.
Stops == {"wait", "waited", "wake", "woke", "cloned", "exit", "gone"}
Traced == mon \notin {"off", "ended"}

TargetMoves(t) ==
  /\ driver = "main.c"
  /\ t \notin frozen
  /\ t = target_pid => ~stopped
  /\ \/ \E l \in Lock : Lock_(t, l) \/ Unlock(t, l)
     \/ Wait(t)
     \/ Wake(t)
     \/ Clone(t)
     \/ Back(t)
     \/ Exit(t)
     \/ Gone(t)
  /\ stopped' = IF tpc'[target_pid] = tpc[target_pid] THEN stopped
                ELSE Traced /\ tpc'[target_pid] \in Stops
  /\ UNCHANGED <<tracker, driver, config, mon, deadlock_found, exit_requested, frozen>>

----------------------------------------------------------------------------
(* syscall_intercept.c, for the stop target_pid is at.                     *)

\* Faulty variant: the call is charged to another thread.
syscall_handle_futex_wrong_pid(pid) ==
  \/ tpc[pid] = "wait" /\ \E t \in Pid : lock_tracker_register_acquisition(t, op[pid], FALSE)
  \/ tpc[pid] = "wake" /\ lock_tracker_register_release(pid, op[pid])
  \/ tpc[pid] \in {"waited", "woke"} /\ UNCHANGED tracker

\* The call of FUTEX_WAIT is an acquisition, whatever the kernel will answer;
\* the call of FUTEX_WAKE is a release; their returns change nothing. (Both
\* register pid again, which has been since the loop began.)
syscall_handle_futex(pid) ==
  \/ tpc[pid] = "wait" /\ lock_tracker_register_acquisition(pid, op[pid], FALSE)
  \/ tpc[pid] = "wake" /\ lock_tracker_register_release(pid, op[pid])
  \/ tpc[pid] \in {"waited", "woke"} /\ UNCHANGED tracker

\* The return of clone registers the new thread.
syscall_handle_clone(pid) ==
  tpc[pid] = "cloned" /\ lock_tracker_register_thread(op[pid])

syscall_handle_exit(pid) ==
  tpc[pid] = "exit" /\ lock_tracker_unregister_thread(pid)

syscall_process(pid) ==
  \/ syscall_handle_futex(pid)
  \/ syscall_handle_clone(pid)
  \/ syscall_handle_exit(pid)

----------------------------------------------------------------------------
(* main.c.                                                                 *)

\* PTRACE_ATTACH stops the thread; it fails if there is none.
ptrace_attach ==
  /\ mon = "off"
  /\ mon' = IF tpc[target_pid] = "gone" THEN "ended" ELSE "attached"
  /\ stopped' = (tpc[target_pid] # "gone")
  /\ UNCHANGED <<tracker, driver, config, deadlock_found, exit_requested, frozen, target>>

\* With what the tracker knows before it was told of anything.
analyze_existing_deadlocks ==
  /\ mon = "attached"
  /\ deadlock_found' = lock_tracker_check_deadlocks
  /\ mon' = IF ~deadlock_found' /\ config.continuous_mode THEN "monitor" ELSE "summary"
  /\ UNCHANGED <<tracker, driver, config, exit_requested, stopped, frozen, target>>

\* The other threads stop where they are.  Nothing restarts them.
ptrace_attach_all_threads ==
  /\ mon = "monitor"
  /\ lock_tracker_register_thread(target_pid)
  /\ frozen' = IF config.monitor_all_threads
               THEN {t \in Pid \ {target_pid} : tpc[t] \notin {"unborn", "gone"}}
               ELSE {}
  /\ mon' = "loop"
  /\ UNCHANGED <<driver, config, deadlock_found, exit_requested, stopped, target>>

\* Faulty variant: the loop does not look at exit_requested.
monitor_process_deaf ==
  /\ mon = "loop"
  /\ mon' = "waitpid"
  /\ stopped' = FALSE
  /\ UNCHANGED <<tracker, driver, config, deadlock_found, exit_requested, frozen, target>>

\* The head of the loop: leave, or restart target_pid and wait for its next stop.
monitor_process ==
  /\ mon = "loop"
  /\ mon' = IF exit_requested THEN "summary" ELSE "waitpid"
  /\ stopped' = (stopped /\ exit_requested)
  /\ UNCHANGED <<tracker, driver, config, deadlock_found, exit_requested, frozen, target>>

\* waitpid returns at a stop only: a signal restarts it (SA_RESTART).
ptrace_wait_for_syscall ==
  /\ mon = "waitpid"
  /\ stopped
  /\ IF tpc[target_pid] = "gone"
     THEN mon' = "summary" /\ UNCHANGED tracker
     ELSE mon' = "processed" /\ syscall_process(target_pid)
  /\ UNCHANGED <<driver, config, deadlock_found, exit_requested, stopped, frozen, target>>

\* Every analysis_interval the tracker is asked.  A deadlock ends the loop,
\* unless detect_only is set.
CheckDeadlocks ==
  /\ mon = "processed"
  /\ \/ mon' = "loop" /\ UNCHANGED deadlock_found
     \/ IF lock_tracker_check_deadlocks
        THEN deadlock_found' = TRUE /\ mon' \in {"loop", "summary"}
        ELSE mon' = "loop" /\ UNCHANGED deadlock_found
  /\ UNCHANGED <<tracker, driver, config, exit_requested, stopped, frozen, target>>

\* The summary; the kernel lets go of what is still attached.
cleanup_subsystems ==
  /\ mon = "summary"
  /\ lock_tracker_cleanup
  /\ mon' = "ended"
  /\ stopped' = FALSE
  /\ frozen' = {}
  /\ UNCHANGED <<driver, config, deadlock_found, exit_requested, target>>

Monitor ==
  /\ driver = "main.c"
  /\ \/ ptrace_attach
     \/ analyze_existing_deadlocks
     \/ ptrace_attach_all_threads
     \/ monitor_process
     \/ ptrace_wait_for_syscall
     \/ CheckDeadlocks
     \/ cleanup_subsystems

\* SIGINT, SIGTERM or the clock.
signal_handler ==
  /\ driver = "main.c"
  /\ mon # "ended"
  /\ exit_requested' = TRUE
  /\ UNCHANGED <<tracker, driver, config, mon, deadlock_found, stopped, frozen, target>>

\* In place of all this, a caller of lock_tracker.h.
OtherCaller ==
  /\ driver = "lock_tracker.h"
  /\ TrackerNext
  /\ UNCHANGED <<driver, config, mon, deadlock_found, exit_requested, stopped, frozen, target>>

----------------------------------------------------------------------------
Init ==
  /\ lock_tracker_init
  /\ driver \in {"main.c", "lock_tracker.h"}
  /\ config \in config_t
  /\ config.monitor_all_threads => config.continuous_mode
  /\ driver = "lock_tracker.h" => ~config.continuous_mode
  /\ mon = "off"
  /\ deadlock_found = FALSE
  /\ exit_requested = FALSE
  /\ stopped = FALSE
  /\ frozen = {}
  /\ tpc = [t \in Pid |-> IF t = target_pid THEN "run" ELSE "unborn"]
  /\ op = [t \in Pid |-> None]
  /\ owner = [l \in Lock |-> None]
  /\ contended = {}

Next ==
  \/ \E t \in Pid : TargetMoves(t)
  \/ Monitor
  \/ signal_handler
  \/ OtherCaller

\* The monitor is scheduled; the target may do what it likes.
Spec == Init /\ [][Next]_vars /\ WF_vars(Monitor)

----------------------------------------------------------------------------
(* Properties.                                                             *)

TypeOK ==
  /\ TrackerTypeOK
  /\ driver \in {"main.c", "lock_tracker.h"}
  /\ config \in config_t
  /\ mon \in {"off", "attached", "monitor", "loop", "waitpid", "processed", "summary", "ended"}
  /\ {deadlock_found, exit_requested, stopped} \subseteq BOOLEAN
  /\ frozen \subseteq Pid \ {target_pid}
  /\ tpc \in [Pid -> Stops \cup {"run", "asleep", "unborn"}]
  /\ op \in [Pid -> Lock \cup Pid \cup {None}]
  /\ owner \in [Lock -> Pid \cup {None}]
  /\ contended \subseteq Lock

(***************************************************************************)
(* ptrace-lockdep as it is never finds a deadlock: the first analysis asks *)
(* a tracker that was told nothing, and the loop tells it of one thread,   *)
(* which alone is never blocked and closes no cycle.                       *)
(***************************************************************************)
FindsNothing == driver = "main.c" => ~deadlock_found /\ ~lock_tracker_check_deadlocks

(***************************************************************************)
(* Once it is told to stop, the monitor ends, or it waits for ever for a   *)
(* thread that makes no system call any more.                              *)
(***************************************************************************)
EndsIfTargetStops == (exit_requested ~> mon = "ended") \/ <>[](mon = "waitpid" /\ ~stopped)
============================================================================
