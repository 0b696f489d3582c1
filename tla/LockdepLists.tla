---------------------------- MODULE LockdepLists ----------------------------
(***************************************************************************)
(* lockdep_core.c with its linked lists, in the copy of                    *)
(* z_atividade/projeto/hub: the registries of locks and threads, the       *)
(* stacks of held locks, the children of each lock, and the report printed *)
(* when the search comes back to a lock.  A list is a sequence, the        *)
(* element that was inserted last first.                                   *)
(*                                                                         *)
(* The calls are those of module Lockdep, which keeps the same data as     *)
(* sets and relations: each step updates both, and ListsAgree compares     *)
(* them.                                                                   *)
(***************************************************************************)
EXTENDS Lockdep, SequencesExt

CONSTANTS
  Address,       \* lock_addr, as a number
  MAX_SUGGESTED  \* the locks an order is suggested for (256 in the code)

ASSUME LockdepListsAssumption ==
  /\ Address \in [Lock -> Nat]
  /\ \A k, l \in Lock : Address[k] = Address[l] => k = l
  /\ MAX_SUGGESTED \in Nat

VARIABLES
  lock_registry, thread_registry,
  held_locks,  \* ctx->held_locks
  children,    \* lock->children
  report       \* what was printed in the call that is being answered, if anything

lists == <<lock_registry, thread_registry, held_locks, children>>
listVars == <<vars, lists, report>>

NoReport == <<>>

find_or_register_lock(l) ==
  IF Contains(lock_registry, l) THEN lock_registry ELSE <<l>> \o lock_registry

find_thread_context(t) == Contains(thread_registry, t)

\* Without a context (NULL) the thread gets one, whose list is the new record.
add_lock_to_thread_context(t, l) ==
  /\ thread_registry' = IF find_thread_context(t) THEN thread_registry
                                                  ELSE <<t>> \o thread_registry
  /\ held_locks' = [held_locks EXCEPT ![t] = <<l>> \o @]

\* Faulty variant: the loop stops at the first record.
release_first_from_thread_context(t, l) ==
  held_locks' = [held_locks EXCEPT ![t] = RemoveFirst(@, l)]

\* What the loop leaves of a list: every record of l is unlinked.
without(s, l) ==
  LET kept[n \in 0 .. Len(s)] ==
        IF n = 0 THEN <<>>
        ELSE IF s[n] = l THEN kept[n - 1] ELSE Append(kept[n - 1], s[n])
  IN  kept[Len(s)]

release_lock_from_thread_context(t, l) ==
  held_locks' = [held_locks EXCEPT ![t] = without(@, l)]

\* The record after the head, if there is one, gets a child it has not got.
add_child_to_previous(stack, l) ==
  IF Len(stack) > 1 /\ ~Contains(children[stack[2]], l)
  THEN [children EXCEPT ![stack[2]] = <<l>> \o @]
  ELSE children

(***************************************************************************)
(* has_cycle: cycle_path and the lock that closes it, of the first path    *)
(* that comes back to a lock on it; search has the answer for every path.  *)
(* The marks are those of the path: every search leaves them all clear     *)
(* (NoStaleMarks in module LockdepDfs).                                    *)
(***************************************************************************)
visit(search, cycle_path, c) ==
  IF Contains(cycle_path, c) THEN Append(cycle_path, c)
                             ELSE search[Append(cycle_path, c)]

first_cycle(search, cycle_path, cs) ==
  LET found == {i \in DOMAIN cs : visit(search, cycle_path, cs[i]) # <<>>}
  IN  IF found = {} THEN <<>> ELSE visit(search, cycle_path, cs[Min(found)])

cycle_from(C, l) ==
  LET search[cycle_path \in Seq(Lock)] ==
        first_cycle(search, cycle_path,
                    C[IF cycle_path = <<>> THEN l ELSE Last(cycle_path)])
  IN  search[<<>>]

\* The locks registered last (each is there once), by ascending address.
suggest_lock_ordering(registry) ==
  LET room  == IF Len(registry) < MAX_SUGGESTED THEN Len(registry) ELSE MAX_SUGGESTED
      locks == {registry[i] : i \in 1 .. room}
      Rank(l) == Cardinality({k \in locks : Address[k] < Address[l]})
  IN  [i \in 1 .. Cardinality(locks) |-> CHOOSE l \in locks : Rank(l) = i - 1]

print_report(cycle, registry) == [cycle |-> cycle, order |-> suggest_lock_ordering(registry)]

acquire_in_lists(t, l) ==
  /\ lock_registry' = find_or_register_lock(l)
  /\ add_lock_to_thread_context(t, l)
  /\ children' = add_child_to_previous(held_locks'[t], l)
  /\ LET cycle == cycle_from(children', l)
     IN  report' = [report EXCEPT ![t] = IF cycle = <<>> THEN NoReport
                                         ELSE print_report(cycle, lock_registry')]

\* A thread without a context has none to release from: NULL is dereferenced.
release_in_lists(t, l) ==
  /\ find_thread_context(t)
  /\ release_lock_from_thread_context(t, l)
  /\ UNCHANGED <<lock_registry, thread_registry, children, report>>

\* The answer is given with the return of the call.
Answered(t) == report' = [report EXCEPT ![t] = NoReport] /\ UNCHANGED lists

ListsInit ==
  /\ Init
  /\ lock_registry = <<>> /\ thread_registry = <<>>
  /\ held_locks = [t \in Thread |-> <<>>]
  /\ children = [l \in Lock |-> <<>>]
  /\ report = [t \in Thread |-> NoReport]

\* pthread_interpose.c of the hub.
ListsNext ==
  \E t \in Thread :
    \/ \E l \in Lock :
         \/ pthread_mutex_lock(t, l) /\ acquire_in_lists(t, l)
         \/ pthread_mutex_trylock(t, l) /\ UNCHANGED <<lists, report>>
         \/ pthread_mutex_unlock(t, l) /\ UNCHANGED <<lists, report>>
    \/ Locked(t) /\ Answered(t)
    \/ TryRecorded(t) /\ acquire_in_lists(t, op[t])
    \/ TryRefused(t) /\ Answered(t)
    \/ Unlocked(t) /\ release_in_lists(t, op[t])

ListsSpec == ListsInit /\ [][ListsNext]_listVars

----------------------------------------------------------------------------
(***************************************************************************)
(* The lists and what is found in them are those of module Lockdep: a      *)
(* stack has the records in the order of their stamps; the children of a   *)
(* lock are its edges, each once; the search of the lists reports exactly  *)
(* the acquisitions that close a cycle, and what it prints is one, of      *)
(* registered locks, all of them in the suggested order if it has room;    *)
(* and a release finds a context.                                          *)
(***************************************************************************)
StacksAgree ==
  \A t \in Thread :
    /\ Len(held_locks[t]) = Cardinality(held[t])
    /\ \A r \in held[t] :
         held_locks[t][1 + Cardinality({q \in held[t] : q.at > r.at})] = r.lock
ChildrenAgree ==
  /\ edges = {e \in Lock \X Lock : Contains(children[e[1]], e[2])}
  /\ \A l \in Lock : IsInjective(children[l])
ReportsAgree ==
  \A t \in Thread :
    /\ warned[t] <=> report[t] # NoReport
    /\ warned[t] =>
         LET path == report[t].cycle
         IN  /\ \E i \in 1 .. Len(path) - 1 : path[i] = Last(path)
             /\ \A i \in 1 .. Len(path) - 1 : <<path[i], path[i + 1]>> \in edges
             /\ Len(lock_registry) <= MAX_SUGGESTED =>
                  ToSet(path) \subseteq ToSet(report[t].order)
ContextsExist ==
  \A t \in Thread : pc[t] = "releasing" => find_thread_context(t)

ListsAgree == StacksAgree /\ ChildrenAgree /\ ReportsAgree /\ ContextsExist

----------------------------------------------------------------------------
(***************************************************************************)
(* The inductive invariant behind ListsAgree (checked by TLC, used by the  *)
(* proofs of LockdepProofs).                                               *)
(***************************************************************************)
ListsTyped ==
  /\ lock_registry \in Seq(Lock)
  /\ thread_registry \in Seq(Thread)
  /\ held_locks \in [Thread -> Seq(Lock)]
  /\ children \in [Lock -> Seq(Lock)]
  /\ DOMAIN report = Thread

\* at stamps the records of the list s, the first one last, and H has them.
Stamped(s, H, at) ==
  /\ at \in [1 .. Len(s) -> Stamp]
  /\ \A i, j \in 1 .. Len(s) : i < j => at[i] > at[j]
  /\ H = {[lock |-> s[i], at |-> at[i]] : i \in 1 .. Len(s)}
StacksStamped ==
  \A t \in Thread : \E at \in [1 .. Len(held_locks[t]) -> Stamp] :
    Stamped(held_locks[t], held[t], at)

\* What the stacks and the graph refer to is in the registry.
Registered(s) == \A i \in 1 .. Len(s) : Contains(lock_registry, s[i])
AllRegistered ==
  /\ \A t \in Thread : Registered(held_locks[t])
  /\ \A l \in Lock : Registered(children[l])

\* A thread without a context has recorded nothing and owns nothing, but for
\* what a trylock got it.
ContextsKept ==
  \A t \in Thread :
    \/ find_thread_context(t)
    \/ pc[t] = "trying"
    \/ pc[t] = "run" /\ \A l \in Lock : owner[l] # t

ListsInv ==
  /\ ListsTyped
  /\ StacksStamped
  /\ AllRegistered
  /\ ChildrenAgree
  /\ ReportsAgree
  /\ ContextsKept
============================================================================
