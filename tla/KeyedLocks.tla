----------------------------- MODULE KeyedLocks -----------------------------
(***************************************************************************)
(* Per-key exclusion whose registry keeps only outstanding leases:         *)
(* src-tauri/src/infra/keyed_locks.rs.  The engine and game lifecycles,    *)
(* the PGN editor and the search cache all serialise on it.                *)
(*                                                                         *)
(* A lease owns one reference to the mutex of its key.  The map holds one   *)
(* more.  Dropping a lease locks the map entry, gives the reference up,     *)
(* counts what is left and removes the entry; the three are steps of their  *)
(* own here, and the entry lock is what makes them safe.  A mutex is an     *)
(* allocation: its address may be reused once nothing refers to it, and     *)
(* Arc::ptr_eq compares addresses.                                          *)
(***************************************************************************)
EXTENDS Integers

CONSTANTS
    Procs,    \* tasks and threads, each with at most one lease
    Keys,
    Locks,    \* addresses of mutexes
    None      \* no reference, no holder, no entry

ASSUME KeyedLocksAssumption == None \notin Procs \cup Keys \cup Locks

VARIABLES
    locks,    \* KeyedLocks.locks
    entry,    \* who is inside DashMap::entry for a key
    pc,       \* where a lease is in its life
    key,      \* KeyedLockLease.key
    lock,     \* KeyedLockLease.lock
    holder    \* who holds the guard of a mutex

vars == <<locks, entry, pc, key, lock, holder>>

Init ==
    /\ locks = [k \in Keys |-> None]
    /\ entry = [k \in Keys |-> None]
    /\ pc = [p \in Procs |-> "Idle"]
    /\ key = [p \in Procs |-> None]
    /\ lock = [p \in Procs |-> None]
    /\ holder = [l \in Locks |-> None]

Unreferenced(l) ==
    /\ \A k \in Keys : locks[k] # l
    /\ \A p \in Procs : lock[p] # l

\* lease: clone the reference in the entry, or insert a new mutex.
LeaseFresh(p, k, l) ==
    /\ pc[p] = "Idle"
    /\ entry[k] = None
    /\ Unreferenced(l)
    /\ locks' = [locks EXCEPT ![k] = l]
    /\ pc' = [pc EXCEPT ![p] = "Leased"]
    /\ key' = [key EXCEPT ![p] = k]
    /\ lock' = [lock EXCEPT ![p] = l]
    /\ UNCHANGED <<entry, holder>>

Lease(p, k, l) ==
    /\ pc[p] = "Idle"
    /\ entry[k] = None
    /\ IF locks[k] # None THEN l = locks[k] ELSE Unreferenced(l)
    /\ locks' = [locks EXCEPT ![k] = l]
    /\ pc' = [pc EXCEPT ![p] = "Leased"]
    /\ key' = [key EXCEPT ![p] = k]
    /\ lock' = [lock EXCEPT ![p] = l]
    /\ UNCHANGED <<entry, holder>>

\* lock, try_lock and lock_cancellable, when they get the guard.
Acquire(p) ==
    /\ pc[p] = "Leased"
    /\ holder[lock[p]] = None
    /\ pc' = [pc EXCEPT ![p] = "Locked"]
    /\ holder' = [holder EXCEPT ![lock[p]] = p]
    /\ UNCHANGED <<locks, entry, key, lock>>

\* The guard borrows the lease, so it is dropped first; no caller locks a
\* lease again.
Unlock(p) ==
    /\ pc[p] = "Locked"
    /\ pc' = [pc EXCEPT ![p] = "Unlocked"]
    /\ holder' = [holder EXCEPT ![lock[p]] = None]
    /\ UNCHANGED <<locks, entry, key, lock>>

\* Drop, after the last guard, a refused try_lock, a cancelled wait or a
\* dropped future: it enters the map entry of its key.
BeginDrop(p) ==
    /\ pc[p] \in {"Leased", "Unlocked"}
    /\ entry[key[p]] = None
    /\ entry' = [entry EXCEPT ![key[p]] = p]
    /\ pc' = [pc EXCEPT ![p] = "Dropping"]
    /\ UNCHANGED <<locks, key, lock, holder>>

\* strong_count == 1: only the entry still refers to the mutex.
LastReference(p) == \A q \in Procs \ {p} : lock[q] # lock[p]

\* The lease gives its reference up and counts the rest, inside the entry.
\* An entry that holds another mutex is left alone.
Release(p) ==
    /\ pc[p] = "Dropping"
    /\ LET last == locks[key[p]] = lock[p] /\ LastReference(p)
       IN  /\ pc' = [pc EXCEPT ![p] = IF last THEN "Counted" ELSE "Idle"]
           /\ entry' = [entry EXCEPT ![key[p]] = IF last THEN @ ELSE None]
           /\ key' = [key EXCEPT ![p] = IF last THEN @ ELSE None]
    /\ lock' = [lock EXCEPT ![p] = None]
    /\ UNCHANGED <<locks, holder>>

\* entry.remove, and the entry is left.
RemoveNothing(p) ==
    /\ pc[p] = "Counted"
    /\ entry' = [entry EXCEPT ![key[p]] = None]
    /\ pc' = [pc EXCEPT ![p] = "Idle"]
    /\ key' = [key EXCEPT ![p] = None]
    /\ UNCHANGED <<locks, lock, holder>>

Remove(p) ==
    /\ pc[p] = "Counted"
    /\ locks' = [locks EXCEPT ![key[p]] = None]
    /\ entry' = [entry EXCEPT ![key[p]] = None]
    /\ pc' = [pc EXCEPT ![p] = "Idle"]
    /\ key' = [key EXCEPT ![p] = None]
    /\ UNCHANGED <<lock, holder>>

Next ==
    \E p \in Procs :
       \/ \E k \in Keys, l \in Locks : Lease(p, k, l)
       \/ Acquire(p) \/ Unlock(p)
       \/ BeginDrop(p) \/ Release(p) \/ Remove(p)

Spec == Init /\ [][Next]_vars

-----------------------------------------------------------------------------

\* The map, its held entries and the tasks keep their types.
TypeOK ==
    /\ locks \in [Keys -> Locks \cup {None}]
    /\ entry \in [Keys -> Procs \cup {None}]
    /\ pc \in [Procs -> {"Idle", "Leased", "Locked", "Unlocked", "Dropping", "Counted"}]
    /\ key \in [Procs -> Keys \cup {None}]
    /\ lock \in [Procs -> Locks \cup {None}]
    /\ holder \in [Locks -> Procs \cup {None}]

\* Two leases on one key are never locked together, however many entries
\* were removed and recreated between them: the mutex in the map is the one
\* every outstanding lease holds.
Exclusion ==
    \A p, q \in Procs :
       pc[p] = "Locked" /\ pc[q] = "Locked" /\ key[p] = key[q] => p = q

\* "The number of entries is at most the number of distinct keys with a
\* held, waiting, or not-yet-locked lease, and returns to zero after
\* quiescence" (keyed_locks.rs:8-10): no drop leaves its entry behind.
EntriesLeased ==
    \A k \in Keys : locks[k] # None => \E p \in Procs : key[p] = k

-----------------------------------------------------------------------------

\* What callers see of the leases: who waits for a key and who owns it.
Waiting == [k \in Keys |-> {p \in Procs : pc[p] = "Leased" /\ key[p] = k}]

Owners == [k \in Keys |-> {p \in Procs : pc[p] = "Locked" /\ key[p] = k}]

Abstract == INSTANCE KeyLock WITH waiting <- Waiting, owners <- Owners

\* The table of leases is a per-key lock: whatever entries are removed and
\* recreated, a caller is granted a key only while nobody owns it.
IsKeyLock == Abstract!Spec

=============================================================================
