------------------------- MODULE KeyedLocks_proofs -------------------------
(***************************************************************************)
(* Mutual exclusion and reclamation of keyed locks, for any number of      *)
(* tasks, keys and addresses.                                              *)
(***************************************************************************)
EXTENDS KeyedLocks, TLAPS

\* A lease that still owns its reference.
Owns(p) == pc[p] \in {"Leased", "Locked", "Unlocked", "Dropping"}

\* A task inside the map entry of its key.
Inside(p) == pc[p] \in {"Dropping", "Counted"}

\* The map entry of an outstanding lease is the very mutex the lease owns.
Anchored ==
    \A p \in Procs :
       IF Owns(p) THEN lock[p] # None /\ key[p] # None /\ locks[key[p]] = lock[p]
                  ELSE lock[p] = None

\* No mutex serves two keys.
Distinct ==
    \A j, k \in Keys : locks[j] # None /\ locks[j] = locks[k] => j = k

\* The entry lock belongs to the one task that is inside.
EntryOwned ==
    /\ \A p \in Procs : Inside(p) => key[p] # None /\ entry[key[p]] = p
    /\ \A p \in Procs : pc[p] = "Idle" <=> key[p] = None
    /\ \A p \in Procs : pc[p] = "Counted" => \A q \in Procs : Owns(q) => key[q] # key[p]

\* The holder of a mutex is a task that has it locked.
HolderOK == \A p \in Procs : pc[p] = "Locked" => holder[lock[p]] = p

Inv == TypeOK /\ Anchored /\ Distinct /\ EntryOwned /\ HolderOK /\ EntriesLeased

\* Keyed leases start empty.
LEMMA InitInv == Init => Inv
  BY KeyedLocksAssumption
  DEF Init, Inv, TypeOK, Anchored, Distinct, EntryOwned, HolderOK, EntriesLeased, Owns, Inside

\* Every step of a lease keeps the types.
LEMMA TypeStep == TypeOK /\ [Next]_vars => TypeOK'
  BY DEF TypeOK, Next, vars, Lease, Acquire, Unlock, BeginDrop, Release, Remove

\* Every step of a lease keeps the invariant: a drop removes an entry only
\* when no lease owns its mutex, and nobody can take one meanwhile.
LEMMA InvStep == Inv /\ [Next]_vars => Inv'
  <1> SUFFICES ASSUME Inv, [Next]_vars PROVE Inv'
    OBVIOUS
  <1>ty. TypeOK /\ TypeOK'
    BY TypeStep DEF Inv
  <1> USE KeyedLocksAssumption
  <1>1. ASSUME NEW p \in Procs, NEW k \in Keys, NEW l \in Locks, Lease(p, k, l)
        PROVE  Inv'
    <2>1. Anchored'
      BY <1>1, <1>ty DEF Lease, TypeOK, Inv, Anchored, Owns
    <2>2. Distinct'
      BY <1>1, <1>ty DEF Lease, Unreferenced, TypeOK, Inv, Distinct
    <2>3. EntryOwned'
      BY <1>1, <1>ty DEF Lease, TypeOK, Inv, EntryOwned, Owns, Inside
    <2>4. HolderOK'
      BY <1>1, <1>ty DEF Lease, TypeOK, Inv, HolderOK
    <2>5. EntriesLeased'
      BY <1>1, <1>ty DEF Lease, TypeOK, Inv, EntriesLeased, EntryOwned
    <2> QED BY <1>ty, <2>1, <2>2, <2>3, <2>4, <2>5 DEF Inv
  <1>2. ASSUME NEW p \in Procs, Acquire(p)
        PROVE  Inv'
    <2>1. Anchored' /\ EntryOwned'
      BY <1>2, <1>ty DEF Acquire, TypeOK, Inv, Anchored, EntryOwned, Owns, Inside
    <2>2. HolderOK'
      BY <1>2, <1>ty DEF Acquire, TypeOK, Inv, HolderOK, Anchored, Owns
    <2>3. Distinct' /\ EntriesLeased'
      BY <1>2 DEF Acquire, Inv, Distinct, EntriesLeased
    <2> QED BY <1>ty, <2>1, <2>2, <2>3 DEF Inv
  <1>3. ASSUME NEW p \in Procs, Unlock(p)
        PROVE  Inv'
    <2>1. Anchored' /\ EntryOwned'
      BY <1>3, <1>ty DEF Unlock, TypeOK, Inv, Anchored, EntryOwned, Owns, Inside
    <2>2. HolderOK'
      BY <1>3, <1>ty DEF Unlock, TypeOK, Inv, HolderOK, Anchored, Owns
    <2>3. Distinct' /\ EntriesLeased'
      BY <1>3 DEF Unlock, Inv, Distinct, EntriesLeased
    <2> QED BY <1>ty, <2>1, <2>2, <2>3 DEF Inv
  <1>4. ASSUME NEW p \in Procs, BeginDrop(p)
        PROVE  Inv'
    <2>0. key[p] \in Keys
      BY <1>4, <1>ty DEF BeginDrop, TypeOK, Inv, Anchored, Owns
    <2>1. Anchored' /\ HolderOK'
      BY <1>4, <1>ty DEF BeginDrop, TypeOK, Inv, Anchored, HolderOK, Owns
    <2>2. EntryOwned'
      BY <1>4, <1>ty, <2>0 DEF BeginDrop, TypeOK, Inv, EntryOwned, Owns, Inside
    <2>3. Distinct' /\ EntriesLeased'
      BY <1>4 DEF BeginDrop, Inv, Distinct, EntriesLeased
    <2> QED BY <1>ty, <2>1, <2>2, <2>3 DEF Inv
  <1>5. ASSUME NEW p \in Procs, Release(p)
        PROVE  Inv'
    <2>0. key[p] \in Keys /\ lock[p] # None /\ locks[key[p]] = lock[p] /\ entry[key[p]] = p
      BY <1>5, <1>ty DEF Release, TypeOK, Inv, Anchored, EntryOwned, Owns, Inside
    <2>1. Anchored' /\ HolderOK'
      BY <1>5, <1>ty DEF Release, TypeOK, Inv, Anchored, HolderOK, Owns
    <2>2. CASE LastReference(p)
      <3>1. /\ pc' = [pc EXCEPT ![p] = "Counted"] /\ key' = key /\ entry' = entry
            /\ locks' = locks
        BY <1>5, <1>ty, <2>0, <2>2 DEF Release, TypeOK
      <3>2. \A q \in Procs : q # p /\ Owns(q) => key[q] # key[p]
        BY <2>0, <2>2 DEF LastReference, Inv, Anchored
      <3>3. EntryOwned'
        BY <1>5, <3>1, <3>2, <2>0, <1>ty DEF Release, TypeOK, Inv, EntryOwned, Owns, Inside
      <3> QED BY <1>ty, <2>1, <3>1, <3>3 DEF Inv, Distinct, EntriesLeased
    <2>3. CASE ~LastReference(p)
      <3>1. /\ pc' = [pc EXCEPT ![p] = "Idle"] /\ key' = [key EXCEPT ![p] = None]
            /\ entry' = [entry EXCEPT ![key[p]] = None] /\ locks' = locks
        BY <1>5, <1>ty, <2>0, <2>3 DEF Release, TypeOK
      <3>2. PICK q \in Procs \ {p} : lock[q] = lock[p]
        BY <2>3 DEF LastReference
      <3>3. key[q] = key[p]
        BY <3>2, <2>0, <1>ty DEF Inv, Anchored, Distinct, TypeOK
      <3>4. EntriesLeased'
        BY <3>1, <3>2, <3>3, <1>ty DEF Inv, EntriesLeased, TypeOK
      <3>5. EntryOwned'
        BY <1>5, <3>1, <2>0, <1>ty DEF Release, TypeOK, Inv, EntryOwned, Owns, Inside
      <3> QED BY <1>ty, <2>1, <3>1, <3>4, <3>5 DEF Inv, Distinct
    <2> QED BY <2>2, <2>3
  <1>6. ASSUME NEW p \in Procs, Remove(p)
        PROVE  Inv'
    <2>0. /\ key[p] \in Keys /\ entry[key[p]] = p /\ lock[p] = None
          /\ \A q \in Procs : Owns(q) => key[q] # key[p]
          /\ \A q \in Procs : Inside(q) /\ q # p => key[q] # key[p]
      BY <1>6, <1>ty DEF Remove, TypeOK, Inv, Anchored, EntryOwned, Owns, Inside
    <2>1. Anchored' /\ HolderOK'
      BY <1>6, <1>ty, <2>0 DEF Remove, TypeOK, Inv, Anchored, HolderOK, Owns
    <2>2. Distinct'
      BY <1>6, <1>ty, <2>0 DEF Remove, TypeOK, Inv, Distinct
    <2>3. EntryOwned'
      BY <1>6, <1>ty, <2>0 DEF Remove, TypeOK, Inv, EntryOwned, Owns, Inside
    <2>4. EntriesLeased'
      BY <1>6, <1>ty, <2>0 DEF Remove, TypeOK, Inv, EntriesLeased
    <2> QED BY <1>ty, <2>1, <2>2, <2>3, <2>4 DEF Inv
  <1>7. CASE UNCHANGED vars
    BY <1>7 DEF vars, Inv, TypeOK, Anchored, Distinct, EntryOwned, HolderOK, EntriesLeased,
                Owns, Inside
  <1> QED BY <1>1, <1>2, <1>3, <1>4, <1>5, <1>6, <1>7 DEF Next

\* The inductive invariant holds in every reachable state.
THEOREM Invariance == Spec => []Inv
  BY InitInv, InvStep, PTL DEF Spec

\* KeyedLockLease: two guards of one key never exist together, although the
\* map forgets a key and its mutex as soon as the last lease is dropped.
THEOREM KeyExclusion == Spec => []Exclusion
  <1>1. Inv => Exclusion
    BY DEF Inv, Anchored, HolderOK, Exclusion, Owns
  <1> QED BY <1>1, Invariance, PTL

\* The registry keeps an entry only for a key with an outstanding lease.
THEOREM EntriesAreLeased == Spec => []EntriesLeased
  <1>1. Inv => EntriesLeased
    BY DEF Inv
  <1> QED BY <1>1, Invariance, PTL

\* A function that differs from another in one place is its EXCEPT.
LEMMA Update ==
  ASSUME NEW S, NEW f, NEW g, NEW a, NEW v,
         f = [x \in S |-> f[x]], g = [x \in S |-> g[x]],
         \A x \in S : g[x] = IF x = a THEN v ELSE f[x]
  PROVE  g = [f EXCEPT ![a] = v]
  OBVIOUS

\* Waiting and Owners are functions on the keys, before and after a step.
LEMMA Shapes ==
  /\ Waiting = [k \in Keys |-> Waiting[k]] /\ Waiting' = [k \in Keys |-> Waiting'[k]]
  /\ Owners = [k \in Keys |-> Owners[k]] /\ Owners' = [k \in Keys |-> Owners'[k]]
  BY DEF Waiting, Owners

\* No lease waits and none is locked at first.
LEMMA InitIsKeyLock == Init => Abstract!Init
  BY DEF Init, Abstract!Init, Waiting, Owners

\* A step of a lease is one step of the per-key lock, or none.
LEMMA StepIsKeyLock == Inv /\ [Next]_vars => [Abstract!Next]_(Abstract!lockVars)
  <1> SUFFICES ASSUME Inv, [Next]_vars PROVE [Abstract!Next]_(Abstract!lockVars)
    OBVIOUS
  <1>ty. TypeOK
    BY DEF Inv
  <1>1. ASSUME NEW p \in Procs, NEW k \in Keys, NEW l \in Locks, Lease(p, k, l)
        PROVE  Abstract!Ask(p, k)
    <2>1. \A j \in Keys : p \notin Waiting[j] \cup Owners[j]
      BY <1>1 DEF Lease, Waiting, Owners
    <2>2. Waiting' = [Waiting EXCEPT ![k] = @ \cup {p}]
      <3>1. \A j \in Keys : Waiting'[j] = IF j = k THEN Waiting[k] \cup {p} ELSE Waiting[j]
        BY <1>1, <1>ty DEF Lease, Waiting, TypeOK
      <3> QED BY <3>1, Shapes, Update, Zenon
    <2>3. Owners' = Owners
      BY <1>1, <1>ty DEF Lease, Owners, TypeOK
    <2> QED BY <2>1, <2>2, <2>3 DEF Abstract!Ask
  <1>2. ASSUME NEW p \in Procs, Acquire(p)
        PROVE  \E k \in Keys : Abstract!Grant(p, k)
    <2>0. key[p] \in Keys /\ locks[key[p]] = lock[p]
      BY <1>2, <1>ty DEF Acquire, TypeOK, Inv, Anchored, Owns
    <2>1. p \in Waiting[key[p]]
      BY <1>2, <2>0 DEF Acquire, Waiting
    <2>2. Owners[key[p]] = {}
      BY <1>2, <1>ty, <2>0, KeyedLocksAssumption
      DEF Acquire, Owners, TypeOK, Inv, Anchored, HolderOK, Owns
    <2>3. Waiting' = [Waiting EXCEPT ![key[p]] = @ \ {p}]
      <3>1. \A j \in Keys : Waiting'[j] = IF j = key[p] THEN Waiting[key[p]] \ {p} ELSE Waiting[j]
        BY <1>2, <1>ty, <2>0 DEF Acquire, Waiting, TypeOK
      <3> QED BY <3>1, Shapes, Update, Zenon
    <2>4. Owners' = [Owners EXCEPT ![key[p]] = {p}]
      <3>1. \A j \in Keys : Owners'[j] = IF j = key[p] THEN {p} ELSE Owners[j]
        BY <1>2, <1>ty, <2>0, <2>2 DEF Acquire, Owners, TypeOK
      <3> QED BY <3>1, Shapes, Update, Zenon
    <2> QED BY <2>0, <2>1, <2>2, <2>3, <2>4 DEF Abstract!Grant
  <1>3. ASSUME NEW p \in Procs, Unlock(p)
        PROVE  \E k \in Keys : Abstract!Free(p, k)
    <2>0. key[p] \in Keys
      BY <1>3, <1>ty DEF Unlock, TypeOK, Inv, Anchored, Owns
    <2>1. p \in Owners[key[p]]
      BY <1>3, <2>0 DEF Unlock, Owners
    <2>2. Owners' = [Owners EXCEPT ![key[p]] = @ \ {p}]
      <3>1. \A j \in Keys : Owners'[j] = IF j = key[p] THEN Owners[key[p]] \ {p} ELSE Owners[j]
        BY <1>3, <1>ty, <2>0 DEF Unlock, Owners, TypeOK
      <3> QED BY <3>1, Shapes, Update, Zenon
    <2>3. Waiting' = Waiting
      BY <1>3, <1>ty DEF Unlock, Waiting, TypeOK
    <2> QED BY <2>0, <2>1, <2>2, <2>3 DEF Abstract!Free
  <1>4. ASSUME NEW p \in Procs, BeginDrop(p)
        PROVE  [Abstract!Next]_(Abstract!lockVars)
    <2>0. key[p] \in Keys
      BY <1>4, <1>ty DEF BeginDrop, TypeOK, Inv, Anchored, Owns
    <2>1. Owners' = Owners
      BY <1>4, <1>ty DEF BeginDrop, Owners, TypeOK
    <2>2. CASE pc[p] = "Leased"
      <3>1. p \in Waiting[key[p]]
        BY <2>0, <2>2 DEF Waiting
      <3>2. \A j \in Keys : Waiting'[j] = IF j = key[p] THEN Waiting[key[p]] \ {p} ELSE Waiting[j]
        BY <1>4, <1>ty, <2>0 DEF BeginDrop, Waiting, TypeOK
      <3>3. Waiting' = [Waiting EXCEPT ![key[p]] = @ \ {p}]
        BY <3>2, Shapes, Update, Zenon
      <3>4. Abstract!Withdraw(p, key[p])
        BY <2>1, <3>1, <3>3 DEF Abstract!Withdraw
      <3> QED BY <2>0, <3>4 DEF Abstract!Next
    <2>3. CASE pc[p] = "Unlocked"
      <3>1. Waiting' = Waiting
        BY <1>4, <2>3, <1>ty DEF BeginDrop, Waiting, TypeOK
      <3> QED BY <2>1, <3>1 DEF Abstract!lockVars
    <2> QED BY <1>4, <2>2, <2>3 DEF BeginDrop
  <1>5. ASSUME NEW p \in Procs, Release(p)
        PROVE  UNCHANGED Abstract!lockVars
    <2>1. Waiting' = Waiting /\ Owners' = Owners
      BY <1>5, <1>ty DEF Release, Waiting, Owners, TypeOK
    <2> QED BY <2>1 DEF Abstract!lockVars
  <1>6. ASSUME NEW p \in Procs, Remove(p)
        PROVE  UNCHANGED Abstract!lockVars
    <2>1. Waiting' = Waiting /\ Owners' = Owners
      BY <1>6, <1>ty DEF Remove, Waiting, Owners, TypeOK
    <2> QED BY <2>1 DEF Abstract!lockVars
  <1>7. CASE UNCHANGED vars
    BY <1>7 DEF vars, Abstract!lockVars, Waiting, Owners
  <1> QED BY <1>1, <1>2, <1>3, <1>4, <1>5, <1>6, <1>7 DEF Next, Abstract!Next

\* Keyed leases implement a per-key lock, for any number of tasks, keys and
\* addresses: callers may forget the map behind them.
THEOREM LeasesAreKeyLocks == Spec => IsKeyLock
  BY InitIsKeyLock, StepIsKeyLock, Invariance, PTL DEF Spec, IsKeyLock, Abstract!Spec

=============================================================================
