-------------------------- MODULE EngineSupervisor --------------------------
(***************************************************************************)
(* The registry of engine processes: EngineSupervisor of                   *)
(* src-tauri/src/engine/process.rs.                                        *)
(*                                                                         *)
(* Every launch has a generation.  It is admitted (a reservation under its *)
(* key), spawns a child that is pending, waits for the engine it replaces, *)
(* and is published under its key; an interactive search may reuse the     *)
(* published engine instead.  Stop, release, kill, tab, retirement and     *)
(* shutdown commands run beside it and take engines down.                  *)
(*                                                                         *)
(* Every section under `registration` and `admission_coordination` runs    *)
(* without an await, so it is one action, a function of the registry `reg`;*)
(* the awaits between the sections are where the actions interleave.       *)
(* `lifecycle` is held across awaits and is modelled as a lock per key.    *)
(***************************************************************************)
EXTENDS Integers, Sequences, FiniteSets

CONSTANTS
    Keys,         \* EngineKey: records with a tab and an engine
    GameTabs,     \* the tabs of native game keys (is_game_engine_key)
    Launches,     \* what callers launch: key, id, exe, kind
    Commands,     \* what Ops may run: kind, key, gen, release, name
    Ops,          \* tasks that run commands, one each
    MaxGen,       \* bound on next_generation
    MaxChildren,  \* MAX_OWNED_CHILDREN
    MaxPrepared,  \* MAX_PENDING_ENGINE_SEARCHES
    Capacity,     \* MAX_RETIRED_ENGINE_IDS and its siblings
    MaxFailures,  \* bound on terminations that fail
    Incidents,    \* which faults the run lets happen
    None          \* a lifecycle lock nobody holds

Gens == 1..MaxGen

\* Generation 0 is "no generation".
Tasks == Gens \cup Ops

ASSUME SupervisorAssumption ==
    /\ MaxGen \in Nat /\ MaxChildren \in Nat /\ MaxPrepared \in Nat
    /\ MaxFailures \in Nat /\ Capacity \in Nat \ {0}
    /\ None \notin Tasks /\ Ops \cap Gens = {}
    /\ Launches # {}
    /\ \A l \in Launches : l.key \in Keys /\ l.kind \in {"Registered", "Search"}
    /\ \A c \in Commands :
          /\ c.gen \in 0..MaxGen /\ c.release \in BOOLEAN
          /\ c.kind \in {"Stop", "Exact", "Kill", "Flag", "Binary",
                         "Tab", "Engine", "Executable", "All"}
          /\ c.kind \in {"Stop", "Exact", "Kill", "Flag"} => c.key \in Keys
          /\ c.key \in Keys \cup {None}
          /\ c.kind = "Exact" => c.gen # 0

VARIABLES
    sealed,       \* EngineSupervisor.sealed
    retired,      \* retired, retired_executables, retired_binaries; history:
                  \* the tombstones that a full set has evicted
    launch,       \* the launch behind a generation
    pc,           \* where that launch is
    reg,          \* admissions, actors and pending_actors
    revoked,      \* generations whose operation token is cancelled
    child,        \* the ChildOwner of a generation
    waits,        \* the termination attempts a launch waits for
    reused,       \* the published actor a search took over
    lifecycle,    \* who holds the lifecycle lock of a key
    task,         \* commands, and the cleanup a dropped guard spawned
    failures,     \* terminations that have failed
    returned      \* scopes whose drain returned without a failure

launchVars == <<launch, pc, waits, reused>>
policyVars == <<sealed, retired>>
vars == <<sealed, retired, launch, pc, reg, revoked, child, waits, reused,
          lifecycle, task, failures, returned>>

\* What a task of a command, or of a dropped guard, keeps across its awaits.
NoTask ==
    [kind |-> "None", phase |-> "Idle", key |-> None, gen |-> 0,
     release |-> FALSE, name |-> None, targets |-> {}, admission |-> 0,
     selected |-> 0, visited |-> {}, locks |-> {}, waits |-> {}, failed |-> FALSE]

Init ==
    /\ sealed = FALSE
    /\ retired = [ids |-> <<>>, exes |-> <<>>, pairs |-> <<>>, evicted |-> {}]
    /\ launch = [g \in Gens |-> CHOOSE l \in Launches : TRUE]
    /\ pc = [g \in Gens |-> "Unused"]
    /\ reg = [admissions |-> [k \in Keys |-> 0],   \* current admission
              prepared |-> {},                     \* entries not consumed yet
              cancelled |-> {},                    \* admission.cancelled
              leases |-> {},                       \* armed AdmissionLeases
              actors |-> [k \in Keys |-> 0],       \* published generation
              stopped |-> {},                      \* SupervisedEngine.cancelled
              search |-> [g \in Gens |-> 0],       \* current_search
              warm |-> {},                         \* actors with a WarmEngine
              pending |-> {},                      \* pending_actors
              spawning |-> {},                     \* PendingActor.spawning
              owner |-> [g \in Gens |-> 0],        \* owner_generation
              attempt |-> [g \in Gens |-> 0],      \* PendingActor.termination
              results |-> [g \in Gens |-> <<>>]]   \* PendingTermination.result
    /\ revoked = {}
    /\ child = [g \in Gens |-> "None"]
    /\ waits = [g \in Gens |-> {}]
    /\ reused = [g \in Gens |-> 0]
    /\ lifecycle = [k \in Keys |-> None]
    /\ task = [o \in Tasks |-> NoTask]
    /\ failures = 0
    /\ returned = {}

-----------------------------------------------------------------------------
(* Functions of the registry: what the code does between two awaits.       *)

KeyOf(g) == launch[g].key

\* RetiredSet::insert: the oldest tombstone leaves a full set.
RetiredInsert(s, x) ==
    LET t == Append(s, x)
    IN  IF \E i \in DOMAIN s : s[i] = x THEN s
        ELSE IF Len(t) > Capacity THEN Tail(t) ELSE t

RetiredRemove(s, x) == SelectSeq(s, LAMBDA y : y # x)

Retired(s, x) == \E i \in DOMAIN s : s[i] = x

\* History: the tombstones that make room for a new one.
Evicted(s, x) == {y \in {s[i] : i \in DOMAIN s} : ~Retired(RetiredInsert(s, x), y)}

\* validate_admission_policy, of the launch of a generation.
Policy(g) ==
    /\ ~sealed
    /\ ~Retired(retired.ids, launch[g].id)
    /\ ~Retired(retired.exes, launch[g].exe)
    /\ \/ KeyOf(g).tab \in GameTabs
       \/ ~Retired(retired.pairs, <<launch[g].id, launch[g].exe>>)

\* AdmissionLease.cancel_error: its own flag or the token of its operation.
CancelError(g) == g \in reg.cancelled \/ g \in revoked

\* cancel_admission_exact for a set of admissions: each is flagged, also
\* when a newer one has replaced it in the map.
CancelExact(s, G) ==
    [s EXCEPT !.cancelled = @ \cup G,
              !.admissions = [k \in Keys |-> IF @[k] \in G THEN 0 ELSE @[k]],
              !.prepared = @ \ G]

\* Drop for AdmissionLease: an armed lease cancels its admission.
DropLease(s, g) ==
    IF g \in s.leases THEN [CancelExact(s, {g}) EXCEPT !.leases = @ \ {g}] ELSE s

\* SupervisedEngine.mark_cancelled for a set of actors.
MarkCancelled(s, A) ==
    [s EXCEPT !.stopped = @ \cup A,
              !.cancelled = @ \cup ({s.search[a] : a \in A} \ {0})]

\* SupervisedEngine.owner_generation
OwnerGeneration(s, a) == IF s.search[a] = 0 THEN a ELSE s.search[a]

\* terminal_snapshot is there once the engine is gone.
Terminal(a) == child[a] = "Reaped"

\* ChildOwner.unresolved
Unresolved(g) == child[g] = "Alive"

Published(s) == {s.actors[k] : k \in Keys} \ {0}

\* handoff_published_locked for a set of generations: the published ones
\* become pending, owned by the search they served.
HandoffLost(s, G) ==
    LET A == G \cap Published(s)
    IN  [MarkCancelled(s, A) EXCEPT
            !.actors = [k \in Keys |-> IF @[k] \in A THEN 0 ELSE @[k]]]

Handoff(s, G) ==
    LET A == G \cap Published(s)
        m == MarkCancelled(s, A)
        fresh == A \ s.pending
    IN  [m EXCEPT
            !.pending = @ \cup A,
            !.owner = [g \in Gens |-> IF g \in fresh THEN OwnerGeneration(s, g) ELSE @[g]],
            !.attempt = [g \in Gens |-> IF g \in fresh THEN 0 ELSE @[g]],
            !.actors = [k \in Keys |-> IF @[k] \in A THEN 0 ELSE @[k]]]

\* start_termination: an attempt that runs, or that has resolved its child,
\* is shared; a failed one is retried.
NeedsAttempt(s, g) ==
    \/ s.attempt[g] = 0
    \/ s.results[g][s.attempt[g]] # "Running" /\ Unresolved(g)

StartTermination(s, G) ==
    LET N == {g \in G : NeedsAttempt(s, g)}
    IN  [s EXCEPT
            !.results = [g \in Gens |-> IF g \in N THEN Append(@[g], "Running") ELSE @[g]],
            !.attempt = [g \in Gens |-> IF g \in N THEN Len(s.results[g]) + 1 ELSE @[g]]]

\* observe_termination_locked
Observe(s, G) ==
    LET h == Handoff(s, G) IN StartTermination(h, G \cap h.pending)

Attempts(s, G) == {<<g, s.attempt[g]>> : g \in G \cap s.pending}

Result(a) == reg.results[a[1]][a[2]]

\* observe_previous_termination_locked: the published engine, or else the
\* newest earlier one that is being terminated.
Previous(s, g) ==
    LET k == KeyOf(g)
        dying == {p \in s.pending : /\ KeyOf(p) = k /\ p < g
                                    /\ s.attempt[p] # 0
                                    /\ s.results[p][s.attempt[p]] = "Running"}
    IN  IF s.actors[k] # 0 THEN {s.actors[k]}
        ELSE {p \in dying : \A q \in dying : q <= p}

\* bind_search: the search that the engine served before is cancelled.
BindSearch(s, a, g) ==
    [s EXCEPT !.search[a] = g,
              !.cancelled = @ \cup ({s.search[a]} \ {0})
                              \cup (IF a \in s.stopped THEN {g} ELSE {})]

-----------------------------------------------------------------------------
(* How a launch ends.                                                      *)

Go(g, p) == pc' = [pc EXCEPT ![g] = p]

Unlocked(g) ==
    [k \in Keys |-> IF lifecycle[k] = g THEN None ELSE lifecycle[k]]

\* Its future is gone, and what it held with it.
Leave(g) ==
    /\ Go(g, "Done")
    /\ lifecycle' = Unlocked(g)
    /\ waits' = [waits EXCEPT ![g] = {}]
    /\ reused' = [reused EXCEPT ![g] = 0]

ReleaseOf(g) ==
    [NoTask EXCEPT !.kind = "Stop", !.phase = "Begun", !.key = KeyOf(g),
                   !.gen = g, !.release = TRUE]

ExactOf(g) ==
    [NoTask EXCEPT !.kind = "Exact", !.phase = "Begun", !.key = KeyOf(g), !.gen = g]

\* Drop for RegistrationGuard: a search releases its generation, any other
\* launch terminates the generation it published.
DropGuard(g) ==
    task' = [task EXCEPT ![g] =
               IF launch[g].kind = "Search" THEN ReleaseOf(g) ELSE ExactOf(g)]

\* An error return: the lease is dropped, and so is the guard of a search,
\* armed since it asked for the lifecycle lock.
FailFrom(s, g, guarded) ==
    /\ reg' = DropLease(s, g)
    /\ Leave(g)
    /\ IF guarded THEN DropGuard(g) ELSE UNCHANGED task
    /\ UNCHANGED <<launch, revoked, child, failures, returned>>
    /\ UNCHANGED policyVars

Fail(g, guarded) == FailFrom(reg, g, guarded)

\* reject_actor: terminate what was spawned and wait for it.
Reject(g) ==
    LET s == StartTermination(reg, {g})
    IN  /\ reg' = s
        /\ waits' = [waits EXCEPT ![g] = {<<g, s.attempt[g]>>}]
        /\ Go(g, "Rejecting")

Quiet == UNCHANGED <<launch, revoked, failures, returned, task>> /\ UNCHANGED policyVars

-----------------------------------------------------------------------------
(* Admission.                                                              *)

\* allocate_generation, after a first look at the policy.  Another admission
\* may allocate later and register earlier.
Allocate(g, l) ==
    /\ pc[g] = "Unused" /\ \A h \in Gens : h < g => pc[h] # "Unused"
    /\ launch' = [launch EXCEPT ![g] = l]
    /\ ~sealed
    /\ Go(g, "Allocated")
    /\ UNCHANGED <<reg, revoked, child, waits, reused, lifecycle, task, failures, returned>>
    /\ UNCHANGED policyVars

Admissible(g) ==
    /\ Policy(g)
    /\ launch[g].kind = "Search" =>
          Cardinality(reg.prepared \ {reg.admissions[KeyOf(g)]}) < MaxPrepared

\* admit, under admission_coordination: the admission replaces the one of
\* its key and cancels it.
RegisterOver(s, g) ==
    [s EXCEPT !.admissions[KeyOf(g)] = g,
              !.leases = @ \cup {g},
              !.prepared = (@ \ {s.admissions[KeyOf(g)]})
                             \cup (IF launch[g].kind = "Search" THEN {g} ELSE {})]

Register(s, g) ==
    [s EXCEPT !.admissions[KeyOf(g)] = g,
              !.leases = @ \cup {g},
              !.cancelled = @ \cup ({s.admissions[KeyOf(g)]} \ {0}),
              !.prepared = (@ \ {s.admissions[KeyOf(g)]})
                             \cup (IF launch[g].kind = "Search" THEN {g} ELSE {})]

Admit(g) ==
    /\ pc[g] = "Allocated"
    /\ \/ /\ Admissible(g)
          /\ reg' = Register(reg, g)
          /\ Go(g, "Registered")
          /\ UNCHANGED <<child, waits, reused, lifecycle>>
          /\ Quiet
       \/ ~Admissible(g) /\ Fail(g, FALSE)

\* admit, once it holds `registration`.  A prepared admission disarms its
\* lease and waits in the map for get_best_moves.
Admitted(g) ==
    /\ pc[g] = "Registered"
    /\ \/ /\ ~CancelError(g) /\ Policy(g)
          /\ IF launch[g].kind = "Search"
             THEN Go(g, "Prepared") /\ reg' = [reg EXCEPT !.leases = @ \ {g}]
             ELSE Go(g, "Admitted") /\ UNCHANGED reg
          /\ UNCHANGED <<child, waits, reused, lifecycle>>
          /\ Quiet
       \/ ~(~CancelError(g) /\ Policy(g)) /\ Fail(g, FALSE)

\* consume_engine_search; a refusal leaves the reservation as it is.
Consume(g) ==
    /\ pc[g] = "Prepared"
    /\ IF reg.admissions[KeyOf(g)] = g /\ g \notin reg.cancelled /\ g \in reg.prepared
       THEN /\ Go(g, "Admitted")
            /\ reg' = [reg EXCEPT !.prepared = @ \ {g}, !.leases = @ \cup {g}]
       ELSE Go(g, "Done") /\ UNCHANGED reg
    /\ UNCHANGED <<child, waits, reused, lifecycle>>
    /\ Quiet

\* The native operation behind admit_for_operation is cancelled.
Revoke(g) ==
    /\ "Revoke" \in Incidents
    /\ launch[g].kind = "Registered" /\ g \notin revoked
    /\ pc[g] \notin {"Unused", "Owned", "Done"}
    /\ revoked' = revoked \cup {g}
    /\ UNCHANGED <<launch, pc, reg, child, waits, reused, lifecycle, task, failures, returned>>
    /\ UNCHANGED policyVars

-----------------------------------------------------------------------------
(* Spawning and publication.                                               *)

Owned == {g \in Gens : child[g] \in {"Slot", "Alive"}}

\* spawn_pending up to its await: a slot, then an entry every drain can see.
SpawnPending(g) ==
    /\ \/ pc[g] = "Admitted" /\ launch[g].kind = "Registered"
       \/ pc[g] = "Cold"
    /\ \/ /\ ~CancelError(g) /\ Cardinality(Owned) < MaxChildren
          /\ child' = [child EXCEPT ![g] = "Slot"]
          /\ reg' = [reg EXCEPT !.pending = @ \cup {g}, !.spawning = @ \cup {g},
                                !.owner[g] = g]
          /\ Go(g, "Spawning")
          /\ UNCHANGED <<waits, reused, lifecycle>>
          /\ Quiet
       \/ /\ ~(~CancelError(g) /\ Cardinality(Owned) < MaxChildren)
          /\ Fail(g, launch[g].kind = "Search")

FinishSpawnSilent(s, g) == s

FinishSpawn(s, g) == [s EXCEPT !.spawning = @ \ {g}]

\* The child enters its owner before anything else can fail, so a spawn
\* that fails or is dropped leaves a slot or a child behind.
Spawned(g) ==
    /\ pc[g] = "Spawning"
    /\ child' = [child EXCEPT ![g] = "Alive"]
    /\ reg' = FinishSpawn(reg, g)
    /\ Go(g, "Spawned")
    /\ UNCHANGED <<waits, reused, lifecycle>>
    /\ Quiet

SpawnFailed(g) ==
    /\ "SpawnFailure" \in Incidents
    /\ pc[g] = "Spawning"
    /\ LET s == StartTermination(FinishSpawn(reg, g), {g})
       IN  reg' = s /\ waits' = [waits EXCEPT ![g] = {<<g, s.attempt[g]>>}]
    /\ Go(g, "Rejecting")
    /\ \E c \in {"Slot", "Alive"} : child' = [child EXCEPT ![g] = c]
    /\ UNCHANGED <<reused, lifecycle>>
    /\ Quiet

\* publish_admitted, before the lifecycle lock: the engine to replace starts
\* to terminate now, so that its teardown overlaps with the wait.
ObserveEarly(g) ==
    /\ pc[g] = "Spawned" /\ launch[g].kind = "Registered"
    /\ LET P == IF ~CancelError(g) /\ Policy(g) THEN Previous(reg, g) ELSE {}
           s == Observe(reg, P)
       IN  reg' = s /\ waits' = [waits EXCEPT ![g] = Attempts(s, P)]
    /\ Go(g, "Queued")
    /\ UNCHANGED <<child, reused, lifecycle>>
    /\ Quiet

\* publish_admitted_locked up to its first await.  A search holds the lock.
LockPublication(g) ==
    /\ \/ /\ pc[g] = "Queued" /\ lifecycle[KeyOf(g)] = None
          /\ lifecycle' = [lifecycle EXCEPT ![KeyOf(g)] = g]
       \/ /\ pc[g] = "Spawned" /\ launch[g].kind = "Search"
          /\ UNCHANGED lifecycle
    /\ IF CancelError(g) \/ ~Policy(g) THEN Reject(g)
       ELSE /\ Go(g, IF waits[g] = {} THEN "Locked" ELSE "Waiting")
            /\ UNCHANGED <<reg, waits>>
    /\ UNCHANGED <<child, reused>>
    /\ Quiet

ObserveLocked(g) ==
    /\ pc[g] = "Locked"
    /\ LET P == Previous(reg, g)
           s == Observe(reg, P)
       IN  reg' = s /\ waits' = [waits EXCEPT ![g] = Attempts(s, P)]
    /\ Go(g, "Waiting")
    /\ UNCHANGED <<child, reused, lifecycle>>
    /\ Quiet

\* previous.wait(): a failed termination refuses the replacement.
PreviousEnded(g) ==
    /\ pc[g] = "Waiting"
    /\ \A a \in waits[g] : Result(a) # "Running"
    /\ IF \E a \in waits[g] : Result(a) = "Failed" THEN Reject(g)
       ELSE Go(g, "Publishing") /\ waits' = [waits EXCEPT ![g] = {}] /\ UNCHANGED reg
    /\ UNCHANGED <<child, reused, lifecycle>>
    /\ Quiet

Current(g) == reg.admissions[KeyOf(g)] = g /\ g \notin reg.cancelled

\* The actor enters `actors` as it leaves pending_actors; a search binds
\* itself to it.
Enter(s, g) ==
    [s EXCEPT !.actors[KeyOf(g)] = g,
              !.pending = @ \ {g},
              !.admissions[KeyOf(g)] = 0,
              !.leases = @ \ {g},
              !.search[g] = IF launch[g].kind = "Search" THEN g ELSE 0]

\* publish_admitted_locked, under registration and admission_coordination.
Publish(g) ==
    /\ pc[g] = "Publishing"
    /\ IF Policy(g) /\ Current(g)
       THEN /\ reg' = Enter(reg, g)
            /\ Go(g, IF launch[g].kind = "Search" THEN "Warming" ELSE "Initialising")
            /\ lifecycle' = IF launch[g].kind = "Search" THEN lifecycle ELSE Unlocked(g)
            /\ UNCHANGED waits
       ELSE Reject(g) /\ UNCHANGED lifecycle
    /\ UNCHANGED <<child, reused>>
    /\ Quiet

Rejected(g) ==
    /\ pc[g] = "Rejecting"
    /\ \A a \in waits[g] : Result(a) # "Running"
    /\ Fail(g, launch[g].kind = "Search")

\* initialize_pending_actor: the caller gets the engine with its armed guard,
\* or the guard terminates it.  A cancelled operation never gets it.
Initialised(g) ==
    /\ pc[g] = "Initialising" /\ g \notin revoked
    /\ Go(g, "Owned")
    /\ UNCHANGED <<reg, child, waits, reused, lifecycle>>
    /\ Quiet

EndOwner(g) ==
    /\ pc[g] \in {"Initialising", "Owned"}
    /\ Leave(g)
    /\ DropGuard(g)
    /\ UNCHANGED <<launch, reg, revoked, child, failures, returned>>
    /\ UNCHANGED policyVars

-----------------------------------------------------------------------------
(* start_interactive_search.                                               *)

Reusable(g, a) ==
    /\ a # 0 /\ a \notin reg.stopped /\ a \in reg.warm /\ ~Terminal(a)
    /\ launch[a].id = launch[g].id /\ launch[a].exe = launch[g].exe

\* The lifecycle lock, and the choice between the published engine and a
\* new one; whether the options allow reuse is left open.
LockSearch(g) ==
    /\ pc[g] = "Admitted" /\ launch[g].kind = "Search"
    /\ lifecycle[KeyOf(g)] = None
    /\ \/ /\ ~CancelError(g) /\ Policy(g)
          /\ lifecycle' = [lifecycle EXCEPT ![KeyOf(g)] = g]
          /\ LET a == reg.actors[KeyOf(g)]
             IN  \/ /\ Reusable(g, a)
                    /\ reused' = [reused EXCEPT ![g] = a]
                    /\ Go(g, "Binding")
                 \/ UNCHANGED reused /\ Go(g, "Cold")
          /\ UNCHANGED <<reg, child, waits>>
          /\ Quiet
       \/ ~(~CancelError(g) /\ Policy(g)) /\ Fail(g, TRUE)

\* The mirror's lock was awaited since the engine was chosen.
Bind(g) ==
    /\ pc[g] = "Binding"
    /\ LET s == BindSearch(reg, reused[g], g)
       IN  \/ /\ g \notin s.cancelled
              /\ reg' = s
              /\ Go(g, "Stopping")
              /\ UNCHANGED <<child, waits, reused, lifecycle>>
              /\ Quiet
           \/ g \in s.cancelled /\ FailFrom(s, g, TRUE)

\* actor.stop_current, and a second look at the search's own flag.
StopCurrent(g) ==
    /\ pc[g] = "Stopping"
    /\ \/ /\ g \notin reg.cancelled
          /\ Go(g, "Confirming")
          /\ UNCHANGED <<reg, child, waits, reused, lifecycle>>
          /\ Quiet
       \/ g \in reg.cancelled /\ Fail(g, TRUE)

StopCurrentFailed(g) ==
    /\ pc[g] = "Stopping"
    /\ "StopFailure" \in Incidents \/ Terminal(reused[g])
    /\ Go(g, "Reaping")
    /\ UNCHANGED <<reg, child, waits, reused, lifecycle>>
    /\ Quiet

\* The admission leaves the map and the search owns the engine.
Confirm(g) ==
    /\ pc[g] = "Confirming"
    /\ \/ /\ ~CancelError(g) /\ Policy(g)
          /\ reg' = [reg EXCEPT
                !.admissions[KeyOf(g)] = IF @ = g THEN 0 ELSE @,
                !.leases = @ \ {g}]
          /\ Go(g, "Ready")
          /\ UNCHANGED <<child, waits, reused, lifecycle>>
          /\ Quiet
       \/ ~(~CancelError(g) /\ Policy(g)) /\ Fail(g, TRUE)

\* WarmEngine::new leaves the mirror with the actor.
Warmed(g) ==
    /\ pc[g] = "Warming"
    /\ reg' = [reg EXCEPT !.warm = @ \cup {g}]
    /\ Go(g, "Ready")
    /\ UNCHANGED <<child, waits, reused, lifecycle>>
    /\ Quiet

\* warm.start; a cancelled search leaves the engine as it is.
StartSearch(g) ==
    /\ pc[g] = "Ready"
    /\ IF g \in reg.cancelled THEN Leave(g)
       ELSE Go(g, "Searching") /\ lifecycle' = Unlocked(g) /\ UNCHANGED <<waits, reused>>
    /\ UNCHANGED <<reg, child>>
    /\ Quiet

Server(g) == IF reused[g] = 0 THEN g ELSE reused[g]

StartFailed(g) ==
    /\ pc[g] \in {"Warming", "Ready"}
    /\ "StartFailure" \in Incidents \/ Terminal(Server(g))
    /\ Go(g, "Reaping")
    /\ UNCHANGED <<reg, child, waits, reused, lifecycle>>
    /\ Quiet

\* reap_published
ReapPublished(g) ==
    /\ pc[g] = "Reaping"
    /\ LET s == Observe(reg, {Server(g)})
       IN  reg' = s /\ waits' = [waits EXCEPT ![g] = Attempts(s, {Server(g)})]
    /\ Go(g, "Reaped")
    /\ UNCHANGED <<child, reused, lifecycle>>
    /\ Quiet

Reaped(g) ==
    /\ pc[g] = "Reaped"
    /\ \A a \in waits[g] : Result(a) # "Running"
    /\ Fail(g, TRUE)

\* get_best_moves_core: a search that ends leaves the engine warm; one that
\* fails releases its generation.
SearchEnds(g) ==
    /\ pc[g] = "Searching"
    /\ Leave(g)
    /\ UNCHANGED <<reg, child>>
    /\ Quiet

SearchFails(g) ==
    /\ pc[g] = "Searching"
    /\ "StartFailure" \in Incidents \/ Terminal(Server(g))
    /\ Fail(g, TRUE)

\* The future of a launch is dropped at an await: PendingActorGuard, lease
\* and RegistrationGuard act, and the lifecycle lock is released.
Guarded == {"Spawning", "Spawned", "Queued", "Locked", "Waiting", "Publishing", "Rejecting"}

Awaiting == Guarded \cup {"Registered", "Admitted", "Cold", "Binding", "Stopping",
              "Confirming", "Warming", "Ready", "Reaping", "Reaped", "Searching"}

\* Drop for PendingActorGuard: the spawn is over, and the child goes.
DropPending(s, g) == StartTermination(FinishSpawn(s, g), {g})

Abandon(g) ==
    /\ "Drop" \in Incidents
    /\ pc[g] \in Awaiting
    /\ LET s == IF pc[g] \in Guarded THEN DropPending(reg, g) ELSE reg
       IN  reg' = DropLease(s, g)
    /\ IF pc[g] = "Spawning"
       THEN \E c \in {"Slot", "Alive"} : child' = [child EXCEPT ![g] = c]
       ELSE UNCHANGED child
    /\ Leave(g)
    /\ IF launch[g].kind = "Search" /\ pc[g] # "Registered" THEN DropGuard(g)
       ELSE UNCHANGED task
    /\ UNCHANGED <<launch, revoked, failures, returned>>
    /\ UNCHANGED policyVars

-----------------------------------------------------------------------------
(* Termination tasks and engines that exit.                                *)

\* The task of start_termination: the result, then the entry leaves
\* pending_actors unless the child is still there to be retried.
Forget(s, g, alive) == IF alive THEN s ELSE [s EXCEPT !.pending = @ \ {g}]

TerminationEnds(g, n, result, alive) ==
    /\ n \in DOMAIN reg.results[g] /\ reg.results[g][n] = "Running"
    /\ g \notin reg.spawning
    /\ result = "Failed" => failures < MaxFailures
    /\ alive => result = "Failed" /\ child[g] = "Alive"
    /\ reg' = Forget([reg EXCEPT !.results[g][n] = result], g, alive)
    /\ child' = [child EXCEPT ![g] = IF alive THEN @ ELSE "Reaped"]
    /\ failures' = IF result = "Failed" THEN failures + 1 ELSE failures
    /\ UNCHANGED <<launch, pc, revoked, waits, reused, lifecycle, task, returned>>
    /\ UNCHANGED policyVars

\* The engine exits by itself; its actor reaps it and is terminal.
ChildExits(g) ==
    /\ "Exit" \in Incidents
    /\ child[g] = "Alive" /\ g \notin reg.spawning
    /\ child' = [child EXCEPT ![g] = "Reaped"]
    /\ UNCHANGED <<reg, pc, waits, reused, lifecycle>>
    /\ Quiet

-----------------------------------------------------------------------------
(* Commands.  A task holds at most one command.                            *)

Calm == UNCHANGED <<launch, pc, waits, reused, revoked, failures, child>>

\* A command reaches the supervisor; an exact one names a generation that
\* was handed out for its key.
Begin(o, c) ==
    /\ task[o] = NoTask
    /\ c.gen # 0 => pc[c.gen] # "Unused" /\ KeyOf(c.gen) = c.key
    /\ task' = [task EXCEPT ![o] =
                  [NoTask EXCEPT !.kind = c.kind, !.phase = "Begun", !.key = c.key,
                                 !.gen = c.gen, !.release = c.release, !.name = c.name]]
    /\ UNCHANGED <<reg, lifecycle, returned>> /\ UNCHANGED policyVars
    /\ Calm

Finished == [NoTask EXCEPT !.phase = "Ended"]

\* stop_or_release, under admission_coordination only: whom it is about.
StopTargets(t) ==
    IF t.gen # 0 THEN {t.gen}
    ELSE ({reg.admissions[t.key]} \cup
          {OwnerGeneration(reg, a) : a \in {reg.actors[t.key]} \ {0}} \cup
          {reg.owner[p] : p \in {q \in reg.pending : KeyOf(q) = t.key}}) \ {0}

StopCapture(o) ==
    /\ task[o].kind = "Stop" /\ task[o].phase = "Begun"
    /\ LET t == task[o]
           T == StopTargets(t)
       IN  task' = [task EXCEPT ![o] =
             IF T = {} THEN Finished
             ELSE [t EXCEPT !.phase = "Captured", !.targets = T,
                     !.admission = IF t.gen = 0 THEN reg.admissions[t.key] ELSE 0]]
    /\ UNCHANGED <<reg, lifecycle, returned>> /\ UNCHANGED policyVars
    /\ Calm

\* The published engine, when it serves one of the targets.  An engine is
\* known by the search it serves now, not by the one that launched it.
ServingByActor(k, T) == {a \in {reg.actors[k]} \ {0} : a \in T}

Serving(k, T) == {a \in {reg.actors[k]} \ {0} : OwnerGeneration(reg, a) \in T}

CancelSearches(s, A) == [s EXCEPT !.cancelled = @ \cup ({s.search[a] : a \in A} \ {0})]

\* It then remembers that engine and cancels its search, under no lock.
StopSelect(o) ==
    /\ task[o].kind = "Stop" /\ task[o].phase = "Captured"
    /\ LET A == Serving(task[o].key, task[o].targets)
       IN  /\ task' = [task EXCEPT ![o].phase = "Selected",
                         ![o].selected = IF A = {} THEN 0 ELSE reg.actors[task[o].key]]
           /\ reg' = CancelSearches(reg, A)
    /\ UNCHANGED <<lifecycle, returned>> /\ UNCHANGED policyVars
    /\ Calm

\* Under registration: the admission is cancelled, and what must go down
\* starts to, before any lock is awaited.  A warm stop keeps its engine.
StopBind(o) ==
    /\ task[o].kind = "Stop" /\ task[o].phase = "Selected"
    /\ LET t == task[o]
           C == IF t.gen = 0 THEN {t.admission} \ {0}
                ELSE {t.gen} \cap {reg.admissions[t.key]}
           A == Serving(t.key, t.targets)
           c == CancelExact(reg, C)
           m == IF t.release THEN MarkCancelled(c, A) ELSE CancelSearches(c, A)
           G == {a \in A : t.release \/ Terminal(a)} \cup
                {p \in reg.pending : /\ KeyOf(p) = t.key
                                     /\ reg.owner[p] \in t.targets \/ p = t.selected}
           s == Observe(m, G)
       IN  /\ reg' = s
           /\ task' = [task EXCEPT ![o].phase = "Bound", ![o].waits = Attempts(s, G)]
    /\ UNCHANGED <<lifecycle, returned>> /\ UNCHANGED policyVars
    /\ Calm

\* The rest runs under the lifecycle lock: wait for what was bound, or look
\* at the engine again, which may serve another search by now.
StopLock(o) ==
    /\ task[o].kind = "Stop" /\ task[o].phase = "Bound"
    /\ lifecycle[task[o].key] = None
    /\ LET t == task[o]
           a == reg.actors[t.key]
           A == Serving(t.key, t.targets)
           Lock == lifecycle' = [lifecycle EXCEPT ![t.key] = o]
           To(p, g) == task' = [task EXCEPT ![o].phase = p, ![o].selected = g]
       IN  \/ t.waits # {} /\ Lock /\ To("Wait", t.selected) /\ UNCHANGED reg
           \/ /\ t.waits = {} /\ A = {} /\ t.selected \notin {0, a}
              /\ Lock /\ To("Reap", t.selected) /\ UNCHANGED reg
           \/ /\ t.waits = {} /\ A = {} /\ t.selected \in {0, a}
              /\ task' = [task EXCEPT ![o] = Finished] /\ UNCHANGED <<reg, lifecycle>>
           \/ /\ t.waits = {} /\ A # {}
              /\ ~t.release /\ ~Terminal(a) /\ reg.search[a] # 0
              /\ Lock /\ To("Stopping", a) /\ reg' = CancelSearches(reg, A)
           \/ /\ t.waits = {} /\ A # {}
              /\ ~(~t.release /\ ~Terminal(a) /\ reg.search[a] # 0)
              /\ Lock /\ To("Reap", a) /\ reg' = MarkCancelled(reg, A)
    /\ UNCHANGED returned /\ UNCHANGED policyVars
    /\ Calm

\* actor.stop_current of a warm stop; a failure takes the engine down.
StopWarm(o) ==
    /\ task[o].kind = "Stop" /\ task[o].phase = "Stopping"
    /\ \/ /\ task' = [task EXCEPT ![o] = Finished]
          /\ lifecycle' = Unlocked(o)
       \/ /\ "StopFailure" \in Incidents \/ Terminal(task[o].selected)
          /\ task' = [task EXCEPT ![o].phase = "Reap"]
          /\ UNCHANGED lifecycle
    /\ UNCHANGED <<reg, returned>> /\ UNCHANGED policyVars
    /\ Calm

StopReap(o) ==
    /\ task[o].kind = "Stop" /\ task[o].phase = "Reap"
    /\ LET G == {task[o].selected} \ {0}
           s == Observe(reg, G)
       IN  /\ reg' = s
           /\ task' = [task EXCEPT ![o].phase = "Wait", ![o].waits = Attempts(s, G)]
    /\ UNCHANGED <<lifecycle, returned>> /\ UNCHANGED policyVars
    /\ Calm

\* terminate_exact, under registration and admission_coordination.
ExactBind(o) ==
    /\ task[o].kind = "Exact" /\ task[o].phase = "Begun"
    /\ LET t == task[o]
           A == {t.gen} \cap {reg.actors[t.key]}
           C == {t.gen} \cap {reg.admissions[t.key]}
           s == Observe(CancelExact(MarkCancelled(reg, A), C), {t.gen})
       IN  /\ reg' = s
           /\ task' = [task EXCEPT ![o].phase = "Bound",
                                   ![o].waits = Attempts(s, {t.gen})]
    /\ UNCHANGED <<lifecycle, returned>> /\ UNCHANGED policyVars
    /\ Calm

\* wait_for_termination
ExactLock(o) ==
    /\ task[o].kind = "Exact" /\ task[o].phase = "Bound"
    /\ lifecycle[task[o].key] = None
    /\ lifecycle' = [lifecycle EXCEPT ![task[o].key] = o]
    /\ task' = [task EXCEPT ![o].phase = "Wait"]
    /\ UNCHANGED <<reg, returned>> /\ UNCHANGED policyVars
    /\ Calm

\* cancel_exact, which cancel_analysis calls with the generation it finds.
Flag(o) ==
    /\ task[o].kind = "Flag" /\ task[o].phase = "Begun"
    /\ reg' = MarkCancelled(reg, {reg.actors[task[o].key]} \ {0})
    /\ task' = [task EXCEPT ![o] = Finished]
    /\ UNCHANGED <<lifecycle, returned>> /\ UNCHANGED policyVars
    /\ Calm

\* kill_engine: everything of the key, without the lifecycle lock.  The
\* cancelled admission stays in the map.
Kill(o) ==
    /\ task[o].kind = "Kill" /\ task[o].phase = "Begun"
    /\ LET k == task[o].key
           C == {reg.admissions[k]} \ {0}
           c == [reg EXCEPT !.cancelled = @ \cup C, !.prepared = @ \ C]
           G == ({reg.actors[k]} \ {0}) \cup {p \in reg.pending : KeyOf(p) = k}
           s == Observe(c, G)
       IN  /\ reg' = s
           /\ task' = [task EXCEPT ![o].phase = "Wait", ![o].waits = Attempts(s, G)]
    /\ UNCHANGED <<lifecycle, returned>> /\ UNCHANGED policyVars
    /\ Calm

Drains == {"Tab", "Engine", "Executable", "All"}

\* Every command but a drain waits for all of its attempts.
CommandEnds(o) ==
    /\ task[o].phase = "Wait" /\ task[o].kind \notin Drains
    /\ \A a \in task[o].waits : Result(a) # "Running"
    /\ task' = [task EXCEPT ![o] = Finished]
    /\ lifecycle' = Unlocked(o)
    /\ UNCHANGED <<reg, returned>> /\ UNCHANGED policyVars
    /\ Calm

-----------------------------------------------------------------------------
(* Drains: a tab, a retired engine or executable, the whole application.   *)

Matches(t, g) ==
    \/ t.kind = "All"
    \/ t.kind = "Tab" /\ KeyOf(g).tab = t.name
    \/ t.kind = "Engine" /\ t.name \in {KeyOf(g).engine, launch[g].id}
    \/ t.kind = "Executable" /\ launch[g].exe = t.name
    \/ /\ t.kind = "Binary" /\ KeyOf(g).tab \notin GameTabs
       /\ launch[g].id = t.name.id /\ launch[g].exe = t.name.retired

Admissions(t) == {g \in {reg.admissions[k] : k \in Keys} \ {0} : Matches(t, g)}

\* retire_engine, retire_executables and terminate_all leave their tombstone,
\* or seal the supervisor, before they ask for a lock.
DrainMark(o) ==
    /\ task[o].kind \in Drains /\ task[o].phase = "Begun"
    /\ LET kind == task[o].kind
           name == task[o].name
           Lost(s) == retired.evicted \cup {<<kind, y>> : y \in Evicted(s, name)}
       IN  retired' =
             CASE kind = "Engine" ->
                    [retired EXCEPT !.ids = RetiredInsert(@, name), !.evicted = Lost(retired.ids)]
               [] kind = "Executable" ->
                    [retired EXCEPT !.exes = RetiredInsert(@, name), !.evicted = Lost(retired.exes)]
               [] OTHER -> retired
    /\ sealed' = (sealed \/ task[o].kind = "All")
    /\ task' = [task EXCEPT ![o].phase = "Marked"]
    /\ UNCHANGED <<reg, lifecycle, returned>>
    /\ Calm

\* The barrier: matching admissions are cancelled; shutdown also cancels
\* every published engine.
DrainBarrier(o) ==
    /\ task[o].kind \in Drains /\ task[o].phase = "Marked"
    /\ LET c == CancelExact(reg, Admissions(task[o]))
       IN  reg' = IF task[o].kind = "All" THEN MarkCancelled(c, Published(c)) ELSE c
    /\ task' = [task EXCEPT ![o].phase = "Scan"]
    /\ UNCHANGED <<lifecycle, returned>> /\ UNCHANGED policyVars
    /\ Calm

\* drain_matching, one round: what is published or pending and not visited.
DrainScanPublished(o) ==
    /\ task[o].kind \in Drains /\ task[o].phase = "Scan"
    /\ LET t == task[o]
           New == {g \in Gens : Matches(t, g) /\ g \notin t.visited}
           A == New \cap Published(reg)
           s == Observe(reg, A)
       IN  /\ reg' = s
           /\ IF A = {}
              THEN /\ returned' = IF t.failed THEN returned ELSE returned \cup {<<t.kind, t.name>>}
                   /\ task' = [task EXCEPT ![o] = Finished]
              ELSE /\ task' = [task EXCEPT ![o].phase = "Wait", ![o].visited = @ \cup A,
                                 ![o].locks = Attempts(s, A)]
                   /\ UNCHANGED returned
    /\ UNCHANGED lifecycle /\ UNCHANGED policyVars
    /\ Calm

DrainScan(o) ==
    /\ task[o].kind \in Drains /\ task[o].phase = "Scan"
    /\ LET t == task[o]
           New == {g \in Gens : Matches(t, g) /\ g \notin t.visited}
           A == New \cap Published(reg)
           P == New \cap reg.pending
           s == Observe(reg, A \cup P)
       IN  /\ reg' = s
           /\ IF A \cup P = {}
              THEN /\ returned' = IF t.failed THEN returned ELSE returned \cup {<<t.kind, t.name>>}
                   /\ task' = [task EXCEPT ![o] = Finished]
              ELSE /\ task' = [task EXCEPT ![o].phase = "Wait",
                                 ![o].visited = @ \cup A \cup P,
                                 ![o].locks = Attempts(s, A),
                                 ![o].waits = Attempts(s, P \ A)]
                   /\ UNCHANGED returned
    /\ UNCHANGED lifecycle /\ UNCHANGED policyVars
    /\ Calm

\* wait_for_termination of an engine that was published: under its lock.
DrainLock(o, a) ==
    /\ task[o].kind \in Drains /\ a \in task[o].locks
    /\ lifecycle[KeyOf(a[1])] = None
    /\ lifecycle' = [lifecycle EXCEPT ![KeyOf(a[1])] = o]
    /\ task' = [task EXCEPT ![o].locks = @ \ {a}, ![o].waits = @ \cup {a}]
    /\ UNCHANGED <<reg, returned>> /\ UNCHANGED policyVars
    /\ Calm

\* One of them has ended; its lock is released.
DrainAwait(o, a) ==
    /\ task[o].kind \in Drains /\ a \in task[o].waits
    /\ Result(a) # "Running"
    /\ lifecycle' = [lifecycle EXCEPT ![KeyOf(a[1])] = IF @ = o THEN None ELSE @]
    /\ task' = [task EXCEPT ![o].waits = @ \ {a},
                            ![o].failed = @ \/ Result(a) = "Failed"]
    /\ UNCHANGED <<reg, returned>> /\ UNCHANGED policyVars
    /\ Calm

DrainAgain(o) ==
    /\ task[o].kind \in Drains /\ task[o].phase = "Wait"
    /\ task[o].locks = {} /\ task[o].waits = {}
    /\ task' = [task EXCEPT ![o].phase = "Scan"]
    /\ UNCHANGED <<reg, lifecycle, returned>> /\ UNCHANGED policyVars
    /\ Calm

\* capture_binary_retirement: tombstone, admissions and engines in one
\* section.  The engines of a running game are left to the game.
BinaryRetire(o) ==
    /\ task[o].kind = "Binary" /\ task[o].phase = "Begun"
    /\ LET t == task[o]
           G == {g \in reg.pending \cup Published(reg) : Matches(t, g)}
           s == Observe(CancelExact(reg, Admissions(t)), G)
       IN  /\ reg' = s
           /\ task' = [task EXCEPT ![o].phase = "Wait", ![o].waits = Attempts(s, G)]
           /\ retired' = [retired EXCEPT !.pairs =
                 RetiredInsert(RetiredRemove(@, <<t.name.id, t.name.current>>),
                               <<t.name.id, t.name.retired>>)]
    /\ UNCHANGED <<sealed, lifecycle, returned>>
    /\ Calm

\* resume_binary_retirement again: what failed is retried.
BinaryResume(o) ==
    /\ task[o].kind = "Binary" /\ task[o].phase = "Wait"
    /\ \A a \in task[o].waits : Result(a) # "Running"
    /\ \E a \in task[o].waits : Result(a) = "Failed" /\ Unresolved(a[1])
    /\ LET G == {a[1] : a \in task[o].waits}
           s == StartTermination(reg, G)
       IN  /\ reg' = s
           /\ task' = [task EXCEPT ![o].waits = {<<g, s.attempt[g]>> : g \in G}]
    /\ UNCHANGED <<lifecycle, returned>> /\ UNCHANGED policyVars
    /\ Calm

-----------------------------------------------------------------------------

LaunchNext(g) ==
    \/ \E l \in Launches : Allocate(g, l)
    \/ Admit(g) \/ Admitted(g) \/ Consume(g) \/ Revoke(g)
    \/ SpawnPending(g) \/ Spawned(g) \/ SpawnFailed(g)
    \/ ObserveEarly(g) \/ LockPublication(g) \/ ObserveLocked(g)
    \/ PreviousEnded(g) \/ Publish(g) \/ Rejected(g)
    \/ Initialised(g) \/ EndOwner(g)
    \/ LockSearch(g) \/ Bind(g) \/ StopCurrent(g) \/ StopCurrentFailed(g)
    \/ Confirm(g) \/ Warmed(g) \/ StartSearch(g) \/ StartFailed(g)
    \/ ReapPublished(g) \/ Reaped(g) \/ SearchEnds(g) \/ SearchFails(g)
    \/ Abandon(g)

TaskNext(o) ==
    \/ StopCapture(o) \/ StopSelect(o) \/ StopBind(o) \/ StopLock(o)
    \/ StopWarm(o) \/ StopReap(o)
    \/ ExactBind(o) \/ ExactLock(o) \/ Flag(o) \/ Kill(o) \/ CommandEnds(o)
    \/ DrainMark(o) \/ DrainBarrier(o) \/ DrainScan(o) \/ DrainAgain(o)
    \/ \E a \in task[o].locks : DrainLock(o, a)
    \/ \E a \in task[o].waits : DrainAwait(o, a)
    \/ BinaryRetire(o) \/ BinaryResume(o)

Terminations(g) ==
    \E n \in DOMAIN reg.results[g], r \in {"Ok", "Failed"}, alive \in BOOLEAN :
       TerminationEnds(g, n, r, alive)

Next ==
    \/ \E g \in Gens : LaunchNext(g) \/ Terminations(g) \/ ChildExits(g)
    \/ \E o \in Ops, c \in Commands : Begin(o, c)
    \/ \E o \in Tasks : TaskNext(o)

Spec == Init /\ [][Next]_vars

\* Some launch, task or termination that can go on does: the registry locks
\* are held for no await, and a spawn, a stop and a termination have
\* deadlines.  Nothing makes a caller launch, consume its reservation or end
\* its engine.  No step can be repeated for ever, so this is all the fairness
\* there is to assume.
Advance ==
    \/ \E g \in Gens :
          \/ Admit(g) \/ Admitted(g) \/ SpawnPending(g) \/ Spawned(g)
          \/ ObserveEarly(g) \/ LockPublication(g) \/ ObserveLocked(g)
          \/ PreviousEnded(g) \/ Publish(g) \/ Rejected(g)
          \/ LockSearch(g) \/ Bind(g) \/ StopCurrent(g) \/ Confirm(g)
          \/ Warmed(g) \/ StartSearch(g) \/ ReapPublished(g) \/ Reaped(g)
          \/ Terminations(g)
    \/ \E o \in Tasks : TaskNext(o)

FairSpec == Spec /\ WF_vars(Advance)

-----------------------------------------------------------------------------

\* "Insert before removal so every drain can see the child until the shared
\* termination task completes" (process.rs:2630): a child that is not reaped
\* is published under its key or pending, whatever launch, command or
\* dropped future handled it last.
NoOrphan ==
    \A g \in Gens : child[g] \in {"Slot", "Alive"} =>
       g \in reg.pending \/ reg.actors[KeyOf(g)] = g

\* A launch whose lease is armed and not cancelled is the admission its key
\* has in the map, so a kill, a tab or a drain that goes through the map
\* misses no launch that could still publish.
LeasesRegistered ==
    \A g \in reg.leases \ reg.cancelled : reg.admissions[KeyOf(g)] = g

\* A drain that returned without a failure left nothing of its scope behind:
\* after shutdown no child is alive; after a retirement none of that engine
\* or executable is, unless its tombstone was evicted from a full set.
Swept(r, g) ==
    \/ r[1] = "All"
    \/ r[1] = "Engine" /\ launch[g].id = r[2] /\ r \notin retired.evicted
    \/ r[1] = "Executable" /\ launch[g].exe = r[2] /\ r \notin retired.evicted

DrainLeavesNone ==
    \A r \in returned, g \in Gens : Swept(r, g) => child[g] \notin {"Slot", "Alive"}

\* "Leave that actor published so a stale exact stop cannot reap its new
\* owner" (process.rs:2540): a step of a command about one search cancels
\* no other search and takes down no engine that serves another one.
StopIsExact ==
    [][\A o \in Tasks :
         task[o].kind = "Stop" /\ task[o].gen # 0 /\ task'[o] # task[o] =>
            \A k \in Keys :
               LET a == reg.actors[k]
               IN  a # 0 /\ OwnerGeneration(reg, a) # task[o].gen =>
                      /\ reg'.actors[k] = a
                      /\ a \in reg'.stopped => a \in reg.stopped
                      /\ OwnerGeneration(reg, a) \in reg'.cancelled =>
                            OwnerGeneration(reg, a) \in reg.cancelled]_vars

\* "then drain until this tab has no actors" (process.rs:2771-2773): in the
\* moment terminate_tab returns, no engine of its tab is registered.
TabDrained ==
    [][\A o \in Ops :
         task[o].kind = "Tab" /\ task[o].phase = "Scan" /\ task'[o].phase = "Ended" =>
            \A g \in Published(reg') : KeyOf(g).tab # task[o].name]_vars

\* Stop, release, kill, tab close, retirement, shutdown and the cleanup a
\* dropped guard spawned all return in the end: the lifecycle lock, the
\* terminations they wait for and the spawns those wait for never hold each
\* other up.
CommandsEnd == <>[](\A o \in Tasks : task[o].phase \in {"Idle", "Ended"})
=============================================================================
