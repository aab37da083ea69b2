---------------------- MODULE EngineSupervisor_proofs ----------------------
(***************************************************************************)
(* Proofs about the engine supervisor, for any keys, launches and commands *)
(* and any limits.                                                         *)
(***************************************************************************)
EXTENDS EngineSupervisor, SequenceTheorems, TLAPS

-----------------------------------------------------------------------------
(* Types.                                                                  *)

Gens0 == 0..MaxGen

Outcomes == {"Running", "Ok", "Failed"}

Registry ==
    [admissions : [Keys -> Gens0], prepared : SUBSET Gens, cancelled : SUBSET Gens,
     leases : SUBSET Gens, actors : [Keys -> Gens0], stopped : SUBSET Gens,
     search : [Gens -> Gens0], warm : SUBSET Gens, pending : SUBSET Gens,
     spawning : SUBSET Gens, owner : [Gens -> Gens0], attempt : [Gens -> Nat],
     results : [Gens -> Seq(Outcomes)]]

Names == {c.name : c \in Commands} \cup {None}

Phases ==
    {"Idle", "Begun", "Captured", "Selected", "Bound", "Stopping", "Reap", "Wait", "Marked",
     "Scan", "Ended"}

TaskRecord ==
    [kind : {"None", "Stop", "Exact", "Kill", "Flag", "Binary"} \cup Drains,
     phase : Phases,
     key : Keys \cup {None}, gen : Gens0, release : BOOLEAN, name : Names,
     targets : SUBSET Gens, admission : Gens0, selected : Gens0,
     visited : SUBSET Gens, locks : SUBSET (Gens \X Nat), waits : SUBSET (Gens \X Nat),
     failed : BOOLEAN]

\* A command about a key names one, and an exact one a generation.
TaskOK(t) ==
    /\ t \in TaskRecord
    /\ t.kind \in {"Stop", "Exact", "Kill", "Flag"} => t.key \in Keys
    /\ t.kind = "Exact" => t.gen \in Gens

Places ==
    {"Unused", "Allocated", "Prepared", "Initialising", "Owned", "Done"} \cup Awaiting

TypeOK ==
    /\ launch \in [Gens -> Launches]
    /\ reg \in Registry
    /\ child \in [Gens -> {"None", "Slot", "Alive", "Reaped"}]
    /\ pc \in [Gens -> Places]
    /\ waits \in [Gens -> SUBSET (Gens \X Nat)]
    /\ reused \in [Gens -> Gens0]
    /\ DOMAIN task = Tasks /\ \A o \in Tasks : TaskOK(task[o])

-----------------------------------------------------------------------------
(* The invariant behind NoOrphan and LeasesRegistered.                     *)

\* What a generation has, it has since it was allocated.
Begun ==
    \A g \in Gens : g \in reg.leases \/ child[g] \in {"Slot", "Alive"} => pc[g] # "Unused"

\* While a launch spawns, no termination of it can end, so it stays pending.
SpawnsSeen == \A g \in Gens : pc[g] = "Spawning" => g \in reg.spawning /\ g \in reg.pending

WaitsOK == \A g \in Gens : waits[g] # {} => pc[g] \in {"Queued", "Waiting", "Rejecting", "Reaped"}

\* A search that reuses an engine knows which.
ReusedOK ==
    \A g \in Gens : pc[g] \in {"Binding", "Stopping", "Confirming"} => reused[g] # 0

\* A launch that has looked at the engine it replaces finds no other engine
\* under its key as long as its own admission is the current one.
Looked(g) == pc[g] \in {"Waiting", "Publishing"} \/ (pc[g] = "Queued" /\ waits[g] # {})

KeyClear ==
    \A g \in Gens : Looked(g) /\ reg.admissions[KeyOf(g)] = g => reg.actors[KeyOf(g)] = 0

Inv ==
    /\ TypeOK
    /\ Begun /\ SpawnsSeen /\ WaitsOK /\ ReusedOK /\ KeyClear
    /\ LeasesRegistered /\ NoOrphan

-----------------------------------------------------------------------------
(* The functions of the registry.                                          *)

\* A section that neither admits, publishes nor forgets: an admission leaves
\* the map only cancelled, an engine leaves `actors` only for pending_actors.
Keeps(s, t) ==
    /\ s.cancelled \subseteq t.cancelled /\ s.pending \subseteq t.pending
    /\ t.leases = s.leases /\ t.spawning = s.spawning
    /\ \A k \in Keys :
          \/ t.admissions[k] = s.admissions[k]
          \/ t.admissions[k] = 0 /\ s.admissions[k] \in t.cancelled
    /\ \A k \in Keys :
          \/ t.actors[k] = s.actors[k]
          \/ t.actors[k] = 0 /\ s.actors[k] \in t.pending

\* Two such sections are one.
LEMMA KeepsTwice ==
    ASSUME NEW s, NEW t, NEW u, Keeps(s, t), Keeps(t, u)
    PROVE  Keeps(s, u)
  BY DEF Keeps

\* Generations are positive; zero stands for none.
LEMMA GenFacts ==
    /\ Gens \subseteq Gens0 /\ Gens0 \ {0} = Gens /\ 0 \in Gens0 /\ 0 \notin Gens
    /\ Gens \subseteq Tasks
  BY SupervisorAssumption DEF Gens, Gens0, Tasks

\* cancel_exact is such a section.
LEMMA CancelExactKeeps ==
    ASSUME NEW s \in Registry, NEW G \in SUBSET Gens
    PROVE  CancelExact(s, G) \in Registry /\ Keeps(s, CancelExact(s, G))
  BY GenFacts DEF CancelExact, Keeps, Registry

\* mark_cancelled is such a section and publishes nothing.
LEMMA MarkCancelledKeeps ==
    ASSUME NEW s \in Registry, NEW A \in SUBSET Gens
    PROVE  /\ MarkCancelled(s, A) \in Registry /\ Keeps(s, MarkCancelled(s, A))
           /\ MarkCancelled(s, A).actors = s.actors
           /\ MarkCancelled(s, A).admissions = s.admissions
  <1> DEFINE S == {s.search[a] : a \in A} \ {0}
  <1>1. S \subseteq Gens
    BY GenFacts DEF Registry
  <1>2. MarkCancelled(s, A) = [s EXCEPT !.stopped = @ \cup A, !.cancelled = @ \cup S]
    BY DEF MarkCancelled
  <1> HIDE DEF S
  <1> QED BY <1>1, <1>2 DEF Keeps, Registry

\* Cancelling the searches of engines is such a section.
LEMMA CancelSearchesKeeps ==
    ASSUME NEW s \in Registry, NEW A \in SUBSET Gens
    PROVE  /\ CancelSearches(s, A) \in Registry /\ Keeps(s, CancelSearches(s, A))
           /\ CancelSearches(s, A).actors = s.actors
  <1> DEFINE S == {s.search[a] : a \in A} \ {0}
  <1>1. S \subseteq Gens
    BY GenFacts DEF Registry
  <1>2. CancelSearches(s, A) = [s EXCEPT !.cancelled = @ \cup S]
    BY DEF CancelSearches
  <1> HIDE DEF S
  <1> QED BY <1>1, <1>2 DEF Keeps, Registry

\* What is published are generations.
LEMMA PublishedType ==
    ASSUME NEW s \in Registry
    PROVE  Published(s) \subseteq Gens
  BY GenFacts DEF Published, Registry

\* handoff_published_locked is such a section: it unpublishes what it
\* makes pending.
LEMMA HandoffKeeps ==
    ASSUME NEW s \in Registry, NEW G
    PROVE  /\ Handoff(s, G) \in Registry /\ Keeps(s, Handoff(s, G))
           /\ \A k \in Keys : Handoff(s, G).actors[k] =
                 IF s.actors[k] \in G THEN 0 ELSE s.actors[k]
           /\ Handoff(s, G).admissions = s.admissions
  <1> DEFINE A == G \cap Published(s)
             m == MarkCancelled(s, A)
             fresh == A \ s.pending
  <1>1. A \subseteq Gens /\ m \in Registry /\ Keeps(s, m) /\ m.actors = s.actors
        /\ m.admissions = s.admissions
    BY PublishedType, MarkCancelledKeeps
  <1>2. \A g \in fresh : OwnerGeneration(s, g) \in Gens0
    BY <1>1, GenFacts DEF OwnerGeneration, Registry
  <1>3. \A k \in Keys : s.actors[k] \in A <=> s.actors[k] \in G /\ s.actors[k] # 0
    BY DEF Published
  <1> DEFINE h == Handoff(s, G)
  <1>4. h = [m EXCEPT
            !.pending = @ \cup A,
            !.owner = [g \in Gens |-> IF g \in fresh THEN OwnerGeneration(s, g) ELSE @[g]],
            !.attempt = [g \in Gens |-> IF g \in fresh THEN 0 ELSE @[g]],
            !.actors = [k \in Keys |-> IF @[k] \in A THEN 0 ELSE @[k]]]
    BY DEF Handoff
  <1> HIDE DEF A, m, fresh, h
  <1>5. h \in Registry
    <2> DEFINE own == [g \in Gens |-> IF g \in fresh THEN OwnerGeneration(s, g) ELSE m.owner[g]]
               att == [g \in Gens |-> IF g \in fresh THEN 0 ELSE m.attempt[g]]
               act == [k \in Keys |-> IF m.actors[k] \in A THEN 0 ELSE m.actors[k]]
    <2>1. own \in [Gens -> Gens0] /\ att \in [Gens -> Nat] /\ act \in [Keys -> Gens0]
      BY <1>1, <1>2, GenFacts DEF Registry
    <2>2. h = [m EXCEPT !.pending = m.pending \cup A, !.owner = own, !.attempt = att,
                        !.actors = act]
      BY <1>4
    <2> HIDE DEF own, att, act
    <2> QED BY <1>1, <2>1, <2>2 DEF Registry
  <1>6. /\ h.pending = m.pending \cup A /\ h.admissions = m.admissions /\ h.leases = m.leases
        /\ h.actors = [k \in Keys |-> IF m.actors[k] \in A THEN 0 ELSE m.actors[k]]
        /\ h.cancelled = m.cancelled /\ h.spawning = m.spawning
    BY <1>1, <1>4 DEF Registry
  <1>7. Keeps(s, h)
    BY <1>1, <1>3, <1>6 DEF Keeps
  <1>8. \A k \in Keys : h.actors[k] = IF s.actors[k] \in G THEN 0 ELSE s.actors[k]
    BY <1>1, <1>3, <1>6 DEF Registry
  <1> QED BY <1>1, <1>5, <1>6, <1>7, <1>8 DEF h

\* start_termination is such a section and touches neither map.
LEMMA StartTerminationKeeps ==
    ASSUME NEW s \in Registry, NEW G
    PROVE  /\ StartTermination(s, G) \in Registry /\ Keeps(s, StartTermination(s, G))
           /\ StartTermination(s, G).actors = s.actors
           /\ StartTermination(s, G).admissions = s.admissions
  <1> DEFINE N == {g \in G : NeedsAttempt(s, g)}
             t == StartTermination(s, G)
  <1>1. t = [s EXCEPT
            !.results = [g \in Gens |-> IF g \in N THEN Append(@[g], "Running") ELSE @[g]],
            !.attempt = [g \in Gens |-> IF g \in N THEN Len(s.results[g]) + 1 ELSE @[g]]]
    BY DEF StartTermination
  <1>2. \A g \in Gens : /\ s.results[g] \in Seq(Outcomes)
                        /\ Append(s.results[g], "Running") \in Seq(Outcomes)
                        /\ Len(s.results[g]) + 1 \in Nat
    BY DEF Registry, Outcomes
  <1> HIDE DEF N, t
  <1>3. t \in Registry
    BY <1>1, <1>2 DEF Registry
  <1>4. /\ t.cancelled = s.cancelled /\ t.pending = s.pending /\ t.leases = s.leases
        /\ t.spawning = s.spawning /\ t.admissions = s.admissions /\ t.actors = s.actors
    BY <1>1 DEF Registry
  <1> QED BY <1>3, <1>4 DEF Keeps, t

\* observe_termination_locked takes every published engine it is given down.
LEMMA ObserveKeeps ==
    ASSUME NEW s \in Registry, NEW G
    PROVE  /\ Observe(s, G) \in Registry /\ Keeps(s, Observe(s, G))
           /\ \A k \in Keys : Observe(s, G).actors[k] =
                 IF s.actors[k] \in G THEN 0 ELSE s.actors[k]
           /\ Observe(s, G).admissions = s.admissions
  <1> DEFINE h == Handoff(s, G)
  <1>1. /\ h \in Registry /\ Keeps(s, h)
        /\ \A k \in Keys : h.actors[k] = IF s.actors[k] \in G THEN 0 ELSE s.actors[k]
        /\ h.admissions = s.admissions
    BY HandoffKeeps
  <1> DEFINE t == StartTermination(h, G \cap h.pending)
  <1> HIDE DEF h
  <1>2. t \in Registry /\ Keeps(h, t) /\ t.actors = h.actors /\ t.admissions = h.admissions
    BY <1>1, StartTerminationKeeps
  <1>3. Observe(s, G) = t
    BY DEF Observe, h
  <1> HIDE DEF t
  <1>4. Keeps(s, t)
    BY <1>1, <1>2, KeepsTwice
  <1> QED BY <1>1, <1>2, <1>3, <1>4

\* The attempts to wait for are numbered.
LEMMA AttemptsType ==
    ASSUME NEW s \in Registry, NEW G
    PROVE  Attempts(s, G) \in SUBSET (Gens \X Nat)
  BY DEF Attempts, Registry

\* The end of a spawn changes the set of spawns alone.
LEMMA FinishSpawnType ==
    ASSUME NEW s \in Registry, NEW g
    PROVE  /\ FinishSpawn(s, g) \in Registry
           /\ FinishSpawn(s, g) = [s EXCEPT !.spawning = s.spawning \ {g}]
  BY DEF FinishSpawn, Registry

\* The same for a section of the launch g, which may also give up its lease,
\* its admission and its spawn.
KeepsBut(s, t, g) ==
    /\ s.cancelled \subseteq t.cancelled /\ s.pending \subseteq t.pending
    /\ t.leases \subseteq s.leases /\ s.leases \subseteq t.leases \cup {g}
    /\ s.spawning \subseteq t.spawning \cup {g}
    /\ \A k \in Keys :
          \/ t.admissions[k] = s.admissions[k]
          \/ /\ t.admissions[k] = 0
             /\ \/ s.admissions[k] \in t.cancelled
                \/ s.admissions[k] = g /\ g \notin t.leases
    /\ \A k \in Keys :
          \/ t.actors[k] = s.actors[k]
          \/ t.actors[k] = 0 /\ s.actors[k] \in t.pending

\* A section that keeps everything keeps what a launch must.
LEMMA KeepsIsKeepsBut ==
    ASSUME NEW s, NEW t, NEW g, Keeps(s, t)
    PROVE  KeepsBut(s, t, g)
  BY DEF Keeps, KeepsBut

\* Dropping the lease is a section of the launch that holds it.
LEMMA DropLeaseKeeps ==
    ASSUME NEW s \in Registry, NEW t \in Registry, NEW g \in Gens, KeepsBut(s, t, g)
    PROVE  DropLease(t, g) \in Registry /\ KeepsBut(s, DropLease(t, g), g)
  <1>1. CASE g \notin t.leases
    BY <1>1 DEF DropLease
  <1>2. CASE g \in t.leases
    <2> DEFINE c == CancelExact(t, {g})
               d == [c EXCEPT !.leases = @ \ {g}]
    <2>1. c \in Registry /\ Keeps(t, c)
      BY CancelExactKeeps
    <2>2. DropLease(t, g) = d
      BY <1>2 DEF DropLease
    <2> HIDE DEF c
    <2>3. /\ d \in Registry
          /\ d.cancelled = c.cancelled /\ d.pending = c.pending /\ d.leases = c.leases \ {g}
          /\ d.spawning = c.spawning /\ d.admissions = c.admissions /\ d.actors = c.actors
      BY <2>1 DEF Registry
    <2> HIDE DEF d
    <2>4. KeepsBut(s, d, g)
      BY <2>1, <2>3 DEF Keeps, KeepsBut
    <2> QED BY <2>2, <2>3, <2>4
  <1> QED BY <1>1, <1>2

-----------------------------------------------------------------------------
(* What a step has to show to preserve the invariant.                      *)

TasksOK == DOMAIN task = Tasks /\ \A o \in Tasks : TaskOK(task[o])

\* What the steps of a command write into its record.
LEMMA TaskWrites ==
    ASSUME TypeOK, NEW o \in Tasks, NEW p \in Phases, NEW W \in SUBSET (Gens \X Nat)
    PROVE  /\ task' = [task EXCEPT ![o] = Finished] => TasksOK'
           /\ task' = [task EXCEPT ![o].phase = p] => TasksOK'
           /\ task' = [task EXCEPT ![o].waits = W] => TasksOK'
           /\ task' = [task EXCEPT ![o].phase = p, ![o].waits = W] => TasksOK'
           /\ \A g \in Gens0 : task' = [task EXCEPT ![o].phase = p, ![o].selected = g] => TasksOK'
           /\ \A L \in SUBSET (Gens \X Nat) :
                 task' = [task EXCEPT ![o].locks = L, ![o].waits = W] => TasksOK'
           /\ \A f \in BOOLEAN :
                 task' = [task EXCEPT ![o].waits = W, ![o].failed = f] => TasksOK'
           /\ \A V \in SUBSET Gens, L \in SUBSET (Gens \X Nat) :
                 task' = [task EXCEPT ![o].phase = p, ![o].visited = V, ![o].locks = L,
                                      ![o].waits = W] => TasksOK'
           /\ \A T \in SUBSET Gens, a \in Gens0 :
                 task' = [task EXCEPT ![o] = [task[o] EXCEPT !.phase = p, !.targets = T,
                                                             !.admission = a]] => TasksOK'
  <1> USE DEF TypeOK, TasksOK
  <1>0. \A t : TaskOK(t) /\ task' = [task EXCEPT ![o] = t] => TasksOK'
    OBVIOUS
  <1>t. TaskOK(task[o])
    OBVIOUS
  <1>1. TaskOK(Finished)
    <2>2. None \in Names /\ None \in Keys \cup {None} /\ "Ended" \in Phases /\ 0 \in Gens0
      BY GenFacts DEF Names, Phases
    <2>3. NoTask \in TaskRecord
      BY <2>2, GenFacts DEF TaskRecord, NoTask, Phases
    <2>4. Finished \in TaskRecord /\ Finished.kind = NoTask.kind
      BY <2>2, <2>3 DEF Finished, TaskRecord
    <2> QED BY <2>4 DEF TaskOK, NoTask
  <1>2. TaskOK([task[o] EXCEPT !.phase = p]) /\ TaskOK([task[o] EXCEPT !.waits = W])
    BY <1>t DEF TaskOK, TaskRecord
  <1>3. TaskOK([task[o] EXCEPT !.phase = p, !.waits = W])
    BY <1>t DEF TaskOK, TaskRecord
  <1>4. \A g \in Gens0 : TaskOK([task[o] EXCEPT !.phase = p, !.selected = g])
    BY <1>t DEF TaskOK, TaskRecord
  <1>5. \A L \in SUBSET (Gens \X Nat) : TaskOK([task[o] EXCEPT !.locks = L, !.waits = W])
    BY <1>t DEF TaskOK, TaskRecord
  <1>6. \A f \in BOOLEAN : TaskOK([task[o] EXCEPT !.waits = W, !.failed = f])
    BY <1>t DEF TaskOK, TaskRecord
  <1>7. \A V \in SUBSET Gens, L \in SUBSET (Gens \X Nat) :
           TaskOK([task[o] EXCEPT !.phase = p, !.visited = V, !.locks = L, !.waits = W])
    BY <1>t DEF TaskOK, TaskRecord
  <1>8. \A T \in SUBSET Gens, a \in Gens0 :
           TaskOK([task[o] EXCEPT !.phase = p, !.targets = T, !.admission = a])
    BY <1>t DEF TaskOK, TaskRecord
  <1>9. /\ task' = [task EXCEPT ![o] = Finished] => TasksOK'
        /\ task' = [task EXCEPT ![o].phase = p] => TasksOK'
        /\ task' = [task EXCEPT ![o].waits = W] => TasksOK'
    BY <1>0, <1>1, <1>2
  <1>10. task' = [task EXCEPT ![o].phase = p, ![o].waits = W] => TasksOK'
    BY <1>3
  <1>11. \A g \in Gens0 : task' = [task EXCEPT ![o].phase = p, ![o].selected = g] => TasksOK'
    BY <1>4
  <1>12. \A L \in SUBSET (Gens \X Nat) :
            task' = [task EXCEPT ![o].locks = L, ![o].waits = W] => TasksOK'
    BY <1>5
  <1>13. \A f \in BOOLEAN : task' = [task EXCEPT ![o].waits = W, ![o].failed = f] => TasksOK'
    BY <1>6
  <1>14. \A V \in SUBSET Gens, L \in SUBSET (Gens \X Nat) :
            task' = [task EXCEPT ![o].phase = p, ![o].visited = V, ![o].locks = L,
                                 ![o].waits = W] => TasksOK'
    <2> SUFFICES ASSUME NEW V \in SUBSET Gens, NEW L \in SUBSET (Gens \X Nat),
                        task' = [task EXCEPT ![o].phase = p, ![o].visited = V, ![o].locks = L,
                                             ![o].waits = W]
                 PROVE  TasksOK'
      OBVIOUS
    <2> DEFINE t == [task[o] EXCEPT !.phase = p, !.visited = V, !.locks = L, !.waits = W]
    <2>1. task' = [task EXCEPT ![o] = t]
      OBVIOUS
    <2>2. TaskOK(t)
      BY <1>7
    <2> HIDE DEF t
    <2> QED BY <1>0, <2>1, <2>2
  <1>15. \A T \in SUBSET Gens, a \in Gens0 :
            task' = [task EXCEPT ![o] = [task[o] EXCEPT !.phase = p, !.targets = T,
                                                        !.admission = a]] => TasksOK'
    BY <1>0, <1>8
  <1> QED BY <1>9, <1>10, <1>11, <1>12, <1>13, <1>14, <1>15

\* A section that keeps what the registry holds keeps the invariant.
LEMMA CommandKeeps ==
    ASSUME Inv, TasksOK', reg' \in Registry, Keeps(reg, reg'),
           UNCHANGED <<launch, pc, waits, reused, child>>
    PROVE  Inv'
  <1>1. TypeOK'
    BY DEF Inv, TypeOK, TasksOK
  <1>2. \A g \in Gens : KeyOf(g)' = KeyOf(g) /\ KeyOf(g) \in Keys /\ g # 0
    BY SupervisorAssumption, GenFacts DEF Inv, TypeOK, KeyOf
  <1>3. Begun' /\ SpawnsSeen' /\ WaitsOK' /\ ReusedOK'
    BY DEF Inv, Begun, SpawnsSeen, WaitsOK, ReusedOK, Keeps
  <1>4. KeyClear'
    BY <1>2 DEF Inv, KeyClear, Looked, Keeps
  <1>5. LeasesRegistered'
    BY <1>2 DEF Inv, TypeOK, Registry, LeasesRegistered, Keeps
  <1>6. NoOrphan'
    BY <1>2 DEF Inv, NoOrphan, Keeps
  <1> QED BY <1>1, <1>3, <1>4, <1>5, <1>6 DEF Inv

\* So does a section of a launch that is not spawning afterwards.
LEMMA LaunchKeeps ==
    ASSUME Inv, NEW g \in Gens, NEW p \in Places \ {"Unused", "Spawning"},
           pc' = [pc EXCEPT ![g] = p], launch' = launch,
           reg' \in Registry, KeepsBut(reg, reg', g),
           TasksOK',
           NEW w \in SUBSET (Gens \X Nat), waits' = [waits EXCEPT ![g] = w],
           NEW r \in Gens0, reused' = [reused EXCEPT ![g] = r],
           NEW c \in {"None", "Slot", "Alive", "Reaped"}, child' = [child EXCEPT ![g] = c],
           c = child[g] \/ pc[g] = "Spawning",
           w # {} => p \in {"Queued", "Waiting", "Rejecting", "Reaped"},
           p \in {"Binding", "Stopping", "Confirming"} => r # 0,
           p \in {"Waiting", "Publishing", "Queued"} /\ reg'.admissions[KeyOf(g)] = g =>
              reg'.actors[KeyOf(g)] = 0 \/ (p = "Queued" /\ w = {})
    PROVE  Inv'
  <1>1. TypeOK'
    BY DEF Inv, TypeOK, TasksOK
  <1>2. \A h \in Gens : KeyOf(h)' = KeyOf(h) /\ KeyOf(h) \in Keys /\ h # 0
    BY SupervisorAssumption, GenFacts DEF Inv, TypeOK, KeyOf
  <1>3. \A h \in Gens : h # g => /\ pc'[h] = pc[h] /\ waits'[h] = waits[h]
                                 /\ reused'[h] = reused[h] /\ child'[h] = child[h]
    BY DEF Inv, TypeOK
  <1>4. pc'[g] = p /\ waits'[g] = w /\ reused'[g] = r /\ child'[g] = c
    BY DEF Inv, TypeOK
  <1>5. Begun' /\ SpawnsSeen' /\ WaitsOK' /\ ReusedOK'
    BY <1>3, <1>4 DEF Inv, Begun, SpawnsSeen, WaitsOK, ReusedOK, KeepsBut
  <1>6. KeyClear'
    BY <1>2, <1>3, <1>4 DEF Inv, KeyClear, Looked, KeepsBut
  <1>7. LeasesRegistered'
    <2> SUFFICES ASSUME NEW h \in reg'.leases \ reg'.cancelled
                 PROVE  reg'.admissions[KeyOf(h)'] = h
      BY DEF LeasesRegistered
    <2>1. h \in Gens /\ h \in reg.leases \ reg.cancelled
      BY DEF KeepsBut, Registry
    <2>2. reg.admissions[KeyOf(h)] = h
      BY <2>1 DEF Inv, LeasesRegistered
    <2> QED BY <1>2, <2>1, <2>2 DEF KeepsBut
  <1>8. NoOrphan'
    BY <1>2, <1>3, <1>4 DEF Inv, NoOrphan, SpawnsSeen, KeepsBut
  <1> QED BY <1>1, <1>5, <1>6, <1>7, <1>8 DEF Inv

-----------------------------------------------------------------------------
(* The steps of commands.                                                  *)

\* Nothing is lost when nothing happens.
LEMMA KeepsSame == \A s : Keeps(s, s)
  BY DEF Keeps

\* At most one engine serves under a key, and it is the published one.
LEMMA ServingType ==
    ASSUME reg \in Registry, NEW k \in Keys, NEW T
    PROVE  /\ Serving(k, T) \in SUBSET Gens
           /\ reg.actors[k] \in Gens0 /\ reg.admissions[k] \in Gens0
           /\ Serving(k, T) \subseteq {reg.actors[k]}
  BY GenFacts DEF Serving, Registry

\* The admissions a drain matches are generations.
LEMMA AdmissionsType ==
    ASSUME reg \in Registry, NEW t
    PROVE  Admissions(t) \in SUBSET Gens
  BY GenFacts DEF Admissions, Registry

\* stop_engine, from its capture to the reaping of the engine.
LEMMA StopStep ==
    ASSUME Inv, NEW o \in Tasks,
           \/ StopCapture(o) \/ StopSelect(o) \/ StopBind(o) \/ StopLock(o)
           \/ StopWarm(o) \/ StopReap(o)
    PROVE  Inv'
  <1> DEFINE t == task[o]
             k == t.key
  <1>r. TypeOK /\ reg \in Registry /\ TaskOK(t)
    BY DEF Inv, TypeOK
  <1>k. k \in Keys /\ t.gen \in Gens0 /\ t.targets \in SUBSET Gens /\ t.selected \in Gens0
        /\ t.admission \in Gens0 /\ t.release \in BOOLEAN
    BY <1>r DEF TaskOK, TaskRecord, StopCapture, StopSelect, StopBind, StopLock, StopWarm,
                StopReap
  <1>p. /\ "Captured" \in Phases /\ "Selected" \in Phases /\ "Bound" \in Phases
        /\ "Stopping" \in Phases /\ "Reap" \in Phases /\ "Wait" \in Phases
    BY DEF Phases
  <1>c. UNCHANGED <<launch, pc, waits, reused, child>>
    BY DEF StopCapture, StopSelect, StopBind, StopLock, StopWarm, StopReap, Calm
  <1>1. CASE StopCapture(o)
    <2>1. StopTargets(t) \in SUBSET Gens
      BY <1>r, <1>k, GenFacts DEF StopTargets, Registry, OwnerGeneration
    <2>2. reg.admissions[k] \in Gens0 /\ 0 \in Gens0
      BY <1>r, <1>k, GenFacts DEF Registry
    <2>3. TasksOK'
      <3>1. CASE StopTargets(t) = {}
        BY <1>1, <3>1, <1>r, <1>p, TaskWrites DEF StopCapture
      <3>2. CASE StopTargets(t) # {}
        <4> DEFINE T == StopTargets(t)
                   a == IF t.gen = 0 THEN reg.admissions[k] ELSE 0
        <4>1. task' = [task EXCEPT ![o] = [task[o] EXCEPT !.phase = "Captured", !.targets = T,
                                                          !.admission = a]]
          BY <1>1, <3>2 DEF StopCapture
        <4>2. T \in SUBSET Gens /\ a \in Gens0
          BY <2>1, <2>2
        <4> HIDE DEF T, a
        <4> QED BY <1>r, <1>p, <4>1, <4>2, TaskWrites
      <3> QED BY <3>1, <3>2
    <2>4. reg' = reg
      BY <1>1 DEF StopCapture
    <2> QED BY <2>3, <2>4, <1>r, <1>c, KeepsSame, CommandKeeps
  <1>2. CASE StopSelect(o)
    <2> DEFINE A == Serving(k, t.targets)
               g == IF A = {} THEN 0 ELSE reg.actors[k]
    <2>1. A \in SUBSET Gens /\ g \in Gens0
      BY <1>r, <1>k, ServingType, GenFacts
    <2>2. reg' = CancelSearches(reg, A)
          /\ task' = [task EXCEPT ![o].phase = "Selected", ![o].selected = g]
      BY <1>2 DEF StopSelect
    <2> HIDE DEF A, g
    <2>3. reg' \in Registry /\ Keeps(reg, reg')
      BY <2>1, <2>2, <1>r, CancelSearchesKeeps
    <2>4. TasksOK'
      BY <2>1, <2>2, <1>r, <1>p, TaskWrites
    <2> QED BY <2>3, <2>4, <1>c, CommandKeeps
  <1>3. CASE StopBind(o)
    <2> DEFINE C == IF t.gen = 0 THEN {t.admission} \ {0}
                    ELSE {t.gen} \cap {reg.admissions[k]}
               A == Serving(k, t.targets)
               c == CancelExact(reg, C)
               m == IF t.release THEN MarkCancelled(c, A) ELSE CancelSearches(c, A)
               G == {a \in A : t.release \/ Terminal(a)} \cup
                    {p \in reg.pending : /\ KeyOf(p) = k
                                         /\ reg.owner[p] \in t.targets \/ p = t.selected}
               s == Observe(m, G)
    <2>1. A \in SUBSET Gens /\ C \in SUBSET Gens
      BY <1>r, <1>k, ServingType, GenFacts
    <2>2. reg' = s /\ task' = [task EXCEPT ![o].phase = "Bound", ![o].waits = Attempts(s, G)]
      BY <1>3 DEF StopBind
    <2> HIDE DEF A, C, G
    <2>3. c \in Registry /\ Keeps(reg, c)
      BY <2>1, <1>r, CancelExactKeeps
    <2> HIDE DEF c
    <2>4. m \in Registry /\ Keeps(c, m)
      BY <2>1, <2>3, MarkCancelledKeeps, CancelSearchesKeeps
    <2> HIDE DEF m
    <2>5. s \in Registry /\ Keeps(m, s)
      BY <2>4, ObserveKeeps
    <2> HIDE DEF s
    <2>6. TasksOK'
      BY <2>2, <2>5, <1>r, <1>p, AttemptsType, TaskWrites
    <2>7. Keeps(reg, s)
      BY <2>3, <2>4, <2>5, KeepsTwice
    <2> QED BY <2>2, <2>5, <2>6, <2>7, <1>c, CommandKeeps
  <1>4. CASE StopLock(o)
    <2> DEFINE A == Serving(k, t.targets)
    <2>1. A \in SUBSET Gens /\ reg.actors[k] \in Gens0
      BY <1>r, <1>k, ServingType
    <2>2. reg' \in {reg, CancelSearches(reg, A), MarkCancelled(reg, A)}
      BY <1>4 DEF StopLock
    <2>3. reg' \in Registry /\ Keeps(reg, reg')
      BY <2>1, <2>2, <1>r, KeepsSame, CancelSearchesKeeps, MarkCancelledKeeps
    <2>4. \/ task' = [task EXCEPT ![o].phase = "Wait", ![o].selected = t.selected]
          \/ task' = [task EXCEPT ![o].phase = "Reap", ![o].selected = t.selected]
          \/ task' = [task EXCEPT ![o] = Finished]
          \/ task' = [task EXCEPT ![o].phase = "Stopping", ![o].selected = reg.actors[k]]
          \/ task' = [task EXCEPT ![o].phase = "Reap", ![o].selected = reg.actors[k]]
      BY <1>4 DEF StopLock
    <2>5. ASSUME NEW p \in Phases, NEW g \in Gens0,
                 task' = [task EXCEPT ![o].phase = p, ![o].selected = g]
          PROVE  TasksOK'
      BY <2>5, <1>r, TaskWrites
    <2>6. task' = [task EXCEPT ![o] = Finished] => TasksOK'
      BY <1>r, <1>p, TaskWrites
    <2>7. TasksOK'
      BY <2>1, <2>4, <2>5, <2>6, <1>k, <1>p
    <2> QED BY <2>3, <2>7, <1>c, CommandKeeps
  <1>5. CASE StopWarm(o)
    <2>1. TasksOK'
      BY <1>5, <1>r, <1>p, TaskWrites DEF StopWarm
    <2>2. reg' = reg
      BY <1>5 DEF StopWarm
    <2> QED BY <2>1, <2>2, <1>r, <1>c, KeepsSame, CommandKeeps
  <1>6. CASE StopReap(o)
    <2> DEFINE G == {t.selected} \ {0}
               s == Observe(reg, G)
    <2>1. reg' = s /\ task' = [task EXCEPT ![o].phase = "Wait", ![o].waits = Attempts(s, G)]
      BY <1>6 DEF StopReap
    <2>2. s \in Registry /\ Keeps(reg, s)
      BY <1>r, ObserveKeeps
    <2> HIDE DEF s, G
    <2>3. TasksOK'
      BY <2>1, <2>2, <1>r, <1>p, AttemptsType, TaskWrites
    <2> QED BY <2>1, <2>2, <2>3, <1>c, CommandKeeps
  <1> QED BY <1>1, <1>2, <1>3, <1>4, <1>5, <1>6

\* The other commands, but for drains.
LEMMA CommandStep ==
    ASSUME Inv, NEW o \in Tasks,
           \/ ExactBind(o) \/ ExactLock(o) \/ Flag(o) \/ Kill(o) \/ CommandEnds(o)
           \/ BinaryRetire(o) \/ BinaryResume(o)
    PROVE  Inv'
  <1> DEFINE t == task[o]
             k == t.key
  <1>r. TypeOK /\ reg \in Registry /\ TaskOK(t)
    BY DEF Inv, TypeOK
  <1>p. /\ "Bound" \in Phases /\ "Wait" \in Phases
    BY DEF Phases
  <1>c. UNCHANGED <<launch, pc, waits, reused, child>>
    BY DEF ExactBind, ExactLock, Flag, Kill, CommandEnds, BinaryRetire, BinaryResume, Calm
  <1>1. CASE ExactBind(o)
    <2> DEFINE A == {t.gen} \cap {reg.actors[k]}
               C == {t.gen} \cap {reg.admissions[k]}
               m == MarkCancelled(reg, A)
               c == CancelExact(m, C)
               s == Observe(c, {t.gen})
    <2>1. A \in SUBSET Gens /\ C \in SUBSET Gens
      BY <1>1, <1>r DEF ExactBind, TaskOK
    <2>2. reg' = s /\ task' = [task EXCEPT ![o].phase = "Bound", ![o].waits = Attempts(s, {t.gen})]
      BY <1>1 DEF ExactBind
    <2> HIDE DEF A, C
    <2>3. m \in Registry /\ Keeps(reg, m)
      BY <2>1, <1>r, MarkCancelledKeeps
    <2> HIDE DEF m
    <2>4. c \in Registry /\ Keeps(m, c)
      BY <2>1, <2>3, CancelExactKeeps
    <2> HIDE DEF c
    <2>5. s \in Registry /\ Keeps(c, s)
      BY <2>4, ObserveKeeps
    <2> HIDE DEF s
    <2>6. TasksOK'
      BY <2>2, <2>5, <1>r, <1>p, AttemptsType, TaskWrites
    <2>7. Keeps(reg, s)
      BY <2>3, <2>4, <2>5, KeepsTwice
    <2> QED BY <2>2, <2>5, <2>6, <2>7, <1>c, CommandKeeps
  <1>2. CASE ExactLock(o) \/ CommandEnds(o)
    <2>1. TasksOK'
      BY <1>2, <1>r, <1>p, TaskWrites DEF ExactLock, CommandEnds
    <2>2. reg' = reg
      BY <1>2 DEF ExactLock, CommandEnds
    <2> QED BY <2>1, <2>2, <1>r, <1>c, KeepsSame, CommandKeeps
  <1>3. CASE Flag(o)
    <2> DEFINE A == {reg.actors[k]} \ {0}
    <2>1. A \in SUBSET Gens
      BY <1>3, <1>r, GenFacts DEF Flag, TaskOK, Registry
    <2>2. reg' = MarkCancelled(reg, A) /\ task' = [task EXCEPT ![o] = Finished]
      BY <1>3 DEF Flag
    <2> HIDE DEF A
    <2>3. reg' \in Registry /\ Keeps(reg, reg')
      BY <2>1, <2>2, <1>r, MarkCancelledKeeps
    <2>4. TasksOK'
      BY <2>2, <1>r, <1>p, TaskWrites
    <2> QED BY <2>3, <2>4, <1>c, CommandKeeps
  <1>4. CASE Kill(o)
    <2> DEFINE C == {reg.admissions[k]} \ {0}
               c == [reg EXCEPT !.cancelled = @ \cup C, !.prepared = @ \ C]
               G == ({reg.actors[k]} \ {0}) \cup {p \in reg.pending : KeyOf(p) = k}
               s == Observe(c, G)
    <2>1. C \in SUBSET Gens
      BY <1>4, <1>r, GenFacts DEF Kill, TaskOK, Registry
    <2>2. reg' = s /\ task' = [task EXCEPT ![o].phase = "Wait", ![o].waits = Attempts(s, G)]
      BY <1>4 DEF Kill
    <2> HIDE DEF C, G
    <2>3. c \in Registry /\ Keeps(reg, c)
      BY <2>1, <1>r DEF Registry, Keeps
    <2> HIDE DEF c
    <2>4. s \in Registry /\ Keeps(c, s)
      BY <2>3, ObserveKeeps
    <2> HIDE DEF s
    <2>5. TasksOK'
      BY <2>2, <2>4, <1>r, <1>p, AttemptsType, TaskWrites
    <2>6. Keeps(reg, s)
      BY <2>3, <2>4, KeepsTwice
    <2> QED BY <2>2, <2>4, <2>5, <2>6, <1>c, CommandKeeps
  <1>5. CASE BinaryRetire(o)
    <2> DEFINE G == {g \in reg.pending \cup Published(reg) : Matches(t, g)}
               c == CancelExact(reg, Admissions(t))
               s == Observe(c, G)
    <2>1. reg' = s /\ task' = [task EXCEPT ![o].phase = "Wait", ![o].waits = Attempts(s, G)]
      BY <1>5 DEF BinaryRetire
    <2> HIDE DEF G
    <2>2. c \in Registry /\ Keeps(reg, c)
      BY <1>r, AdmissionsType, CancelExactKeeps
    <2> HIDE DEF c
    <2>3. s \in Registry /\ Keeps(c, s)
      BY <2>2, ObserveKeeps
    <2> HIDE DEF s
    <2>4. TasksOK'
      BY <2>1, <2>3, <1>r, <1>p, AttemptsType, TaskWrites
    <2>5. Keeps(reg, s)
      BY <2>2, <2>3, KeepsTwice
    <2> QED BY <2>1, <2>3, <2>4, <2>5, <1>c, CommandKeeps
  <1>6. CASE BinaryResume(o)
    <2> DEFINE G == {a[1] : a \in t.waits}
               s == StartTermination(reg, G)
               W == {<<g, s.attempt[g]>> : g \in G}
    <2>1. reg' = s /\ task' = [task EXCEPT ![o].waits = W]
      BY <1>6 DEF BinaryResume
    <2>2. G \in SUBSET Gens
      BY <1>r DEF TaskOK, TaskRecord
    <2>3. s \in Registry /\ Keeps(reg, s)
      BY <1>r, StartTerminationKeeps
    <2> HIDE DEF s, G
    <2>4. W \in SUBSET (Gens \X Nat)
      BY <2>2, <2>3 DEF Registry
    <2> HIDE DEF W
    <2>5. TasksOK'
      BY <2>1, <2>4, <1>r, <1>p, TaskWrites
    <2> QED BY <2>1, <2>3, <2>5, <1>c, CommandKeeps
  <1> QED BY <1>1, <1>2, <1>3, <1>4, <1>5, <1>6

\* retire_engine, retire_executables and terminate_all.
LEMMA DrainStep ==
    ASSUME Inv, NEW o \in Tasks,
           \/ DrainMark(o) \/ DrainBarrier(o) \/ DrainScan(o) \/ DrainAgain(o)
           \/ \E a \in task[o].locks : DrainLock(o, a)
           \/ \E a \in task[o].waits : DrainAwait(o, a)
    PROVE  Inv'
  <1> DEFINE t == task[o]
  <1>r. TypeOK /\ reg \in Registry /\ TaskOK(t)
    BY DEF Inv, TypeOK
  <1>p. "Marked" \in Phases /\ "Wait" \in Phases /\ "Scan" \in Phases
    BY DEF Phases
  <1>c. UNCHANGED <<launch, pc, waits, reused, child>>
    BY DEF DrainMark, DrainBarrier, DrainScan, DrainAgain, DrainLock, DrainAwait, Calm
  <1>1. CASE DrainMark(o) \/ DrainAgain(o)
    <2>1. TasksOK'
      BY <1>1, <1>r, <1>p, TaskWrites DEF DrainMark, DrainAgain
    <2>2. reg' = reg
      BY <1>1 DEF DrainMark, DrainAgain
    <2> QED BY <2>1, <2>2, <1>r, <1>c, KeepsSame, CommandKeeps
  <1>2. CASE DrainBarrier(o)
    <2> DEFINE c == CancelExact(reg, Admissions(t))
    <2>1. c \in Registry /\ Keeps(reg, c)
      BY <1>r, AdmissionsType, CancelExactKeeps
    <2>2. task' = [task EXCEPT ![o].phase = "Scan"]
          /\ reg' = IF t.kind = "All" THEN MarkCancelled(c, Published(c)) ELSE c
      BY <1>2 DEF DrainBarrier
    <2> HIDE DEF c
    <2>3. MarkCancelled(c, Published(c)) \in Registry /\ Keeps(c, MarkCancelled(c, Published(c)))
      BY <2>1, PublishedType, MarkCancelledKeeps
    <2>4. reg' \in Registry /\ Keeps(reg, reg')
      BY <2>1, <2>2, <2>3, KeepsTwice
    <2>5. TasksOK'
      BY <2>2, <1>r, <1>p, TaskWrites
    <2> QED BY <2>4, <2>5, <1>c, CommandKeeps
  <1>3. CASE DrainScan(o)
    <2> DEFINE New == {g \in Gens : Matches(t, g) /\ g \notin t.visited}
               A == New \cap Published(reg)
               P == New \cap reg.pending
               s == Observe(reg, A \cup P)
               V == t.visited \cup A \cup P
    <2>1. /\ reg' = s
          /\ \/ task' = [task EXCEPT ![o] = Finished]
             \/ task' = [task EXCEPT ![o].phase = "Wait", ![o].visited = V,
                                     ![o].locks = Attempts(s, A),
                                     ![o].waits = Attempts(s, P \ A)]
      BY <1>3 DEF DrainScan
    <2>2. V \in SUBSET Gens
      BY <1>r DEF TaskOK, TaskRecord
    <2> HIDE DEF A, P, V
    <2>3. s \in Registry /\ Keeps(reg, s)
      BY <1>r, ObserveKeeps
    <2> HIDE DEF s
    <2>4. Attempts(s, A) \in SUBSET (Gens \X Nat) /\ Attempts(s, P \ A) \in SUBSET (Gens \X Nat)
      BY <2>3, AttemptsType
    <2>5. TasksOK'
      <3>1. CASE task' = [task EXCEPT ![o] = Finished]
        BY <3>1, <1>r, <1>p, TaskWrites
      <3>2. CASE task' = [task EXCEPT ![o].phase = "Wait", ![o].visited = V,
                                      ![o].locks = Attempts(s, A),
                                      ![o].waits = Attempts(s, P \ A)]
        BY <3>2, <2>2, <2>4, <1>r, <1>p, TaskWrites
      <3> QED BY <2>1, <3>1, <3>2
    <2> QED BY <2>1, <2>3, <2>5, <1>c, CommandKeeps
  <1>4. ASSUME NEW a \in t.locks, DrainLock(o, a)
        PROVE  Inv'
    <2> DEFINE L == t.locks \ {a}
               W == t.waits \cup {a}
    <2>1. reg' = reg /\ task' = [task EXCEPT ![o].locks = L, ![o].waits = W]
      BY <1>4 DEF DrainLock
    <2>2. L \in SUBSET (Gens \X Nat) /\ W \in SUBSET (Gens \X Nat)
      BY <1>r DEF TaskOK, TaskRecord
    <2> HIDE DEF L, W
    <2>3. TasksOK'
      BY <2>1, <2>2, <1>r, <1>p, TaskWrites
    <2> QED BY <2>1, <2>3, <1>r, <1>c, KeepsSame, CommandKeeps
  <1>5. ASSUME NEW a \in t.waits, DrainAwait(o, a)
        PROVE  Inv'
    <2> DEFINE W == t.waits \ {a}
               f == t.failed \/ Result(a) = "Failed"
    <2>1. reg' = reg /\ task' = [task EXCEPT ![o].waits = W, ![o].failed = f]
      BY <1>5 DEF DrainAwait
    <2>2. W \in SUBSET (Gens \X Nat) /\ f \in BOOLEAN
      BY <1>r DEF TaskOK, TaskRecord
    <2> HIDE DEF W, f
    <2>3. TasksOK'
      BY <2>1, <2>2, <1>r, <1>p, TaskWrites
    <2> QED BY <2>1, <2>3, <1>r, <1>c, KeepsSame, CommandKeeps
  <1> QED BY <1>1, <1>2, <1>3, <1>4, <1>5

\* A command begins.
LEMMA BeginStep ==
    ASSUME Inv, NEW o \in Ops, NEW c \in Commands, Begin(o, c)
    PROVE  Inv'
  <1>1. TypeOK /\ reg \in Registry /\ o \in Tasks
    BY DEF Inv, TypeOK, Tasks
  <1> DEFINE t == [NoTask EXCEPT !.kind = c.kind, !.phase = "Begun", !.key = c.key,
                                 !.gen = c.gen, !.release = c.release, !.name = c.name]
  <1>2. NoTask \in TaskRecord
    BY GenFacts DEF TaskRecord, NoTask, Names, Phases
  <1>3. c.name \in Names /\ "Begun" \in Phases
    BY DEF Names, Phases
  <1>4. /\ c.gen \in Gens0 /\ c.release \in BOOLEAN
        /\ c.kind \in {"None", "Stop", "Exact", "Kill", "Flag", "Binary"} \cup Drains
        /\ c.kind \in {"Stop", "Exact", "Kill", "Flag"} => c.key \in Keys
        /\ c.key \in Keys \cup {None}
        /\ c.kind = "Exact" => c.gen \in Gens
    BY SupervisorAssumption, GenFacts DEF Drains, Gens0
  <1>5. t \in TaskRecord /\ t.kind = c.kind /\ t.key = c.key /\ t.gen = c.gen
    BY <1>2, <1>3, <1>4 DEF TaskRecord
  <1>6. TaskOK(t) /\ task' = [task EXCEPT ![o] = t]
    BY <1>4, <1>5 DEF TaskOK, Begin
  <1> HIDE DEF t
  <1>7. TasksOK'
    BY <1>1, <1>6 DEF TasksOK, TypeOK
  <1>8. reg' = reg /\ UNCHANGED <<launch, pc, waits, reused, child>>
    BY DEF Begin, Calm
  <1> QED BY <1>1, <1>7, <1>8, KeepsSame, CommandKeeps

-----------------------------------------------------------------------------
(* The steps of launches.                                                  *)

\* The types of the tasks survive a step that has no task.
LEMMA SameTasks ==
    ASSUME TypeOK, UNCHANGED task
    PROVE  TasksOK'
  BY DEF TypeOK, TasksOK

\* Drop for RegistrationGuard leaves a task that is well formed.
LEMMA GuardDropped ==
    ASSUME TypeOK, NEW g \in Gens, DropGuard(g)
    PROVE  TasksOK'
  <1>1. NoTask \in TaskRecord
    BY GenFacts DEF TaskRecord, NoTask, Names, Phases
  <1>2. KeyOf(g) \in Keys /\ g \in Gens0 /\ "Begun" \in Phases /\ g \in Tasks
    BY SupervisorAssumption, GenFacts DEF TypeOK, KeyOf, Phases
  <1>3. ReleaseOf(g) \in TaskRecord /\ ReleaseOf(g).kind = "Stop" /\ ReleaseOf(g).key = KeyOf(g)
    BY <1>1, <1>2 DEF ReleaseOf, TaskRecord
  <1>4. /\ ExactOf(g) \in TaskRecord /\ ExactOf(g).kind = "Exact" /\ ExactOf(g).key = KeyOf(g)
        /\ ExactOf(g).gen = g
    BY <1>1, <1>2 DEF ExactOf, TaskRecord
  <1>5. TaskOK(ReleaseOf(g)) /\ TaskOK(ExactOf(g))
    BY <1>2, <1>3, <1>4 DEF TaskOK
  <1> QED BY <1>2, <1>5 DEF DropGuard, TypeOK, TasksOK

\* A launch that moves on, and leaves its child and its waits as they are.
LEMMA LaunchMoves ==
    ASSUME Inv, NEW g \in Gens, NEW p \in Places \ {"Unused", "Spawning"}, Go(g, p),
           reg' \in Registry, KeepsBut(reg, reg', g),
           UNCHANGED <<launch, child, waits, task>>,
           NEW r \in Gens0, reused' = [reused EXCEPT ![g] = r],
           waits[g] # {} => p = "Waiting",
           p \in {"Binding", "Stopping", "Confirming"} => r # 0,
           p # "Queued",
           p \in {"Waiting", "Publishing"} /\ reg'.admissions[KeyOf(g)] = g =>
              reg'.actors[KeyOf(g)] = 0
    PROVE  Inv'
  <1>1. TypeOK
    BY DEF Inv
  <1>2. /\ waits[g] \in SUBSET (Gens \X Nat) /\ waits' = [waits EXCEPT ![g] = waits[g]]
        /\ child[g] \in {"None", "Slot", "Alive", "Reaped"}
        /\ child' = [child EXCEPT ![g] = child[g]]
    BY <1>1 DEF TypeOK
  <1>3. pc' = [pc EXCEPT ![g] = p] /\ launch' = launch
    BY DEF Go
  <1>4. TasksOK'
    BY <1>1, SameTasks
  <1>5. /\ waits[g] # {} => p \in {"Queued", "Waiting", "Rejecting", "Reaped"}
        /\ p \in {"Waiting", "Publishing", "Queued"} /\ reg'.admissions[KeyOf(g)] = g =>
              reg'.actors[KeyOf(g)] = 0 \/ (p = "Queued" /\ waits[g] = {})
    OBVIOUS
  <1> QED BY <1>2, <1>3, <1>4, <1>5, LaunchKeeps

\* The future of a launch is gone.
LEMMA LaunchLeaves ==
    ASSUME Inv, NEW g \in Gens, Leave(g), reg' \in Registry, KeepsBut(reg, reg', g),
           DropGuard(g) \/ UNCHANGED task, launch' = launch,
           NEW c \in {"None", "Slot", "Alive", "Reaped"}, child' = [child EXCEPT ![g] = c],
           c = child[g] \/ pc[g] = "Spawning"
    PROVE  Inv'
  <1>1. TypeOK
    BY DEF Inv
  <1>2. /\ {} \in SUBSET (Gens \X Nat) /\ waits' = [waits EXCEPT ![g] = {}]
        /\ 0 \in Gens0 /\ reused' = [reused EXCEPT ![g] = 0]
    BY GenFacts DEF Leave
  <1>3. pc' = [pc EXCEPT ![g] = "Done"] /\ "Done" \in Places \ {"Unused", "Spawning"}
    BY DEF Leave, Go, Places
  <1>4. TasksOK'
    BY <1>1, SameTasks, GuardDropped
  <1> QED BY <1>2, <1>3, <1>4, LaunchKeeps

\* The error return of a launch.
LEMMA LaunchFails ==
    ASSUME Inv, NEW g \in Gens, NEW s \in Registry, KeepsBut(reg, s, g), NEW b \in BOOLEAN,
           FailFrom(s, g, b)
    PROVE  Inv'
  <1>1. TypeOK
    BY DEF Inv
  <1>2. reg' \in Registry /\ KeepsBut(reg, reg', g)
    <2>1. reg \in Registry
      BY <1>1 DEF TypeOK
    <2> QED BY <2>1, DropLeaseKeeps DEF FailFrom
  <1>3. child[g] \in {"None", "Slot", "Alive", "Reaped"} /\ child' = [child EXCEPT ![g] = child[g]]
    BY <1>1 DEF TypeOK, FailFrom
  <1>4. Leave(g) /\ launch' = launch /\ (DropGuard(g) \/ UNCHANGED task)
    BY DEF FailFrom
  <1> QED BY <1>2, <1>3, <1>4, LaunchLeaves

\* An error return that first changes nothing.
LEMMA JustFails ==
    ASSUME Inv, NEW g \in Gens, NEW b \in BOOLEAN, Fail(g, b)
    PROVE  Inv'
  <1>1. reg \in Registry /\ KeepsBut(reg, reg, g)
    BY KeepsSame, KeepsIsKeepsBut DEF Inv, TypeOK
  <1> QED BY <1>1, LaunchFails DEF Fail

\* reject_actor.
LEMMA LaunchRejects ==
    ASSUME Inv, NEW g \in Gens, Reject(g), UNCHANGED <<launch, child, reused, task>>
    PROVE  Inv'
  <1>1. TypeOK /\ reg \in Registry
    BY DEF Inv, TypeOK
  <1> DEFINE s == StartTermination(reg, {g})
             w == {<<g, s.attempt[g]>>}
  <1>2. s \in Registry /\ Keeps(reg, s)
    BY <1>1, StartTerminationKeeps
  <1>3. reg' = s /\ waits' = [waits EXCEPT ![g] = w] /\ pc' = [pc EXCEPT ![g] = "Rejecting"]
    BY DEF Reject, Go
  <1> HIDE DEF s
  <1>4. w \in SUBSET (Gens \X Nat)
    BY <1>2 DEF Registry
  <1> HIDE DEF w
  <1>5. /\ child[g] \in {"None", "Slot", "Alive", "Reaped"}
        /\ child' = [child EXCEPT ![g] = child[g]]
        /\ reused[g] \in Gens0 /\ reused' = [reused EXCEPT ![g] = reused[g]]
    BY <1>1 DEF TypeOK
  <1>6. TasksOK' /\ KeepsBut(reg, reg', g) /\ reg' \in Registry /\ launch' = launch
    BY <1>1, <1>2, <1>3, SameTasks, KeepsIsKeepsBut
  <1>7. "Rejecting" \in Places \ {"Unused", "Spawning"}
    BY DEF Places, Awaiting, Guarded
  <1>8. /\ w # {} => "Rejecting" \in {"Queued", "Waiting", "Rejecting", "Reaped"}
        /\ "Rejecting" \notin {"Binding", "Stopping", "Confirming"}
        /\ "Rejecting" \notin {"Waiting", "Publishing", "Queued"}
    OBVIOUS
  <1> QED BY <1>3, <1>4, <1>5, <1>6, <1>7, <1>8, LaunchKeeps

\* A launch is given its generation and its lease.
LEMMA AllocateStep ==
    ASSUME Inv, NEW g \in Gens, NEW l \in Launches, Allocate(g, l)
    PROVE  Inv'
  <1>1. TypeOK'
    <2>1. "Allocated" \in Places
      BY DEF Places
    <2> QED BY <2>1 DEF Inv, TypeOK, Allocate, Go
  <1>2. /\ pc[g] = "Unused" /\ g \notin reg.leases /\ waits[g] = {}
        /\ child[g] \notin {"Slot", "Alive"}
        /\ UNCHANGED <<reg, child, waits, reused>>
        /\ pc'[g] = "Allocated"
        /\ \A h \in Gens : h # g => pc'[h] = pc[h] /\ KeyOf(h)' = KeyOf(h)
    BY DEF Inv, TypeOK, Begun, WaitsOK, Allocate, Go, KeyOf
  <1>3. Begun' /\ SpawnsSeen' /\ WaitsOK' /\ ReusedOK'
    BY <1>2 DEF Inv, Begun, SpawnsSeen, WaitsOK, ReusedOK
  <1>4. KeyClear'
    BY <1>2 DEF Inv, KeyClear, Looked
  <1>5. LeasesRegistered'
    BY <1>2 DEF Inv, TypeOK, Registry, LeasesRegistered
  <1>6. NoOrphan'
    BY <1>2 DEF Inv, NoOrphan
  <1> QED BY <1>1, <1>3, <1>4, <1>5, <1>6 DEF Inv

\* An admission enters the map: admit, and consume_engine_search, which arms
\* the lease of the admission that is there.
LEMMA AdmissionEnters ==
    ASSUME Inv, NEW g \in Gens, NEW p \in {"Registered", "Admitted"}, Go(g, p), pc[g] # "Unused",
           reg' \in Registry, waits[g] = {},
           UNCHANGED <<launch, child, waits, reused, task>>,
           reg'.leases = reg.leases \cup {g},
           reg'.admissions = [reg.admissions EXCEPT ![KeyOf(g)] = g],
           reg.cancelled \cup ({reg.admissions[KeyOf(g)]} \ {0, g}) \subseteq reg'.cancelled,
           UNCHANGED <<reg.actors, reg.pending, reg.spawning>>
    PROVE  Inv'
  <1>1. TypeOK'
    <2>1. p \in Places
      BY DEF Places, Awaiting
    <2> QED BY <2>1, SameTasks DEF Inv, TypeOK, Go, TasksOK
  <1>2. \A h \in Gens : KeyOf(h)' = KeyOf(h) /\ KeyOf(h) \in Keys /\ h # 0
    BY SupervisorAssumption, GenFacts DEF Inv, TypeOK, KeyOf
  <1>3. pc'[g] = p /\ \A h \in Gens : h # g => pc'[h] = pc[h]
    BY DEF Inv, TypeOK, Go
  <1>4. /\ reg'.admissions[KeyOf(g)] = g
        /\ \A k \in Keys : k # KeyOf(g) => reg'.admissions[k] = reg.admissions[k]
    BY <1>2 DEF Inv, TypeOK, Registry
  <1>5. Begun' /\ SpawnsSeen' /\ WaitsOK' /\ ReusedOK'
    BY <1>3 DEF Inv, Begun, SpawnsSeen, WaitsOK, ReusedOK
  <1>6. KeyClear'
    BY <1>2, <1>3, <1>4 DEF Inv, KeyClear, Looked
  <1>7. LeasesRegistered'
    <2> SUFFICES ASSUME NEW h \in reg'.leases \ reg'.cancelled, h # g
                 PROVE  reg'.admissions[KeyOf(h)'] = h
      BY <1>2, <1>4 DEF LeasesRegistered
    <2>1. h \in Gens /\ h \in reg.leases \ reg.cancelled
      BY DEF Registry
    <2>2. reg.admissions[KeyOf(h)] = h
      BY <2>1 DEF Inv, LeasesRegistered
    <2>3. KeyOf(h) # KeyOf(g)
      BY <2>1, <2>2, <1>2
    <2> QED BY <1>2, <1>4, <2>1, <2>2, <2>3
  <1>8. NoOrphan'
    BY <1>2 DEF Inv, NoOrphan
  <1> QED BY <1>1, <1>5, <1>6, <1>7, <1>8 DEF Inv

\* A launch is admitted, and its admission consumed.
LEMMA AdmissionStep ==
    ASSUME Inv, NEW g \in Gens, Admit(g) \/ Admitted(g) \/ Consume(g)
    PROVE  Inv'
  <1>0. /\ TypeOK /\ reg \in Registry /\ KeyOf(g) \in Keys /\ waits[g] = {} /\ g # 0
        /\ reused[g] \in Gens0 /\ reused = [reused EXCEPT ![g] = reused[g]]
    BY SupervisorAssumption, GenFacts
       DEF Inv, TypeOK, WaitsOK, KeyOf, Admit, Admitted, Consume
  <1>1. CASE Admit(g)
    <2>1. CASE Fail(g, FALSE)
      BY <2>1, JustFails
    <2>2. CASE ~Fail(g, FALSE)
      <3>1. /\ reg' = Register(reg, g) /\ Go(g, "Registered") /\ pc[g] = "Allocated"
            /\ UNCHANGED <<launch, child, waits, reused, task>>
        BY <1>1, <2>2 DEF Admit, Quiet
      <3> DEFINE old == reg.admissions[KeyOf(g)]
                 pr == (reg.prepared \ {old}) \cup (IF launch[g].kind = "Search" THEN {g} ELSE {})
      <3>2. old \in Gens0 /\ pr \in SUBSET Gens /\ {old} \ {0} \in SUBSET Gens
        BY <1>0, GenFacts DEF Registry
      <3> DEFINE adm == [reg.admissions EXCEPT ![KeyOf(g)] = g]
                 can == reg.cancelled \cup ({old} \ {0})
                 lea == reg.leases \cup {g}
      <3>3. adm \in [Keys -> Gens0] /\ can \in SUBSET Gens /\ lea \in SUBSET Gens
        BY <1>0, <3>2, GenFacts DEF Registry
      <3>4. Register(reg, g) =
              [reg EXCEPT !.admissions = adm, !.leases = lea, !.cancelled = can,
                          !.prepared = pr]
        BY DEF Register
      <3>5. can = reg.cancelled \cup ({old} \ {0})
        OBVIOUS
      <3> HIDE DEF pr, adm, can, lea
      <3>6. /\ reg' \in Registry /\ reg'.leases = lea
            /\ reg'.admissions = adm /\ reg'.cancelled = can
            /\ UNCHANGED <<reg.actors, reg.pending, reg.spawning>>
        <4>1. reg' = [reg EXCEPT !.admissions = adm, !.leases = lea, !.cancelled = can,
                                 !.prepared = pr]
          BY <3>1, <3>4
        <4> QED BY <4>1, <3>2, <3>3, <1>0 DEF Registry
      <3>7. /\ reg.cancelled \cup ({old} \ {0, g}) \subseteq reg'.cancelled
            /\ pc[g] # "Unused"
        BY <3>1, <3>5, <3>6
      <3> QED BY <1>0, <3>1, <3>6, <3>7, AdmissionEnters DEF adm, lea
    <2> QED BY <2>1, <2>2
  <1>2. CASE Admitted(g)
    <2>1. CASE Fail(g, FALSE)
      BY <2>1, JustFails
    <2>2. CASE ~Fail(g, FALSE)
      <3>1. /\ UNCHANGED <<launch, child, waits, reused, task>>
            /\ \/ Go(g, "Prepared") /\ reg' = [reg EXCEPT !.leases = @ \ {g}]
               \/ Go(g, "Admitted") /\ UNCHANGED reg
        BY <1>2, <2>2 DEF Admitted, Quiet
      <3>2. reg' \in Registry /\ KeepsBut(reg, reg', g)
        BY <3>1, <1>0 DEF Registry, KeepsBut
      <3>3. "Prepared" \in Places \ {"Unused", "Spawning"}
            /\ "Admitted" \in Places \ {"Unused", "Spawning"}
        BY DEF Places, Awaiting
      <3>4. Go(g, "Prepared") \/ Go(g, "Admitted")
        BY <3>1
      <3>5. CASE Go(g, "Prepared")
        BY <1>0, <3>1, <3>2, <3>3, <3>5, LaunchMoves
      <3>6. CASE Go(g, "Admitted")
        BY <1>0, <3>1, <3>2, <3>3, <3>6, LaunchMoves
      <3> QED BY <3>4, <3>5, <3>6
    <2> QED BY <2>1, <2>2
  <1>3. CASE Consume(g)
    <2>1. CASE Go(g, "Done") /\ UNCHANGED reg
      <3>1. UNCHANGED <<launch, child, waits, reused, task>>
        BY <1>3 DEF Consume, Quiet
      <3>2. reg' \in Registry /\ KeepsBut(reg, reg', g)
        BY <2>1, <1>0, KeepsSame, KeepsIsKeepsBut
      <3>3. "Done" \in Places \ {"Unused", "Spawning"}
        BY DEF Places
      <3> QED BY <1>0, <2>1, <3>1, <3>2, <3>3, LaunchMoves
    <2>2. CASE ~(Go(g, "Done") /\ UNCHANGED reg)
      <3>1. /\ UNCHANGED <<launch, child, waits, reused, task>> /\ Go(g, "Admitted")
            /\ reg.admissions[KeyOf(g)] = g /\ pc[g] = "Prepared"
            /\ reg' = [reg EXCEPT !.prepared = @ \ {g}, !.leases = @ \cup {g}]
        BY <1>3, <2>2 DEF Consume, Quiet
      <3>2. /\ reg' \in Registry /\ reg'.leases = reg.leases \cup {g}
            /\ reg'.admissions = reg.admissions /\ reg'.cancelled = reg.cancelled
            /\ UNCHANGED <<reg.actors, reg.pending, reg.spawning>>
        BY <3>1, <1>0 DEF Registry
      <3>3. reg'.admissions = [reg.admissions EXCEPT ![KeyOf(g)] = g]
        BY <3>1, <3>2, <1>0 DEF Registry
      <3>4. /\ reg.cancelled \cup ({reg.admissions[KeyOf(g)]} \ {0, g}) \subseteq reg'.cancelled
            /\ pc[g] # "Unused"
        BY <3>1, <3>2
      <3> QED BY <1>0, <3>1, <3>2, <3>3, <3>4, AdmissionEnters
    <2> QED BY <2>1, <2>2
  <1> QED BY <1>1, <1>2, <1>3

\* The spawn begins and ends.
LEMMA SpawnStep ==
    ASSUME Inv, NEW g \in Gens, SpawnPending(g) \/ Spawned(g) \/ SpawnFailed(g)
    PROVE  Inv'
  <1>0. /\ TypeOK /\ reg \in Registry
        /\ waits[g] \in SUBSET (Gens \X Nat) /\ waits = [waits EXCEPT ![g] = waits[g]]
        /\ reused[g] \in Gens0 /\ reused = [reused EXCEPT ![g] = reused[g]]
        /\ waits[g] = {}
    BY DEF Inv, TypeOK, WaitsOK, SpawnPending, Spawned, SpawnFailed
  <1>1. CASE SpawnPending(g)
    <2>1. CASE Fail(g, launch[g].kind = "Search")
      <3>1. (launch[g].kind = "Search") \in BOOLEAN
        OBVIOUS
      <3> QED BY <2>1, <3>1, JustFails
    <2>2. CASE ~Fail(g, launch[g].kind = "Search")
      <3>1. /\ child' = [child EXCEPT ![g] = "Slot"]
            /\ reg' = [reg EXCEPT !.pending = @ \cup {g}, !.spawning = @ \cup {g}, !.owner[g] = g]
            /\ pc' = [pc EXCEPT ![g] = "Spawning"]
            /\ UNCHANGED <<launch, waits, reused, task>>
            /\ pc[g] # "Unused"
        BY <1>1, <2>2 DEF SpawnPending, Quiet, Go
      <3>2. /\ reg' \in Registry /\ reg'.pending = reg.pending \cup {g}
            /\ reg'.spawning = reg.spawning \cup {g}
            /\ UNCHANGED <<reg.leases, reg.cancelled, reg.admissions, reg.actors>>
        BY <3>1, <1>0, GenFacts DEF Registry
      <3>3. TypeOK'
        <4>1. "Spawning" \in Places
          BY DEF Places, Awaiting, Guarded
        <4> QED BY <1>0, <3>1, <3>2, <4>1, SameTasks DEF TypeOK, TasksOK
      <3>4. \A h \in Gens : KeyOf(h)' = KeyOf(h) /\ KeyOf(h) \in Keys
        BY <1>0, <3>1, SupervisorAssumption DEF TypeOK, KeyOf
      <3>5. /\ pc'[g] = "Spawning" /\ child'[g] = "Slot"
            /\ \A h \in Gens : h # g => pc'[h] = pc[h] /\ child'[h] = child[h]
        BY <1>0, <3>1 DEF TypeOK
      <3>6. Begun' /\ SpawnsSeen' /\ WaitsOK' /\ ReusedOK'
        BY <1>0, <3>1, <3>2, <3>5 DEF Inv, Begun, SpawnsSeen, WaitsOK, ReusedOK
      <3>7. KeyClear'
        BY <3>1, <3>2, <3>4, <3>5 DEF Inv, KeyClear, Looked
      <3>8. LeasesRegistered'
        BY <1>0, <3>2, <3>4 DEF Inv, LeasesRegistered, Registry
      <3>9. NoOrphan'
        BY <3>2, <3>4, <3>5 DEF Inv, NoOrphan
      <3> QED BY <3>3, <3>6, <3>7, <3>8, <3>9 DEF Inv
    <2> QED BY <2>1, <2>2
  <1>2. CASE Spawned(g)
    <2>1. /\ pc[g] = "Spawning" /\ child' = [child EXCEPT ![g] = "Alive"]
          /\ reg' = FinishSpawn(reg, g) /\ pc' = [pc EXCEPT ![g] = "Spawned"]
          /\ UNCHANGED <<launch, waits, reused, task>>
      BY <1>2 DEF Spawned, Go, Quiet
    <2>2. reg' \in Registry /\ KeepsBut(reg, reg', g)
      <3>1. reg' \in Registry /\ reg' = [reg EXCEPT !.spawning = reg.spawning \ {g}]
        BY <2>1, <1>0, FinishSpawnType
      <3> QED BY <3>1, <1>0 DEF KeepsBut, Registry
    <2>3. "Spawned" \in Places \ {"Unused", "Spawning"} /\ TasksOK'
      BY <1>0, <2>1, SameTasks DEF Places, Awaiting, Guarded
    <2>4. /\ "Spawned" \notin {"Binding", "Stopping", "Confirming"}
          /\ "Spawned" \notin {"Waiting", "Publishing", "Queued"}
          /\ "Alive" \in {"None", "Slot", "Alive", "Reaped"} /\ launch' = launch
          /\ waits' = [waits EXCEPT ![g] = waits[g]]
          /\ reused' = [reused EXCEPT ![g] = reused[g]]
      BY <1>0, <2>1
    <2> QED BY <1>0, <2>1, <2>2, <2>3, <2>4, LaunchKeeps
  <1>3. CASE SpawnFailed(g)
    <2> DEFINE f == FinishSpawn(reg, g)
               s == StartTermination(f, {g})
               w == {<<g, s.attempt[g]>>}
    <2>1. /\ pc[g] = "Spawning" /\ reg' = s /\ waits' = [waits EXCEPT ![g] = w]
          /\ pc' = [pc EXCEPT ![g] = "Rejecting"] /\ UNCHANGED <<launch, reused, task>>
      BY <1>3 DEF SpawnFailed, Go, Quiet
    <2>2. PICK c \in {"Slot", "Alive"} : child' = [child EXCEPT ![g] = c]
      BY <1>3 DEF SpawnFailed
    <2>3. f \in Registry /\ f = [reg EXCEPT !.spawning = reg.spawning \ {g}]
      BY <1>0, FinishSpawnType
    <2> HIDE DEF f
    <2>4. s \in Registry /\ Keeps(f, s)
      BY <2>3, StartTerminationKeeps
    <2> HIDE DEF s
    <2>5. w \in SUBSET (Gens \X Nat)
      BY <2>4 DEF Registry
    <2> HIDE DEF w
    <2>6. KeepsBut(reg, f, g)
      BY <2>3, <1>0 DEF KeepsBut, Registry
    <2>7. KeepsBut(reg, s, g)
      BY <2>4, <2>6 DEF KeepsBut, Keeps
    <2>8. "Rejecting" \in Places \ {"Unused", "Spawning"} /\ TasksOK'
      BY <1>0, <2>1, SameTasks DEF Places, Awaiting, Guarded
    <2>9. /\ w # {} => "Rejecting" \in {"Queued", "Waiting", "Rejecting", "Reaped"}
          /\ "Rejecting" \notin {"Binding", "Stopping", "Confirming"}
          /\ "Rejecting" \notin {"Waiting", "Publishing", "Queued"}
          /\ c \in {"None", "Slot", "Alive", "Reaped"}
      OBVIOUS
    <2> QED BY <1>0, <2>1, <2>2, <2>4, <2>5, <2>7, <2>8, <2>9, LaunchKeeps
  <1> QED BY <1>1, <1>2, <1>3

\* The engine to replace is taken down the moment it is looked at.
LEMMA PreviousTaken ==
    ASSUME reg \in Registry, NEW g \in Gens, KeyOf(g) \in Keys
    PROVE  Observe(reg, Previous(reg, g)).actors[KeyOf(g)] = 0
  <1>1. reg.actors[KeyOf(g)] # 0 => Previous(reg, g) = {reg.actors[KeyOf(g)]}
    BY DEF Previous
  <1> QED BY <1>1, ObserveKeeps

\* The launch looks for an engine to reuse or to replace.
LEMMA LookStep ==
    ASSUME Inv, NEW g \in Gens, ObserveEarly(g) \/ ObserveLocked(g)
    PROVE  Inv'
  <1>0. /\ TypeOK /\ reg \in Registry /\ KeyOf(g) \in Keys
        /\ child[g] \in {"None", "Slot", "Alive", "Reaped"}
        /\ child = [child EXCEPT ![g] = child[g]]
        /\ reused[g] \in Gens0 /\ reused = [reused EXCEPT ![g] = reused[g]]
    BY SupervisorAssumption DEF Inv, TypeOK, KeyOf
  <1> DEFINE P == IF pc[g] = "Locked" \/ (~CancelError(g) /\ Policy(g))
                  THEN Previous(reg, g) ELSE {}
             s == Observe(reg, P)
             w == Attempts(s, P)
             p == IF pc[g] = "Locked" THEN "Waiting" ELSE "Queued"
  <1>1. /\ reg' = s /\ waits' = [waits EXCEPT ![g] = w] /\ pc' = [pc EXCEPT ![g] = p]
        /\ UNCHANGED <<launch, child, reused, task>>
    BY DEF ObserveEarly, ObserveLocked, Go, Quiet
  <1>2. P = {} => w = {}
    BY DEF Attempts
  <1>3. P # {} \/ p = "Waiting" => s.actors[KeyOf(g)] = 0
    BY <1>0, PreviousTaken
  <1>4. p \in Places \ {"Unused", "Spawning"} /\ p \in {"Waiting", "Queued"}
    BY DEF Places, Awaiting, Guarded
  <1> HIDE DEF P, p
  <1>5. s \in Registry /\ Keeps(reg, s)
    BY <1>0, ObserveKeeps
  <1> HIDE DEF s
  <1>6. w \in SUBSET (Gens \X Nat)
    BY <1>5, AttemptsType
  <1> HIDE DEF w
  <1>7. TasksOK' /\ KeepsBut(reg, reg', g) /\ reg' \in Registry
    BY <1>0, <1>1, <1>5, SameTasks, KeepsIsKeepsBut
  <1>8. /\ w # {} => p \in {"Queued", "Waiting", "Rejecting", "Reaped"}
        /\ p \notin {"Binding", "Stopping", "Confirming"}
        /\ p \in {"Waiting", "Publishing", "Queued"} /\ reg'.admissions[KeyOf(g)] = g =>
              reg'.actors[KeyOf(g)] = 0 \/ (p = "Queued" /\ w = {})
    BY <1>1, <1>2, <1>3, <1>4
  <1> QED BY <1>0, <1>1, <1>4, <1>6, <1>7, <1>8, LaunchKeeps

\* The engine is published.
LEMMA PublishStep ==
    ASSUME Inv, NEW g \in Gens, Publish(g)
    PROVE  Inv'
  <1>0. TypeOK /\ reg \in Registry /\ waits[g] = {} /\ pc[g] = "Publishing"
    BY DEF Inv, TypeOK, WaitsOK, Publish
  <1>k. \A h \in Gens : KeyOf(h) \in Keys /\ h # 0
    BY SupervisorAssumption, GenFacts DEF Inv, TypeOK, KeyOf
  <1>1. CASE Reject(g)
    BY <1>1, LaunchRejects DEF Publish, Quiet
  <1>2. CASE ~Reject(g)
    <2> DEFINE k == KeyOf(g)
               p == IF launch[g].kind = "Search" THEN "Warming" ELSE "Initialising"
               q == IF launch[g].kind = "Search" THEN g ELSE 0
    <2>1. /\ reg' = Enter(reg, g) /\ pc' = [pc EXCEPT ![g] = p]
          /\ UNCHANGED <<launch, child, waits, reused, task>>
          /\ reg.admissions[k] = g /\ g \notin reg.cancelled
      BY <1>2 DEF Publish, Quiet, Go, Current
    <2>2. p \in {"Warming", "Initialising"} /\ p \in Places /\ q \in Gens0
      BY GenFacts DEF Places, Awaiting
    <2> DEFINE act == [reg.actors EXCEPT ![k] = g]
               adm == [reg.admissions EXCEPT ![k] = 0]
               sea == [reg.search EXCEPT ![g] = q]
    <2>3. act \in [Keys -> Gens0] /\ adm \in [Keys -> Gens0] /\ sea \in [Gens -> Gens0]
      BY <1>0, <1>k, <2>2, GenFacts DEF Registry
    <2>4. reg' = [reg EXCEPT !.actors = act, !.pending = reg.pending \ {g}, !.admissions = adm,
                             !.leases = reg.leases \ {g}, !.search = sea]
      BY <2>1 DEF Enter
    <2>5. /\ act[k] = g /\ adm[k] = 0
          /\ \A j \in Keys : j # k => act[j] = reg.actors[j] /\ adm[j] = reg.admissions[j]
      BY <1>0, <1>k DEF Registry
    <2> HIDE DEF act, adm, sea
    <2>6. /\ reg' \in Registry /\ reg'.actors = act /\ reg'.admissions = adm
          /\ reg'.pending = reg.pending \ {g} /\ reg'.leases = reg.leases \ {g}
          /\ UNCHANGED <<reg.cancelled, reg.spawning>>
      BY <1>0, <2>3, <2>4 DEF Registry
    <2>7. reg.actors[k] = 0
      BY <1>0, <2>1 DEF Inv, KeyClear, Looked
    <2>8. TypeOK'
      BY <1>0, <2>1, <2>2, <2>6, SameTasks DEF TypeOK, TasksOK
    <2>9. \A h \in Gens : KeyOf(h)' = KeyOf(h)
      BY <2>1 DEF KeyOf
    <2>10. pc'[g] = p /\ \A h \in Gens : h # g => pc'[h] = pc[h]
      BY <1>0, <2>1 DEF TypeOK
    <2> HIDE DEF p, k
    <2>11. Begun' /\ SpawnsSeen' /\ WaitsOK' /\ ReusedOK'
      BY <1>0, <2>1, <2>2, <2>6, <2>10 DEF Inv, Begun, SpawnsSeen, WaitsOK, ReusedOK
    <2>12. KeyClear'
      BY <1>k, <2>1, <2>2, <2>5, <2>6, <2>9, <2>10 DEF Inv, KeyClear, Looked, k
    <2>13. LeasesRegistered'
      <3> SUFFICES ASSUME NEW h \in reg'.leases \ reg'.cancelled
                   PROVE  reg'.admissions[KeyOf(h)'] = h
        BY DEF LeasesRegistered
      <3>1. h \in Gens /\ h \in reg.leases \ reg.cancelled /\ h # g
        BY <2>6 DEF Registry
      <3>2. reg.admissions[KeyOf(h)] = h
        BY <3>1 DEF Inv, LeasesRegistered
      <3>3. KeyOf(h) # k
        BY <3>1, <3>2, <2>1
      <3> QED BY <1>k, <2>5, <2>6, <2>9, <3>1, <3>2, <3>3
    <2>14. NoOrphan'
      <3> SUFFICES ASSUME NEW h \in Gens, child[h] \in {"Slot", "Alive"}, h # g, h \notin reg.pending
                   PROVE  reg'.actors[KeyOf(h)] = h
        BY <2>1, <2>5, <2>6, <2>9 DEF NoOrphan, k
      <3>1. reg.actors[KeyOf(h)] = h
        BY DEF Inv, NoOrphan
      <3>2. KeyOf(h) # k
        BY <3>1, <2>7, <1>k
      <3> QED BY <1>k, <2>5, <2>6, <3>1, <3>2
    <2> QED BY <2>8, <2>11, <2>12, <2>13, <2>14 DEF Inv
  <1> QED BY <1>1, <1>2

\* What surrounds the publication.
LEMMA PublicationStep ==
    ASSUME Inv, NEW g \in Gens,
           LockPublication(g) \/ PreviousEnded(g) \/ Rejected(g) \/ Initialised(g) \/ EndOwner(g)
    PROVE  Inv'
  <1>0. /\ TypeOK /\ reg \in Registry /\ KeepsBut(reg, reg, g)
        /\ child[g] \in {"None", "Slot", "Alive", "Reaped"}
        /\ child = [child EXCEPT ![g] = child[g]]
        /\ reused[g] \in Gens0 /\ reused = [reused EXCEPT ![g] = reused[g]]
    BY KeepsSame, KeepsIsKeepsBut DEF Inv, TypeOK
  <1>1. CASE LockPublication(g)
    <2>1. CASE Reject(g)
      BY <1>1, <2>1, LaunchRejects DEF LockPublication, Quiet
    <2>2. CASE ~Reject(g)
      <3> DEFINE p == IF waits[g] = {} THEN "Locked" ELSE "Waiting"
      <3>1. /\ Go(g, p) /\ UNCHANGED <<reg, waits, launch, child, reused, task>>
            /\ pc[g] \in {"Queued", "Spawned"}
        BY <1>1, <2>2 DEF LockPublication, Quiet
      <3>2. p \in Places \ {"Unused", "Spawning"}
        BY DEF Places, Awaiting, Guarded
      <3>3. p = "Waiting" => Looked(g)
        BY <3>1 DEF Inv, WaitsOK, Looked
      <3>4. /\ waits[g] # {} => p = "Waiting"
            /\ p \notin {"Binding", "Stopping", "Confirming"} /\ p # "Queued"
            /\ p \in {"Waiting", "Publishing"} /\ reg'.admissions[KeyOf(g)] = g =>
                  reg'.actors[KeyOf(g)] = 0
        BY <3>1, <3>3 DEF Inv, KeyClear
      <3> HIDE DEF p
      <3>5. reg' \in Registry /\ KeepsBut(reg, reg', g) /\ reused' = [reused EXCEPT ![g] = reused[g]]
            /\ UNCHANGED <<launch, child, waits, task>>
        BY <1>0, <3>1
      <3> QED BY <1>0, <3>1, <3>2, <3>4, <3>5, LaunchMoves
    <2> QED BY <2>1, <2>2
  <1>2. CASE PreviousEnded(g)
    <2>1. CASE Reject(g)
      BY <1>2, <2>1, LaunchRejects DEF PreviousEnded, Quiet
    <2>2. CASE ~Reject(g)
      <3>1. /\ pc' = [pc EXCEPT ![g] = "Publishing"] /\ waits' = [waits EXCEPT ![g] = {}]
            /\ UNCHANGED <<reg, launch, child, reused, task>> /\ pc[g] = "Waiting"
        BY <1>2, <2>2 DEF PreviousEnded, Quiet, Go
      <3>2. "Publishing" \in Places \ {"Unused", "Spawning"} /\ {} \in SUBSET (Gens \X Nat)
        BY DEF Places, Awaiting, Guarded
      <3>3. reg'.admissions[KeyOf(g)] = g => reg'.actors[KeyOf(g)] = 0
        BY <3>1 DEF Inv, KeyClear, Looked
      <3>4. TasksOK' /\ reg' \in Registry /\ KeepsBut(reg, reg', g)
            /\ reused' = [reused EXCEPT ![g] = reused[g]]
            /\ child' = [child EXCEPT ![g] = child[g]] /\ launch' = launch
            /\ "Publishing" \notin {"Binding", "Stopping", "Confirming"}
        BY <1>0, <3>1, SameTasks
      <3> QED BY <1>0, <3>1, <3>2, <3>3, <3>4, LaunchKeeps
    <2> QED BY <2>1, <2>2
  <1>3. CASE Rejected(g)
    <2>1. (launch[g].kind = "Search") \in BOOLEAN
      OBVIOUS
    <2> QED BY <1>3, <2>1, JustFails DEF Rejected
  <1>4. CASE Initialised(g)
    <2>1. /\ Go(g, "Owned") /\ UNCHANGED <<reg, waits, launch, child, reused, task>>
          /\ pc[g] = "Initialising"
      BY <1>4 DEF Initialised, Quiet
    <2>2. "Owned" \in Places \ {"Unused", "Spawning"} /\ waits[g] = {}
          /\ "Owned" \notin {"Binding", "Stopping", "Confirming"}
          /\ "Owned" \notin {"Waiting", "Publishing"}
      BY <2>1 DEF Places, Inv, WaitsOK
    <2>3. reg' \in Registry /\ KeepsBut(reg, reg', g) /\ reused' = [reused EXCEPT ![g] = reused[g]]
          /\ UNCHANGED <<launch, child, waits, task>>
      BY <1>0, <2>1
    <2> QED BY <1>0, <2>1, <2>2, <2>3, LaunchMoves
  <1>5. CASE EndOwner(g)
    <2>1. /\ Leave(g) /\ DropGuard(g) /\ launch' = launch /\ reg' \in Registry
          /\ KeepsBut(reg, reg', g) /\ child' = [child EXCEPT ![g] = child[g]]
      BY <1>0, <1>5 DEF EndOwner
    <2> QED BY <1>0, <2>1, LaunchLeaves
  <1> QED BY <1>1, <1>2, <1>3, <1>4, <1>5

\* A search that moves on without touching the registry.
LEMMA SearchMoves ==
    ASSUME Inv, NEW g \in Gens,
           NEW p \in {"Cold", "Stopping", "Confirming", "Ready", "Searching", "Reaping"},
           Go(g, p), waits[g] = {}, reg' \in Registry, KeepsBut(reg, reg', g),
           UNCHANGED <<launch, child, waits, reused, task>>,
           p \in {"Stopping", "Confirming"} => reused[g] # 0
    PROVE  Inv'
  <1>1. /\ p \in Places \ {"Unused", "Spawning"} /\ p # "Queued"
        /\ p \notin {"Waiting", "Publishing"}
        /\ p \in {"Binding", "Stopping", "Confirming"} => reused[g] # 0
    BY DEF Places, Awaiting
  <1>2. reused[g] \in Gens0 /\ reused' = [reused EXCEPT ![g] = reused[g]]
    BY DEF Inv, TypeOK
  <1> QED BY <1>1, <1>2, LaunchMoves

\* A search is bound to its engine and started.
LEMMA SearchStep ==
    ASSUME Inv, NEW g \in Gens,
           \/ LockSearch(g) \/ Bind(g) \/ StopCurrent(g) \/ StopCurrentFailed(g)
           \/ Confirm(g) \/ Warmed(g) \/ StartSearch(g) \/ StartFailed(g)
    PROVE  Inv'
  <1>0. /\ TypeOK /\ reg \in Registry /\ KeepsBut(reg, reg, g) /\ waits[g] = {}
        /\ KeyOf(g) \in Keys
        /\ child[g] \in {"None", "Slot", "Alive", "Reaped"}
        /\ child = [child EXCEPT ![g] = child[g]]
    BY KeepsSame, KeepsIsKeepsBut, SupervisorAssumption
       DEF Inv, TypeOK, WaitsOK, KeyOf, LockSearch, Bind, StopCurrent, StopCurrentFailed,
           Confirm, Warmed, StartSearch, StartFailed
  <1>1. CASE LockSearch(g)
    <2>1. CASE Fail(g, TRUE)
      BY <2>1, JustFails
    <2>2. CASE ~Fail(g, TRUE)
      <3>1. UNCHANGED <<reg, launch, child, waits, task>>
        BY <1>1, <2>2 DEF LockSearch, Quiet
      <3>2. CASE UNCHANGED reused /\ Go(g, "Cold")
        BY <1>0, <3>1, <3>2, SearchMoves
      <3>3. CASE ~(UNCHANGED reused /\ Go(g, "Cold"))
        <4> DEFINE a == reg.actors[KeyOf(g)]
        <4>1. a # 0 /\ reused' = [reused EXCEPT ![g] = a] /\ Go(g, "Binding")
          BY <1>1, <2>2, <3>3 DEF LockSearch, Reusable
        <4>2. a \in Gens0 /\ "Binding" \in Places \ {"Unused", "Spawning"}
              /\ "Binding" \notin {"Waiting", "Publishing", "Queued"}
          BY <1>0 DEF Registry, Places, Awaiting
        <4> HIDE DEF a
        <4>3. reg' \in Registry /\ KeepsBut(reg, reg', g)
          BY <1>0, <3>1
        <4> QED BY <1>0, <3>1, <4>1, <4>2, <4>3, LaunchMoves
      <3> QED BY <3>2, <3>3
    <2> QED BY <2>1, <2>2
  <1>2. CASE Bind(g)
    <2> DEFINE r == reused[g]
               s == BindSearch(reg, r, g)
               C == ({reg.search[r]} \ {0}) \cup (IF r \in reg.stopped THEN {g} ELSE {})
    <2>1. r \in Gens
      BY <1>2, GenFacts DEF Bind, Inv, TypeOK, ReusedOK
    <2>2. C \in SUBSET Gens
      BY <1>0, <2>1, GenFacts DEF Registry
    <2>3. s = [reg EXCEPT !.search[r] = g, !.cancelled = reg.cancelled \cup C]
      BY DEF BindSearch
    <2>s. (\/ reg' = s /\ Go(g, "Stopping") /\ UNCHANGED <<launch, child, waits, reused, task>>
           \/ FailFrom(s, g, TRUE))
          /\ pc[g] = "Binding"
      BY <1>2 DEF Bind, Quiet
    <2> HIDE DEF s, C
    <2>4. [reg.search EXCEPT ![r] = g] \in [Gens -> Gens0]
      BY <1>0, <2>1, GenFacts DEF Registry
    <2>5. s \in Registry
      BY <1>0, <2>2, <2>3, <2>4 DEF Registry
    <2>6. KeepsBut(reg, s, g)
      BY <1>0, <2>3 DEF Registry, KeepsBut
    <2>7. CASE FailFrom(s, g, TRUE)
      BY <2>5, <2>6, <2>7, LaunchFails
    <2>8. CASE ~FailFrom(s, g, TRUE)
      <3>1. reused[g] # 0
        BY <2>1, GenFacts
      <3> QED BY <1>0, <2>s, <2>5, <2>6, <2>8, <3>1, SearchMoves
    <2> QED BY <2>7, <2>8
  <1>3. CASE StopCurrent(g) \/ StopCurrentFailed(g)
    <2>1. CASE Fail(g, TRUE)
      BY <2>1, JustFails
    <2>2. CASE ~Fail(g, TRUE)
      <3>1. /\ UNCHANGED <<reg, launch, child, waits, reused, task>>
            /\ Go(g, "Confirming") \/ Go(g, "Reaping")
            /\ pc[g] = "Stopping"
        BY <1>3, <2>2 DEF StopCurrent, StopCurrentFailed, Quiet
      <3>2. reused[g] # 0
        BY <3>1 DEF Inv, ReusedOK
      <3> QED BY <1>0, <3>1, <3>2, SearchMoves
    <2> QED BY <2>1, <2>2
  <1>4. CASE Confirm(g)
    <2>1. CASE Fail(g, TRUE)
      BY <2>1, JustFails
    <2>2. CASE ~Fail(g, TRUE)
      <3> DEFINE k == KeyOf(g)
                 adm == [reg.admissions EXCEPT ![k] = IF @ = g THEN 0 ELSE @]
      <3>1. /\ reg' = [reg EXCEPT !.admissions = adm, !.leases = reg.leases \ {g}]
            /\ Go(g, "Ready") /\ UNCHANGED <<launch, child, waits, reused, task>>
        BY <1>4, <2>2 DEF Confirm, Quiet
      <3>2. /\ adm \in [Keys -> Gens0]
            /\ \A j \in Keys : \/ adm[j] = reg.admissions[j]
                               \/ adm[j] = 0 /\ reg.admissions[j] = g
        BY <1>0, GenFacts DEF Registry
      <3> HIDE DEF adm
      <3>3. reg' \in Registry /\ KeepsBut(reg, reg', g)
        BY <1>0, <3>1, <3>2 DEF Registry, KeepsBut
      <3> QED BY <1>0, <3>1, <3>3, SearchMoves
    <2> QED BY <2>1, <2>2
  <1>5. CASE Warmed(g)
    <2>1. /\ reg' = [reg EXCEPT !.warm = @ \cup {g}]
          /\ Go(g, "Ready") /\ UNCHANGED <<launch, child, waits, reused, task>>
      BY <1>5 DEF Warmed, Quiet
    <2>2. reg' \in Registry /\ KeepsBut(reg, reg', g)
      BY <1>0, <2>1 DEF Registry, KeepsBut
    <2> QED BY <1>0, <2>1, <2>2, SearchMoves
  <1>6. CASE StartSearch(g) \/ StartFailed(g)
    <2>1. UNCHANGED <<reg, launch, child, task>>
      BY <1>6 DEF StartSearch, StartFailed, Quiet
    <2>2. reg' \in Registry /\ KeepsBut(reg, reg', g) /\ child' = [child EXCEPT ![g] = child[g]]
          /\ launch' = launch
      BY <1>0, <2>1
    <2>3. CASE Leave(g)
      BY <1>0, <2>1, <2>2, <2>3, LaunchLeaves
    <2>4. CASE ~Leave(g)
      <3>1. (Go(g, "Searching") \/ Go(g, "Reaping")) /\ UNCHANGED <<waits, reused>>
        BY <1>6, <2>4 DEF StartSearch, StartFailed
      <3> QED BY <1>0, <2>1, <2>2, <3>1, SearchMoves
    <2> QED BY <2>3, <2>4
  <1> QED BY <1>1, <1>2, <1>3, <1>4, <1>5, <1>6

\* A search or a launch ends.
LEMMA EndStep ==
    ASSUME Inv, NEW g \in Gens,
           \/ ReapPublished(g) \/ Reaped(g) \/ SearchEnds(g) \/ SearchFails(g) \/ Abandon(g)
    PROVE  Inv'
  <1>0. /\ TypeOK /\ reg \in Registry /\ KeepsBut(reg, reg, g)
        /\ child[g] \in {"None", "Slot", "Alive", "Reaped"}
        /\ child = [child EXCEPT ![g] = child[g]]
        /\ reused[g] \in Gens0 /\ reused = [reused EXCEPT ![g] = reused[g]]
    BY KeepsSame, KeepsIsKeepsBut DEF Inv, TypeOK
  <1>1. CASE ReapPublished(g)
    <2> DEFINE s == Observe(reg, {Server(g)})
               w == Attempts(s, {Server(g)})
    <2>1. /\ reg' = s /\ waits' = [waits EXCEPT ![g] = w] /\ pc' = [pc EXCEPT ![g] = "Reaped"]
          /\ UNCHANGED <<launch, child, reused, task>>
      BY <1>1 DEF ReapPublished, Go, Quiet
    <2>2. s \in Registry /\ Keeps(reg, s)
      BY <1>0, ObserveKeeps
    <2> HIDE DEF s
    <2>3. w \in SUBSET (Gens \X Nat)
      BY <2>2, AttemptsType
    <2> HIDE DEF w
    <2>4. TasksOK' /\ KeepsBut(reg, reg', g) /\ reg' \in Registry /\ launch' = launch
          /\ reused' = [reused EXCEPT ![g] = reused[g]]
          /\ child' = [child EXCEPT ![g] = child[g]]
      BY <1>0, <2>1, <2>2, SameTasks, KeepsIsKeepsBut
    <2>5. "Reaped" \in Places \ {"Unused", "Spawning"}
          /\ "Reaped" \notin {"Binding", "Stopping", "Confirming"}
          /\ "Reaped" \notin {"Waiting", "Publishing", "Queued"}
      BY DEF Places, Awaiting
    <2> QED BY <1>0, <2>1, <2>3, <2>4, <2>5, LaunchKeeps
  <1>2. CASE Reaped(g) \/ SearchFails(g)
    BY <1>2, JustFails DEF Reaped, SearchFails
  <1>3. CASE SearchEnds(g)
    <2>1. /\ Leave(g) /\ UNCHANGED task /\ launch' = launch /\ reg' \in Registry
          /\ KeepsBut(reg, reg', g) /\ child' = [child EXCEPT ![g] = child[g]]
      BY <1>0, <1>3 DEF SearchEnds, Quiet
    <2> QED BY <1>0, <2>1, LaunchLeaves
  <1>4. CASE Abandon(g)
    <2> DEFINE s == IF pc[g] \in Guarded THEN DropPending(reg, g) ELSE reg
               f == FinishSpawn(reg, g)
               d == StartTermination(f, {g})
    <2>1. f \in Registry /\ f = [reg EXCEPT !.spawning = reg.spawning \ {g}]
      BY <1>0, FinishSpawnType
    <2>2. DropPending(reg, g) = d
      BY DEF DropPending
    <2> HIDE DEF f
    <2>3. d \in Registry /\ Keeps(f, d)
      BY <2>1, StartTerminationKeeps
    <2>4. KeepsBut(reg, f, g)
      BY <2>1, <1>0 DEF KeepsBut, Registry
    <2> HIDE DEF d
    <2>5. KeepsBut(reg, d, g)
      BY <2>3, <2>4 DEF KeepsBut, Keeps
    <2>6. s \in Registry /\ KeepsBut(reg, s, g)
      BY <1>0, <2>2, <2>3, <2>5
    <2>7. reg' = DropLease(s, g) /\ Leave(g) /\ (DropGuard(g) \/ UNCHANGED task)
          /\ launch' = launch
      BY <1>4 DEF Abandon
    <2> HIDE DEF s
    <2>8. reg' \in Registry /\ KeepsBut(reg, reg', g)
      BY <1>0, <2>6, <2>7, DropLeaseKeeps
    <2>9. \E c \in {"None", "Slot", "Alive", "Reaped"} :
             child' = [child EXCEPT ![g] = c] /\ (c = child[g] \/ pc[g] = "Spawning")
      BY <1>0, <1>4 DEF Abandon
    <2> QED BY <2>7, <2>8, <2>9, LaunchLeaves
  <1> QED BY <1>1, <1>2, <1>3, <1>4

-----------------------------------------------------------------------------
(* Terminations, and the invariant.                                        *)

\* What a termination that ends leaves behind in the registry.
LEMMA TerminationWrites ==
    ASSUME TypeOK, NEW g \in Gens, NEW n, NEW x \in {"Ok", "Failed"}, NEW alive \in BOOLEAN,
           TerminationEnds(g, n, x, alive)
    PROVE  /\ reg' \in Registry
           /\ n \in DOMAIN reg.results[g] /\ reg.results[g] \in Seq(Outcomes)
           /\ reg'.results = [reg.results EXCEPT ![g] = [reg.results[g] EXCEPT ![n] = x]]
           /\ reg'.pending = IF alive THEN reg.pending ELSE reg.pending \ {g}
           /\ UNCHANGED <<reg.leases, reg.cancelled, reg.admissions, reg.actors, reg.spawning,
                          reg.attempt, reg.search, reg.stopped, reg.warm, reg.owner,
                          reg.prepared>>
  <1>1. /\ n \in DOMAIN reg.results[g] /\ reg \in Registry /\ reg.results[g] \in Seq(Outcomes)
        /\ x \in Outcomes
    BY DEF TypeOK, Registry, TerminationEnds, Outcomes
  <1> DEFINE q == [reg.results[g] EXCEPT ![n] = x]
             all == [reg.results EXCEPT ![g] = q]
  <1>2. q \in Seq(Outcomes)
    <2>1. n \in 1..Len(reg.results[g])
      BY <1>1
    <2> QED BY <1>1, <2>1, ExceptSeq
  <1>3. all \in [Gens -> Seq(Outcomes)]
    BY <1>1, <1>2 DEF Registry
  <1>4. reg' = Forget([reg EXCEPT !.results = all], g, alive)
    BY DEF TerminationEnds
  <1> HIDE DEF all
  <1> DEFINE s == [reg EXCEPT !.results = all]
  <1>5. /\ s \in Registry /\ s.results = all /\ s.pending = reg.pending
        /\ s.leases = reg.leases /\ s.cancelled = reg.cancelled
        /\ s.admissions = reg.admissions /\ s.actors = reg.actors /\ s.spawning = reg.spawning
        /\ s.attempt = reg.attempt /\ s.search = reg.search /\ s.stopped = reg.stopped
        /\ s.warm = reg.warm /\ s.owner = reg.owner /\ s.prepared = reg.prepared
    BY <1>1, <1>3 DEF Registry
  <1>6. reg' = IF alive THEN s ELSE [s EXCEPT !.pending = s.pending \ {g}]
    BY <1>4 DEF Forget
  <1> HIDE DEF s
  <1>7. CASE alive
    BY <1>1, <1>5, <1>6, <1>7 DEF all
  <1>8. CASE ~alive
    <2>1. reg' = [s EXCEPT !.pending = s.pending \ {g}]
      BY <1>6, <1>8
    <2>2. /\ reg' \in Registry /\ reg'.pending = reg.pending \ {g} /\ reg'.results = all
          /\ UNCHANGED <<reg.leases, reg.cancelled, reg.admissions, reg.actors, reg.spawning,
                         reg.attempt, reg.search, reg.stopped, reg.warm, reg.owner,
                         reg.prepared>>
      BY <1>5, <2>1 DEF Registry
    <2> QED BY <1>1, <1>8, <2>2 DEF all
  <1> QED BY <1>7, <1>8

\* Terminations run, and children exit.
LEMMA TerminationStep ==
    ASSUME Inv, NEW g \in Gens, Terminations(g) \/ ChildExits(g)
    PROVE  Inv'
  <1>0. TypeOK /\ reg \in Registry
    BY DEF Inv, TypeOK
  <1>1. UNCHANGED <<launch, pc, waits, reused, task>>
    BY DEF Terminations, TerminationEnds, ChildExits, Quiet
  <1>2. \A h \in Gens : KeyOf(h)' = KeyOf(h)
    BY <1>1 DEF KeyOf
  <1>3. /\ reg' \in Registry
        /\ UNCHANGED <<reg.leases, reg.cancelled, reg.admissions, reg.actors, reg.spawning>>
        /\ \/ child' = child /\ reg'.pending = reg.pending
           \/ child' = [child EXCEPT ![g] = "Reaped"] /\ reg'.pending = reg.pending
           \/ /\ child' = [child EXCEPT ![g] = "Reaped"] /\ reg'.pending = reg.pending \ {g}
              /\ g \notin reg.spawning
    <2>1. CASE ChildExits(g)
      BY <1>0, <2>1 DEF ChildExits
    <2>2. CASE Terminations(g)
      <3>1. PICK n \in DOMAIN reg.results[g], x \in {"Ok", "Failed"}, alive \in BOOLEAN :
               TerminationEnds(g, n, x, alive)
        BY <2>2 DEF Terminations
      <3>2. /\ reg' \in Registry
            /\ reg'.pending = IF alive THEN reg.pending ELSE reg.pending \ {g}
            /\ UNCHANGED <<reg.leases, reg.cancelled, reg.admissions, reg.actors, reg.spawning>>
        BY <1>0, <3>1, TerminationWrites
      <3>3. child' = [child EXCEPT ![g] = IF alive THEN child[g] ELSE "Reaped"]
            /\ g \notin reg.spawning
        BY <3>1 DEF TerminationEnds
      <3>4. child = [child EXCEPT ![g] = child[g]]
        BY <1>0 DEF TypeOK
      <3> QED BY <3>2, <3>3, <3>4
    <2> QED BY <2>1, <2>2
  <1>4. TypeOK'
    BY <1>0, <1>1, <1>3, SameTasks DEF TypeOK, TasksOK
  <1>5. \A h \in Gens : child'[h] \in {"Slot", "Alive"} => child[h] \in {"Slot", "Alive"}
    BY <1>0, <1>3 DEF TypeOK
  <1>6. Begun' /\ WaitsOK' /\ ReusedOK' /\ SpawnsSeen'
    BY <1>1, <1>3, <1>5 DEF Inv, Begun, WaitsOK, ReusedOK, SpawnsSeen
  <1>7. KeyClear'
    BY <1>1, <1>2, <1>3 DEF Inv, KeyClear, Looked
  <1>8. LeasesRegistered'
    BY <1>0, <1>2, <1>3 DEF Inv, LeasesRegistered, Registry
  <1>9. NoOrphan'
    BY <1>0, <1>2, <1>3 DEF Inv, NoOrphan, TypeOK
  <1> QED BY <1>4, <1>6, <1>7, <1>8, <1>9 DEF Inv

\* Nothing is launched at first.
LEMMA InvInit == Init => Inv
  <1> SUFFICES ASSUME Init PROVE Inv
    OBVIOUS
  <1> USE DEF Init
  <1>1. reg \in Registry
    <2>1. <<>> \in Seq(Outcomes)
      OBVIOUS
    <2> QED BY <2>1, GenFacts DEF Registry
  <1>2. launch \in [Gens -> Launches]
    BY SupervisorAssumption
  <1>3. TaskOK(NoTask)
    <2>1. NoTask \in TaskRecord
      BY GenFacts DEF TaskRecord, NoTask, Names, Phases
    <2> QED BY <2>1 DEF TaskOK, NoTask
  <1>4. TypeOK
    BY <1>1, <1>2, <1>3, GenFacts DEF TypeOK, Places
  <1>5. Begun /\ SpawnsSeen /\ WaitsOK /\ ReusedOK
    BY DEF Begun, SpawnsSeen, WaitsOK, ReusedOK
  <1>6. KeyClear /\ LeasesRegistered /\ NoOrphan
    BY DEF KeyClear, Looked, LeasesRegistered, NoOrphan
  <1> QED BY <1>4, <1>5, <1>6 DEF Inv

\* Every step keeps the invariant.
LEMMA InvStep == Inv /\ [Next]_vars => Inv'
  <1> SUFFICES ASSUME Inv, [Next]_vars PROVE Inv'
    OBVIOUS
  <1>1. ASSUME NEW g \in Gens, LaunchNext(g) PROVE Inv'
    <2>1. CASE Revoke(g)
      <3>1. UNCHANGED <<launch, pc, waits, reused, child, task, reg>>
        BY <2>1 DEF Revoke
      <3>2. TasksOK' /\ reg' \in Registry /\ Keeps(reg, reg')
        BY <3>1, SameTasks, KeepsSame DEF Inv, TypeOK
      <3> QED BY <3>1, <3>2, CommandKeeps
    <2> QED BY <1>1, <2>1, AllocateStep, AdmissionStep, SpawnStep, LookStep, PublishStep,
               PublicationStep, SearchStep, EndStep DEF LaunchNext
  <1>2. ASSUME NEW o \in Tasks, TaskNext(o) PROVE Inv'
    BY <1>2, StopStep, CommandStep, DrainStep DEF TaskNext
  <1>3. CASE UNCHANGED vars
    <2>1. UNCHANGED <<launch, pc, waits, reused, child, task, reg>>
      BY <1>3 DEF vars
    <2>2. TasksOK' /\ reg' \in Registry /\ Keeps(reg, reg')
      BY <2>1, SameTasks, KeepsSame DEF Inv, TypeOK
    <2> QED BY <2>1, <2>2, CommandKeeps
  <1> QED BY <1>1, <1>2, <1>3, TerminationStep, BeginStep DEF Next

\* The registry, the launches and their children stay in step.
THEOREM Invariance == Spec => []Inv
  BY InvInit, InvStep, PTL DEF Spec

\* Types of the supervisor's registry, launches and commands.
THEOREM TypeCorrect == Spec => []TypeOK
  BY Invariance, PTL DEF Inv

\* No step of any launch, command, dropped future or termination loses sight
\* of a child that is not reaped.
THEOREM ChildrenAreSeen == Spec => []NoOrphan
  BY Invariance, PTL DEF Inv

\* Whatever is cancelled through the admission map reaches every launch that
\* could still publish.
THEOREM LeasesAreRegistered == Spec => []LeasesRegistered
  BY Invariance, PTL DEF Inv

-----------------------------------------------------------------------------
(* The life of a generation, behind DrainLeavesNone and StopIsExact.       *)

\* Where a launch has no child yet, and where it has not published it yet.
Early == {"Unused", "Allocated", "Registered", "Prepared", "Admitted", "Cold"}

Before == Early \cup Guarded

\* An engine is published under the key of its launch, after everything its
\* launch does before that, and is not pending as well.
ActorsOK(s, p, l) ==
    \A k \in Keys : s.actors[k] # 0 =>
       /\ l[s.actors[k]].key = k /\ p[s.actors[k]] \notin Before
       /\ s.actors[k] \notin s.pending

\* Nothing is known of a child before it has its slot.
EarlyOK(s, p, c) ==
    \A g \in Gens :
       /\ p[g] \in Early => c[g] = "None" /\ s.results[g] = <<>> /\ g \notin s.pending
       /\ p[g] = "Spawning" => c[g] = "Slot"

\* An attempt that is over has reaped its child or failed to.
AttemptsOK(s, c) ==
    \A g \in Gens :
       /\ s.attempt[g] <= Len(s.results[g])
       /\ \A n \in DOMAIN s.results[g] :
             /\ s.results[g][n] = "Ok" => c[g] = "Reaped"
             /\ s.results[g][n] = "Failed" => c[g] \in {"Alive", "Reaped"}

RegOK(s, p, c, l) == ActorsOK(s, p, l) /\ EarlyOK(s, p, c) /\ AttemptsOK(s, c)

Longer(s, t) == \A g \in Gens : Len(s.results[g]) <= Len(t.results[g])

\* A section of the registry that keeps all this, the searches engines serve
\* and the attempts somebody waits for.
Orderly(s, t) ==
    /\ t \in Registry /\ Keeps(s, t) /\ t.search = s.search /\ Longer(s, t)
    /\ RegOK(s, pc, child, launch) => RegOK(t, pc, child, launch)

\* A section that leaves the engines alone.
LEMMA SameEngines ==
    ASSUME NEW s \in Registry, NEW t \in Registry,
           t.actors = s.actors, t.pending = s.pending, t.results = s.results,
           t.attempt = s.attempt
    PROVE  /\ Longer(s, t)
           /\ RegOK(s, pc, child, launch) => RegOK(t, pc, child, launch)
  <1>1. \A g \in Gens : Len(s.results[g]) \in Nat
    BY DEF Registry
  <1>2. Longer(s, t)
    BY <1>1 DEF Longer
  <1>3. RegOK(s, pc, child, launch) => RegOK(t, pc, child, launch)
    BY DEF RegOK, ActorsOK, EarlyOK, AttemptsOK
  <1> QED BY <1>2, <1>3

\* Two orderly sections are one.
LEMMA OrderlyTwice ==
    ASSUME NEW s \in Registry, NEW t, NEW u, Orderly(s, t), Orderly(t, u)
    PROVE  Orderly(s, u)
  <1>1. t \in Registry /\ u \in Registry /\ Keeps(s, u)
    BY KeepsTwice DEF Orderly
  <1>2. \A g \in Gens : /\ Len(s.results[g]) \in Nat /\ Len(t.results[g]) \in Nat
                        /\ Len(u.results[g]) \in Nat
    BY <1>1 DEF Registry
  <1>3. Longer(s, u)
    BY <1>2 DEF Orderly, Longer
  <1> QED BY <1>1, <1>3 DEF Orderly

\* A section that does nothing is orderly.
LEMMA OrderlySame ==
    ASSUME NEW s \in Registry
    PROVE  Orderly(s, s)
  BY SameEngines, KeepsSame DEF Orderly

\* So are those that cancel admissions and searches.
LEMMA CancelExactOrderly ==
    ASSUME NEW s \in Registry, NEW G \in SUBSET Gens
    PROVE  Orderly(s, CancelExact(s, G))
  <1> DEFINE t == CancelExact(s, G)
  <1>1. t \in Registry /\ Keeps(s, t)
    BY CancelExactKeeps
  <1>2. /\ t.actors = s.actors /\ t.pending = s.pending /\ t.results = s.results
        /\ t.attempt = s.attempt /\ t.search = s.search
    BY DEF CancelExact, Registry
  <1> HIDE DEF t
  <1>3. Orderly(s, t)
    BY <1>1, <1>2, SameEngines DEF Orderly
  <1> QED BY <1>3 DEF t

\* mark_cancelled leaves the engines where they are.
LEMMA MarkCancelledOrderly ==
    ASSUME NEW s \in Registry, NEW A \in SUBSET Gens
    PROVE  Orderly(s, MarkCancelled(s, A))
  <1> DEFINE t == MarkCancelled(s, A)
             S == {s.search[a] : a \in A} \ {0}
  <1>1. t \in Registry /\ Keeps(s, t)
    BY MarkCancelledKeeps
  <1>2. t = [s EXCEPT !.stopped = @ \cup A, !.cancelled = @ \cup S]
    BY DEF MarkCancelled
  <1> HIDE DEF t, S
  <1>3. /\ t.actors = s.actors /\ t.pending = s.pending /\ t.results = s.results
        /\ t.attempt = s.attempt /\ t.search = s.search
    BY <1>2 DEF Registry
  <1>4. Orderly(s, t)
    BY <1>1, <1>3, SameEngines DEF Orderly
  <1> QED BY <1>4 DEF t

\* So does the cancelling of the searches they serve.
LEMMA CancelSearchesOrderly ==
    ASSUME NEW s \in Registry, NEW A \in SUBSET Gens
    PROVE  Orderly(s, CancelSearches(s, A))
  <1> DEFINE t == CancelSearches(s, A)
             S == {s.search[a] : a \in A} \ {0}
  <1>1. t \in Registry /\ Keeps(s, t)
    BY CancelSearchesKeeps
  <1>2. t = [s EXCEPT !.cancelled = @ \cup S]
    BY DEF CancelSearches
  <1> HIDE DEF t, S
  <1>3. /\ t.actors = s.actors /\ t.pending = s.pending /\ t.results = s.results
        /\ t.attempt = s.attempt /\ t.search = s.search
    BY <1>2 DEF Registry
  <1>4. Orderly(s, t)
    BY <1>1, <1>3, SameEngines DEF Orderly
  <1> QED BY <1>4 DEF t

\* What handoff_published_locked writes.
LEMMA HandoffWrites ==
    ASSUME NEW s \in Registry, NEW G
    PROVE  LET h == Handoff(s, G)
               A == G \cap Published(s)
           IN  /\ h.pending = s.pending \cup A
               /\ h.results = s.results /\ h.search = s.search
               /\ h.stopped = s.stopped \cup A
               /\ h.cancelled = s.cancelled \cup ({s.search[a] : a \in A} \ {0})
               /\ \A g \in Gens : h.attempt[g] \in {0, s.attempt[g]}
               /\ \A k \in Keys : h.actors[k] = s.actors[k] \/ s.actors[k] \in A
  <1> DEFINE A == G \cap Published(s)
             m == MarkCancelled(s, A)
             fresh == A \ s.pending
             S == {s.search[a] : a \in A} \ {0}
  <1>1. A \subseteq Gens /\ m \in Registry
    BY PublishedType, MarkCancelledKeeps
  <1>2. m = [s EXCEPT !.stopped = @ \cup A, !.cancelled = @ \cup S]
    BY DEF MarkCancelled
  <1> DEFINE h == Handoff(s, G)
  <1>3. h = [m EXCEPT
            !.pending = @ \cup A,
            !.owner = [g \in Gens |-> IF g \in fresh THEN OwnerGeneration(s, g) ELSE @[g]],
            !.attempt = [g \in Gens |-> IF g \in fresh THEN 0 ELSE @[g]],
            !.actors = [k \in Keys |-> IF @[k] \in A THEN 0 ELSE @[k]]]
    BY DEF Handoff
  <1> HIDE DEF m, fresh, h, S, A
  <1>4. /\ m.pending = s.pending /\ m.results = s.results /\ m.search = s.search
        /\ m.attempt = s.attempt /\ m.stopped = s.stopped \cup A
        /\ m.cancelled = s.cancelled \cup S /\ m.actors = s.actors
    BY <1>2 DEF Registry
  <1>5. /\ h.pending = m.pending \cup A /\ h.results = m.results /\ h.search = m.search
        /\ h.stopped = m.stopped /\ h.cancelled = m.cancelled
        /\ h.attempt = [g \in Gens |-> IF g \in fresh THEN 0 ELSE m.attempt[g]]
        /\ h.actors = [k \in Keys |-> IF m.actors[k] \in A THEN 0 ELSE m.actors[k]]
    BY <1>1, <1>3 DEF Registry
  <1>6. /\ h.pending = s.pending \cup A /\ h.results = s.results /\ h.search = s.search
        /\ h.stopped = s.stopped \cup A /\ h.cancelled = s.cancelled \cup S
        /\ \A g \in Gens : h.attempt[g] \in {0, s.attempt[g]}
        /\ \A k \in Keys : h.actors[k] = s.actors[k] \/ s.actors[k] \in A
    BY <1>4, <1>5
  <1> QED BY <1>6 DEF h, A, S

\* An engine that is handed off was published, and is pending from then on.
LEMMA HandoffOrderly ==
    ASSUME NEW s \in Registry, NEW G
    PROVE  Orderly(s, Handoff(s, G))
  <1> DEFINE h == Handoff(s, G)
             A == G \cap Published(s)
  <1>1. /\ h \in Registry /\ Keeps(s, h)
        /\ \A k \in Keys : h.actors[k] = IF s.actors[k] \in G THEN 0 ELSE s.actors[k]
    BY HandoffKeeps
  <1>2. /\ h.pending = s.pending \cup A /\ h.results = s.results /\ h.search = s.search
        /\ \A g \in Gens : h.attempt[g] \in {0, s.attempt[g]}
    BY HandoffWrites
  <1>3. \A g \in Gens : Len(s.results[g]) \in Nat /\ s.attempt[g] \in Nat
    BY DEF Registry
  <1>4. \A g \in A : g \in G /\ g # 0 /\ g \in Gens /\ \E k \in Keys : s.actors[k] = g
    BY PublishedType DEF Published
  <1> HIDE DEF h, A
  <1>5. Longer(s, h)
    BY <1>2, <1>3 DEF Longer
  <1>6. ASSUME RegOK(s, pc, child, launch)
        PROVE  RegOK(h, pc, child, launch)
    <2>1. ActorsOK(h, pc, launch)
      BY <1>1, <1>2, <1>4, <1>6 DEF RegOK, ActorsOK
    <2>2. EarlyOK(h, pc, child)
      <3>1. \A g \in A : pc[g] \notin Early
        BY <1>4, <1>6 DEF RegOK, ActorsOK, Before
      <3> QED BY <1>2, <1>6, <3>1 DEF RegOK, EarlyOK
    <2>3. AttemptsOK(h, child)
      BY <1>2, <1>3, <1>6 DEF RegOK, AttemptsOK
    <2> QED BY <2>1, <2>2, <2>3 DEF RegOK
  <1>7. Orderly(s, h)
    BY <1>1, <1>2, <1>5, <1>6 DEF Orderly
  <1> QED BY <1>7 DEF h

\* What start_termination writes.
LEMMA StartTerminationWrites ==
    ASSUME NEW s \in Registry, NEW G
    PROVE  LET t == StartTermination(s, G)
           IN  /\ t.actors = s.actors /\ t.pending = s.pending /\ t.search = s.search
               /\ t.stopped = s.stopped /\ t.cancelled = s.cancelled
               /\ \A g \in Gens :
                     IF g \in G /\ NeedsAttempt(s, g)
                     THEN /\ t.results[g] = Append(s.results[g], "Running")
                          /\ t.attempt[g] = Len(s.results[g]) + 1
                     ELSE t.results[g] = s.results[g] /\ t.attempt[g] = s.attempt[g]
  <1> DEFINE N == {g \in G : NeedsAttempt(s, g)}
             t == StartTermination(s, G)
  <1>1. t = [s EXCEPT
            !.results = [g \in Gens |-> IF g \in N THEN Append(@[g], "Running") ELSE @[g]],
            !.attempt = [g \in Gens |-> IF g \in N THEN Len(s.results[g]) + 1 ELSE @[g]]]
    BY DEF StartTermination
  <1>2. \A g \in Gens : g \in N <=> g \in G /\ NeedsAttempt(s, g)
    OBVIOUS
  <1> HIDE DEF N, t
  <1>3. /\ t.actors = s.actors /\ t.pending = s.pending /\ t.search = s.search
        /\ t.stopped = s.stopped /\ t.cancelled = s.cancelled
        /\ t.results = [g \in Gens |-> IF g \in N THEN Append(s.results[g], "Running")
                                       ELSE s.results[g]]
        /\ t.attempt = [g \in Gens |-> IF g \in N THEN Len(s.results[g]) + 1 ELSE s.attempt[g]]
    BY <1>1 DEF Registry
  <1>4. \A g \in Gens : IF g \in N
                     THEN /\ t.results[g] = Append(s.results[g], "Running")
                          /\ t.attempt[g] = Len(s.results[g]) + 1
                     ELSE t.results[g] = s.results[g] /\ t.attempt[g] = s.attempt[g]
    BY <1>3
  <1> QED BY <1>2, <1>3, <1>4 DEF t

\* start_termination is orderly for launches that have had a slot, and gives
\* every one of them an attempt that runs or that has settled the matter.
LEMMA StartTerminationOrderly ==
    ASSUME NEW s \in Registry, NEW G,
           RegOK(s, pc, child, launch) => \A g \in G \cap Gens : pc[g] \notin Early
    PROVE  /\ Orderly(s, StartTermination(s, G))
           /\ RegOK(s, pc, child, launch) =>
                 \A g \in G \cap Gens :
                    StartTermination(s, G).attempt[g] \in DOMAIN StartTermination(s, G).results[g]
  <1> DEFINE t == StartTermination(s, G)
  <1>1. t \in Registry /\ Keeps(s, t)
    BY StartTerminationKeeps
  <1>2. /\ t.actors = s.actors /\ t.pending = s.pending /\ t.search = s.search
        /\ \A g \in Gens :
              IF g \in G /\ NeedsAttempt(s, g)
              THEN /\ t.results[g] = Append(s.results[g], "Running")
                   /\ t.attempt[g] = Len(s.results[g]) + 1
              ELSE t.results[g] = s.results[g] /\ t.attempt[g] = s.attempt[g]
    BY StartTerminationWrites
  <1>3. \A g \in Gens : s.results[g] \in Seq(Outcomes) /\ s.attempt[g] \in Nat
    BY DEF Registry
  <1> HIDE DEF t
  <1>4. \A g \in Gens :
          \/ t.results[g] = s.results[g] /\ t.attempt[g] = s.attempt[g]
          \/ /\ g \in G /\ t.attempt[g] = Len(s.results[g]) + 1
             /\ Len(t.results[g]) = Len(s.results[g]) + 1
             /\ t.results[g][Len(s.results[g]) + 1] = "Running"
             /\ \A n \in DOMAIN s.results[g] : t.results[g][n] = s.results[g][n]
             /\ DOMAIN t.results[g] = DOMAIN s.results[g] \cup {Len(s.results[g]) + 1}
    <2> SUFFICES ASSUME NEW g \in Gens, g \in G, NeedsAttempt(s, g)
                 PROVE  /\ g \in G /\ t.attempt[g] = Len(s.results[g]) + 1
                        /\ Len(t.results[g]) = Len(s.results[g]) + 1
                        /\ t.results[g][Len(s.results[g]) + 1] = "Running"
                        /\ \A n \in DOMAIN s.results[g] : t.results[g][n] = s.results[g][n]
                        /\ DOMAIN t.results[g] = DOMAIN s.results[g] \cup {Len(s.results[g]) + 1}
      BY <1>2
    <2>1. t.results[g] = Append(s.results[g], "Running") /\ t.attempt[g] = Len(s.results[g]) + 1
      BY <1>2
    <2>2. s.results[g] \in Seq(Outcomes) /\ "Running" \in Outcomes
      BY <1>3 DEF Outcomes
    <2> QED BY <2>1, <2>2
  <1>5. Longer(s, t)
    BY <1>3, <1>4 DEF Longer
  <1>6. ASSUME RegOK(s, pc, child, launch)
        PROVE  RegOK(t, pc, child, launch)
    <2>1. ActorsOK(t, pc, launch)
      BY <1>2, <1>6 DEF RegOK, ActorsOK
    <2>2. EarlyOK(t, pc, child)
      BY <1>2, <1>4, <1>6 DEF RegOK, EarlyOK
    <2>3. AttemptsOK(t, child)
      <3> SUFFICES ASSUME NEW g \in Gens
                   PROVE  /\ t.attempt[g] <= Len(t.results[g])
                          /\ \A n \in DOMAIN t.results[g] :
                                /\ t.results[g][n] = "Ok" => child[g] = "Reaped"
                                /\ t.results[g][n] = "Failed" => child[g] \in {"Alive", "Reaped"}
        BY DEF AttemptsOK
      <3> QED BY <1>3, <1>4, <1>6 DEF RegOK, AttemptsOK
    <2> QED BY <2>1, <2>2, <2>3 DEF RegOK
  <1>7. ASSUME RegOK(s, pc, child, launch), NEW g \in G \cap Gens
        PROVE  t.attempt[g] \in DOMAIN t.results[g]
    <2>1. CASE NeedsAttempt(s, g)
      <3>1. t.results[g] = Append(s.results[g], "Running") /\ t.attempt[g] = Len(s.results[g]) + 1
        BY <1>2, <2>1
      <3>2. s.results[g] \in Seq(Outcomes) /\ "Running" \in Outcomes
        BY <1>3 DEF Outcomes
      <3> QED BY <3>1, <3>2
    <2>2. CASE ~NeedsAttempt(s, g)
      <3>1. t.results[g] = s.results[g] /\ t.attempt[g] = s.attempt[g]
        BY <1>2, <2>2
      <3>2. s.attempt[g] # 0 /\ s.attempt[g] <= Len(s.results[g])
        BY <1>7, <2>2 DEF NeedsAttempt, RegOK, AttemptsOK
      <3> QED BY <1>3, <3>1, <3>2
    <2> QED BY <2>1, <2>2
  <1>8. Orderly(s, t)
    BY <1>1, <1>2, <1>5, <1>6 DEF Orderly
  <1> QED BY <1>7, <1>8 DEF t

\* What observe_termination_locked writes.
LEMMA ObserveWrites ==
    ASSUME NEW s \in Registry, NEW G
    PROVE  LET t == Observe(s, G)
               A == G \cap Published(s)
           IN  /\ t.pending = s.pending \cup A /\ t.search = s.search
               /\ t.stopped = s.stopped \cup A
               /\ t.cancelled = s.cancelled \cup ({s.search[a] : a \in A} \ {0})
               /\ \A k \in Keys : t.actors[k] = s.actors[k] \/ s.actors[k] \in A
  <1> DEFINE h == Handoff(s, G)
             t == StartTermination(h, G \cap h.pending)
  <1>1. h \in Registry
    BY HandoffKeeps
  <1>2. /\ t.pending = h.pending /\ t.search = h.search
        /\ t.stopped = h.stopped /\ t.cancelled = h.cancelled /\ t.actors = h.actors
    BY <1>1, StartTerminationWrites
  <1>3. Observe(s, G) = t
    BY DEF Observe
  <1> HIDE DEF t, h
  <1> QED BY <1>2, <1>3, HandoffWrites DEF h

\* observe_termination_locked is orderly, and whoever waits for what it
\* started waits for attempts there are.
LEMMA ObserveOrderly ==
    ASSUME NEW s \in Registry, NEW G
    PROVE  /\ Orderly(s, Observe(s, G))
           /\ RegOK(s, pc, child, launch) =>
                 \A H \in SUBSET G : \A a \in Attempts(Observe(s, G), H) :
                    a[2] \in DOMAIN Observe(s, G).results[a[1]]
  <1> DEFINE h == Handoff(s, G)
             t == StartTermination(h, G \cap h.pending)
  <1>1. h \in Registry /\ Orderly(s, h)
    BY HandoffOrderly, HandoffKeeps
  <1>2. RegOK(h, pc, child, launch) => \A g \in (G \cap h.pending) \cap Gens : pc[g] \notin Early
    BY DEF RegOK, EarlyOK
  <1> HIDE DEF h
  <1>3. /\ Orderly(h, t)
        /\ RegOK(h, pc, child, launch) =>
              \A g \in (G \cap h.pending) \cap Gens : t.attempt[g] \in DOMAIN t.results[g]
        /\ t.pending = h.pending /\ t \in Registry
    BY <1>1, <1>2, StartTerminationOrderly, StartTerminationWrites, StartTerminationKeeps
  <1>4. Observe(s, G) = t
    BY DEF Observe, h
  <1> HIDE DEF t
  <1>5. Orderly(s, t)
    BY <1>1, <1>3, OrderlyTwice
  <1>6. ASSUME RegOK(s, pc, child, launch), NEW H \in SUBSET G, NEW a \in Attempts(t, H)
        PROVE  a[2] \in DOMAIN t.results[a[1]]
    <2>1. RegOK(h, pc, child, launch)
      BY <1>1, <1>6 DEF Orderly
    <2>2. PICK g \in H \cap t.pending : a = <<g, t.attempt[g]>>
      BY <1>6 DEF Attempts
    <2>3. g \in (G \cap h.pending) \cap Gens
      BY <2>2, <1>3 DEF Registry
    <2> QED BY <1>3, <2>1, <2>2, <2>3
  <1> QED BY <1>4, <1>5, <1>6

\* The same for the sections of a launch, which may bind its search.
OrderlyBut(s, t, g) ==
    /\ t \in Registry /\ KeepsBut(s, t, g) /\ Longer(s, t)
    /\ \A a \in Gens : t.search[a] = s.search[a] \/ (pc[g] = "Binding" /\ a = reused[g])
    /\ RegOK(s, pc, child, launch) => RegOK(t, pc, child, launch)

\* A section of a command may be one of a launch.
LEMMA OrderlyIsOrderlyBut ==
    ASSUME NEW s, NEW t, NEW g, Orderly(s, t)
    PROVE  OrderlyBut(s, t, g)
  BY KeepsIsKeepsBut DEF Orderly, OrderlyBut

\* Dropping the lease is an orderly section of the launch that holds it.
LEMMA DropLeaseOrderly ==
    ASSUME NEW s \in Registry, NEW t \in Registry, NEW g \in Gens, OrderlyBut(s, t, g)
    PROVE  OrderlyBut(s, DropLease(t, g), g)
  <1> DEFINE d == DropLease(t, g)
  <1>1. d \in Registry /\ KeepsBut(s, d, g)
    BY DropLeaseKeeps DEF OrderlyBut
  <1>2. /\ d.actors = t.actors /\ d.pending = t.pending /\ d.results = t.results
        /\ d.attempt = t.attempt /\ d.search = t.search
    BY DEF DropLease, CancelExact, Registry
  <1> HIDE DEF d
  <1>3. RegOK(t, pc, child, launch) => RegOK(d, pc, child, launch)
    BY <1>1, <1>2, SameEngines
  <1>4. Longer(s, d)
    BY <1>2 DEF OrderlyBut, Longer
  <1>5. OrderlyBut(s, d, g)
    BY <1>1, <1>2, <1>3, <1>4 DEF OrderlyBut
  <1> QED BY <1>5 DEF d

\* So is the end of the spawn, and what PendingActorGuard does when dropped.
LEMMA FinishSpawnOrderly ==
    ASSUME NEW s \in Registry, NEW g \in Gens
    PROVE  /\ OrderlyBut(s, FinishSpawn(s, g), g)
           /\ pc[g] \notin Early =>
                 OrderlyBut(s, StartTermination(FinishSpawn(s, g), {g}), g)
  <1> DEFINE f == FinishSpawn(s, g)
             t == StartTermination(f, {g})
  <1>1. f \in Registry /\ f = [s EXCEPT !.spawning = s.spawning \ {g}]
    BY FinishSpawnType
  <1> HIDE DEF f
  <1>2. /\ f.actors = s.actors /\ f.pending = s.pending /\ f.results = s.results
        /\ f.attempt = s.attempt /\ f.search = s.search /\ KeepsBut(s, f, g)
    BY <1>1 DEF Registry, KeepsBut
  <1>3. /\ RegOK(s, pc, child, launch) => RegOK(f, pc, child, launch)
        /\ Longer(s, f)
    BY <1>1, <1>2, SameEngines
  <1>4. OrderlyBut(s, f, g)
    BY <1>1, <1>2, <1>3 DEF OrderlyBut
  <1>5. ASSUME pc[g] \notin Early
        PROVE  OrderlyBut(s, t, g)
    <2>1. RegOK(f, pc, child, launch) => \A h \in {g} \cap Gens : pc[h] \notin Early
      BY <1>5
    <2>2. Orderly(f, t) /\ t \in Registry
      BY <1>1, <2>1, StartTerminationOrderly, StartTerminationKeeps
    <2> HIDE DEF t
    <2>3. KeepsBut(s, t, g)
      BY <1>2, <2>2 DEF Orderly, KeepsBut, Keeps
    <2>4. Longer(s, t)
      BY <1>2, <2>2 DEF Orderly, Longer
    <2> QED BY <1>2, <1>3, <2>2, <2>3, <2>4 DEF OrderlyBut, Orderly
  <1> QED BY <1>4, <1>5 DEF f, t

-----------------------------------------------------------------------------
(* What the steps of launches do, apart from the registry.                 *)

\* Where a launch is admitted and has no child yet, and where its lease is armed.
Open == {"Prepared", "Admitted", "Cold"}

Armed == {"Registered", "Admitted", "Cold"}

\* Whoever waits for an attempt waits for one there is.
Awaits(t, s) == \A a \in t.waits \cup t.locks : a[2] \in DOMAIN s.results[a[1]]

AwaitsOK == \A o \in Tasks : Awaits(task[o], reg)

\* The cleanup of a dropped guard starts when its launch is over.
GuardsOK == \A g \in Gens : task[g] # NoTask => pc[g] = "Done"

\* A launch that may still spawn has an armed lease, or a reservation that
\* is in the map unless it was cancelled.
ArmedOK ==
    \A g \in Gens :
       /\ pc[g] \in Armed => g \in reg.leases
       /\ pc[g] = "Prepared" => g \in reg.cancelled \/ reg.admissions[KeyOf(g)] = g

LocksOK == lifecycle \in [Keys -> Tasks \cup {None}]

\* The life of a generation, and what launches and commands rely on of it.
Life ==
    /\ Inv /\ RegOK(reg, pc, child, launch)
    /\ AwaitsOK /\ GuardsOK /\ ArmedOK /\ LocksOK

\* A step of m takes and releases no lock that another task holds.
OwnLocks(m) ==
    /\ LocksOK'
    /\ \A k \in Keys : lifecycle[k] \in {None, m} \/ lifecycle'[k] = lifecycle[k]

\* A step of the launch g, apart from what it writes into the registry.
LaunchFrame(g) ==
    /\ pc[g] # "Done"
    /\ \A h \in Gens : h # g => /\ pc'[h] = pc[h] /\ reused'[h] = reused[h]
                                /\ child'[h] = child[h] /\ launch'[h] = launch[h]
    /\ pc'[g] \in Early => pc[g] \in Early
    /\ pc'[g] \in Before => pc[g] \in Before
    /\ launch'[g] = launch[g] \/ (pc[g] = "Unused" /\ pc'[g] = "Allocated")
    /\ \/ child'[g] = child[g] /\ (pc'[g] = "Spawning" => pc[g] = "Spawning")
       \/ pc[g] = "Spawning" /\ pc'[g] # "Spawning" /\ child'[g] \in {"Slot", "Alive"}
       \/ pc[g] \in {"Admitted", "Cold"} /\ g \notin reg.cancelled /\ child'[g] = "Slot"
    /\ pc'[g] \in Open => pc[g] \in Open \/ (pc[g] = "Registered" /\ Policy(g))
    /\ \A o \in Tasks : o # g => task'[o] = task[o]
    /\ task'[g] = task[g] \/ (pc'[g] = "Done" /\ task'[g] \in {ReleaseOf(g), ExactOf(g)})
    /\ OwnLocks(g)
    /\ pc'[g] = "Binding" =>
          \/ pc[g] = "Binding" /\ UNCHANGED <<lifecycle, reused>>
          \/ /\ lifecycle'[KeyOf(g)] = g /\ reused'[g] \in Gens
             /\ reg.actors[KeyOf(g)] = reused'[g] /\ launch'[g] = launch[g]
    /\ UNCHANGED <<sealed, retired, returned>>

\* A launch takes a free lock, and releases its own.
LEMMA LockMoves ==
    ASSUME LocksOK, NEW m \in Tasks, NEW k \in Keys
    PROVE  /\ UNCHANGED lifecycle => OwnLocks(m)
           /\ lifecycle' = Unlocked(m) => OwnLocks(m)
           /\ lifecycle[k] = None /\ lifecycle' = [lifecycle EXCEPT ![k] = m] =>
                 OwnLocks(m) /\ lifecycle'[k] = m
           /\ lifecycle' = [lifecycle EXCEPT ![k] = IF @ = m THEN None ELSE @] => OwnLocks(m)
  <1> USE DEF LocksOK, OwnLocks
  <1>1. UNCHANGED lifecycle => OwnLocks(m)
    OBVIOUS
  <1>2. lifecycle' = Unlocked(m) => OwnLocks(m)
    BY DEF Unlocked
  <1>3. lifecycle[k] = None /\ lifecycle' = [lifecycle EXCEPT ![k] = m] =>
           OwnLocks(m) /\ lifecycle'[k] = m
    OBVIOUS
  <1>4. lifecycle' = [lifecycle EXCEPT ![k] = IF @ = m THEN None ELSE @] => OwnLocks(m)
    OBVIOUS
  <1> QED BY <1>1, <1>2, <1>3, <1>4

\* A launch that is over.
LEMMA LeaveFrame ==
    ASSUME Life, NEW g \in Gens, Leave(g), pc[g] # "Done", DropGuard(g) \/ UNCHANGED task,
           UNCHANGED <<launch, sealed, retired, returned>>,
           \/ child' = child
           \/ pc[g] = "Spawning" /\ \E c \in {"Slot", "Alive"} : child' = [child EXCEPT ![g] = c]
    PROVE  LaunchFrame(g) /\ pc'[g] = "Done"
  <1>1. TypeOK /\ g \in Tasks /\ LocksOK
    BY GenFacts DEF Life, Inv
  <1>2. /\ pc'[g] = "Done" /\ \A h \in Gens : h # g => pc'[h] = pc[h] /\ reused'[h] = reused[h]
        /\ lifecycle' = Unlocked(g)
    BY <1>1 DEF Leave, Go, TypeOK
  <1>3. /\ \A h \in Gens : h # g => child'[h] = child[h]
        /\ child'[g] = child[g] \/ (pc[g] = "Spawning" /\ child'[g] \in {"Slot", "Alive"})
    BY <1>1 DEF TypeOK
  <1>4. /\ \A o \in Tasks : o # g => task'[o] = task[o]
        /\ task'[g] = task[g] \/ task'[g] \in {ReleaseOf(g), ExactOf(g)}
    BY <1>1 DEF DropGuard, TypeOK
  <1>5. OwnLocks(g)
    BY <1>1, <1>2 DEF OwnLocks, LocksOK, Unlocked
  <1>6. "Done" \notin Before \cup Early \cup Open \cup {"Binding", "Spawning"}
    BY DEF Before, Early, Open, Guarded
  <1> QED BY <1>2, <1>3, <1>4, <1>5, <1>6 DEF LaunchFrame

\* The error return of a launch.
LEMMA FailFrame ==
    ASSUME Life, NEW g \in Gens, NEW s, NEW b \in BOOLEAN, FailFrom(s, g, b), pc[g] # "Done"
    PROVE  LaunchFrame(g) /\ pc'[g] = "Done"
  <1>1. /\ Leave(g) /\ (DropGuard(g) \/ UNCHANGED task)
        /\ UNCHANGED <<launch, child, sealed, retired, returned>>
    BY DEF FailFrom, policyVars
  <1> QED BY <1>1, LeaveFrame

\* A launch that goes on, with its child and its guard as they are.
LEMMA GoFrame ==
    ASSUME Life, NEW g \in Gens, NEW p, Go(g, p), pc[g] # "Done", p # "Spawning",
           p \in Early => pc[g] \in Early, p \in Before => pc[g] \in Before,
           p \in Open => pc[g] \in Open \/ (pc[g] = "Registered" /\ Policy(g)),
           p # "Binding", UNCHANGED <<launch, child, task, sealed, retired, returned, reused>>,
           \/ lifecycle' \in {lifecycle, Unlocked(g)}
           \/ /\ lifecycle[KeyOf(g)] = None
              /\ lifecycle' = [lifecycle EXCEPT ![KeyOf(g)] = g]
    PROVE  LaunchFrame(g) /\ pc'[g] = p
  <1>1. TypeOK /\ g \in Tasks /\ LocksOK /\ KeyOf(g) \in Keys
    BY GenFacts, SupervisorAssumption DEF Life, Inv, TypeOK, KeyOf
  <1>2. pc'[g] = p /\ \A h \in Gens : h # g => pc'[h] = pc[h]
    BY <1>1 DEF Go, TypeOK
  <1>3. OwnLocks(g)
    BY <1>1, LockMoves
  <1> QED BY <1>2, <1>3 DEF LaunchFrame

-----------------------------------------------------------------------------
(* What the steps of launches write into the registry.                     *)

\* A step of the launch g moves its own admission and lease, enters its own
\* engine, and gives a new search to the engine it binds and to no other.
LaunchWrites(g) ==
    /\ reg.cancelled \subseteq reg'.cancelled /\ Longer(reg, reg')
    /\ \A h \in Gens : h # g => (h \in reg'.leases <=> h \in reg.leases)
    /\ \A k \in Keys :
          \/ reg'.admissions[k] = reg.admissions[k]
          \/ reg.admissions[k] \in {0, g} \cup reg'.cancelled
    /\ \A k \in Keys :
          \/ reg'.actors[k] \in {0, reg.actors[k]}
          \/ reg'.actors[k] = g /\ pc[g] \in Before
    /\ pc'[g] \in Armed => g \in reg'.leases
    /\ pc'[g] = "Prepared" => g \in reg'.cancelled \/ reg'.admissions[KeyOf(g)'] = g
    /\ \A a \in Gens :
          \/ reg'.search[a] = reg.search[a]
          \/ a = g /\ pc[g] \in Before
          \/ pc[g] = "Binding" /\ a = reused[g]
    /\ RegOK(reg, pc, child, launch)'

LaunchStep(g) == LaunchFrame(g) /\ LaunchWrites(g)

\* The launch moves on, and the registry stays in order.
LEMMA RegOKMoves ==
    ASSUME NEW g \in Gens, LaunchFrame(g), reg' \in Registry, launch' = launch,
           RegOK(reg', pc, child, launch),
           child'[g] = child[g] \/ pc[g] = "Spawning",
           pc'[g] = "Spawning" => pc[g] = "Spawning"
    PROVE  RegOK(reg, pc, child, launch)'
  <1>1. ActorsOK(reg, pc, launch)'
    <2> SUFFICES ASSUME NEW k \in Keys, reg'.actors[k] # 0
                 PROVE  /\ launch'[reg'.actors[k]].key = k /\ pc'[reg'.actors[k]] \notin Before
                        /\ reg'.actors[k] \notin reg'.pending
      BY DEF ActorsOK
    <2> DEFINE a == reg'.actors[k]
    <2>1. a \in Gens /\ launch[a].key = k /\ pc[a] \notin Before /\ a \notin reg'.pending
      BY GenFacts DEF RegOK, ActorsOK, Registry
    <2> HIDE DEF a
    <2>2. pc'[a] \notin Before
      BY <2>1 DEF LaunchFrame
    <2> QED BY <2>1, <2>2 DEF a
  <1>2. pc[g] = "Spawning" => child[g] = "Slot" /\ pc[g] \notin Early
    BY DEF RegOK, EarlyOK, Early
  <1>3. EarlyOK(reg, pc, child)'
    <2> SUFFICES ASSUME NEW h \in Gens
                 PROVE  /\ pc'[h] \in Early =>
                              child'[h] = "None" /\ reg'.results[h] = <<>> /\ h \notin reg'.pending
                        /\ pc'[h] = "Spawning" => child'[h] = "Slot"
      BY DEF EarlyOK
    <2>1. CASE h # g
      BY <2>1 DEF LaunchFrame, RegOK, EarlyOK
    <2>2. CASE h = g
      BY <1>2, <2>2 DEF LaunchFrame, RegOK, EarlyOK
    <2> QED BY <2>1, <2>2
  <1>4. AttemptsOK(reg, child)'
    <2> SUFFICES ASSUME NEW h \in Gens
                 PROVE  /\ reg'.attempt[h] <= Len(reg'.results[h])
                        /\ \A n \in DOMAIN reg'.results[h] :
                              /\ reg'.results[h][n] = "Ok" => child'[h] = "Reaped"
                              /\ reg'.results[h][n] = "Failed" => child'[h] \in {"Alive", "Reaped"}
      BY DEF AttemptsOK
    <2>1. CASE child'[h] = child[h]
      BY <2>1 DEF RegOK, AttemptsOK
    <2>2. CASE child'[h] # child[h]
      <3>1. child[h] = "Slot"
        BY <1>2, <2>2 DEF LaunchFrame
      <3> QED BY <3>1 DEF RegOK, AttemptsOK
    <2> QED BY <2>1, <2>2
  <1> QED BY <1>1, <1>3, <1>4 DEF RegOK

\* A step whose section is orderly.
LEMMA OrderlyStep ==
    ASSUME Life, NEW g \in Gens, LaunchFrame(g), OrderlyBut(reg, reg', g), launch' = launch,
           child'[g] = child[g] \/ pc[g] = "Spawning",
           pc'[g] = "Spawning" => pc[g] = "Spawning",
           pc'[g] \in Armed => g \in reg'.leases,
           pc'[g] = "Prepared" => g \in reg'.cancelled \/ reg'.admissions[KeyOf(g)] = g
    PROVE  LaunchStep(g)
  <1>1. reg' \in Registry /\ KeepsBut(reg, reg', g) /\ RegOK(reg', pc, child, launch)
    BY DEF Life, OrderlyBut
  <1>2. RegOK(reg, pc, child, launch)'
    BY <1>1, RegOKMoves
  <1>3. KeyOf(g)' = KeyOf(g)
    BY DEF KeyOf
  <1>4. \A h \in Gens : h # g => (h \in reg'.leases <=> h \in reg.leases)
    BY <1>1 DEF KeepsBut
  <1>5. \A k \in Keys : /\ \/ reg'.admissions[k] = reg.admissions[k]
                           \/ reg.admissions[k] \in {0, g} \cup reg'.cancelled
                        /\ reg'.actors[k] \in {0, reg.actors[k]}
    BY <1>1 DEF KeepsBut
  <1> QED BY <1>1, <1>2, <1>3, <1>4, <1>5 DEF LaunchStep, LaunchWrites, OrderlyBut, KeepsBut

\* The error return of a launch.
LEMMA FailStep ==
    ASSUME Life, NEW g \in Gens, NEW s \in Registry, OrderlyBut(reg, s, g), NEW b \in BOOLEAN,
           FailFrom(s, g, b), pc[g] # "Done"
    PROVE  LaunchStep(g)
  <1>1. LaunchFrame(g) /\ pc'[g] = "Done"
    BY FailFrame
  <1>2. reg \in Registry
    BY DEF Life, Inv, TypeOK
  <1>3. reg' = DropLease(s, g) /\ launch' = launch /\ child' = child
    BY DEF FailFrom
  <1>4. OrderlyBut(reg, reg', g)
    BY <1>2, <1>3, DropLeaseOrderly
  <1>5. "Done" \notin Armed \cup {"Spawning", "Prepared"}
    BY DEF Armed
  <1> QED BY <1>1, <1>3, <1>4, <1>5, OrderlyStep

\* A launch that returns an error and has no guard.
LEMMA JustFailStep ==
    ASSUME Life, NEW g \in Gens, NEW b \in BOOLEAN, Fail(g, b), pc[g] # "Done"
    PROVE  LaunchStep(g)
  <1>1. reg \in Registry /\ OrderlyBut(reg, reg, g)
    BY OrderlySame, OrderlyIsOrderlyBut DEF Life, Inv, TypeOK
  <1> QED BY <1>1, FailStep DEF Fail

\* A launch that goes on, past its lease.
LEMMA GoStep ==
    ASSUME Life, NEW g \in Gens, NEW p, Go(g, p), pc[g] # "Done", p \notin Early \cup {"Spawning"},
           p \in Before => pc[g] \in Before, p # "Binding",
           UNCHANGED <<launch, child, task, sealed, retired, returned, reused>>,
           \/ lifecycle' \in {lifecycle, Unlocked(g)}
           \/ /\ lifecycle[KeyOf(g)] = None
              /\ lifecycle' = [lifecycle EXCEPT ![KeyOf(g)] = g],
           OrderlyBut(reg, reg', g)
    PROVE  LaunchStep(g)
  <1>1. p \notin Open /\ p \notin Armed /\ p # "Prepared"
    BY DEF Open, Armed, Early
  <1>2. LaunchFrame(g) /\ pc'[g] = p
    BY <1>1, GoFrame
  <1> QED BY <1>1, <1>2, OrderlyStep

\* reject_actor.
LEMMA RejectStep ==
    ASSUME Life, NEW g \in Gens, Reject(g), pc[g] \in Guarded,
           UNCHANGED <<launch, child, task, sealed, retired, returned, reused>>,
           \/ lifecycle' \in {lifecycle, Unlocked(g)}
           \/ /\ lifecycle[KeyOf(g)] = None
              /\ lifecycle' = [lifecycle EXCEPT ![KeyOf(g)] = g]
    PROVE  LaunchStep(g)
  <1>1. reg' = StartTermination(reg, {g}) /\ Go(g, "Rejecting") /\ reg \in Registry
    BY DEF Reject, Life, Inv, TypeOK
  <1>2. pc[g] \notin Early /\ pc[g] \in Before /\ pc[g] # "Done"
    BY DEF Guarded, Early, Before
  <1>3. RegOK(reg, pc, child, launch) => \A h \in {g} \cap Gens : pc[h] \notin Early
    BY <1>2
  <1>4. OrderlyBut(reg, reg', g)
    BY <1>1, <1>3, StartTerminationOrderly, OrderlyIsOrderlyBut
  <1>5. "Rejecting" \notin Early \cup {"Spawning", "Binding"}
    BY DEF Early
  <1> QED BY <1>1, <1>2, <1>4, <1>5, GoStep

-----------------------------------------------------------------------------
(* The steps of launches, one by one.                                      *)

\* What every one of them may use.
LEMMA LifeFacts ==
    ASSUME Life, NEW g \in Gens
    PROVE  /\ TypeOK /\ reg \in Registry /\ KeyOf(g) \in Keys /\ g # 0 /\ g \in Tasks
           /\ Orderly(reg, reg) /\ OrderlyBut(reg, reg, g)
           /\ RegOK(reg, pc, child, launch) /\ LocksOK
           /\ \A h \in Gens : Len(reg.results[h]) \in Nat
  <1>1. TypeOK /\ reg \in Registry /\ RegOK(reg, pc, child, launch) /\ LocksOK
    BY DEF Life, Inv, TypeOK
  <1>2. Orderly(reg, reg) /\ OrderlyBut(reg, reg, g)
    BY <1>1, OrderlySame, OrderlyIsOrderlyBut
  <1>3. KeyOf(g) \in Keys /\ g # 0 /\ g \in Tasks
    BY <1>1, SupervisorAssumption, GenFacts DEF TypeOK, KeyOf
  <1>4. \A h \in Gens : Len(reg.results[h]) \in Nat
    BY <1>1 DEF Registry
  <1> QED BY <1>1, <1>2, <1>3, <1>4

\* A generation is allocated: nothing is known of it yet.
LEMMA AllocateLife ==
    ASSUME Life, NEW g \in Gens, NEW l \in Launches, Allocate(g, l)
    PROVE  LaunchStep(g)
  <1>0. /\ TypeOK /\ reg \in Registry /\ g \in Tasks /\ LocksOK
        /\ RegOK(reg, pc, child, launch) /\ \A h \in Gens : Len(reg.results[h]) \in Nat
    BY LifeFacts
  <1>1. /\ pc[g] = "Unused" /\ pc'[g] = "Allocated"
        /\ \A h \in Gens : h # g => pc'[h] = pc[h] /\ launch'[h] = launch[h]
        /\ UNCHANGED <<reg, child, reused, lifecycle, task, sealed, retired, returned>>
    BY <1>0 DEF Allocate, Go, policyVars, TypeOK
  <1>2. /\ "Unused" \in Early /\ "Unused" \in Before /\ "Allocated" \in Before
        /\ "Allocated" \notin Open \cup Armed \cup {"Binding", "Spawning", "Prepared"}
    BY DEF Early, Before, Open, Armed
  <1>3. OwnLocks(g)
    BY <1>0, <1>1 DEF OwnLocks, LocksOK
  <1>4. LaunchFrame(g)
    BY <1>1, <1>2, <1>3 DEF LaunchFrame
  <1>5. ActorsOK(reg, pc, launch)'
    <2> SUFFICES ASSUME NEW k \in Keys, reg.actors[k] # 0
                 PROVE  /\ launch'[reg.actors[k]].key = k /\ pc'[reg.actors[k]] \notin Before
                        /\ reg.actors[k] \notin reg.pending
      BY <1>1 DEF ActorsOK
    <2>1. reg.actors[k] \in Gens /\ reg.actors[k] # g /\ pc[reg.actors[k]] \notin Before
      BY <1>0, <1>1, <1>2, GenFacts DEF RegOK, ActorsOK, Registry
    <2> QED BY <1>0, <1>1, <2>1 DEF RegOK, ActorsOK
  <1>6. EarlyOK(reg, pc, child)'
    BY <1>0, <1>1, <1>2 DEF RegOK, EarlyOK
  <1>7. AttemptsOK(reg, child)'
    BY <1>0, <1>1 DEF RegOK, AttemptsOK
  <1>8. Longer(reg, reg')
    BY <1>0, <1>1 DEF Longer
  <1> QED BY <1>1, <1>2, <1>4, <1>5, <1>6, <1>7, <1>8 DEF LaunchStep, LaunchWrites, RegOK

\* A step of a launch that leaves the engines alone.
LEMMA SameEnginesStep ==
    ASSUME Life, NEW g \in Gens, LaunchFrame(g), reg' \in Registry,
           UNCHANGED <<launch, child, reg.actors, reg.pending, reg.results, reg.attempt, reg.search>>,
           reg.cancelled \subseteq reg'.cancelled, reg'.leases = reg.leases \cup {g},
           \A k \in Keys :
              \/ reg'.admissions[k] = reg.admissions[k]
              \/ reg.admissions[k] \in {0, g} \cup reg'.cancelled,
           pc'[g] \in {"Registered", "Admitted"}
    PROVE  LaunchStep(g)
  <1>0. /\ reg \in Registry /\ RegOK(reg, pc, child, launch)
        /\ \A h \in Gens : reg.search[h] \in Gens0
    BY LifeFacts DEF Registry
  <1>1. Longer(reg, reg') /\ RegOK(reg', pc, child, launch)
    BY <1>0, SameEngines
  <1>2. RegOK(reg, pc, child, launch)'
    BY <1>1, RegOKMoves
  <1>3. pc'[g] # "Prepared" /\ g \in reg'.leases
        /\ \A h \in Gens : h # g => (h \in reg'.leases <=> h \in reg.leases)
    OBVIOUS
  <1>4. LaunchWrites(g)
    BY <1>1, <1>2, <1>3 DEF LaunchWrites
  <1> QED BY <1>4 DEF LaunchStep

\* A launch is admitted, prepared and consumed, or its operation revoked.
LEMMA AdmitLife ==
    ASSUME Life, NEW g \in Gens, Admit(g) \/ Admitted(g) \/ Consume(g) \/ Revoke(g)
    PROVE  LaunchStep(g)
  <1>0. /\ TypeOK /\ reg \in Registry /\ KeyOf(g) \in Keys /\ g # 0 /\ g \in Tasks
        /\ OrderlyBut(reg, reg, g) /\ RegOK(reg, pc, child, launch) /\ LocksOK
        /\ \A h \in Gens : Len(reg.results[h]) \in Nat
    BY LifeFacts
  <1>d. pc[g] # "Done"
    BY DEF Admit, Admitted, Consume, Revoke
  <1>e. /\ {"Allocated", "Registered", "Prepared", "Admitted", "Cold"} \subseteq Early
        /\ Early \subseteq Before /\ {"Prepared", "Admitted"} \subseteq Open
        /\ "Registered" \notin Open /\ {"Registered", "Admitted"} \subseteq Armed
        /\ "Prepared" \notin Armed /\ "Done" \notin Before \cup Open \cup Early
    BY DEF Early, Before, Open, Armed, Guarded
  <1>1. CASE Fail(g, FALSE)
    BY <1>d, <1>1, JustFailStep
  <1>2. CASE Admit(g) /\ ~Fail(g, FALSE)
    <2>1. /\ reg' = Register(reg, g) /\ Go(g, "Registered") /\ pc[g] = "Allocated"
          /\ UNCHANGED <<launch, child, waits, reused, task, lifecycle, sealed, retired, returned>>
      BY <1>2 DEF Admit, Quiet, policyVars
    <2>2. LaunchFrame(g) /\ pc'[g] = "Registered"
      BY <1>d, <1>e, <2>1, GoFrame
    <2> DEFINE old == reg.admissions[KeyOf(g)]
               pr == (reg.prepared \ {old}) \cup (IF launch[g].kind = "Search" THEN {g} ELSE {})
               adm == [reg.admissions EXCEPT ![KeyOf(g)] = g]
               can == reg.cancelled \cup ({old} \ {0})
               lea == reg.leases \cup {g}
    <2>3. /\ adm \in [Keys -> Gens0] /\ can \in SUBSET Gens /\ lea \in SUBSET Gens
          /\ pr \in SUBSET Gens
      BY <1>0, GenFacts DEF Registry
    <2>4. reg' = [reg EXCEPT !.admissions = adm, !.leases = lea, !.cancelled = can,
                             !.prepared = pr]
      BY <2>1 DEF Register
    <2>5. /\ \A k \in Keys : k # KeyOf(g) => adm[k] = reg.admissions[k]
          /\ reg.cancelled \subseteq can /\ old \in {0, g} \cup can
      BY <1>0 DEF Registry
    <2> HIDE DEF pr, adm, can, lea
    <2>6. /\ reg' \in Registry /\ reg'.leases = lea /\ reg'.admissions = adm /\ reg'.cancelled = can
          /\ UNCHANGED <<reg.actors, reg.pending, reg.results, reg.attempt, reg.search>>
      BY <1>0, <2>3, <2>4 DEF Registry
    <2>7. \A k \in Keys :
              \/ reg'.admissions[k] = reg.admissions[k]
              \/ reg.admissions[k] \in {0, g} \cup reg'.cancelled
      BY <2>5, <2>6
    <2> QED BY <2>1, <2>2, <2>5, <2>6, <2>7, SameEnginesStep DEF lea
  <1>3. CASE Admitted(g) /\ ~Fail(g, FALSE)
    <2>1. /\ pc[g] = "Registered" /\ ~CancelError(g) /\ Policy(g)
          /\ UNCHANGED <<launch, child, waits, reused, task, lifecycle, sealed, retired, returned>>
          /\ \/ Go(g, "Prepared") /\ reg' = [reg EXCEPT !.leases = @ \ {g}]
             \/ Go(g, "Admitted") /\ UNCHANGED reg
      BY <1>3 DEF Admitted, Quiet, policyVars
    <2>2. g \in reg.leases
      BY <2>1 DEF Life, ArmedOK, Armed
    <2>3. reg.admissions[KeyOf(g)] = g
      BY <2>1, <2>2 DEF CancelError, Life, Inv, LeasesRegistered
    <2>4. CASE Go(g, "Prepared") /\ reg' = [reg EXCEPT !.leases = @ \ {g}]
      <3>1. LaunchFrame(g) /\ pc'[g] = "Prepared"
        BY <1>d, <1>e, <2>1, <2>4, GoFrame
      <3>2. /\ reg' \in Registry /\ KeepsBut(reg, reg', g)
            /\ UNCHANGED <<reg.actors, reg.pending, reg.results, reg.attempt, reg.search,
                           reg.admissions>>
        BY <1>0, <2>4 DEF Registry, KeepsBut
      <3>3. Longer(reg, reg') /\ RegOK(reg', pc, child, launch)
        BY <1>0, <3>2, SameEngines
      <3>4. OrderlyBut(reg, reg', g)
        BY <3>2, <3>3 DEF OrderlyBut
      <3> QED BY <1>e, <2>1, <2>3, <3>1, <3>2, <3>4, OrderlyStep
    <2>5. CASE Go(g, "Admitted") /\ UNCHANGED reg
      <3>1. LaunchFrame(g) /\ pc'[g] = "Admitted"
        BY <1>d, <1>e, <2>1, <2>5, GoFrame
      <3>2. OrderlyBut(reg, reg', g) /\ g \in reg'.leases
        BY <1>0, <2>2, <2>5
      <3> QED BY <2>1, <3>1, <3>2, OrderlyStep
    <2> QED BY <2>1, <2>4, <2>5
  <1>4. CASE Consume(g)
    <2>1. /\ pc[g] = "Prepared"
          /\ UNCHANGED <<launch, child, waits, reused, task, lifecycle, sealed, retired, returned>>
          /\ \/ /\ Go(g, "Admitted")
                /\ reg' = [reg EXCEPT !.prepared = @ \ {g}, !.leases = @ \cup {g}]
             \/ Go(g, "Done") /\ UNCHANGED reg
      BY <1>4 DEF Consume, Quiet, policyVars
    <2>2. CASE Go(g, "Done") /\ UNCHANGED reg
      <3>1. OrderlyBut(reg, reg', g)
        BY <1>0, <2>2
      <3> QED BY <1>d, <1>e, <2>1, <2>2, <3>1, GoStep
    <2>3. CASE /\ Go(g, "Admitted")
               /\ reg' = [reg EXCEPT !.prepared = @ \ {g}, !.leases = @ \cup {g}]
      <3>1. LaunchFrame(g) /\ pc'[g] = "Admitted"
        BY <1>d, <1>e, <2>1, <2>3, GoFrame
      <3>2. /\ reg' \in Registry /\ reg'.leases = reg.leases \cup {g}
            /\ UNCHANGED <<reg.actors, reg.pending, reg.results, reg.attempt, reg.search,
                           reg.admissions, reg.cancelled>>
        BY <1>0, <2>3 DEF Registry
      <3> QED BY <2>1, <3>1, <3>2, SameEnginesStep
    <2> QED BY <2>1, <2>2, <2>3
  <1>5. CASE Revoke(g)
    <2>1. UNCHANGED <<launch, pc, reg, child, reused, task, lifecycle, sealed, retired, returned>>
      BY <1>5 DEF Revoke, policyVars
    <2>2. OwnLocks(g)
      BY <1>0, <2>1 DEF OwnLocks, LocksOK
    <2>3. LaunchFrame(g)
      BY <1>d, <2>1, <2>2 DEF LaunchFrame
    <2>4. /\ pc[g] \in Armed => g \in reg.leases
          /\ pc[g] = "Prepared" => g \in reg.cancelled \/ reg.admissions[KeyOf(g)] = g
      BY DEF Life, ArmedOK
    <2> QED BY <1>0, <2>1, <2>3, <2>4, OrderlyStep
  <1> QED BY <1>1, <1>2, <1>3, <1>4, <1>5

\* The spawn begins and ends.
LEMMA SpawnLife ==
    ASSUME Life, NEW g \in Gens, SpawnPending(g) \/ Spawned(g) \/ SpawnFailed(g)
    PROVE  LaunchStep(g)
  <1>0. /\ TypeOK /\ reg \in Registry /\ KeyOf(g) \in Keys /\ g # 0 /\ g \in Tasks
        /\ OrderlyBut(reg, reg, g) /\ RegOK(reg, pc, child, launch) /\ LocksOK
        /\ \A h \in Gens : Len(reg.results[h]) \in Nat
    BY LifeFacts
  <1>d. pc[g] \in {"Admitted", "Cold", "Spawning"}
    BY DEF SpawnPending, Spawned, SpawnFailed
  <1>e. /\ {"Admitted", "Cold"} \subseteq Early /\ {"Spawning", "Spawned", "Rejecting"} \subseteq Before
        /\ Early \subseteq Before
        /\ {"Spawning", "Spawned", "Rejecting"} \cap (Early \cup Open \cup Armed) = {}
    BY DEF Early, Before, Open, Armed, Guarded
  <1>1. CASE Fail(g, launch[g].kind = "Search")
    <2>1. (launch[g].kind = "Search") \in BOOLEAN
      OBVIOUS
    <2> QED BY <1>d, <1>1, <2>1, JustFailStep
  <1>2. CASE SpawnPending(g) /\ ~Fail(g, launch[g].kind = "Search")
    <2>1. /\ pc[g] \in {"Admitted", "Cold"} /\ g \notin reg.cancelled
          /\ child' = [child EXCEPT ![g] = "Slot"]
          /\ reg' = [reg EXCEPT !.pending = @ \cup {g}, !.spawning = @ \cup {g}, !.owner[g] = g]
          /\ pc' = [pc EXCEPT ![g] = "Spawning"]
          /\ UNCHANGED <<launch, waits, reused, task, lifecycle, sealed, retired, returned>>
      BY <1>2 DEF SpawnPending, Quiet, Go, CancelError, policyVars
    <2>2. /\ reg' \in Registry /\ reg'.pending = reg.pending \cup {g}
          /\ UNCHANGED <<reg.leases, reg.cancelled, reg.admissions, reg.actors, reg.results,
                         reg.attempt, reg.search>>
      BY <2>1, <1>0, GenFacts DEF Registry
    <2>3. /\ pc'[g] = "Spawning" /\ child'[g] = "Slot"
          /\ \A h \in Gens : h # g => pc'[h] = pc[h] /\ child'[h] = child[h]
      BY <1>0, <2>1 DEF TypeOK
    <2>4. OwnLocks(g)
      BY <1>0, <2>1 DEF OwnLocks, LocksOK
    <2>5. LaunchFrame(g)
      BY <1>e, <2>1, <2>3, <2>4 DEF LaunchFrame
    <2>6. ActorsOK(reg, pc, launch)'
      <3> SUFFICES ASSUME NEW k \in Keys, reg.actors[k] # 0
                   PROVE  /\ launch[reg.actors[k]].key = k /\ pc'[reg.actors[k]] \notin Before
                          /\ reg.actors[k] \notin reg.pending \cup {g}
        BY <2>1, <2>2 DEF ActorsOK
      <3>1. reg.actors[k] \in Gens /\ reg.actors[k] # g /\ pc[reg.actors[k]] \notin Before
        BY <1>0, <1>e, <2>1, GenFacts DEF RegOK, ActorsOK, Registry
      <3> QED BY <1>0, <2>3, <3>1 DEF RegOK, ActorsOK
    <2>7. EarlyOK(reg, pc, child)'
      <3> SUFFICES ASSUME NEW h \in Gens
                   PROVE  /\ pc'[h] \in Early => child'[h] = "None" /\ reg.results[h] = <<>>
                                                 /\ h \notin reg.pending \cup {g}
                          /\ pc'[h] = "Spawning" => child'[h] = "Slot"
        BY <2>2 DEF EarlyOK
      <3>1. CASE h = g
        BY <1>e, <2>3, <3>1
      <3>2. CASE h # g
        BY <1>0, <2>3, <3>2 DEF RegOK, EarlyOK
      <3> QED BY <3>1, <3>2
    <2>8. AttemptsOK(reg, child)'
      <3> SUFFICES ASSUME NEW h \in Gens
                   PROVE  /\ reg.attempt[h] <= Len(reg.results[h])
                          /\ \A n \in DOMAIN reg.results[h] :
                                /\ reg.results[h][n] = "Ok" => child'[h] = "Reaped"
                                /\ reg.results[h][n] = "Failed" => child'[h] \in {"Alive", "Reaped"}
        BY <2>2 DEF AttemptsOK
      <3>1. CASE h = g
        <4>1. reg.results[g] = <<>> /\ reg.attempt[g] <= Len(reg.results[g])
          BY <1>0, <1>e, <2>1 DEF RegOK, EarlyOK, AttemptsOK
        <4>2. DOMAIN reg.results[g] = {}
          BY <4>1
        <4> QED BY <3>1, <4>1, <4>2
      <3>2. CASE h # g
        BY <1>0, <2>3, <3>2 DEF RegOK, AttemptsOK
      <3> QED BY <3>1, <3>2
    <2>9. Longer(reg, reg')
      BY <1>0, <2>2 DEF Longer
    <2>10. LaunchWrites(g)
      BY <1>e, <2>2, <2>3, <2>6, <2>7, <2>8, <2>9 DEF LaunchWrites, RegOK
    <2> QED BY <2>5, <2>10 DEF LaunchStep
  <1>3. CASE Spawned(g) \/ SpawnFailed(g)
    <2>1. /\ pc[g] = "Spawning"
          /\ UNCHANGED <<launch, reused, task, lifecycle, sealed, retired, returned>>
          /\ pc' = [pc EXCEPT ![g] = "Spawned"] \/ pc' = [pc EXCEPT ![g] = "Rejecting"]
          /\ reg' \in {FinishSpawn(reg, g), StartTermination(FinishSpawn(reg, g), {g})}
          /\ \E c \in {"Slot", "Alive"} : child' = [child EXCEPT ![g] = c]
      BY <1>3 DEF Spawned, SpawnFailed, Quiet, Go, policyVars
    <2>2. OrderlyBut(reg, reg', g)
      <3>1. pc[g] \notin Early
        BY <1>e, <2>1
      <3> QED BY <1>0, <2>1, <3>1, FinishSpawnOrderly
    <2>3. /\ pc'[g] \in {"Spawned", "Rejecting"} /\ child'[g] \in {"Slot", "Alive"}
          /\ \A h \in Gens : h # g => pc'[h] = pc[h] /\ child'[h] = child[h]
      BY <1>0, <2>1 DEF TypeOK
    <2>4. OwnLocks(g)
      BY <1>0, <2>1 DEF OwnLocks, LocksOK
    <2>5. LaunchFrame(g)
      BY <1>e, <2>1, <2>3, <2>4 DEF LaunchFrame
    <2> QED BY <1>e, <2>1, <2>2, <2>3, <2>5, OrderlyStep
  <1> QED BY <1>1, <1>2, <1>3

\* The launch looks for an engine to replace, waits for it and is rejected.
LEMMA LookLife ==
    ASSUME Life, NEW g \in Gens,
           \/ ObserveEarly(g) \/ LockPublication(g) \/ ObserveLocked(g) \/ PreviousEnded(g)
           \/ Rejected(g) \/ Initialised(g) \/ EndOwner(g)
    PROVE  LaunchStep(g)
  <1>0. /\ TypeOK /\ reg \in Registry /\ OrderlyBut(reg, reg, g)
    BY LifeFacts
  <1>d. pc[g] # "Done"
    BY DEF ObserveEarly, LockPublication, ObserveLocked, PreviousEnded, Rejected, Initialised,
           EndOwner
  <1>e. /\ Guarded \subseteq Before /\ "Owned" \notin Before
        /\ {"Queued", "Locked", "Waiting", "Publishing", "Spawned"} \subseteq Guarded
        /\ (Guarded \cup {"Owned"}) \cap Early = {}
    BY DEF Early, Before, Guarded
  <1>1. CASE ObserveEarly(g) \/ ObserveLocked(g)
    <2>1. /\ pc[g] \in {"Spawned", "Locked"}
          /\ \E P : reg' = Observe(reg, P)
          /\ Go(g, "Queued") \/ Go(g, "Waiting")
          /\ UNCHANGED <<launch, child, task, sealed, retired, returned, reused, lifecycle>>
      BY <1>1 DEF ObserveEarly, ObserveLocked, Quiet, policyVars
    <2>2. OrderlyBut(reg, reg', g)
      BY <1>0, <2>1, ObserveOrderly, OrderlyIsOrderlyBut
    <2> QED BY <1>d, <1>e, <2>1, <2>2, GoStep
  <1>2. CASE LockPublication(g)
    <2>1. /\ pc[g] \in {"Spawned", "Queued"}
          /\ UNCHANGED <<launch, child, task, sealed, retired, returned, reused>>
          /\ \/ lifecycle' \in {lifecycle, Unlocked(g)}
             \/ /\ lifecycle[KeyOf(g)] = None
                /\ lifecycle' = [lifecycle EXCEPT ![KeyOf(g)] = g]
          /\ Reject(g) \/ ((Go(g, "Locked") \/ Go(g, "Waiting")) /\ UNCHANGED reg)
      BY <1>2 DEF LockPublication, Quiet, policyVars
    <2>2. CASE Reject(g)
      BY <1>e, <2>1, <2>2, RejectStep
    <2>3. CASE (Go(g, "Locked") \/ Go(g, "Waiting")) /\ UNCHANGED reg
      <3>1. OrderlyBut(reg, reg', g)
        BY <1>0, <2>3
      <3> QED BY <1>d, <1>e, <2>1, <2>3, <3>1, GoStep
    <2> QED BY <2>1, <2>2, <2>3
  <1>3. CASE PreviousEnded(g)
    <2>1. /\ pc[g] = "Waiting"
          /\ UNCHANGED <<launch, child, task, sealed, retired, returned, reused, lifecycle>>
          /\ Reject(g) \/ (Go(g, "Publishing") /\ UNCHANGED reg)
      BY <1>3 DEF PreviousEnded, Quiet, policyVars
    <2>2. CASE Reject(g)
      BY <1>e, <2>1, <2>2, RejectStep
    <2>3. CASE Go(g, "Publishing") /\ UNCHANGED reg
      <3>1. OrderlyBut(reg, reg', g)
        BY <1>0, <2>3
      <3> QED BY <1>d, <1>e, <2>1, <2>3, <3>1, GoStep
    <2> QED BY <2>1, <2>2, <2>3
  <1>4. CASE Rejected(g)
    <2>1. (launch[g].kind = "Search") \in BOOLEAN
      OBVIOUS
    <2> QED BY <1>d, <1>4, <2>1, JustFailStep DEF Rejected
  <1>5. CASE Initialised(g)
    <2>1. /\ Go(g, "Owned")
          /\ UNCHANGED <<reg, launch, child, task, sealed, retired, returned, reused, lifecycle>>
      BY <1>5 DEF Initialised, Quiet, policyVars
    <2>2. OrderlyBut(reg, reg', g)
      BY <1>0, <2>1
    <2> QED BY <1>d, <1>e, <2>1, <2>2, GoStep
  <1>6. CASE EndOwner(g)
    <2>1. /\ Leave(g) /\ DropGuard(g)
          /\ UNCHANGED <<reg, launch, child, sealed, retired, returned>>
      BY <1>6 DEF EndOwner, policyVars
    <2>2. LaunchFrame(g) /\ pc'[g] = "Done"
      BY <1>d, <2>1, LeaveFrame
    <2>3. OrderlyBut(reg, reg', g) /\ "Done" \notin Armed
      BY <1>0, <2>1 DEF Armed
    <2> QED BY <2>1, <2>2, <2>3, OrderlyStep
  <1> QED BY <1>1, <1>2, <1>3, <1>4, <1>5, <1>6

\* The engine is published.
LEMMA PublishLife ==
    ASSUME Life, NEW g \in Gens, Publish(g)
    PROVE  LaunchStep(g)
  <1>0. /\ TypeOK /\ reg \in Registry /\ KeyOf(g) \in Keys /\ g # 0 /\ g \in Tasks
        /\ OrderlyBut(reg, reg, g) /\ RegOK(reg, pc, child, launch) /\ LocksOK
        /\ \A h \in Gens : Len(reg.results[h]) \in Nat
    BY LifeFacts
  <1>d. pc[g] = "Publishing"
    BY DEF Publish
  <1>e. /\ "Publishing" \in Guarded /\ "Publishing" \in Before
        /\ {"Warming", "Initialising"} \cap (Early \cup Before \cup Open \cup Armed) = {}
    BY DEF Early, Before, Open, Armed, Guarded
  <1>1. CASE Reject(g)
    <2>1. UNCHANGED <<launch, child, task, sealed, retired, returned, reused>>
          /\ lifecycle' \in {lifecycle, Unlocked(g)}
      BY DEF Publish, Quiet, policyVars
    <2> QED BY <1>d, <1>e, <1>1, <2>1, RejectStep
  <1>2. CASE ~Reject(g)
    <2> DEFINE k == KeyOf(g)
               p == IF launch[g].kind = "Search" THEN "Warming" ELSE "Initialising"
               q == IF launch[g].kind = "Search" THEN g ELSE 0
               act == [reg.actors EXCEPT ![k] = g]
               adm == [reg.admissions EXCEPT ![k] = 0]
               sea == [reg.search EXCEPT ![g] = q]
    <2>1. /\ reg' = Enter(reg, g) /\ Go(g, p)
          /\ UNCHANGED <<launch, child, reused, task, sealed, retired, returned>>
          /\ lifecycle' \in {lifecycle, Unlocked(g)}
          /\ reg.admissions[k] = g
      BY <1>2 DEF Publish, Quiet, Current, policyVars
    <2>2. p \in {"Warming", "Initialising"} /\ q \in Gens0
      BY GenFacts
    <2>3. act \in [Keys -> Gens0] /\ adm \in [Keys -> Gens0] /\ sea \in [Gens -> Gens0]
      BY <1>0, <2>2, GenFacts DEF Registry
    <2>4. reg' = [reg EXCEPT !.actors = act, !.pending = reg.pending \ {g}, !.admissions = adm,
                             !.leases = reg.leases \ {g}, !.search = sea]
      BY <2>1 DEF Enter
    <2>5. /\ act[k] = g /\ \A a \in Gens : a # g => sea[a] = reg.search[a]
          /\ \A j \in Keys : j # k => act[j] = reg.actors[j] /\ adm[j] = reg.admissions[j]
      BY <1>0 DEF Registry
    <2> HIDE DEF act, adm, sea, p
    <2>6. /\ reg' \in Registry /\ reg'.actors = act /\ reg'.admissions = adm
          /\ reg'.pending = reg.pending \ {g} /\ reg'.leases = reg.leases \ {g}
          /\ reg'.search = sea /\ UNCHANGED <<reg.cancelled, reg.results, reg.attempt>>
      BY <1>0, <2>3, <2>4 DEF Registry
    <2>7. LaunchFrame(g) /\ pc'[g] = p
      BY <1>d, <1>e, <2>1, <2>2, GoFrame
    <2>8. ActorsOK(reg, pc, launch)'
      <3> SUFFICES ASSUME NEW j \in Keys, act[j] # 0
                   PROVE  /\ launch[act[j]].key = j /\ pc'[act[j]] \notin Before
                          /\ act[j] \notin reg.pending \ {g}
        BY <2>1, <2>6 DEF ActorsOK
      <3>1. CASE j = k
        BY <1>e, <2>2, <2>5, <2>7, <3>1 DEF KeyOf
      <3>2. CASE j # k
        <4>1. /\ act[j] = reg.actors[j] /\ reg.actors[j] \in Gens /\ launch[reg.actors[j]].key = j
              /\ pc[reg.actors[j]] \notin Before /\ reg.actors[j] \notin reg.pending
          BY <1>0, <2>5, <3>2, GenFacts DEF RegOK, ActorsOK, Registry
        <4>2. reg.actors[j] # g
          BY <1>d, <1>e, <4>1
        <4> QED BY <2>7, <4>1, <4>2 DEF LaunchFrame
      <3> QED BY <3>1, <3>2
    <2>9. EarlyOK(reg, pc, child)'
      <3> SUFFICES ASSUME NEW h \in Gens
                   PROVE  /\ pc'[h] \in Early => child[h] = "None" /\ reg.results[h] = <<>>
                                                 /\ h \notin reg.pending \ {g}
                          /\ pc'[h] = "Spawning" => child[h] = "Slot"
        BY <2>1, <2>6 DEF EarlyOK
      <3>1. CASE h = g
        BY <1>e, <2>2, <2>7, <3>1
      <3>2. CASE h # g
        BY <1>0, <2>7, <3>2 DEF RegOK, EarlyOK, LaunchFrame
      <3> QED BY <3>1, <3>2
    <2>10. AttemptsOK(reg, child)'
      BY <1>0, <2>1, <2>6 DEF RegOK, AttemptsOK
    <2>11. Longer(reg, reg')
      BY <1>0, <2>6 DEF Longer
    <2>12. \A j \in Keys : /\ \/ reg'.admissions[j] = reg.admissions[j]
                              \/ reg.admissions[j] \in {0, g} \cup reg'.cancelled
                           /\ \/ reg'.actors[j] \in {0, reg.actors[j]}
                              \/ reg'.actors[j] = g
      BY <2>1, <2>5, <2>6
    <2>13. \A h \in Gens : h # g => (h \in reg'.leases <=> h \in reg.leases)
      BY <2>6
    <2>14. /\ pc'[g] \notin Armed /\ pc'[g] # "Prepared" /\ pc[g] \in Before
           /\ reg.cancelled \subseteq reg'.cancelled
           /\ \A a \in Gens : a # g => reg'.search[a] = reg.search[a]
      BY <1>d, <1>e, <2>2, <2>5, <2>6, <2>7
    <2>15. LaunchWrites(g)
      BY <2>8, <2>9, <2>10, <2>11, <2>12, <2>13, <2>14 DEF LaunchWrites, RegOK
    <2> QED BY <2>7, <2>15 DEF LaunchStep
  <1> QED BY <1>1, <1>2

\* A launch that is over, and leaves the registry in order.
LEMMA LeaveStep ==
    ASSUME Life, NEW g \in Gens, Leave(g), pc[g] # "Done", DropGuard(g) \/ UNCHANGED task,
           UNCHANGED <<launch, sealed, retired, returned>>,
           \/ child' = child
           \/ pc[g] = "Spawning" /\ \E c \in {"Slot", "Alive"} : child' = [child EXCEPT ![g] = c],
           OrderlyBut(reg, reg', g)
    PROVE  LaunchStep(g)
  <1>1. LaunchFrame(g) /\ pc'[g] = "Done"
    BY LeaveFrame
  <1>2. "Done" \notin Armed \cup {"Prepared", "Spawning"}
    BY DEF Armed
  <1>3. child'[g] = child[g] \/ pc[g] = "Spawning"
    OBVIOUS
  <1> QED BY <1>1, <1>2, <1>3, OrderlyStep

\* bind_search is a section of the launch that reuses the engine.
LEMMA BindOrderly ==
    ASSUME Life, NEW g \in Gens, pc[g] = "Binding"
    PROVE  /\ BindSearch(reg, reused[g], g) \in Registry
           /\ OrderlyBut(reg, BindSearch(reg, reused[g], g), g)
  <1> DEFINE r == reused[g]
             s == BindSearch(reg, r, g)
             C == ({reg.search[r]} \ {0}) \cup (IF r \in reg.stopped THEN {g} ELSE {})
             sea == [reg.search EXCEPT ![r] = g]
  <1>0. reg \in Registry
    BY LifeFacts
  <1>1. r \in Gens
    BY GenFacts DEF Life, Inv, TypeOK, ReusedOK
  <1>2. C \in SUBSET Gens /\ sea \in [Gens -> Gens0] /\ \A a \in Gens : a # r => sea[a] = reg.search[a]
    BY <1>0, <1>1, GenFacts DEF Registry
  <1>3. s = [reg EXCEPT !.search = sea, !.cancelled = reg.cancelled \cup C]
    BY DEF BindSearch
  <1> HIDE DEF s, C, sea
  <1>4. /\ s \in Registry /\ KeepsBut(reg, s, g) /\ s.search = sea
        /\ s.actors = reg.actors /\ s.pending = reg.pending /\ s.results = reg.results
        /\ s.attempt = reg.attempt
    BY <1>0, <1>2, <1>3 DEF Registry, KeepsBut
  <1>5. /\ RegOK(reg, pc, child, launch) => RegOK(s, pc, child, launch)
        /\ Longer(reg, s)
    BY <1>0, <1>4, SameEngines
  <1>6. OrderlyBut(reg, s, g)
    BY <1>2, <1>4, <1>5 DEF OrderlyBut
  <1> QED BY <1>4, <1>6 DEF s

\* A search takes the lifecycle lock and chooses its engine.
LEMMA LockSearchLife ==
    ASSUME Life, NEW g \in Gens, LockSearch(g)
    PROVE  LaunchStep(g)
  <1>0. /\ TypeOK /\ reg \in Registry /\ KeyOf(g) \in Keys /\ g # 0 /\ g \in Tasks
        /\ OrderlyBut(reg, reg, g) /\ LocksOK
    BY LifeFacts
  <1>d. pc[g] = "Admitted" /\ lifecycle[KeyOf(g)] = None
    BY DEF LockSearch
  <1>e. /\ {"Admitted", "Cold"} \subseteq Early \cap Before \cap Open \cap Armed
        /\ "Binding" \notin Early \cup Before \cup Open \cup Armed
    BY DEF Early, Before, Open, Armed, Guarded
  <1>1. CASE Fail(g, TRUE)
    BY <1>d, <1>1, JustFailStep
  <1>2. CASE ~Fail(g, TRUE)
    <2>1. /\ UNCHANGED <<reg, launch, child, waits, task, sealed, retired, returned>>
          /\ lifecycle' = [lifecycle EXCEPT ![KeyOf(g)] = g]
      BY <1>2 DEF LockSearch, Quiet, policyVars
    <2>2. OrderlyBut(reg, reg', g)
      BY <1>0, <2>1
    <2>3. CASE UNCHANGED reused /\ Go(g, "Cold")
      <3>1. LaunchFrame(g) /\ pc'[g] = "Cold"
        BY <1>d, <1>e, <2>1, <2>3, GoFrame
      <3>2. g \in reg'.leases
        BY <1>d, <1>e, <2>1 DEF Life, ArmedOK
      <3> QED BY <2>1, <2>2, <3>1, <3>2, OrderlyStep
    <2>4. CASE ~(UNCHANGED reused /\ Go(g, "Cold"))
      <3> DEFINE a == reg.actors[KeyOf(g)]
      <3>1. a # 0 /\ reused' = [reused EXCEPT ![g] = a] /\ pc' = [pc EXCEPT ![g] = "Binding"]
        BY <1>2, <2>4 DEF LockSearch, Reusable, Go
      <3>2. a \in Gens
        BY <1>0, <3>1, GenFacts DEF Registry
      <3>3. /\ pc'[g] = "Binding" /\ reused'[g] = a
            /\ \A h \in Gens : h # g => pc'[h] = pc[h] /\ reused'[h] = reused[h]
        BY <1>0, <3>1 DEF TypeOK
      <3>4. OwnLocks(g) /\ lifecycle'[KeyOf(g)] = g
        BY <1>0, <1>d, <2>1, LockMoves
      <3>5. LaunchFrame(g)
        BY <1>d, <1>e, <2>1, <3>2, <3>3, <3>4 DEF LaunchFrame
      <3> QED BY <1>e, <2>1, <2>2, <3>3, <3>5, OrderlyStep
    <2> QED BY <2>3, <2>4
  <1> QED BY <1>1, <1>2

\* A search is bound to its engine, started, ended or abandoned.
LEMMA SearchLife ==
    ASSUME Life, NEW g \in Gens,
           \/ Bind(g) \/ StopCurrent(g) \/ StopCurrentFailed(g) \/ Confirm(g) \/ Warmed(g)
           \/ StartSearch(g) \/ StartFailed(g) \/ ReapPublished(g) \/ Reaped(g)
           \/ SearchEnds(g) \/ SearchFails(g)
    PROVE  LaunchStep(g)
  <1>0. TypeOK /\ reg \in Registry /\ OrderlyBut(reg, reg, g) /\ KeyOf(g) \in Keys
    BY LifeFacts
  <1>d. pc[g] \notin {"Done", "Spawning"}
    BY DEF Bind, StopCurrent, StopCurrentFailed, Confirm, Warmed, StartSearch, StartFailed,
           ReapPublished, Reaped, SearchEnds, SearchFails
  <1>e. {"Stopping", "Confirming", "Ready", "Searching", "Reaping", "Reaped"}
           \cap (Early \cup Before \cup {"Spawning"}) = {}
    BY DEF Early, Before, Guarded
  <1>1. CASE Fail(g, TRUE)
    BY <1>d, <1>1, JustFailStep
  <1>2. CASE Bind(g)
    <2> DEFINE s == BindSearch(reg, reused[g], g)
    <2>1. s \in Registry /\ OrderlyBut(reg, s, g)
      BY <1>2, BindOrderly DEF Bind
    <2>2. \/ FailFrom(s, g, TRUE)
          \/ /\ reg' = s /\ Go(g, "Stopping")
             /\ UNCHANGED <<launch, child, task, sealed, retired, returned, reused, lifecycle>>
      BY <1>2 DEF Bind, Quiet, policyVars
    <2> HIDE DEF s
    <2>3. CASE FailFrom(s, g, TRUE)
      BY <1>d, <2>1, <2>3, FailStep
    <2>4. CASE ~FailFrom(s, g, TRUE)
      BY <1>d, <1>e, <2>1, <2>2, <2>4, GoStep
    <2> QED BY <2>3, <2>4
  <1>3. CASE (StopCurrent(g) \/ StopCurrentFailed(g) \/ StartFailed(g)) /\ ~Fail(g, TRUE)
    <2>1. /\ Go(g, "Confirming") \/ Go(g, "Reaping")
          /\ UNCHANGED <<reg, launch, child, task, sealed, retired, returned, reused, lifecycle>>
      BY <1>3 DEF StopCurrent, StopCurrentFailed, StartFailed, Quiet, policyVars
    <2>2. OrderlyBut(reg, reg', g)
      BY <1>0, <2>1
    <2> QED BY <1>d, <1>e, <2>1, <2>2, GoStep
  <1>4. CASE Confirm(g) /\ ~Fail(g, TRUE)
    <2> DEFINE adm == [reg.admissions EXCEPT ![KeyOf(g)] = IF @ = g THEN 0 ELSE @]
    <2>1. /\ reg' = [reg EXCEPT !.admissions = adm, !.leases = reg.leases \ {g}]
          /\ Go(g, "Ready")
          /\ UNCHANGED <<launch, child, task, sealed, retired, returned, reused, lifecycle>>
      BY <1>4 DEF Confirm, Quiet, policyVars
    <2>2. /\ adm \in [Keys -> Gens0]
          /\ \A j \in Keys : \/ adm[j] = reg.admissions[j]
                             \/ adm[j] = 0 /\ reg.admissions[j] = g
      BY <1>0, GenFacts DEF Registry
    <2> HIDE DEF adm
    <2>3. /\ reg' \in Registry /\ KeepsBut(reg, reg', g)
          /\ UNCHANGED <<reg.actors, reg.pending, reg.results, reg.attempt, reg.search>>
      BY <1>0, <2>1, <2>2 DEF Registry, KeepsBut
    <2>4. /\ RegOK(reg, pc, child, launch) => RegOK(reg', pc, child, launch)
          /\ Longer(reg, reg')
      BY <1>0, <2>3, SameEngines
    <2>5. OrderlyBut(reg, reg', g)
      BY <2>3, <2>4 DEF OrderlyBut
    <2> QED BY <1>d, <1>e, <2>1, <2>5, GoStep
  <1>5. CASE Warmed(g)
    <2>1. /\ reg' = [reg EXCEPT !.warm = @ \cup {g}] /\ Go(g, "Ready")
          /\ UNCHANGED <<launch, child, task, sealed, retired, returned, reused, lifecycle>>
      BY <1>5 DEF Warmed, Quiet, policyVars
    <2>2. /\ reg' \in Registry /\ KeepsBut(reg, reg', g)
          /\ UNCHANGED <<reg.actors, reg.pending, reg.results, reg.attempt, reg.search>>
      BY <1>0, <2>1 DEF Registry, KeepsBut
    <2>3. /\ RegOK(reg, pc, child, launch) => RegOK(reg', pc, child, launch)
          /\ Longer(reg, reg')
      BY <1>0, <2>2, SameEngines
    <2>4. OrderlyBut(reg, reg', g)
      BY <2>2, <2>3 DEF OrderlyBut
    <2> QED BY <1>d, <1>e, <2>1, <2>4, GoStep
  <1>6. CASE StartSearch(g) \/ SearchEnds(g)
    <2>1. /\ UNCHANGED <<reg, launch, child, task, sealed, retired, returned>>
          /\ \/ Leave(g)
             \/ Go(g, "Searching") /\ lifecycle' = Unlocked(g) /\ UNCHANGED reused
      BY <1>6 DEF StartSearch, SearchEnds, Quiet, policyVars
    <2>2. OrderlyBut(reg, reg', g)
      BY <1>0, <2>1
    <2>3. CASE Leave(g)
      BY <1>d, <2>1, <2>2, <2>3, LeaveStep
    <2>4. CASE ~Leave(g)
      BY <1>d, <1>e, <2>1, <2>2, <2>4, GoStep
    <2> QED BY <2>3, <2>4
  <1>7. CASE ReapPublished(g)
    <2>1. /\ reg' = Observe(reg, {Server(g)}) /\ Go(g, "Reaped")
          /\ UNCHANGED <<launch, child, task, sealed, retired, returned, reused, lifecycle>>
      BY <1>7 DEF ReapPublished, Quiet, policyVars
    <2>2. OrderlyBut(reg, reg', g)
      BY <1>0, <2>1, ObserveOrderly, OrderlyIsOrderlyBut
    <2> QED BY <1>d, <1>e, <2>1, <2>2, GoStep
  <1>8. CASE Reaped(g) \/ SearchFails(g)
    BY <1>1, <1>8 DEF Reaped, SearchFails
  <1> QED BY <1>1, <1>2, <1>3, <1>4, <1>5, <1>6, <1>7, <1>8

\* The future of a launch is dropped.
LEMMA AbandonLife ==
    ASSUME Life, NEW g \in Gens, Abandon(g)
    PROVE  LaunchStep(g)
  <1>0. TypeOK /\ reg \in Registry /\ OrderlyBut(reg, reg, g)
    BY LifeFacts
  <1>1. pc[g] # "Done" /\ (pc[g] \in Guarded => pc[g] \notin Early)
    BY DEF Abandon, Awaiting, Guarded, Early
  <1> DEFINE s == IF pc[g] \in Guarded THEN DropPending(reg, g) ELSE reg
  <1>2. s \in Registry /\ OrderlyBut(reg, s, g)
    <2>1. CASE pc[g] \in Guarded
      <3>1. OrderlyBut(reg, DropPending(reg, g), g)
        BY <1>0, <1>1, <2>1, FinishSpawnOrderly DEF DropPending
      <3> QED BY <2>1, <3>1 DEF OrderlyBut
    <2> QED BY <1>0, <2>1
  <1>3. /\ reg' = DropLease(s, g) /\ Leave(g) /\ (DropGuard(g) \/ UNCHANGED task)
        /\ UNCHANGED <<launch, sealed, retired, returned>>
        /\ \/ child' = child
           \/ pc[g] = "Spawning" /\ \E c \in {"Slot", "Alive"} : child' = [child EXCEPT ![g] = c]
    BY DEF Abandon, policyVars
  <1> HIDE DEF s
  <1>4. OrderlyBut(reg, reg', g)
    BY <1>0, <1>2, <1>3, DropLeaseOrderly
  <1> QED BY <1>1, <1>3, <1>4, LeaveStep

\* Every step of a launch.
LEMMA LaunchLife ==
    ASSUME Life, NEW g \in Gens, LaunchNext(g)
    PROVE  LaunchStep(g)
  BY AllocateLife, AdmitLife, SpawnLife, LookLife, PublishLife, LockSearchLife, SearchLife,
     AbandonLife DEF LaunchNext

-----------------------------------------------------------------------------
(* The steps of commands.                                                  *)

\* A step of the command of o.
CommandFrame(o) ==
    /\ UNCHANGED <<launch, pc, reused, child>>
    /\ Orderly(reg, reg')
    /\ \A m \in Tasks : m # o => task'[m] = task[m]
    /\ o \in Ops \/ task[o] # NoTask
    /\ Awaits(task'[o], reg')
    /\ OwnLocks(o)

\* Attempts are never forgotten.
LEMMA AwaitsLater ==
    ASSUME NEW t \in TaskRecord, NEW s \in Registry, NEW u \in Registry, Longer(s, u), Awaits(t, s)
    PROVE  Awaits(t, u)
  <1> SUFFICES ASSUME NEW a \in t.waits \cup t.locks
               PROVE  a[2] \in DOMAIN u.results[a[1]]
    BY DEF Awaits
  <1>1. a \in Gens \X Nat /\ a[2] \in DOMAIN s.results[a[1]]
    BY DEF TaskRecord, Awaits
  <1>2. a[1] \in Gens /\ a[2] \in Nat
    BY <1>1
  <1>3. s.results[a[1]] \in Seq(Outcomes) /\ u.results[a[1]] \in Seq(Outcomes)
    BY <1>2 DEF Registry
  <1>4. a[2] \in 1..Len(s.results[a[1]]) /\ Len(s.results[a[1]]) <= Len(u.results[a[1]])
    BY <1>1, <1>2, <1>3 DEF Longer
  <1>5. a[2] \in 1..Len(u.results[a[1]])
    BY <1>2, <1>3, <1>4
  <1> QED BY <1>3, <1>5

\* What a task may use of the state.
LEMMA TaskFacts ==
    ASSUME Life, NEW o \in Tasks
    PROVE  /\ TypeOK /\ reg \in Registry /\ TaskOK(task[o]) /\ task[o] \in TaskRecord
           /\ Orderly(reg, reg) /\ Awaits(task[o], reg) /\ LocksOK
           /\ RegOK(reg, pc, child, launch)
  <1>1. TypeOK /\ reg \in Registry /\ TaskOK(task[o]) /\ task[o] \in TaskRecord
        /\ Awaits(task[o], reg) /\ LocksOK /\ RegOK(reg, pc, child, launch)
    BY DEF Life, Inv, TypeOK, TaskOK, AwaitsOK
  <1> QED BY <1>1, OrderlySame

\* The step of a command that writes t into the record of its task.
LEMMA FrameOf ==
    ASSUME Life, NEW o \in Tasks, Calm, task[o].kind # "None", Orderly(reg, reg'), NEW t,
           task' = [task EXCEPT ![o] = t], Awaits(t, reg'),
           NEW k \in Keys,
           \/ lifecycle' \in {lifecycle, Unlocked(o)}
           \/ lifecycle[k] = None /\ lifecycle' = [lifecycle EXCEPT ![k] = o]
           \/ lifecycle' = [lifecycle EXCEPT ![k] = IF @ = o THEN None ELSE @]
    PROVE  CommandFrame(o) /\ task'[o] = t
  <1>1. TypeOK /\ LocksOK
    BY TaskFacts
  <1>2. OwnLocks(o)
    BY <1>1, LockMoves
  <1>3. task'[o] = t /\ \A m \in Tasks : m # o => task'[m] = task[m]
    BY <1>1 DEF TypeOK
  <1>4. task[o] # NoTask
    BY DEF NoTask
  <1> QED BY <1>2, <1>3, <1>4 DEF CommandFrame, Calm

\* There is a key as soon as there is a command, since there is a launch.
LEMMA SomeKey == \E k : k \in Keys
  BY SupervisorAssumption

\* Nobody waits in a finished task.
LEMMA FinishedWaits ==
    Finished.waits = {} /\ Finished.locks = {} /\ Finished.kind = "None"
  BY DEF Finished, NoTask

\* A step that waits for nothing new.
LEMMA WaitsOfBefore ==
    ASSUME Life, NEW o \in Tasks, Calm, task[o].kind # "None", Orderly(reg, reg'), NEW u,
           task' = [task EXCEPT ![o] = u],
           u.waits \cup u.locks \subseteq task[o].waits \cup task[o].locks,
           NEW k \in Keys,
           \/ lifecycle' \in {lifecycle, Unlocked(o)}
           \/ lifecycle[k] = None /\ lifecycle' = [lifecycle EXCEPT ![k] = o]
           \/ lifecycle' = [lifecycle EXCEPT ![k] = IF @ = o THEN None ELSE @]
    PROVE  CommandFrame(o) /\ task'[o] = u
  <1>1. Awaits(task[o], reg) /\ task[o] \in TaskRecord /\ reg \in Registry
    BY TaskFacts
  <1>2. Awaits(task[o], reg')
    BY <1>1, AwaitsLater DEF Orderly
  <1>3. Awaits(u, reg')
    BY <1>2 DEF Awaits
  <1> QED BY <1>3, FrameOf

\* A step that waits for what it has just observed.
LEMMA WaitsOfObserved ==
    ASSUME Life, NEW o \in Tasks, Calm, task[o].kind # "None",
           NEW s \in Registry, Orderly(reg, s), NEW G, reg' = Observe(s, G), NEW u,
           task' = [task EXCEPT ![o] = u],
           u.waits \cup u.locks \subseteq task[o].waits \cup task[o].locks \cup Attempts(reg', G),
           UNCHANGED lifecycle
    PROVE  CommandFrame(o) /\ task'[o] = u
  <1>r. /\ Awaits(task[o], reg) /\ task[o] \in TaskRecord /\ reg \in Registry
        /\ RegOK(reg, pc, child, launch)
    BY TaskFacts
  <1>1. RegOK(s, pc, child, launch)
    BY <1>r DEF Orderly
  <1>2. Orderly(s, reg') /\ \A a \in Attempts(reg', G) : a[2] \in DOMAIN reg'.results[a[1]]
    BY <1>1, ObserveOrderly
  <1>3. Orderly(reg, reg')
    BY <1>r, <1>2, OrderlyTwice
  <1>4. Awaits(task[o], reg')
    BY <1>r, <1>3, AwaitsLater DEF Orderly
  <1>5. Awaits(u, reg')
    BY <1>2, <1>4 DEF Awaits
  <1> QED BY <1>3, <1>5, FrameOf, SomeKey

\* stop_or_release.
LEMMA StopLife ==
    ASSUME Life, NEW o \in Tasks,
           \/ StopCapture(o) \/ StopSelect(o) \/ StopBind(o) \/ StopLock(o)
           \/ StopWarm(o) \/ StopReap(o)
    PROVE  CommandFrame(o)
  <1> DEFINE t == task[o]
             k == t.key
  <1>r. /\ TypeOK /\ reg \in Registry /\ TaskOK(t) /\ t \in TaskRecord /\ Orderly(reg, reg)
        /\ Awaits(t, reg) /\ RegOK(reg, pc, child, launch)
    BY TaskFacts
  <1>k. k \in Keys /\ t.gen \in Gens0 /\ t.targets \in SUBSET Gens /\ t.selected \in Gens0
        /\ t.admission \in Gens0 /\ t.release \in BOOLEAN /\ t.kind # "None"
    BY <1>r DEF TaskOK, TaskRecord, StopCapture, StopSelect, StopBind, StopLock, StopWarm,
                StopReap
  <1>c. Calm
    BY DEF StopCapture, StopSelect, StopBind, StopLock, StopWarm, StopReap
  <1>a. ASSUME NEW u, u = Finished \/ (u.waits = t.waits /\ u.locks = t.locks),
               task' = [task EXCEPT ![o] = u], Orderly(reg, reg'),
               \/ lifecycle' \in {lifecycle, Unlocked(o)}
               \/ lifecycle[k] = None /\ lifecycle' = [lifecycle EXCEPT ![k] = o]
        PROVE  CommandFrame(o)
    <2>1. u.waits \cup u.locks \subseteq t.waits \cup t.locks
      BY <1>a, FinishedWaits
    <2> QED BY <1>a, <1>c, <1>k, <2>1, WaitsOfBefore
  <1>b. ASSUME NEW s, NEW G, s \in Registry, Orderly(reg, s),
               reg' = Observe(s, G), NEW p, UNCHANGED lifecycle,
               task' = [task EXCEPT ![o].phase = p, ![o].waits = Attempts(reg', G)]
        PROVE  CommandFrame(o)
    <2> DEFINE u == [t EXCEPT !.phase = p, !.waits = Attempts(reg', G)]
    <2>1. u.waits = Attempts(reg', G) /\ u.locks = t.locks
      BY <1>r DEF TaskRecord
    <2>2. task' = [task EXCEPT ![o] = u]
      BY <1>b
    <2> HIDE DEF u
    <2>3. u.waits \cup u.locks \subseteq task[o].waits \cup task[o].locks \cup Attempts(reg', G)
      BY <2>1
    <2>4. s \in Registry /\ Orderly(reg, s) /\ reg' = Observe(s, G) /\ UNCHANGED lifecycle
          /\ task[o].kind # "None"
      BY <1>b, <1>k
    <2> QED BY <1>c, <2>2, <2>3, <2>4, WaitsOfObserved
  <1>1. CASE StopCapture(o)
    <2> DEFINE T == StopTargets(t)
               a == IF t.gen = 0 THEN reg.admissions[k] ELSE 0
               u == IF T = {} THEN Finished
                    ELSE [t EXCEPT !.phase = "Captured", !.targets = T, !.admission = a]
    <2>1. reg' = reg /\ lifecycle' = lifecycle /\ task' = [task EXCEPT ![o] = u]
      BY <1>1 DEF StopCapture
    <2>2. u = Finished \/ (u.waits = t.waits /\ u.locks = t.locks)
      BY <1>r DEF TaskRecord
    <2>3. Orderly(reg, reg')
      BY <1>r, <2>1
    <2> HIDE DEF u
    <2> QED BY <1>a, <2>1, <2>2, <2>3
  <1>2. CASE StopSelect(o)
    <2> DEFINE A == Serving(k, t.targets)
               g == IF A = {} THEN 0 ELSE reg.actors[k]
               u == [t EXCEPT !.phase = "Selected", !.selected = g]
    <2>1. A \in SUBSET Gens
      BY <1>r, <1>k, ServingType
    <2>2. reg' = CancelSearches(reg, A) /\ lifecycle' = lifecycle /\ task' = [task EXCEPT ![o] = u]
      BY <1>2 DEF StopSelect
    <2>3. u.waits = t.waits /\ u.locks = t.locks
      BY <1>r DEF TaskRecord
    <2> HIDE DEF A, u
    <2>4. Orderly(reg, reg')
      BY <1>r, <2>1, <2>2, CancelSearchesOrderly
    <2> QED BY <1>a, <2>2, <2>3, <2>4
  <1>3. CASE StopBind(o)
    <2> DEFINE C == IF t.gen = 0 THEN {t.admission} \ {0}
                    ELSE {t.gen} \cap {reg.admissions[k]}
               A == Serving(k, t.targets)
               c == CancelExact(reg, C)
               m == IF t.release THEN MarkCancelled(c, A) ELSE CancelSearches(c, A)
               G == {a \in A : t.release \/ Terminal(a)} \cup
                    {p \in reg.pending : /\ KeyOf(p) = k
                                         /\ reg.owner[p] \in t.targets \/ p = t.selected}
    <2>1. A \in SUBSET Gens /\ C \in SUBSET Gens
      BY <1>r, <1>k, ServingType, GenFacts
    <2>2. /\ reg' = Observe(m, G) /\ lifecycle' = lifecycle
          /\ task' = [task EXCEPT ![o].phase = "Bound", ![o].waits = Attempts(reg', G)]
      BY <1>3 DEF StopBind
    <2> HIDE DEF A, C, G
    <2>3. c \in Registry /\ Orderly(reg, c)
      BY <2>1, <1>r, CancelExactOrderly, CancelExactKeeps
    <2> HIDE DEF c
    <2>4. m \in Registry /\ Orderly(c, m)
      BY <2>1, <2>3, MarkCancelledOrderly, CancelSearchesOrderly, MarkCancelledKeeps,
         CancelSearchesKeeps
    <2> HIDE DEF m
    <2>5. Orderly(reg, m)
      BY <1>r, <2>3, <2>4, OrderlyTwice
    <2> QED BY <1>b, <2>2, <2>4, <2>5
  <1>4. CASE StopLock(o)
    <2> DEFINE A == Serving(k, t.targets)
    <2>1. A \in SUBSET Gens
      BY <1>r, <1>k, ServingType
    <2>2. reg' \in {reg, CancelSearches(reg, A), MarkCancelled(reg, A)}
      BY <1>4 DEF StopLock
    <2>3. Orderly(reg, reg')
      BY <2>1, <2>2, <1>r, CancelSearchesOrderly, MarkCancelledOrderly
    <2> DEFINE To(p, g) == task' = [task EXCEPT ![o].phase = p, ![o].selected = g]
    <2>l. \/ task' = [task EXCEPT ![o] = Finished] /\ lifecycle' = lifecycle
          \/ /\ \/ To("Wait", t.selected) \/ To("Reap", t.selected)
                \/ To("Stopping", reg.actors[k]) \/ To("Reap", reg.actors[k])
             /\ lifecycle[k] = None /\ lifecycle' = [lifecycle EXCEPT ![k] = o]
      BY <1>4 DEF StopLock
    <2>e. \A p, g : To(p, g) => \E q, h : To(q, h)
      OBVIOUS
    <2> HIDE DEF To
    <2>f. \/ task' = [task EXCEPT ![o] = Finished] /\ lifecycle' = lifecycle
          \/ /\ \E p, g : To(p, g)
             /\ lifecycle[k] = None /\ lifecycle' = [lifecycle EXCEPT ![k] = o]
      BY <2>l, <2>e
    <2>4. \/ task' = [task EXCEPT ![o] = Finished] /\ lifecycle' = lifecycle
          \/ /\ \E p, g : task' = [task EXCEPT ![o].phase = p, ![o].selected = g]
             /\ lifecycle[k] = None /\ lifecycle' = [lifecycle EXCEPT ![k] = o]
      BY <2>f DEF To
    <2>5. CASE task' = [task EXCEPT ![o] = Finished] /\ lifecycle' = lifecycle
      BY <1>a, <2>3, <2>5
    <2>6. CASE /\ \E p, g : task' = [task EXCEPT ![o].phase = p, ![o].selected = g]
               /\ lifecycle[k] = None /\ lifecycle' = [lifecycle EXCEPT ![k] = o]
      <3>1. PICK p, g : task' = [task EXCEPT ![o].phase = p, ![o].selected = g]
        BY <2>6
      <3> DEFINE u == [t EXCEPT !.phase = p, !.selected = g]
      <3>2. task' = [task EXCEPT ![o] = u]
        BY <3>1
      <3>3. u.waits = t.waits /\ u.locks = t.locks
        BY <1>r DEF TaskRecord
      <3> HIDE DEF u
      <3> QED BY <1>a, <2>3, <2>6, <3>2, <3>3
    <2> QED BY <2>4, <2>5, <2>6
  <1>5. CASE StopWarm(o)
    <2>1. Orderly(reg, reg')
      BY <1>r, <1>5 DEF StopWarm
    <2>2. CASE task' = [task EXCEPT ![o] = Finished] /\ lifecycle' = Unlocked(o)
      BY <1>a, <2>1, <2>2
    <2>3. CASE task' = [task EXCEPT ![o].phase = "Reap"] /\ lifecycle' = lifecycle
      <3> DEFINE u == [t EXCEPT !.phase = "Reap"]
      <3>1. task' = [task EXCEPT ![o] = u]
        BY <2>3
      <3>2. u.waits = t.waits /\ u.locks = t.locks
        BY <1>r DEF TaskRecord
      <3> HIDE DEF u
      <3> QED BY <1>a, <2>1, <2>3, <3>1, <3>2
    <2> QED BY <1>5, <2>2, <2>3 DEF StopWarm
  <1>6. CASE StopReap(o)
    <2> DEFINE G == {t.selected} \ {0}
    <2>1. /\ reg' = Observe(reg, G) /\ lifecycle' = lifecycle
          /\ task' = [task EXCEPT ![o].phase = "Wait", ![o].waits = Attempts(reg', G)]
      BY <1>6 DEF StopReap
    <2> HIDE DEF G
    <2> QED BY <1>b, <1>r, <2>1
  <1> QED BY <1>1, <1>2, <1>3, <1>4, <1>5, <1>6

\* The other commands, but for drains.
LEMMA CommandLife ==
    ASSUME Life, NEW o \in Tasks,
           \/ ExactBind(o) \/ ExactLock(o) \/ Flag(o) \/ Kill(o) \/ CommandEnds(o)
           \/ BinaryRetire(o) \/ BinaryResume(o)
    PROVE  CommandFrame(o)
  <1> DEFINE t == task[o]
             k == t.key
  <1>r. /\ TypeOK /\ reg \in Registry /\ TaskOK(t) /\ t \in TaskRecord /\ Orderly(reg, reg)
        /\ Awaits(t, reg) /\ RegOK(reg, pc, child, launch)
    BY TaskFacts
  <1>c. Calm
    BY DEF ExactBind, ExactLock, Flag, Kill, CommandEnds, BinaryRetire, BinaryResume
  <1>b. ASSUME NEW s, NEW G, s \in Registry, Orderly(reg, s), t.kind # "None",
               reg' = Observe(s, G), NEW p, UNCHANGED lifecycle,
               task' = [task EXCEPT ![o].phase = p, ![o].waits = Attempts(reg', G)]
        PROVE  CommandFrame(o)
    <2> DEFINE u == [t EXCEPT !.phase = p, !.waits = Attempts(reg', G)]
    <2>1. u.waits = Attempts(reg', G) /\ u.locks = t.locks
      BY <1>r DEF TaskRecord
    <2>2. task' = [task EXCEPT ![o] = u]
      BY <1>b
    <2> HIDE DEF u
    <2>3. u.waits \cup u.locks \subseteq task[o].waits \cup task[o].locks \cup Attempts(reg', G)
      BY <2>1
    <2>4. s \in Registry /\ Orderly(reg, s) /\ reg' = Observe(s, G) /\ UNCHANGED lifecycle
          /\ task[o].kind # "None"
      BY <1>b
    <2> QED BY <1>c, <2>2, <2>3, <2>4, WaitsOfObserved
  <1>1. CASE ExactBind(o)
    <2> DEFINE A == {t.gen} \cap {reg.actors[k]}
               C == {t.gen} \cap {reg.admissions[k]}
               m == MarkCancelled(reg, A)
               c == CancelExact(m, C)
    <2>1. A \in SUBSET Gens /\ C \in SUBSET Gens /\ t.kind # "None"
      BY <1>1, <1>r DEF ExactBind, TaskOK
    <2>2. /\ reg' = Observe(c, {t.gen}) /\ lifecycle' = lifecycle
          /\ task' = [task EXCEPT ![o].phase = "Bound", ![o].waits = Attempts(reg', {t.gen})]
      BY <1>1 DEF ExactBind
    <2> HIDE DEF A, C
    <2>3. m \in Registry /\ Orderly(reg, m)
      BY <2>1, <1>r, MarkCancelledOrderly, MarkCancelledKeeps
    <2> HIDE DEF m
    <2>4. c \in Registry /\ Orderly(m, c)
      BY <2>1, <2>3, CancelExactOrderly, CancelExactKeeps
    <2> HIDE DEF c
    <2>5. Orderly(reg, c)
      BY <1>r, <2>3, <2>4, OrderlyTwice
    <2> QED BY <1>b, <2>1, <2>2, <2>4, <2>5
  <1>2. CASE ExactLock(o)
    <2> DEFINE u == [t EXCEPT !.phase = "Wait"]
    <2>1. /\ k \in Keys /\ lifecycle[k] = None /\ lifecycle' = [lifecycle EXCEPT ![k] = o]
          /\ task' = [task EXCEPT ![o] = u] /\ reg' = reg /\ t.kind # "None"
      BY <1>2, <1>r DEF ExactLock, TaskOK
    <2>2. u.waits = t.waits /\ u.locks = t.locks
      BY <1>r DEF TaskRecord
    <2>3. Orderly(reg, reg')
      BY <1>r, <2>1
    <2> HIDE DEF u
    <2> QED BY <1>c, <2>1, <2>2, <2>3, WaitsOfBefore
  <1>3. CASE CommandEnds(o)
    <2>1. task[o] # NoTask
      BY <1>3 DEF CommandEnds, NoTask
    <2>2. task' = [task EXCEPT ![o] = Finished] /\ lifecycle' = Unlocked(o) /\ reg' = reg
      BY <1>3 DEF CommandEnds
    <2>3. Orderly(reg, reg')
      BY <1>r, <2>2
    <2>4. task'[o] = Finished /\ \A m \in Tasks : m # o => task'[m] = task[m]
      BY <1>r, <2>2 DEF TypeOK
    <2>5. Awaits(Finished, reg') /\ OwnLocks(o)
      <3>1. LocksOK
        BY DEF Life
      <3> QED BY <2>2, <3>1, FinishedWaits, LockMoves, SomeKey DEF Awaits
    <2> QED BY <1>c, <2>1, <2>3, <2>4, <2>5 DEF CommandFrame, Calm
  <1>4. CASE Flag(o)
    <2> DEFINE A == {reg.actors[k]} \ {0}
    <2>1. A \in SUBSET Gens /\ t.kind # "None" /\ k \in Keys
      BY <1>4, <1>r, GenFacts DEF Flag, TaskOK, Registry
    <2>2. /\ reg' = MarkCancelled(reg, A) /\ task' = [task EXCEPT ![o] = Finished]
          /\ lifecycle' = lifecycle
      BY <1>4 DEF Flag
    <2> HIDE DEF A
    <2>3. Orderly(reg, reg')
      BY <2>1, <2>2, <1>r, MarkCancelledOrderly
    <2>4. Finished.waits \cup Finished.locks \subseteq t.waits \cup t.locks
      BY FinishedWaits
    <2> QED BY <1>c, <2>1, <2>2, <2>3, <2>4, WaitsOfBefore
  <1>5. CASE Kill(o)
    <2> DEFINE C == {reg.admissions[k]} \ {0}
               c == [reg EXCEPT !.cancelled = @ \cup C, !.prepared = @ \ C]
               G == ({reg.actors[k]} \ {0}) \cup {p \in reg.pending : KeyOf(p) = k}
    <2>1. C \in SUBSET Gens /\ t.kind # "None"
      BY <1>5, <1>r, GenFacts DEF Kill, TaskOK, Registry
    <2>2. /\ reg' = Observe(c, G) /\ lifecycle' = lifecycle
          /\ task' = [task EXCEPT ![o].phase = "Wait", ![o].waits = Attempts(reg', G)]
      BY <1>5 DEF Kill
    <2> HIDE DEF C, G
    <2>3. /\ c \in Registry /\ Keeps(reg, c)
          /\ c.actors = reg.actors /\ c.pending = reg.pending /\ c.results = reg.results
          /\ c.attempt = reg.attempt /\ c.search = reg.search
      BY <2>1, <1>r DEF Registry, Keeps
    <2> HIDE DEF c
    <2>4. Orderly(reg, c)
      BY <1>r, <2>3, SameEngines DEF Orderly
    <2> QED BY <1>b, <2>1, <2>2, <2>3, <2>4
  <1>6. CASE BinaryRetire(o)
    <2> DEFINE G == {g \in reg.pending \cup Published(reg) : Matches(t, g)}
               c == CancelExact(reg, Admissions(t))
    <2>1. /\ reg' = Observe(c, G) /\ lifecycle' = lifecycle /\ t.kind # "None"
          /\ task' = [task EXCEPT ![o].phase = "Wait", ![o].waits = Attempts(reg', G)]
      BY <1>6 DEF BinaryRetire
    <2> HIDE DEF G
    <2>2. c \in Registry /\ Orderly(reg, c)
      BY <1>r, AdmissionsType, CancelExactOrderly, CancelExactKeeps
    <2> HIDE DEF c
    <2> QED BY <1>b, <2>1, <2>2
  <1>7. CASE BinaryResume(o)
    <2> DEFINE G == {a[1] : a \in t.waits}
               s == StartTermination(reg, G)
               W == {<<g, s.attempt[g]>> : g \in G}
               u == [t EXCEPT !.waits = W]
    <2>1. reg' = s /\ task' = [task EXCEPT ![o] = u] /\ t.kind # "None" /\ lifecycle' = lifecycle
      BY <1>7 DEF BinaryResume
    <2>2. u.waits = W /\ u.locks = t.locks
      BY <1>r DEF TaskRecord
    <2>3. ASSUME NEW g \in G PROVE g \in Gens /\ pc[g] \notin Early
      <3>1. PICK a \in t.waits : g = a[1]
        BY <2>3
      <3>2. a \in Gens \X Nat /\ a[2] \in DOMAIN reg.results[g]
        BY <1>r, <3>1 DEF TaskRecord, Awaits
      <3>3. reg.results[g] # <<>>
        BY <3>2
      <3> QED BY <1>r, <3>1, <3>2, <3>3 DEF RegOK, EarlyOK
    <2>4. RegOK(reg, pc, child, launch) => \A g \in G \cap Gens : pc[g] \notin Early
      BY <2>3
    <2> HIDE DEF G, u
    <2>5. /\ Orderly(reg, s)
          /\ RegOK(reg, pc, child, launch) => \A g \in G \cap Gens : s.attempt[g] \in DOMAIN s.results[g]
      BY <1>r, <2>4, StartTerminationOrderly
    <2> HIDE DEF s
    <2>6. \A a \in W : a[2] \in DOMAIN s.results[a[1]]
      BY <1>r, <2>3, <2>5
    <2> HIDE DEF W
    <2>7. Awaits(t, s)
      BY <1>r, <2>5, AwaitsLater DEF Orderly
    <2>8. Awaits(u, reg') /\ Orderly(reg, reg')
      BY <2>1, <2>2, <2>5, <2>6, <2>7 DEF Awaits
    <2> QED BY <1>c, <2>1, <2>8, FrameOf, SomeKey
  <1> QED BY <1>1, <1>2, <1>3, <1>4, <1>5, <1>6, <1>7

\* Drains.
LEMMA DrainLife ==
    ASSUME Life, NEW o \in Tasks,
           \/ DrainMark(o) \/ DrainBarrier(o) \/ DrainScan(o) \/ DrainAgain(o)
           \/ \E a \in task[o].locks : DrainLock(o, a)
           \/ \E a \in task[o].waits : DrainAwait(o, a)
    PROVE  CommandFrame(o)
  <1> DEFINE t == task[o]
  <1>r. /\ TypeOK /\ reg \in Registry /\ TaskOK(t) /\ t \in TaskRecord /\ Orderly(reg, reg)
        /\ Awaits(t, reg) /\ RegOK(reg, pc, child, launch)
    BY TaskFacts
  <1>c. Calm /\ t.kind # "None"
    BY DEF DrainMark, DrainBarrier, DrainScan, DrainAgain, DrainLock, DrainAwait, Drains
  <1>a. ASSUME NEW p, task' = [task EXCEPT ![o].phase = p], Orderly(reg, reg'), UNCHANGED lifecycle
        PROVE  CommandFrame(o)
    <2> DEFINE u == [t EXCEPT !.phase = p]
    <2>1. task' = [task EXCEPT ![o] = u]
      BY <1>a
    <2>2. u.waits = t.waits /\ u.locks = t.locks
      BY <1>r DEF TaskRecord
    <2> HIDE DEF u
    <2> QED BY <1>a, <1>c, <2>1, <2>2, WaitsOfBefore, SomeKey
  <1>1. CASE DrainMark(o) \/ DrainAgain(o)
    <2>1. /\ reg' = reg /\ lifecycle' = lifecycle
          /\ task' = [task EXCEPT ![o].phase = "Marked"] \/ task' = [task EXCEPT ![o].phase = "Scan"]
      BY <1>1 DEF DrainMark, DrainAgain
    <2>2. Orderly(reg, reg')
      BY <1>r, <2>1
    <2> QED BY <1>a, <2>1, <2>2
  <1>2. CASE DrainBarrier(o)
    <2> DEFINE c == CancelExact(reg, Admissions(t))
               m == MarkCancelled(c, Published(c))
    <2>1. c \in Registry /\ Orderly(reg, c)
      BY <1>r, AdmissionsType, CancelExactOrderly, CancelExactKeeps
    <2>2. task' = [task EXCEPT ![o].phase = "Scan"] /\ lifecycle' = lifecycle
          /\ reg' \in {m, c}
      BY <1>2 DEF DrainBarrier
    <2> HIDE DEF c
    <2>3. Orderly(c, m)
      BY <2>1, PublishedType, MarkCancelledOrderly
    <2> HIDE DEF m
    <2>4. Orderly(reg, reg')
      BY <1>r, <2>1, <2>2, <2>3, OrderlyTwice
    <2> QED BY <1>a, <2>2, <2>4
  <1>3. CASE DrainScan(o)
    <2> DEFINE New == {g \in Gens : Matches(t, g) /\ g \notin t.visited}
               A == New \cap Published(reg)
               P == New \cap reg.pending
               G == A \cup P
               V == t.visited \cup A \cup P
               u == [t EXCEPT !.phase = "Wait", !.visited = V, !.locks = Attempts(reg', A),
                              !.waits = Attempts(reg', P \ A)]
    <2>1. /\ reg' = Observe(reg, G) /\ lifecycle' = lifecycle
          /\ task' = [task EXCEPT ![o] = Finished] \/ task' = [task EXCEPT ![o] = u]
      BY <1>3 DEF DrainScan
    <2>2. u.waits = Attempts(reg', P \ A) /\ u.locks = Attempts(reg', A)
      BY <1>r DEF TaskRecord
    <2>3. Attempts(reg', P \ A) \cup Attempts(reg', A) \subseteq Attempts(reg', G)
      BY DEF Attempts
    <2> HIDE DEF A, P, V, u, G
    <2>4. PICK x : /\ task' = [task EXCEPT ![o] = x]
                   /\ x.waits \cup x.locks \subseteq
                         task[o].waits \cup task[o].locks \cup Attempts(reg', G)
      BY <2>1, <2>2, <2>3, FinishedWaits
    <2> QED BY <1>c, <1>r, <2>1, <2>4, WaitsOfObserved
  <1>4. ASSUME NEW a \in t.locks, DrainLock(o, a)
        PROVE  CommandFrame(o)
    <2> DEFINE L == t.locks \ {a}
               W == t.waits \cup {a}
               u == [t EXCEPT !.locks = L, !.waits = W]
               k == KeyOf(a[1])
    <2>1. /\ reg' = reg /\ task' = [task EXCEPT ![o] = u]
          /\ lifecycle[k] = None /\ lifecycle' = [lifecycle EXCEPT ![k] = o]
      BY <1>4 DEF DrainLock
    <2>2. u.waits \cup u.locks \subseteq t.waits \cup t.locks
      <3>1. u.waits = W /\ u.locks = L
        BY <1>r DEF TaskRecord
      <3> QED BY <3>1
    <2>3. k \in Keys
      <3>1. a \in Gens \X Nat
        BY <1>r DEF TaskRecord
      <3> QED BY <1>r, <3>1, SupervisorAssumption DEF TypeOK, KeyOf
    <2>4. Orderly(reg, reg')
      BY <1>r, <2>1
    <2> HIDE DEF u, k
    <2> QED BY <1>c, <2>1, <2>2, <2>3, <2>4, WaitsOfBefore
  <1>5. ASSUME NEW a \in t.waits, DrainAwait(o, a)
        PROVE  CommandFrame(o)
    <2> DEFINE W == t.waits \ {a}
               f == t.failed \/ Result(a) = "Failed"
               u == [t EXCEPT !.waits = W, !.failed = f]
               k == KeyOf(a[1])
    <2>1. /\ reg' = reg /\ task' = [task EXCEPT ![o] = u]
          /\ lifecycle' = [lifecycle EXCEPT ![k] = IF @ = o THEN None ELSE @]
      BY <1>5 DEF DrainAwait
    <2>2. u.waits = W /\ u.locks = t.locks
      BY <1>r DEF TaskRecord
    <2>3. k \in Keys
      <3>1. a \in Gens \X Nat
        BY <1>r DEF TaskRecord
      <3> QED BY <1>r, <3>1, SupervisorAssumption DEF TypeOK, KeyOf
    <2>4. Orderly(reg, reg') /\ u.waits \cup u.locks \subseteq t.waits \cup t.locks
      BY <1>r, <2>1, <2>2
    <2> HIDE DEF u, k
    <2> QED BY <1>c, <2>1, <2>3, <2>4, WaitsOfBefore
  <1> QED BY <1>1, <1>2, <1>3, <1>4, <1>5

\* Every step of a task.
LEMMA TaskLife ==
    ASSUME Life, NEW o \in Tasks, TaskNext(o)
    PROVE  CommandFrame(o)
  BY StopLife, CommandLife, DrainLife DEF TaskNext

\* A command begins.
BegunAs(c) ==
    [NoTask EXCEPT !.kind = c.kind, !.phase = "Begun", !.key = c.key, !.gen = c.gen,
                   !.release = c.release, !.name = c.name]

\* A command that begins touches nothing but its task.
LEMMA BeginLife ==
    ASSUME Life, NEW o \in Ops, NEW c \in Commands, Begin(o, c)
    PROVE  CommandFrame(o) /\ task'[o] = BegunAs(c)
  <1>1. o \in Tasks
    BY DEF Tasks
  <1>r. TypeOK /\ Orderly(reg, reg) /\ LocksOK
    BY <1>1, TaskFacts
  <1>2. /\ task' = [task EXCEPT ![o] = BegunAs(c)] /\ reg' = reg /\ lifecycle' = lifecycle
        /\ UNCHANGED <<launch, pc, reused, child>>
    BY DEF Begin, Calm, BegunAs
  <1>3. task'[o] = BegunAs(c) /\ \A m \in Tasks : m # o => task'[m] = task[m]
    BY <1>1, <1>2, <1>r DEF TypeOK
  <1>4. BegunAs(c).waits = {} /\ BegunAs(c).locks = {}
    BY DEF BegunAs, NoTask
  <1>5. Awaits(task'[o], reg') /\ OwnLocks(o) /\ Orderly(reg, reg')
    BY <1>2, <1>3, <1>4, <1>r DEF Awaits, OwnLocks, LocksOK
  <1> QED BY <1>2, <1>3, <1>5 DEF CommandFrame

-----------------------------------------------------------------------------
(* Terminations, and the life of a generation as an invariant.             *)

\* A child that is reaped stays so, and an attempt that is over is over.
TerminationFrame ==
    /\ UNCHANGED <<launch, pc, reused, lifecycle, task, sealed, retired, returned>>
    /\ reg' \in Registry /\ reg'.pending \subseteq reg.pending
    /\ UNCHANGED <<reg.leases, reg.cancelled, reg.admissions, reg.actors, reg.search, reg.stopped>>
    /\ \A h \in Gens : /\ child'[h] = child[h] \/ child'[h] = "Reaped"
                       /\ Len(reg'.results[h]) = Len(reg.results[h])
    /\ RegOK(reg, pc, child, launch)'

\* The end of an attempt, and a child that exits by itself.
LEMMA TerminationLife ==
    ASSUME Life, NEW g \in Gens, Terminations(g) \/ ChildExits(g)
    PROVE  TerminationFrame
  <1>0. TypeOK /\ reg \in Registry /\ RegOK(reg, pc, child, launch) /\ SpawnsSeen
    BY LifeFacts DEF Life, Inv
  <1>1. UNCHANGED <<launch, pc, reused, lifecycle, task, sealed, retired, returned>>
    BY DEF Terminations, TerminationEnds, ChildExits, Quiet, policyVars
  <1>2. CASE ChildExits(g)
    <2>1. reg' = reg /\ child[g] = "Alive" /\ child' = [child EXCEPT ![g] = "Reaped"]
      BY <1>2 DEF ChildExits
    <2>2. child'[g] = "Reaped" /\ \A h \in Gens : h # g => child'[h] = child[h]
      BY <1>0, <2>1 DEF TypeOK
    <2>3. ActorsOK(reg, pc, launch)'
      BY <1>0, <1>1, <2>1 DEF RegOK, ActorsOK
    <2>4. EarlyOK(reg, pc, child)'
      BY <1>0, <1>1, <2>1, <2>2 DEF RegOK, EarlyOK
    <2>5. AttemptsOK(reg, child)'
      BY <1>0, <2>1, <2>2 DEF RegOK, AttemptsOK
    <2> QED BY <1>0, <1>1, <2>1, <2>2, <2>3, <2>4, <2>5 DEF TerminationFrame, RegOK
  <1>3. CASE Terminations(g)
    <2>1. PICK n \in DOMAIN reg.results[g], x \in {"Ok", "Failed"}, alive \in BOOLEAN :
             TerminationEnds(g, n, x, alive)
      BY <1>3 DEF Terminations
    <2> DEFINE q == [reg.results[g] EXCEPT ![n] = x]
    <2>u. n \in DOMAIN reg.results[g] /\ reg.results[g] \in Seq(Outcomes)
      BY <1>0, <2>1 DEF Registry
    <2>v. /\ reg' \in Registry
          /\ reg'.pending = IF alive THEN reg.pending ELSE reg.pending \ {g}
          /\ UNCHANGED <<reg.leases, reg.cancelled, reg.admissions, reg.actors, reg.attempt,
                         reg.search, reg.stopped>>
      BY <1>0, <2>1, TerminationWrites
    <2>w. reg'.results = [reg.results EXCEPT ![g] = q]
      <3> DEFINE all == [reg.results EXCEPT ![g] = q]
                 s == [reg EXCEPT !.results = all]
      <3>1. reg' = Forget(s, g, alive)
        BY <2>1 DEF TerminationEnds
      <3>2. s.results = all /\ s.pending = reg.pending
        BY <1>0 DEF Registry
      <3> HIDE DEF all
      <3>3. reg' = s \/ reg' = [s EXCEPT !.pending = s.pending \ {g}]
        BY <3>1 DEF Forget
      <3> QED BY <1>0, <3>2, <3>3 DEF Registry, all
    <2>2. /\ reg' \in Registry
          /\ n \in DOMAIN reg.results[g] /\ reg.results[g] \in Seq(Outcomes)
          /\ reg'.results = [reg.results EXCEPT ![g] = q]
          /\ reg'.pending = IF alive THEN reg.pending ELSE reg.pending \ {g}
          /\ UNCHANGED <<reg.leases, reg.cancelled, reg.admissions, reg.actors, reg.attempt,
                         reg.search, reg.stopped>>
      BY <2>u, <2>v, <2>w
    <2>3. /\ child' = [child EXCEPT ![g] = IF alive THEN child[g] ELSE "Reaped"]
          /\ g \notin reg.spawning /\ (alive => x = "Failed" /\ child[g] = "Alive")
      BY <2>1 DEF TerminationEnds
    <2>4. /\ child'[g] = IF alive THEN child[g] ELSE "Reaped"
          /\ \A h \in Gens : h # g => child'[h] = child[h] /\ reg'.results[h] = reg.results[h]
          /\ reg'.results[g] = q
      BY <1>0, <2>2, <2>3 DEF TypeOK, Registry
    <2>5. /\ Len(q) = Len(reg.results[g]) /\ DOMAIN q = DOMAIN reg.results[g]
          /\ q[n] = x /\ \A i \in DOMAIN q : i # n => q[i] = reg.results[g][i]
      <3>1. q \in Seq(Outcomes) /\ reg.results[g] \in Seq(Outcomes)
        BY <2>2, <2>4 DEF Registry
      <3>2. DOMAIN q = DOMAIN reg.results[g]
        OBVIOUS
      <3>3. Len(q) = Len(reg.results[g])
        BY <3>1, <3>2, LenProperties
      <3> QED BY <2>2, <3>2, <3>3
    <2> HIDE DEF q
    <2>6. pc[g] \notin Early /\ pc[g] # "Spawning"
      <3>1. reg.results[g] # <<>>
        BY <2>2
      <3> QED BY <1>0, <2>3, <3>1 DEF RegOK, EarlyOK, SpawnsSeen
    <2>7. ActorsOK(reg, pc, launch)'
      BY <1>0, <1>1, <2>2 DEF RegOK, ActorsOK
    <2>8. EarlyOK(reg, pc, child)'
      BY <1>0, <1>1, <2>2, <2>4, <2>6 DEF RegOK, EarlyOK
    <2>9. AttemptsOK(reg, child)'
      <3> SUFFICES ASSUME NEW h \in Gens
                   PROVE  /\ reg'.attempt[h] <= Len(reg'.results[h])
                          /\ \A i \in DOMAIN reg'.results[h] :
                                /\ reg'.results[h][i] = "Ok" => child'[h] = "Reaped"
                                /\ reg'.results[h][i] = "Failed" => child'[h] \in {"Alive", "Reaped"}
        BY DEF AttemptsOK
      <3>1. CASE h # g
        BY <1>0, <2>2, <2>4, <3>1 DEF RegOK, AttemptsOK
      <3>2. CASE h = g
        BY <1>0, <2>2, <2>3, <2>4, <2>5, <3>2 DEF RegOK, AttemptsOK
      <3> QED BY <3>1, <3>2
    <2> QED BY <1>1, <2>2, <2>4, <2>5, <2>7, <2>8, <2>9 DEF TerminationFrame, RegOK
  <1> QED BY <1>2, <1>3

\* Nothing lives at first.
LEMMA LifeInit == Init => Life
  <1> SUFFICES ASSUME Init PROVE Life
    OBVIOUS
  <1>1. Inv
    BY InvInit
  <1>2. RegOK(reg, pc, child, launch)
    BY DEF Init, RegOK, ActorsOK, EarlyOK, AttemptsOK, Early
  <1>3. AwaitsOK /\ GuardsOK /\ LocksOK
    BY GenFacts DEF Init, AwaitsOK, Awaits, NoTask, GuardsOK, LocksOK
  <1>4. ArmedOK
    BY DEF Init, ArmedOK, Armed
  <1> QED BY <1>1, <1>2, <1>3, <1>4 DEF Life

\* Every step keeps it.
LEMMA LifeStep ==
    ASSUME Life, [Next]_vars
    PROVE  Life'
  <1>0. Inv' /\ Inv /\ TypeOK /\ reg \in Registry
    BY InvStep DEF Life, Inv, TypeOK
  <1>r. reg' \in Registry /\ \A o \in Tasks : task[o] \in TaskRecord
    BY <1>0 DEF Inv, TypeOK, TaskOK
  <1>k. Ops \cap Gens = {} /\ \A g \in Gens : g # 0 /\ g \in Tasks
    BY SupervisorAssumption, GenFacts
  <1>1. ASSUME NEW g \in Gens, LaunchStep(g)
        PROVE  Life'
    <2>1. LaunchFrame(g) /\ LaunchWrites(g)
      BY <1>1 DEF LaunchStep
    <2>2. AwaitsOK'
      <3> SUFFICES ASSUME NEW o \in Tasks PROVE Awaits(task'[o], reg')
        BY DEF AwaitsOK
      <3>1. CASE task'[o] = task[o]
        BY <1>0, <1>r, <2>1, <3>1, AwaitsLater DEF Life, AwaitsOK, LaunchWrites
      <3>2. CASE task'[o] \in {ReleaseOf(g), ExactOf(g)}
        BY <3>2 DEF Awaits, ReleaseOf, ExactOf, NoTask
      <3> QED BY <2>1, <3>1, <3>2 DEF LaunchFrame
    <2>3. GuardsOK'
      BY <1>k, <2>1 DEF Life, GuardsOK, LaunchFrame
    <2>4. ArmedOK'
      <3> SUFFICES ASSUME NEW h \in Gens
                   PROVE  /\ pc'[h] \in Armed => h \in reg'.leases
                          /\ pc'[h] = "Prepared" => h \in reg'.cancelled \/ reg'.admissions[KeyOf(h)'] = h
        BY DEF ArmedOK
      <3>1. CASE h = g
        BY <2>1, <3>1 DEF LaunchWrites
      <3>2. CASE h # g
        <4>1. KeyOf(h)' = KeyOf(h) /\ KeyOf(h) \in Keys /\ pc'[h] = pc[h]
          BY <2>1, <3>2, LifeFacts DEF LaunchFrame, KeyOf
        <4> QED BY <1>k, <2>1, <3>2, <4>1 DEF Life, ArmedOK, LaunchWrites
      <3> QED BY <3>1, <3>2
    <2> QED BY <1>0, <2>1, <2>2, <2>3, <2>4 DEF Life, LaunchFrame, LaunchWrites, OwnLocks
  <1>2. ASSUME NEW o \in Tasks, CommandFrame(o)
        PROVE  Life'
    <2>1. RegOK(reg, pc, child, launch)'
      BY <1>2 DEF Life, CommandFrame, Orderly
    <2>2. AwaitsOK'
      <3> SUFFICES ASSUME NEW m \in Tasks PROVE Awaits(task'[m], reg')
        BY DEF AwaitsOK
      <3>1. CASE m = o
        BY <1>2, <3>1 DEF CommandFrame
      <3>2. CASE m # o
        BY <1>0, <1>2, <1>r, <3>2, AwaitsLater DEF Life, AwaitsOK, CommandFrame, Orderly
      <3> QED BY <3>1, <3>2
    <2>3. GuardsOK'
      BY <1>2, <1>k DEF Life, GuardsOK, CommandFrame
    <2>4. ArmedOK'
      <3> SUFFICES ASSUME NEW h \in Gens
                   PROVE  /\ pc'[h] \in Armed => h \in reg'.leases
                          /\ pc'[h] = "Prepared" => h \in reg'.cancelled \/ reg'.admissions[KeyOf(h)'] = h
        BY DEF ArmedOK
      <3>1. KeyOf(h)' = KeyOf(h) /\ KeyOf(h) \in Keys /\ pc'[h] = pc[h]
        BY <1>2, LifeFacts DEF CommandFrame, KeyOf
      <3> QED BY <1>2, <1>k, <3>1 DEF Life, ArmedOK, CommandFrame, Orderly, Keeps
    <2> QED BY <1>0, <1>2, <2>1, <2>2, <2>3, <2>4 DEF Life, CommandFrame, OwnLocks
  <1>3. CASE TerminationFrame
    <2>1. Longer(reg, reg')
      BY <1>0, <1>3 DEF TerminationFrame, Longer, Registry
    <2>2. AwaitsOK'
      BY <1>0, <1>3, <1>r, <2>1, AwaitsLater DEF Life, AwaitsOK, TerminationFrame
    <2>3. GuardsOK' /\ ArmedOK' /\ LocksOK'
      BY <1>3 DEF Life, GuardsOK, ArmedOK, LocksOK, KeyOf, TerminationFrame
    <2> QED BY <1>0, <1>3, <2>2, <2>3 DEF Life, TerminationFrame
  <1>4. CASE UNCHANGED vars
    BY <1>0, <1>4 DEF vars, Life, RegOK, ActorsOK, EarlyOK, AttemptsOK, AwaitsOK, Awaits,
                      GuardsOK, ArmedOK, LocksOK, KeyOf
  <1>5. Ops \subseteq Tasks
    BY DEF Tasks
  <1> QED BY <1>1, <1>2, <1>3, <1>4, <1>5, LaunchLife, TaskLife, BeginLife, TerminationLife DEF Next

\* What a generation is, from its admission to the end of its child.
THEOREM Lives == Spec => []Life
  BY LifeInit, LifeStep, PTL DEF Spec

-----------------------------------------------------------------------------
(* Drains.                                                                 *)

\* What a drain is about: its kind and its name.
Scopes == Drains \X Names

\* The tombstone of a scope is there, or was evicted by later ones.
Marked(r) ==
    /\ r[1] = "All" => sealed
    /\ r[1] = "Engine" => r \in retired.evicted \/ Retired(retired.ids, r[2])
    /\ r[1] = "Executable" => r \in retired.evicted \/ Retired(retired.exes, r[2])

\* No launch of the scope can get a child any more.
Shut(r) == \A g \in Gens : Swept(r, g) /\ pc[g] \in Open => g \in reg.cancelled

\* And none has one.
Gone(r) == \A g \in Gens : Swept(r, g) => child[g] \notin {"Slot", "Alive"}

TombsOK ==
    /\ retired = [ids |-> retired.ids, exes |-> retired.exes, pairs |-> retired.pairs,
                  evicted |-> retired.evicted]
    /\ retired.ids \in Seq(Names) /\ retired.exes \in Seq(Names)

\* What a drain has looked at is gone, or the drain still waits for it, or
\* it will report the failure.
WatchOK(t, s, c) ==
    t.kind \in Drains =>
       /\ t.phase \in {"Begun", "Marked"} => t.visited = {}
       /\ t.phase \in {"Begun", "Marked", "Scan"} => t.locks = {} /\ t.waits = {}
       /\ ~t.failed =>
             \A g \in t.visited :
                \/ c[g] = "Reaped"
                \/ \E n \in DOMAIN s.results[g] : <<g, n>> \in t.locks \cup t.waits

\* A drain has left its tombstone before it asks for a lock, and shut its
\* scope once it is past the barrier.
ScopesOK ==
    \A o \in Tasks, r \in Scopes : r = <<task[o].kind, task[o].name>> =>
       /\ task[o].phase \in {"Marked", "Scan", "Wait"} => Marked(r)
       /\ task[o].phase \in {"Scan", "Wait"} => Shut(r)

\* What a drain that returned leaves behind, for good.
ReturnedOK == \A r \in returned : r \in Scopes /\ Marked(r) /\ Shut(r) /\ Gone(r)

WatchesOK == \A o \in Tasks : WatchOK(task[o], reg, child)

Drained == Life /\ TombsOK /\ ScopesOK /\ ReturnedOK /\ WatchesOK

\* RetiredSet::insert leaves the new tombstone in the set, and any other that
\* was there unless it is evicted.
LEMMA InsertKeeps ==
    ASSUME NEW S, NEW s \in Seq(S), NEW x \in S
    PROVE  /\ RetiredInsert(s, x) \in Seq(S)
           /\ Retired(RetiredInsert(s, x), x)
           /\ \A y : Retired(s, y) => y \in Evicted(s, x) \/ Retired(RetiredInsert(s, x), y)
  <1> DEFINE t == Append(s, x)
  <1>1. CASE \E i \in DOMAIN s : s[i] = x
    <2>1. RetiredInsert(s, x) = s
      BY <1>1 DEF RetiredInsert
    <2> QED BY <1>1, <2>1 DEF Retired
  <1>2. CASE ~\E i \in DOMAIN s : s[i] = x
    <2>1. RetiredInsert(s, x) = IF Len(t) > Capacity THEN Tail(t) ELSE t
      BY <1>2 DEF RetiredInsert
    <2>2. t \in Seq(S) /\ Len(t) = Len(s) + 1 /\ Len(s) \in Nat /\ t[Len(t)] = x
      OBVIOUS
    <2> HIDE DEF t
    <2>3. CASE Len(t) > Capacity
      <3>1. Len(t) \in Nat /\ Len(t) >= 2
        BY <2>2, <2>3, SupervisorAssumption
      <3>2. t # <<>>
        BY <3>1
      <3>3. /\ Tail(t) \in Seq(S) /\ Len(Tail(t)) = Len(t) - 1
            /\ \A i \in 1..Len(Tail(t)) : Tail(t)[i] = t[i + 1]
        BY <2>2, <3>2, HeadTailProperties
      <3>4. Len(t) - 1 \in DOMAIN Tail(t) /\ Tail(t)[Len(t) - 1] = x
        BY <2>2, <3>1, <3>3
      <3> QED BY <2>1, <2>3, <3>3, <3>4 DEF Retired, Evicted
    <2>4. CASE ~(Len(t) > Capacity)
      <3>1. Len(t) \in DOMAIN t
        BY <2>2
      <3> QED BY <2>1, <2>2, <2>4, <3>1 DEF Retired, Evicted
    <2>5. Len(t) > Capacity \/ ~(Len(t) > Capacity)
      OBVIOUS
    <2> QED BY <2>3, <2>4, <2>5
  <1> QED BY <1>1, <1>2

\* Tombstones stay until they are evicted, and the seal for good.
PolicyGrows ==
    /\ TombsOK' /\ retired.evicted \subseteq retired'.evicted
    /\ \A r \in Scopes : Marked(r) => Marked(r)'

\* retire_engine, retire_executables and terminate_all leave their tombstone.
LEMMA MarkPolicy ==
    ASSUME Life, TombsOK, NEW o \in Tasks, DrainMark(o)
    PROVE  /\ PolicyGrows
           /\ \A r \in Scopes : r = <<task[o].kind, task[o].name>> => Marked(r)'
  <1> DEFINE kind == task[o].kind
             name == task[o].name
  <1>0. name \in Names /\ kind \in Drains
    BY TaskFacts DEF TaskRecord, DrainMark
  <1>p. \A r \in Scopes : r = <<r[1], r[2]>> /\ r[2] \in Names
    BY DEF Scopes
  <1>s. (sealed => sealed') /\ (kind = "All" => sealed')
    <2>1. sealed' = (sealed \/ kind = "All")
      BY DEF DrainMark
    <2> QED BY <2>1, Zenon
  <1>1. CASE kind = "Engine"
    <2> DEFINE new == RetiredInsert(retired.ids, name)
               lost == retired.evicted \cup {<<kind, y>> : y \in Evicted(retired.ids, name)}
    <2>1. retired' = [retired EXCEPT !.ids = new, !.evicted = lost]
      BY <1>1 DEF DrainMark
    <2>2. /\ new \in Seq(Names) /\ Retired(new, name)
          /\ \A y : Retired(retired.ids, y) => y \in Evicted(retired.ids, name) \/ Retired(new, y)
      BY <1>0, InsertKeeps DEF TombsOK
    <2>3. \A y : y \in Evicted(retired.ids, name) => <<"Engine", y>> \in lost
      BY <1>1
    <2>4. retired.evicted \subseteq lost
      OBVIOUS
    <2> HIDE DEF new, lost
    <2>5. /\ retired'.ids = new /\ retired'.exes = retired.exes
          /\ retired'.pairs = retired.pairs /\ retired'.evicted = lost
          /\ retired' = [ids |-> new, exes |-> retired.exes, pairs |-> retired.pairs,
                         evicted |-> lost]
      BY <2>1 DEF TombsOK
    <2>6. TombsOK' /\ retired.evicted \subseteq retired'.evicted
      BY <2>2, <2>4, <2>5 DEF TombsOK
    <2>7. ASSUME NEW r \in Scopes, Marked(r) \/ r = <<kind, name>>
          PROVE  Marked(r)'
      BY <1>1, <1>p, <1>s, <2>2, <2>3, <2>4, <2>5, <2>7 DEF Marked
    <2> QED BY <2>6, <2>7 DEF PolicyGrows
  <1>2. CASE kind = "Executable"
    <2> DEFINE new == RetiredInsert(retired.exes, name)
               lost == retired.evicted \cup {<<kind, y>> : y \in Evicted(retired.exes, name)}
    <2>1. retired' = [retired EXCEPT !.exes = new, !.evicted = lost]
      BY <1>2 DEF DrainMark
    <2>2. /\ new \in Seq(Names) /\ Retired(new, name)
          /\ \A y : Retired(retired.exes, y) => y \in Evicted(retired.exes, name) \/ Retired(new, y)
      BY <1>0, InsertKeeps DEF TombsOK
    <2>3. \A y : y \in Evicted(retired.exes, name) => <<"Executable", y>> \in lost
      BY <1>2
    <2>4. retired.evicted \subseteq lost
      OBVIOUS
    <2> HIDE DEF new, lost
    <2>5. /\ retired'.ids = retired.ids /\ retired'.exes = new
          /\ retired'.pairs = retired.pairs /\ retired'.evicted = lost
          /\ retired' = [ids |-> retired.ids, exes |-> new, pairs |-> retired.pairs,
                         evicted |-> lost]
      BY <2>1 DEF TombsOK
    <2>6. TombsOK' /\ retired.evicted \subseteq retired'.evicted
      BY <2>2, <2>4, <2>5 DEF TombsOK
    <2>7. ASSUME NEW r \in Scopes, Marked(r) \/ r = <<kind, name>>
          PROVE  Marked(r)'
      BY <1>2, <1>p, <1>s, <2>2, <2>3, <2>4, <2>5, <2>7 DEF Marked
    <2> QED BY <2>6, <2>7 DEF PolicyGrows
  <1>3. CASE kind \notin {"Engine", "Executable"}
    <2>1. retired' = retired
      BY <1>3 DEF DrainMark
    <2>2. ASSUME NEW r \in Scopes, Marked(r) \/ r = <<kind, name>>
          PROVE  Marked(r)'
      BY <1>3, <1>p, <1>s, <2>1, <2>2 DEF Marked
    <2> QED BY <2>1, <2>2 DEF PolicyGrows, TombsOK
  <1> QED BY <1>1, <1>2, <1>3

\* A binary that is replaced touches no tombstone of a drain.
LEMMA BinaryPolicy ==
    ASSUME TombsOK, NEW o \in Tasks, BinaryRetire(o)
    PROVE  PolicyGrows
  <1>1. PICK p : retired' = [retired EXCEPT !.pairs = p]
    BY DEF BinaryRetire
  <1>2. /\ retired'.ids = retired.ids /\ retired'.exes = retired.exes
        /\ retired'.evicted = retired.evicted /\ retired'.pairs = p
        /\ retired' = [ids |-> retired.ids, exes |-> retired.exes, pairs |-> p,
                       evicted |-> retired.evicted]
    BY <1>1 DEF TombsOK
  <1>3. sealed' = sealed
    BY DEF BinaryRetire
  <1>4. \A r \in Scopes : Marked(r) => Marked(r)'
    BY <1>2, <1>3 DEF Marked
  <1>5. TombsOK'
    BY <1>2 DEF TombsOK
  <1> QED BY <1>2, <1>4, <1>5 DEF PolicyGrows

\* Nothing else changes the policy.
LEMMA PolicyStep ==
    ASSUME Life, TombsOK, [Next]_vars
    PROVE  PolicyGrows
  <1>1. ASSUME UNCHANGED policyVars PROVE PolicyGrows
    <2>1. sealed' = sealed /\ retired' = retired
      BY <1>1 DEF policyVars
    <2>2. \A r \in Scopes : Marked(r) => Marked(r)'
      BY <2>1 DEF Marked
    <2> QED BY <2>1, <2>2 DEF PolicyGrows, TombsOK
  <1>2. ASSUME NEW g \in Gens, LaunchNext(g) PROVE PolicyGrows
    BY <1>1, <1>2, LaunchLife DEF LaunchStep, LaunchFrame, policyVars
  <1>3. ASSUME NEW g \in Gens, Terminations(g) \/ ChildExits(g) PROVE PolicyGrows
    BY <1>1, <1>3, TerminationLife DEF TerminationFrame, policyVars
  <1>4. ASSUME NEW o \in Ops, NEW c \in Commands, Begin(o, c) PROVE PolicyGrows
    BY <1>1, <1>4 DEF Begin
  <1>5. ASSUME NEW o \in Tasks, TaskNext(o) PROVE PolicyGrows
    <2>1. CASE DrainMark(o)
      BY <2>1, MarkPolicy
    <2>2. CASE BinaryRetire(o)
      BY <2>2, BinaryPolicy
    <2>3. CASE UNCHANGED policyVars
      BY <1>1, <2>3
    <2>4. DrainMark(o) \/ BinaryRetire(o) \/ UNCHANGED policyVars
      BY <1>5 DEF TaskNext, StopCapture, StopSelect, StopBind, StopLock, StopWarm, StopReap,
                  ExactBind, ExactLock, Flag, Kill, CommandEnds, DrainBarrier, DrainScan,
                  DrainAgain, DrainLock, DrainAwait, BinaryResume
    <2> QED BY <2>1, <2>2, <2>3, <2>4
  <1>6. CASE UNCHANGED vars
    BY <1>1, <1>6 DEF vars, policyVars
  <1> QED BY <1>2, <1>3, <1>4, <1>5, <1>6 DEF Next

\* What any step does to children: one that is reaped stays so, and a new
\* one is the child of a launch that was open and not cancelled.
Onward ==
    /\ reg' \in Registry /\ Longer(reg, reg') /\ reg.cancelled \subseteq reg'.cancelled
    /\ \A g \in Gens :
          /\ child[g] = "Reaped" => child'[g] = "Reaped"
          /\ pc'[g] \in Open =>
                launch'[g] = launch[g] /\ (pc[g] \in Open \/ Policy(g))
          /\ child'[g] \in {"Slot", "Alive"} =>
                /\ launch'[g] = launch[g]
                /\ child[g] \in {"Slot", "Alive"} \/ (pc[g] \in Open /\ g \notin reg.cancelled)

\* Every step is such a step.
LEMMA OnwardStep ==
    ASSUME Life, [Next]_vars
    PROVE  Onward
  <1>0. reg' \in Registry
    BY LifeStep DEF Life, Inv, TypeOK
  <1>e. /\ EarlyOK(reg, pc, child) /\ reg \in Registry
        /\ \A h \in Gens : Len(reg.results[h]) \in Nat
    BY DEF Life, Inv, TypeOK, RegOK, Registry
  <1>1. ASSUME NEW g \in Gens, LaunchStep(g)
        PROVE  Onward
    <2>1. Longer(reg, reg') /\ reg.cancelled \subseteq reg'.cancelled
      BY <1>1 DEF LaunchStep, LaunchWrites
    <2>2. ASSUME NEW h \in Gens
          PROVE  /\ child[h] = "Reaped" => child'[h] = "Reaped"
                 /\ pc'[h] \in Open => launch'[h] = launch[h] /\ (pc[h] \in Open \/ Policy(h))
                 /\ child'[h] \in {"Slot", "Alive"} =>
                       /\ launch'[h] = launch[h]
                       /\ \/ child[h] \in {"Slot", "Alive"}
                          \/ pc[h] \in Open /\ h \notin reg.cancelled
      <3>1. CASE h # g
        BY <1>1, <3>1 DEF LaunchStep, LaunchFrame
      <3>2. CASE h = g
        BY <1>1, <1>e, <3>2 DEF LaunchStep, LaunchFrame, EarlyOK, Early, Open
      <3> QED BY <3>1, <3>2
    <2> QED BY <1>0, <2>1, <2>2 DEF Onward
  <1>2. ASSUME NEW o \in Tasks, CommandFrame(o)
        PROVE  Onward
    <2>1. /\ launch' = launch /\ pc' = pc /\ child' = child /\ Longer(reg, reg')
          /\ reg.cancelled \subseteq reg'.cancelled
      BY <1>2 DEF CommandFrame, Orderly, Keeps
    <2> QED BY <1>0, <2>1 DEF Onward
  <1>3. CASE TerminationFrame
    <2>1. /\ launch' = launch /\ pc' = pc /\ reg'.cancelled = reg.cancelled
          /\ \A h \in Gens : child'[h] = child[h] \/ child'[h] = "Reaped"
      BY <1>3 DEF TerminationFrame
    <2>2. Longer(reg, reg')
      BY <1>e, <1>3 DEF TerminationFrame, Longer
    <2> QED BY <1>0, <2>1, <2>2 DEF Onward
  <1>4. CASE UNCHANGED vars
    BY <1>0, <1>4, <1>e DEF vars, Onward, Longer
  <1>5. Ops \subseteq Tasks
    BY DEF Tasks
  <1> QED BY <1>1, <1>2, <1>3, <1>4, <1>5, LaunchLife, TaskLife, BeginLife, TerminationLife DEF Next

\* The policy refuses a launch of a scope whose tombstone is there.
LEMMA SweptIsRefused ==
    ASSUME NEW r, NEW g \in Gens, Marked(r), Swept(r, g)
    PROVE  ~Policy(g)
  BY DEF Marked, Swept, Policy

\* A scope that is shut stays shut, and then what is gone stays gone.
LEMMA ScopeKept ==
    ASSUME Onward, PolicyGrows, NEW r \in Scopes, Marked(r)
    PROVE  /\ Marked(r)'
           /\ Shut(r) => Shut(r)'
           /\ Shut(r) /\ Gone(r) => Gone(r)'
  <1>1. ASSUME NEW g \in Gens, launch'[g] = launch[g], Swept(r, g)'
        PROVE  Swept(r, g)
    BY <1>1 DEF Swept, PolicyGrows
  <1>2. ASSUME Shut(r) PROVE Shut(r)'
    <2> SUFFICES ASSUME NEW g \in Gens, Swept(r, g)', pc'[g] \in Open
                 PROVE  g \in reg'.cancelled
      BY DEF Shut
    <2>1. launch'[g] = launch[g] /\ (pc[g] \in Open \/ Policy(g))
      BY DEF Onward
    <2>2. Swept(r, g)
      BY <1>1, <2>1
    <2>3. pc[g] \in Open
      BY <2>1, <2>2, SweptIsRefused
    <2> QED BY <1>2, <2>2, <2>3 DEF Shut, Onward
  <1>3. ASSUME Shut(r), Gone(r) PROVE Gone(r)'
    <2> SUFFICES ASSUME NEW g \in Gens, Swept(r, g)', child'[g] \in {"Slot", "Alive"}
                 PROVE  FALSE
      BY DEF Gone
    <2>1. /\ launch'[g] = launch[g]
          /\ child[g] \in {"Slot", "Alive"} \/ (pc[g] \in Open /\ g \notin reg.cancelled)
      BY DEF Onward
    <2>2. Swept(r, g)
      BY <1>1, <2>1
    <2> QED BY <1>3, <2>1, <2>2 DEF Shut, Gone
  <1> QED BY <1>2, <1>3 DEF PolicyGrows

\* What a drain has looked at, it need not look at again.
LEMMA WatchKept ==
    ASSUME Onward, reg \in Registry, NEW t \in TaskRecord, WatchOK(t, reg, child)
    PROVE  WatchOK(t, reg', child')
  <1>1. \A g \in Gens : DOMAIN reg.results[g] \subseteq DOMAIN reg'.results[g]
    <2> SUFFICES ASSUME NEW g \in Gens PROVE DOMAIN reg.results[g] \subseteq DOMAIN reg'.results[g]
      OBVIOUS
    <2>1. reg.results[g] \in Seq(Outcomes) /\ reg'.results[g] \in Seq(Outcomes)
      BY DEF Onward, Registry
    <2>2. Len(reg.results[g]) <= Len(reg'.results[g])
      BY DEF Onward, Longer
    <2>3. /\ DOMAIN reg.results[g] = 1..Len(reg.results[g]) /\ Len(reg.results[g]) \in Nat
          /\ DOMAIN reg'.results[g] = 1..Len(reg'.results[g]) /\ Len(reg'.results[g]) \in Nat
      BY <2>1
    <2> QED BY <2>2, <2>3
  <1>2. \A g \in Gens : child[g] = "Reaped" => child'[g] = "Reaped"
    BY DEF Onward
  <1>3. t.visited \subseteq Gens
    BY DEF TaskRecord
  <1> QED BY <1>1, <1>2, <1>3 DEF WatchOK

\* What the step of a task must leave of it for drains.
DrainGoesOn(o) ==
    /\ WatchOK(task'[o], reg', child')
    /\ \A r \in Scopes : r = <<task'[o].kind, task'[o].name>> =>
          /\ task'[o].phase \in {"Marked", "Scan", "Wait"} => Marked(r)'
          /\ task'[o].phase \in {"Scan", "Wait"} => Shut(r)'
    /\ \/ returned' = returned
       \/ \E r \in Scopes : returned' = returned \cup {r} /\ Marked(r)' /\ Shut(r)' /\ Gone(r)'

\* A task that is not a drain.
LEMMA NoDrainGoesOn ==
    ASSUME NEW o \in Tasks, task'[o].kind \notin Drains, returned' = returned
    PROVE  DrainGoesOn(o)
  BY DEF DrainGoesOn, WatchOK, Scopes

\* A task stays what it is until it ends, and is about the same generation.
LEMMA TaskKept ==
    ASSUME Life, NEW o \in Tasks, TaskNext(o)
    PROVE  task'[o].kind \in {"None", task[o].kind} /\ task'[o].gen \in {0, task[o].gen}
  <1> DEFINE t == task[o]
             k == t.key
             To(p, g) == task' = [task EXCEPT ![o].phase = p, ![o].selected = g]
  <1>1. t \in TaskRecord /\ DOMAIN task = Tasks
    BY TaskFacts DEF TypeOK
  <1>2. Finished.kind = "None" /\ Finished.gen = 0
    BY DEF Finished, NoTask
  <1>3. CASE task' = [task EXCEPT ![o] = Finished]
    BY <1>1, <1>2, <1>3
  <1>4. CASE StopCapture(o)
    <2>1. PICK T, a : \/ task' = [task EXCEPT ![o] = Finished]
                      \/ task' = [task EXCEPT ![o] =
                                    [t EXCEPT !.phase = "Captured", !.targets = T, !.admission = a]]
      BY <1>4 DEF StopCapture
    <2> QED BY <1>1, <1>3, <2>1 DEF TaskRecord
  <1>5. CASE StopSelect(o) \/ StopLock(o)
    <2>1. \A p, g : To(p, g) => task'[o].kind = t.kind /\ task'[o].gen = t.gen
      BY <1>1 DEF TaskRecord
    <2>2. \/ task' = [task EXCEPT ![o] = Finished]
          \/ To("Wait", t.selected) \/ To("Reap", t.selected)
          \/ To("Stopping", reg.actors[k]) \/ To("Reap", reg.actors[k])
          \/ To("Selected", IF Serving(k, t.targets) = {} THEN 0 ELSE reg.actors[k])
      BY <1>5 DEF StopSelect, StopLock
    <2> HIDE DEF To
    <2> QED BY <1>3, <2>1, <2>2
  <1>6. CASE StopBind(o) \/ StopReap(o) \/ ExactBind(o) \/ Kill(o) \/ BinaryRetire(o)
    <2>1. PICK p, w : task' = [task EXCEPT ![o].phase = p, ![o].waits = w]
      BY <1>6 DEF StopBind, StopReap, ExactBind, Kill, BinaryRetire
    <2> QED BY <1>1, <2>1 DEF TaskRecord
  <1>7. CASE \/ StopWarm(o) \/ ExactLock(o) \/ Flag(o) \/ CommandEnds(o)
             \/ DrainMark(o) \/ DrainBarrier(o) \/ DrainAgain(o)
    <2>1. PICK p : \/ task' = [task EXCEPT ![o] = Finished]
                   \/ task' = [task EXCEPT ![o].phase = p]
      BY <1>7 DEF StopWarm, ExactLock, Flag, CommandEnds, DrainMark, DrainBarrier, DrainAgain
    <2> QED BY <1>1, <1>3, <2>1 DEF TaskRecord
  <1>8. CASE BinaryResume(o)
    <2>1. PICK w : task' = [task EXCEPT ![o].waits = w]
      BY <1>8 DEF BinaryResume
    <2> QED BY <1>1, <2>1 DEF TaskRecord
  <1>9. CASE DrainScan(o)
    <2> DEFINE New == {g \in Gens : Matches(t, g) /\ g \notin t.visited}
               A == New \cap Published(reg)
               P == New \cap reg.pending
               V == t.visited \cup A \cup P
               L == Attempts(reg', A)
               W == Attempts(reg', P \ A)
               u == [t EXCEPT !.phase = "Wait", !.visited = V, !.locks = L, !.waits = W]
    <2>1. task' = [task EXCEPT ![o] = Finished] \/ task' = [task EXCEPT ![o] = u]
      BY <1>9 DEF DrainScan
    <2> HIDE DEF V, L, W
    <2>2. u.kind = t.kind /\ u.gen = t.gen
      BY <1>1 DEF TaskRecord
    <2> HIDE DEF u
    <2> QED BY <1>1, <1>3, <2>1, <2>2
  <1>10. CASE \E a \in t.locks : DrainLock(o, a)
    <2>1. PICK l, w : task' = [task EXCEPT ![o].locks = l, ![o].waits = w]
      BY <1>10 DEF DrainLock
    <2> QED BY <1>1, <2>1 DEF TaskRecord
  <1>11. CASE \E a \in t.waits : DrainAwait(o, a)
    <2>1. PICK w, f : task' = [task EXCEPT ![o].waits = w, ![o].failed = f]
      BY <1>11 DEF DrainAwait
    <2> QED BY <1>1, <2>1 DEF TaskRecord
  <1> QED BY <1>4, <1>5, <1>6, <1>7, <1>8, <1>9, <1>10, <1>11 DEF TaskNext

\* A command that is not a drain does not become one.
LEMMA OthersGoOn ==
    ASSUME Life, NEW o \in Tasks, TaskNext(o),
           \/ StopCapture(o) \/ StopSelect(o) \/ StopBind(o) \/ StopLock(o)
           \/ StopWarm(o) \/ StopReap(o)
           \/ ExactBind(o) \/ ExactLock(o) \/ Flag(o) \/ Kill(o) \/ CommandEnds(o)
           \/ BinaryRetire(o) \/ BinaryResume(o)
    PROVE  DrainGoesOn(o)
  <1>1. returned' = returned /\ task[o].kind \notin Drains
    BY DEF StopCapture, StopSelect, StopBind, StopLock, StopWarm, StopReap, ExactBind, ExactLock,
           Flag, Kill, CommandEnds, BinaryRetire, BinaryResume, Drains
  <1>2. "None" \notin Drains
    BY DEF Drains
  <1> QED BY <1>1, <1>2, TaskKept, NoDrainGoesOn

\* A drain that only moves on from one phase to another.
LEMMA DrainMoves ==
    ASSUME Life, ScopesOK, WatchesOK, Onward, PolicyGrows, NEW o \in Tasks,
           task[o].kind \in Drains, NEW p, task' = [task EXCEPT ![o].phase = p],
           returned' = returned,
           p \in {"Marked", "Scan", "Wait"} =>
              \A r \in Scopes : r = <<task[o].kind, task[o].name>> => Marked(r)',
           p \in {"Scan", "Wait"} =>
              \A r \in Scopes : r = <<task[o].kind, task[o].name>> => Shut(r)',
           p \in {"Begun", "Marked"} => task[o].visited = {},
           p \in {"Begun", "Marked", "Scan"} => task[o].locks = {} /\ task[o].waits = {}
    PROVE  DrainGoesOn(o)
  <1> DEFINE t == task[o]
             u == [t EXCEPT !.phase = p]
  <1>1. t \in TaskRecord /\ DOMAIN task = Tasks /\ reg \in Registry
    BY TaskFacts DEF TypeOK
  <1>2. WatchOK(t, reg', child')
    BY <1>1, WatchKept DEF WatchesOK
  <1>3. task'[o] = u
    BY <1>1
  <1>4. /\ u.kind = t.kind /\ u.name = t.name /\ u.phase = p /\ u.visited = t.visited
        /\ u.locks = t.locks /\ u.waits = t.waits /\ u.failed = t.failed
    BY <1>1 DEF TaskRecord
  <1> HIDE DEF u
  <1>5. WatchOK(u, reg', child')
    BY <1>2, <1>4 DEF WatchOK
  <1> QED BY <1>3, <1>4, <1>5 DEF DrainGoesOn

\* What a drain that is under way knows of its scope stays so.
LEMMA DrainKnows ==
    ASSUME ScopesOK, Onward, PolicyGrows, NEW o \in Tasks
    PROVE  \A r \in Scopes : r = <<task[o].kind, task[o].name>> =>
              /\ task[o].phase \in {"Marked", "Scan", "Wait"} => Marked(r) /\ Marked(r)'
              /\ task[o].phase \in {"Scan", "Wait"} => Shut(r) /\ Shut(r)'
  BY ScopeKept DEF ScopesOK

\* An engine a scope sweeps is one its drain matches.
LEMMA SweptMatches ==
    ASSUME NEW t, NEW r, r = <<t.kind, t.name>>, NEW g, Swept(r, g)
    PROVE  Matches(t, g)
  BY DEF Swept, Matches

\* The barrier shuts the scope: a launch that may still get a child has its
\* admission in the map.
LEMMA BarrierShuts ==
    ASSUME Life, ScopesOK, WatchesOK, Onward, PolicyGrows, NEW o \in Tasks, DrainBarrier(o)
    PROVE  DrainGoesOn(o)
  <1> DEFINE t == task[o]
             c == CancelExact(reg, Admissions(t))
             m == MarkCancelled(c, Published(c))
  <1>0. reg \in Registry /\ launch' = launch /\ pc' = pc /\ retired' = retired
    BY TaskFacts DEF DrainBarrier, Calm, policyVars
  <1>1. /\ t.kind \in Drains /\ t.phase = "Marked" /\ returned' = returned
        /\ reg' \in {m, c} /\ task' = [task EXCEPT ![o].phase = "Scan"]
    BY DEF DrainBarrier
  <1>2. c.cancelled = reg.cancelled \cup Admissions(t)
    BY <1>0 DEF CancelExact, Registry
  <1>3. c \in Registry
    BY <1>0, AdmissionsType, CancelExactKeeps
  <1> HIDE DEF c
  <1>4. c.cancelled \subseteq m.cancelled
    BY <1>3 DEF MarkCancelled, Registry
  <1> HIDE DEF m
  <1>5. ASSUME NEW r \in Scopes, r = <<t.kind, t.name>>
        PROVE  Shut(r)'
    <2> SUFFICES ASSUME NEW g \in Gens, Swept(r, g)', pc'[g] \in Open
                 PROVE  g \in reg'.cancelled
      BY DEF Shut
    <2>1. Swept(r, g)
      BY <1>0 DEF Swept
    <2>2. Matches(t, g)
      BY <1>5, <2>1, SweptMatches
    <2>3. g \in reg.cancelled \/ reg.admissions[KeyOf(g)] = g
      BY <1>0 DEF Life, ArmedOK, Open, Armed, Inv, LeasesRegistered
    <2>4. KeyOf(g) \in Keys /\ g # 0
      BY LifeFacts
    <2>5. g \in c.cancelled
      BY <1>2, <2>2, <2>3, <2>4 DEF Admissions
    <2> QED BY <1>1, <1>4, <2>5
  <1>6. t.visited = {} /\ t.locks = {} /\ t.waits = {}
    BY <1>1 DEF WatchesOK, WatchOK
  <1>7. \A r \in Scopes : r = <<t.kind, t.name>> => Marked(r)'
    BY <1>1, DrainKnows
  <1> QED BY <1>1, <1>5, <1>6, <1>7, DrainMoves

\* The tombstone, and the next round.
LEMMA MarkGoesOn ==
    ASSUME Life, TombsOK, ScopesOK, WatchesOK, Onward, PolicyGrows, NEW o \in Tasks,
           DrainMark(o) \/ DrainAgain(o)
    PROVE  DrainGoesOn(o)
  <1>1. CASE DrainMark(o)
    <2>1. /\ task[o].kind \in Drains /\ task[o].phase = "Begun" /\ returned' = returned
          /\ task' = [task EXCEPT ![o].phase = "Marked"]
      BY <1>1 DEF DrainMark
    <2>2. task[o].visited = {} /\ task[o].locks = {} /\ task[o].waits = {}
      BY <2>1 DEF WatchesOK, WatchOK
    <2>3. \A r \in Scopes : r = <<task[o].kind, task[o].name>> => Marked(r)'
      BY <1>1, MarkPolicy
    <2>4. "Marked" \notin {"Scan", "Wait"}
      OBVIOUS
    <2> QED BY <2>1, <2>2, <2>3, <2>4, DrainMoves
  <1>2. CASE DrainAgain(o)
    <2>1. /\ task[o].kind \in Drains /\ task[o].phase = "Wait" /\ returned' = returned
          /\ task' = [task EXCEPT ![o].phase = "Scan"]
          /\ task[o].locks = {} /\ task[o].waits = {}
      BY <1>2 DEF DrainAgain
    <2> QED BY <2>1, DrainKnows, DrainMoves
  <1> QED BY <1>1, <1>2

\* drain_matching, one round: it returns when everything it matches is gone,
\* and waits for what is not.
LEMMA ScanGoesOn ==
    ASSUME Life, ScopesOK, WatchesOK, Onward, PolicyGrows, NEW o \in Tasks, DrainScan(o)
    PROVE  DrainGoesOn(o)
  <1> DEFINE t == task[o]
             New == {g \in Gens : Matches(t, g) /\ g \notin t.visited}
             A == New \cap Published(reg)
             P == New \cap reg.pending
             G == A \cup P
             V == t.visited \cup A \cup P
             u == [t EXCEPT !.phase = "Wait", !.visited = V, !.locks = Attempts(reg', A),
                            !.waits = Attempts(reg', P \ A)]
             r == <<t.kind, t.name>>
  <1>0. /\ reg \in Registry /\ t \in TaskRecord /\ DOMAIN task = Tasks
        /\ RegOK(reg, pc, child, launch) /\ NoOrphan
    BY TaskFacts DEF TypeOK, Life, Inv
  <1>1. /\ t.kind \in Drains /\ t.phase = "Scan"
        /\ reg' = Observe(reg, G)
        /\ \/ /\ G = {} /\ task' = [task EXCEPT ![o] = Finished]
              /\ returned' = IF t.failed THEN returned ELSE returned \cup {r}
           \/ task' = [task EXCEPT ![o] = u] /\ returned' = returned
    BY DEF DrainScan
  <1>2. t.locks = {} /\ t.waits = {}
        /\ (~t.failed => \A g \in t.visited : child[g] = "Reaped")
    BY <1>1 DEF WatchesOK, WatchOK
  <1>3. \A x \in Scopes : x = <<t.kind, t.name>> => Marked(x) /\ Marked(x)' /\ Shut(x) /\ Shut(x)'
    BY <1>1, DrainKnows
  <1>4. CASE G = {} /\ task' = [task EXCEPT ![o] = Finished]
             /\ returned' = IF t.failed THEN returned ELSE returned \cup {r}
    <2>1. task'[o].kind \notin Drains
      BY <1>0, <1>4, FinishedWaits DEF Drains
    <2>2. CASE t.failed
      BY <1>4, <2>1, <2>2, NoDrainGoesOn
    <2>3. CASE ~t.failed
      <3>1. PICK x \in Scopes : x = <<t.kind, t.name>>
        BY <1>0, <1>1 DEF Scopes, TaskRecord
      <3>2. Gone(x)
        <4> SUFFICES ASSUME NEW g \in Gens, Swept(x, g), child[g] \in {"Slot", "Alive"}
                     PROVE  FALSE
          BY DEF Gone
        <4>1. Matches(t, g)
          BY <3>1, SweptMatches
        <4>2. g \notin t.visited
          BY <1>2, <2>3
        <4>3. g \in reg.pending \/ g \in Published(reg)
          BY <1>0, LifeFacts DEF NoOrphan, Published
        <4> QED BY <1>4, <4>1, <4>2, <4>3
      <3>3. Gone(x)'
        BY <1>3, <3>1, <3>2, ScopeKept
      <3>4. returned' = returned \cup {x}
        BY <1>4, <2>3, <3>1
      <3>5. WatchOK(task'[o], reg', child')
        BY <2>1 DEF WatchOK
      <3>6. \A y \in Scopes : y # <<task'[o].kind, task'[o].name>>
        BY <2>1 DEF Scopes
      <3> QED BY <1>3, <3>1, <3>3, <3>4, <3>5, <3>6 DEF DrainGoesOn
    <2> QED BY <2>2, <2>3
  <1>5. CASE task' = [task EXCEPT ![o] = u] /\ returned' = returned
    <2>1. /\ task'[o] = u /\ u.kind = t.kind /\ u.name = t.name /\ u.phase = "Wait"
          /\ u.visited = V /\ u.locks = Attempts(reg', A) /\ u.waits = Attempts(reg', P \ A)
          /\ u.failed = t.failed
      BY <1>0, <1>5 DEF TaskRecord
    <2>2. reg'.pending = reg.pending \cup (G \cap Published(reg))
      BY <1>0, <1>1, ObserveWrites
    <2>3. A \in SUBSET G /\ P \ A \in SUBSET G
      OBVIOUS
    <2> HIDE DEF u, G
    <2>4. \A H \in SUBSET G : \A a \in Attempts(reg', H) : a[2] \in DOMAIN reg'.results[a[1]]
      BY <1>0, <1>1, ObserveOrderly
    <2>5. ASSUME NEW g \in A \cup P
          PROVE  \E n \in DOMAIN reg'.results[g] : <<g, n>> \in Attempts(reg', A) \cup Attempts(reg', P \ A)
      <3> DEFINE n == reg'.attempt[g]
      <3>1. g \in reg'.pending
        BY <2>2 DEF G
      <3>2. CASE g \in A
        <4>1. <<g, n>> \in Attempts(reg', A)
          BY <3>1, <3>2 DEF Attempts
        <4>2. n \in DOMAIN reg'.results[g]
          BY <2>3, <2>4, <4>1
        <4> QED BY <4>1, <4>2
      <3>3. CASE g \in P \ A
        <4>1. <<g, n>> \in Attempts(reg', P \ A)
          BY <3>1, <3>3 DEF Attempts
        <4>2. n \in DOMAIN reg'.results[g]
          BY <2>3, <2>4, <4>1
        <4> QED BY <4>1, <4>2
      <3> QED BY <3>2, <3>3
    <2>6. ~t.failed => \A g \in t.visited : child'[g] = "Reaped"
      BY <1>0, <1>2 DEF Onward, TaskRecord
    <2> HIDE DEF A, P, New
    <2>7. WatchOK(u, reg', child')
      BY <2>1, <2>5, <2>6 DEF WatchOK
    <2> QED BY <1>3, <1>5, <2>1, <2>7 DEF DrainGoesOn
  <1> QED BY <1>1, <1>4, <1>5

\* wait_for_termination: an attempt that is over has reaped its child, or the
\* drain reports the failure.
LEMMA WaitGoesOn ==
    ASSUME Life, ScopesOK, WatchesOK, Onward, PolicyGrows, NEW o \in Tasks, NEW a,
           (a \in task[o].locks /\ DrainLock(o, a)) \/ (a \in task[o].waits /\ DrainAwait(o, a))
    PROVE  DrainGoesOn(o)
  <1> DEFINE t == task[o]
  <1>0. /\ reg \in Registry /\ t \in TaskRecord /\ DOMAIN task = Tasks
        /\ RegOK(reg, pc, child, launch) /\ Awaits(t, reg)
    BY TaskFacts DEF TypeOK
  <1>1. t.kind \in Drains /\ reg' = reg /\ returned' = returned /\ child' = child
    BY DEF DrainLock, DrainAwait, Calm
  <1>2. a \in t.locks \cup t.waits /\ t.phase \notin {"Begun", "Marked", "Scan"}
    BY <1>1 DEF WatchesOK, WatchOK
  <1>3. a \in Gens \X Nat
    BY <1>0, <1>2 DEF TaskRecord
  <1>4. ~t.failed =>
           \A g \in t.visited :
              \/ child[g] = "Reaped"
              \/ \E n \in DOMAIN reg.results[g] : <<g, n>> \in t.locks \cup t.waits
    BY <1>1 DEF WatchesOK, WatchOK
  <1>5. ASSUME NEW u, task'[o] = u, u.kind = t.kind, u.name = t.name, u.phase = t.phase,
               WatchOK(u, reg', child')
        PROVE  DrainGoesOn(o)
    <2>1. \A r \in Scopes : r = <<u.kind, u.name>> =>
             /\ u.phase \in {"Marked", "Scan", "Wait"} => Marked(r)'
             /\ u.phase \in {"Scan", "Wait"} => Shut(r)'
      BY <1>5, DrainKnows
    <2> QED BY <1>1, <1>5, <2>1 DEF DrainGoesOn
  <1>6. CASE a \in t.locks /\ DrainLock(o, a)
    <2> DEFINE L == t.locks \ {a}
               W == t.waits \cup {a}
               u == [t EXCEPT !.locks = L, !.waits = W]
    <2>1. task' = [task EXCEPT ![o] = u]
      BY <1>6 DEF DrainLock
    <2>2. /\ task'[o] = u /\ u.kind = t.kind /\ u.name = t.name /\ u.phase = t.phase
          /\ u.visited = t.visited /\ u.failed = t.failed /\ u.locks = L /\ u.waits = W
      BY <1>0, <2>1 DEF TaskRecord
    <2>3. L \cup W = t.locks \cup t.waits
      BY <1>6
    <2> HIDE DEF u, L, W
    <2>4. WatchOK(u, reg', child')
      BY <1>1, <1>2, <1>4, <2>2, <2>3 DEF WatchOK
    <2> QED BY <1>5, <2>2, <2>4
  <1>7. CASE a \in t.waits /\ DrainAwait(o, a)
    <2> DEFINE W == t.waits \ {a}
               f == t.failed \/ Result(a) = "Failed"
               u == [t EXCEPT !.waits = W, !.failed = f]
    <2>1. task' = [task EXCEPT ![o] = u] /\ Result(a) # "Running"
      BY <1>7 DEF DrainAwait
    <2>2. /\ task'[o] = u /\ u.kind = t.kind /\ u.name = t.name /\ u.phase = t.phase
          /\ u.visited = t.visited /\ u.failed = f /\ u.locks = t.locks /\ u.waits = W
      BY <1>0, <2>1 DEF TaskRecord
    <2>3. ~f => ~t.failed /\ child[a[1]] = "Reaped"
      <3>1. a[1] \in Gens /\ a[2] \in DOMAIN reg.results[a[1]]
        BY <1>0, <1>2, <1>3 DEF Awaits
      <3>2. Result(a) \in Outcomes
        BY <1>0, <3>1 DEF Registry, Result
      <3> QED BY <1>0, <2>1, <3>1, <3>2 DEF Outcomes, Result, RegOK, AttemptsOK
    <2> HIDE DEF u, f
    <2>4. ~f => \A g \in t.visited :
             \/ child[g] = "Reaped"
             \/ \E n \in DOMAIN reg.results[g] : <<g, n>> \in t.locks \cup W
      <3> SUFFICES ASSUME ~f, NEW g \in t.visited, child[g] # "Reaped"
                   PROVE  \E n \in DOMAIN reg.results[g] : <<g, n>> \in t.locks \cup W
        OBVIOUS
      <3>1. PICK n \in DOMAIN reg.results[g] : <<g, n>> \in t.locks \cup t.waits
        BY <1>4, <2>3
      <3>2. <<g, n>> # a
        BY <2>3
      <3> QED BY <3>1, <3>2
    <2> HIDE DEF W
    <2>5. WatchOK(u, reg', child')
      BY <1>1, <1>2, <2>2, <2>4 DEF WatchOK
    <2> QED BY <1>5, <2>2, <2>5
  <1> QED BY <1>6, <1>7

\* A command begins: as a drain it has done nothing yet.
LEMMA BeginGoesOn ==
    ASSUME Life, NEW o \in Ops, NEW c \in Commands, Begin(o, c)
    PROVE  DrainGoesOn(o)
  <1>1. task'[o] = BegunAs(c) /\ returned' = returned
    BY BeginLife DEF Begin
  <1>2. /\ BegunAs(c).phase = "Begun" /\ BegunAs(c).visited = {}
        /\ BegunAs(c).locks = {} /\ BegunAs(c).waits = {}
    BY DEF BegunAs, NoTask
  <1>3. WatchOK(task'[o], reg', child')
    BY <1>1, <1>2 DEF WatchOK
  <1> QED BY <1>1, <1>2, <1>3 DEF DrainGoesOn

\* Every step keeps what drains rely on and what they promise.
LEMMA DrainedStep ==
    ASSUME Drained, [Next]_vars
    PROVE  Drained'
  <1>0. /\ Life /\ TombsOK /\ ScopesOK /\ ReturnedOK /\ WatchesOK
        /\ Life' /\ Onward /\ PolicyGrows
    BY LifeStep, OnwardStep, PolicyStep DEF Drained
  <1>1. ASSUME NEW m \in Tasks, task'[m] = task[m]
        PROVE  /\ WatchOK(task'[m], reg', child')
               /\ \A r \in Scopes : r = <<task'[m].kind, task'[m].name>> =>
                     /\ task'[m].phase \in {"Marked", "Scan", "Wait"} => Marked(r)'
                     /\ task'[m].phase \in {"Scan", "Wait"} => Shut(r)'
    <2>1. WatchOK(task[m], reg', child')
      BY <1>0, TaskFacts, WatchKept DEF WatchesOK
    <2> QED BY <1>0, <1>1, <2>1, DrainKnows
  <1>2. ASSUME NEW r \in returned PROVE r \in Scopes /\ Marked(r)' /\ Shut(r)' /\ Gone(r)'
    BY <1>0, ScopeKept DEF ReturnedOK
  <1>3. ASSUME \A m \in Tasks : task'[m] = task[m], returned' = returned
        PROVE  Drained'
    <2>1. WatchesOK'
      BY <1>1, <1>3 DEF WatchesOK
    <2>2. ScopesOK'
      BY <1>1, <1>3 DEF ScopesOK
    <2>3. ReturnedOK'
      BY <1>2, <1>3 DEF ReturnedOK
    <2> QED BY <1>0, <2>1, <2>2, <2>3 DEF Drained, PolicyGrows
  <1>4. ASSUME NEW o \in Tasks, DrainGoesOn(o), \A m \in Tasks : m # o => task'[m] = task[m]
        PROVE  Drained'
    <2>1. ASSUME NEW m \in Tasks
          PROVE  /\ WatchOK(task'[m], reg', child')
                 /\ \A r \in Scopes : r = <<task'[m].kind, task'[m].name>> =>
                       /\ task'[m].phase \in {"Marked", "Scan", "Wait"} => Marked(r)'
                       /\ task'[m].phase \in {"Scan", "Wait"} => Shut(r)'
      <3>1. CASE m = o
        BY <1>4, <3>1 DEF DrainGoesOn
      <3>2. CASE m # o
        <4>1. task'[m] = task[m]
          BY <1>4, <3>2
        <4> QED BY <1>1, <4>1
      <3> QED BY <3>1, <3>2
    <2>2. WatchesOK'
      BY <2>1 DEF WatchesOK
    <2>3. ScopesOK'
      BY <2>1 DEF ScopesOK
    <2>4. ReturnedOK'
      <3> SUFFICES ASSUME NEW r \in returned' PROVE r \in Scopes /\ Marked(r)' /\ Shut(r)' /\ Gone(r)'
        BY DEF ReturnedOK
      <3>1. CASE r \in returned
        BY <1>2, <3>1
      <3>2. CASE r \notin returned
        BY <1>4, <3>2 DEF DrainGoesOn
      <3> QED BY <3>1, <3>2
    <2> QED BY <1>0, <2>2, <2>3, <2>4 DEF Drained, PolicyGrows
  <1>5. ASSUME NEW g \in Gens, LaunchNext(g)
        PROVE  Drained'
    <2>1. /\ \A m \in Tasks : m # g => task'[m] = task[m]
          /\ task'[g] = task[g] \/ task'[g] \in {ReleaseOf(g), ExactOf(g)}
          /\ returned' = returned /\ g \in Tasks
      BY <1>0, <1>5, LaunchLife, GenFacts DEF LaunchStep, LaunchFrame
    <2>2. CASE task'[g] = task[g]
      BY <1>3, <2>1, <2>2
    <2>3. CASE task'[g] \in {ReleaseOf(g), ExactOf(g)}
      <3>1. task'[g].kind \notin Drains
        BY <2>3 DEF ReleaseOf, ExactOf, NoTask, Drains
      <3>2. DrainGoesOn(g)
        BY <2>1, <3>1, NoDrainGoesOn
      <3> QED BY <1>4, <2>1, <3>2
    <2> QED BY <2>1, <2>2, <2>3
  <1>6. ASSUME NEW g \in Gens, Terminations(g) \/ ChildExits(g)
        PROVE  Drained'
    BY <1>0, <1>3, <1>6, TerminationLife DEF TerminationFrame
  <1>7. ASSUME NEW o \in Ops, NEW c \in Commands, Begin(o, c)
        PROVE  Drained'
    <2>1. o \in Tasks
      BY DEF Tasks
    <2>2. DrainGoesOn(o)
      BY <1>0, <1>7, BeginGoesOn
    <2>3. \A m \in Tasks : m # o => task'[m] = task[m]
      BY <1>0, <1>7, BeginLife DEF CommandFrame
    <2> QED BY <1>4, <2>1, <2>2, <2>3
  <1>8. ASSUME NEW o \in Tasks, TaskNext(o)
        PROVE  Drained'
    <2>1. \A m \in Tasks : m # o => task'[m] = task[m]
      BY <1>0, <1>8, TaskLife DEF CommandFrame
    <2>2. DrainGoesOn(o)
      BY <1>0, <1>8, OthersGoOn, MarkGoesOn, BarrierShuts, ScanGoesOn, WaitGoesOn DEF TaskNext
    <2> QED BY <1>4, <2>1, <2>2
  <1>9. CASE UNCHANGED vars
    BY <1>3, <1>9 DEF vars
  <1> QED BY <1>5, <1>6, <1>7, <1>8, <1>9 DEF Next

\* No drain has begun at first.
LEMMA DrainedInit == Init => Drained
  <1> SUFFICES ASSUME Init PROVE Drained
    OBVIOUS
  <1>1. TombsOK
    BY DEF Init, TombsOK
  <1>2. ReturnedOK
    BY DEF Init, ReturnedOK
  <1>3. ScopesOK /\ WatchesOK
    BY DEF Init, ScopesOK, WatchesOK, WatchOK, NoTask, Drains
  <1> QED BY <1>1, <1>2, <1>3, LifeInit DEF Drained

\* A drain that returned without a failure left nothing of its scope behind,
\* whatever launches and commands ran beside it: terminate_all, retire_engine
\* and retire_executables.
THEOREM DrainsLeaveNone == Spec => []DrainLeavesNone
  <1>1. Drained => DrainLeavesNone
    BY DEF Drained, ReturnedOK, Gone, DrainLeavesNone
  <1> QED BY <1>1, DrainedInit, DrainedStep, PTL DEF Spec-----------------------------------------------------------------------------
(* Stops.                                                                  *)

\* A section about the search x: it cancels no other search, and takes down
\* no engine that serves another one.
Exact(s, t, x) ==
    /\ t.search = s.search /\ t.cancelled \subseteq s.cancelled \cup {x}
    /\ \A a \in Gens : OwnerGeneration(s, a) # x =>
          /\ a \in t.stopped => a \in s.stopped
          /\ \A k \in Keys : s.actors[k] = a => t.actors[k] = a

\* Two such sections are one.
LEMMA ExactTwice ==
    ASSUME NEW s, NEW t, NEW u, NEW x, Exact(s, t, x), Exact(t, u, x)
    PROVE  Exact(s, u, x)
  BY DEF Exact, OwnerGeneration

\* cancel_admission_exact, mark_cancelled and the cancelling of a search are
\* such sections.
LEMMA CancelIsExact ==
    ASSUME NEW s \in Registry, NEW x, NEW A, \A a \in A : OwnerGeneration(s, a) = x,
           NEW C \in SUBSET {x}
    PROVE  /\ Exact(s, CancelExact(s, C), x)
           /\ Exact(s, MarkCancelled(s, A), x)
           /\ Exact(s, CancelSearches(s, A), x)
  <1> DEFINE S == {s.search[a] : a \in A} \ {0}
             c == CancelExact(s, C)
             m == MarkCancelled(s, A)
             n == CancelSearches(s, A)
  <1>1. S \subseteq {x}
    BY DEF OwnerGeneration
  <1>2. /\ m = [s EXCEPT !.stopped = @ \cup A, !.cancelled = @ \cup S]
        /\ n = [s EXCEPT !.cancelled = @ \cup S]
    BY DEF MarkCancelled, CancelSearches
  <1>3. /\ c.search = s.search /\ c.cancelled = s.cancelled \cup C
        /\ c.stopped = s.stopped /\ c.actors = s.actors
    BY DEF CancelExact, Registry
  <1> HIDE DEF S, c, m, n
  <1>4. /\ m.search = s.search /\ m.cancelled = s.cancelled \cup S
        /\ m.stopped = s.stopped \cup A /\ m.actors = s.actors
    BY <1>2 DEF Registry
  <1>5. /\ n.search = s.search /\ n.cancelled = s.cancelled \cup S
        /\ n.stopped = s.stopped /\ n.actors = s.actors
    BY <1>2 DEF Registry
  <1>6. Exact(s, c, x) /\ Exact(s, m, x) /\ Exact(s, n, x)
    BY <1>1, <1>3, <1>4, <1>5 DEF Exact
  <1> QED BY <1>6 DEF c, m, n

\* observe_termination_locked takes down the published engines it is given.
LEMMA ObserveIsExact ==
    ASSUME NEW s \in Registry, NEW x, NEW G,
           \A a \in G \cap Published(s) : OwnerGeneration(s, a) = x
    PROVE  Exact(s, Observe(s, G), x)
  <1> DEFINE A == G \cap Published(s)
             t == Observe(s, G)
  <1>1. /\ t.search = s.search /\ t.stopped = s.stopped \cup A
        /\ t.cancelled = s.cancelled \cup ({s.search[a] : a \in A} \ {0})
        /\ \A k \in Keys : t.actors[k] = s.actors[k] \/ s.actors[k] \in A
    BY ObserveWrites
  <1>2. \A a \in A : OwnerGeneration(s, a) = x
    OBVIOUS
  <1> HIDE DEF A, t
  <1>3. {s.search[a] : a \in A} \ {0} \subseteq {x}
    BY <1>2 DEF OwnerGeneration
  <1>4. Exact(s, t, x)
    BY <1>1, <1>2, <1>3 DEF Exact
  <1> QED BY <1>4 DEF t

\* A search that is about to bind an engine holds the lock of their key.
BindsOK ==
    \A g \in Gens : pc[g] = "Binding" =>
       /\ lifecycle[KeyOf(g)] = g /\ reused[g] \in Gens
       /\ KeyOf(reused[g]) = KeyOf(g) /\ pc[reused[g]] \notin Before

\* What a stop of one search knows: whom it is about, the engine it selected
\* and, once it has the lock of its key and will reap that engine, that the
\* engine serves nobody else.
StopOK(t, o, p, l, s, y) ==
    t.kind = "Stop" /\ t.gen # 0 =>
       /\ t.phase # "Begun" => t.targets = {t.gen}
       /\ t.phase \in {"Selected", "Bound", "Stopping", "Reap"} /\ t.selected # 0 =>
             l[t.selected].key = t.key /\ p[t.selected] \notin Before
       /\ t.phase \in {"Stopping", "Reap"} =>
             /\ y[t.key] = o
             /\ t.selected \in Published(s) => OwnerGeneration(s, t.selected) = t.gen

StopsOK == \A o \in Tasks : StopOK(task[o], o, pc, launch, reg, lifecycle)

Held == Life /\ BindsOK /\ StopsOK

\* An engine that is past its launch stays so, and is not published again.
Settled ==
    \A x \in Gens : pc[x] \notin Before =>
       /\ pc'[x] \notin Before /\ launch'[x] = launch[x]
       /\ x \in Published(reg') => x \in Published(reg)

\* Every step is such a step.
LEMMA SettledStep ==
    ASSUME Life, [Next]_vars
    PROVE  Settled
  <1>1. ASSUME NEW g \in Gens, LaunchStep(g)
        PROVE  Settled
    <2>1. \A k \in Keys : reg'.actors[k] \in {0, reg.actors[k]} \/ (reg'.actors[k] = g /\ pc[g] \in Before)
      BY <1>1 DEF LaunchStep, LaunchWrites
    <2>2. \A x \in Gens : pc[x] \notin Before => pc'[x] \notin Before /\ launch'[x] = launch[x]
      <3>1. "Unused" \in Before
        BY DEF Before, Early
      <3> QED BY <1>1, <3>1 DEF LaunchStep, LaunchFrame
    <2> QED BY <2>1, <2>2, GenFacts DEF Settled, Published
  <1>2. ASSUME NEW o \in Tasks, CommandFrame(o)
        PROVE  Settled
    <2>1. pc' = pc /\ launch' = launch /\ \A k \in Keys : reg'.actors[k] \in {0, reg.actors[k]}
      BY <1>2 DEF CommandFrame, Orderly, Keeps
    <2> QED BY <2>1 DEF Settled, Published
  <1>3. CASE TerminationFrame
    BY <1>3 DEF TerminationFrame, Settled, Published
  <1>4. CASE UNCHANGED vars
    BY <1>4 DEF vars, Settled
  <1>5. Ops \subseteq Tasks
    BY DEF Tasks
  <1> QED BY <1>1, <1>2, <1>3, <1>4, <1>5, LaunchLife, TaskLife, BeginLife, TerminationLife DEF Next

\* While o holds the lock of a key, no engine of that key gets a new search.
Holding(o) ==
    \A k \in Keys : lifecycle[k] = o =>
       /\ lifecycle'[k] = o
       /\ \A x \in Gens : KeyOf(x) = k /\ pc[x] \notin Before => reg'.search[x] = reg.search[x]

\* A launch leaves the key alone whose lock another task holds: to give an
\* engine a new search it needs that lock itself.
LEMMA LaunchLeavesLocks ==
    ASSUME Life, BindsOK, NEW g \in Gens, LaunchStep(g), NEW o \in Tasks, o # g
    PROVE  Holding(o)
  <1> SUFFICES ASSUME NEW k \in Keys, lifecycle[k] = o
               PROVE  /\ lifecycle'[k] = o
                      /\ \A x \in Gens : KeyOf(x) = k /\ pc[x] \notin Before =>
                            reg'.search[x] = reg.search[x]
    BY DEF Holding
  <1>1. o # None
    BY SupervisorAssumption
  <1>2. lifecycle'[k] = o
    BY <1>1 DEF LaunchStep, LaunchFrame, OwnLocks
  <1>3. ASSUME NEW x \in Gens, KeyOf(x) = k, pc[x] \notin Before
        PROVE  reg'.search[x] = reg.search[x]
    <2>1. ~(pc[g] = "Binding" /\ x = reused[g])
      BY <1>3 DEF BindsOK
    <2> QED BY <1>3, <2>1 DEF LaunchStep, LaunchWrites
  <1> QED BY <1>2, <1>3

\* A command gives no engine a new search.
LEMMA CommandLeavesLocks ==
    ASSUME NEW m \in Tasks, CommandFrame(m), NEW o \in Tasks, o # m
    PROVE  Holding(o)
  <1>1. o # None
    BY SupervisorAssumption
  <1>2. reg'.search = reg.search
    BY DEF CommandFrame, Orderly
  <1> QED BY <1>1, <1>2 DEF Holding, CommandFrame, OwnLocks

\* What a stop knows stays so while others move.
LEMMA StopStays ==
    ASSUME Settled, NEW o \in Tasks, NEW t, TaskOK(t), Holding(o),
           StopOK(t, o, pc, launch, reg, lifecycle)
    PROVE  StopOK(t, o, pc', launch', reg', lifecycle')
  <1> SUFFICES ASSUME t.kind = "Stop", t.gen # 0
               PROVE  /\ t.phase # "Begun" => t.targets = {t.gen}
                      /\ t.phase \in {"Selected", "Bound", "Stopping", "Reap"} /\ t.selected # 0 =>
                            launch'[t.selected].key = t.key /\ pc'[t.selected] \notin Before
                      /\ t.phase \in {"Stopping", "Reap"} =>
                            /\ lifecycle'[t.key] = o
                            /\ t.selected \in Published(reg') =>
                                  OwnerGeneration(reg', t.selected) = t.gen
    BY DEF StopOK
  <1>1. t.key \in Keys /\ t.selected \in Gens0
    BY DEF TaskOK, TaskRecord
  <1>2. t.phase # "Begun" => t.targets = {t.gen}
    BY DEF StopOK
  <1>3. ASSUME t.phase \in {"Selected", "Bound", "Stopping", "Reap"}, t.selected # 0
        PROVE  launch'[t.selected].key = t.key /\ pc'[t.selected] \notin Before
    <2>1. t.selected \in Gens /\ launch[t.selected].key = t.key /\ pc[t.selected] \notin Before
      BY <1>1, <1>3, GenFacts DEF StopOK
    <2> QED BY <2>1 DEF Settled
  <1>4. ASSUME t.phase \in {"Stopping", "Reap"}
        PROVE  /\ lifecycle'[t.key] = o
               /\ t.selected \in Published(reg') => OwnerGeneration(reg', t.selected) = t.gen
    <2>1. lifecycle[t.key] = o
      BY <1>4 DEF StopOK
    <2>2. lifecycle'[t.key] = o
      BY <1>1, <2>1 DEF Holding
    <2>3. ASSUME t.selected \in Published(reg')
          PROVE  OwnerGeneration(reg', t.selected) = t.gen
      <3>1. t.selected # 0
        BY <2>3 DEF Published
      <3>2. t.selected \in Gens /\ launch[t.selected].key = t.key /\ pc[t.selected] \notin Before
        BY <1>1, <1>4, <3>1, GenFacts DEF StopOK
      <3>3. t.selected \in Published(reg)
        BY <2>3, <3>2 DEF Settled
      <3>4. reg'.search[t.selected] = reg.search[t.selected]
        BY <1>1, <2>1, <3>2 DEF Holding, KeyOf
      <3> QED BY <1>4, <3>3, <3>4 DEF StopOK, OwnerGeneration
    <2> QED BY <2>2, <2>3
  <1> QED BY <1>2, <1>3, <1>4

\* What a stop of one search leaves behind.
Stopped(o) ==
    /\ StopOK(task'[o], o, pc', launch', reg', lifecycle')
    /\ Exact(reg, reg', task[o].gen)

\* A stop that ends.
LEMMA StopEnds ==
    ASSUME NEW o \in Tasks, task'[o] = Finished, reg' = reg
    PROVE  Stopped(o)
  <1>1. Finished.kind # "Stop"
    BY DEF Finished, NoTask
  <1> QED BY <1>1 DEF Stopped, StopOK, Exact

\* stop_or_release looks for the engine that serves its search.
LEMMA CaptureIsExact ==
    ASSUME Held, NEW o \in Tasks, task[o].gen # 0, StopCapture(o) \/ StopSelect(o)
    PROVE  Stopped(o)
  <1> DEFINE t == task[o]
             k == t.key
             x == t.gen
  <1>0. /\ t \in TaskRecord /\ DOMAIN task = Tasks /\ reg \in Registry /\ k \in Keys
        /\ ActorsOK(reg, pc, launch) /\ t.kind = "Stop"
    BY TaskFacts DEF Held, TypeOK, TaskOK, RegOK, StopCapture, StopSelect
  <1>1. pc' = pc /\ launch' = launch
    BY DEF StopCapture, StopSelect, Calm
  <1>2. CASE StopCapture(o)
    <2> DEFINE u == [t EXCEPT !.phase = "Captured", !.targets = {x}, !.admission = 0]
    <2>1. StopTargets(t) = {x} /\ {x} # {}
      BY DEF StopTargets
    <2>2. reg' = reg /\ task' = [task EXCEPT ![o] = u]
      BY <1>2, <2>1 DEF StopCapture
    <2>3. task'[o] = u /\ u.phase = "Captured" /\ u.targets = {x} /\ u.gen = x
      BY <1>0, <2>2 DEF TaskRecord
    <2> HIDE DEF u
    <2>4. StopOK(u, o, pc', launch', reg', lifecycle')
      BY <2>3 DEF StopOK
    <2> QED BY <2>2, <2>3, <2>4 DEF Stopped, Exact
  <1>3. CASE StopSelect(o)
    <2> DEFINE A == Serving(k, t.targets)
               g == IF A = {} THEN 0 ELSE reg.actors[k]
               u == [t EXCEPT !.phase = "Selected", !.selected = g]
    <2>1. reg' = CancelSearches(reg, A) /\ task' = [task EXCEPT ![o] = u] /\ t.phase = "Captured"
      BY <1>3 DEF StopSelect
    <2>2. /\ task'[o] = u /\ u.phase = "Selected" /\ u.targets = t.targets /\ u.gen = x
          /\ u.selected = g /\ u.key = k
      BY <1>0, <2>1 DEF TaskRecord
    <2>3. t.targets = {x}
      BY <1>0, <2>1 DEF Held, StopsOK, StopOK
    <2>4. \A a \in A : OwnerGeneration(reg, a) = x
      BY <2>3 DEF Serving
    <2> HIDE DEF A
    <2>5. Exact(reg, reg', x)
      BY <1>0, <2>1, <2>4, CancelIsExact
    <2>6. g # 0 => launch[g].key = k /\ pc[g] \notin Before
      BY <1>0 DEF ActorsOK
    <2> HIDE DEF u, g
    <2>7. StopOK(u, o, pc', launch', reg', lifecycle')
      BY <1>1, <2>2, <2>3, <2>6 DEF StopOK
    <2> QED BY <2>2, <2>5, <2>7 DEF Stopped
  <1> QED BY <1>2, <1>3

\* Then it binds what must go down: the engine, if it serves that search, and
\* pending ones, which serve nobody.
LEMMA BindIsExact ==
    ASSUME Held, NEW o \in Tasks, task[o].gen # 0, StopBind(o)
    PROVE  Stopped(o)
  <1> DEFINE t == task[o]
             k == t.key
             x == t.gen
             C == {x} \cap {reg.admissions[k]}
             A == Serving(k, t.targets)
             c == CancelExact(reg, C)
             m == IF t.release THEN MarkCancelled(c, A) ELSE CancelSearches(c, A)
             G == {a \in A : t.release \/ Terminal(a)} \cup
                  {p \in reg.pending : /\ KeyOf(p) = k
                                       /\ reg.owner[p] \in t.targets \/ p = t.selected}
  <1>0. /\ t \in TaskRecord /\ DOMAIN task = Tasks /\ reg \in Registry /\ k \in Keys
        /\ ActorsOK(reg, pc, launch) /\ t.kind = "Stop" /\ t.phase = "Selected" /\ x \in Gens
    BY TaskFacts, GenFacts DEF Held, TypeOK, TaskOK, TaskRecord, RegOK, StopBind
  <1>1. pc' = pc /\ launch' = launch
    BY DEF StopBind, Calm
  <1>2. /\ reg' = Observe(m, G)
        /\ task' = [task EXCEPT ![o].phase = "Bound", ![o].waits = Attempts(reg', G)]
    BY DEF StopBind
  <1>3. t.targets = {x}
    BY <1>0 DEF Held, StopsOK, StopOK
  <1>4. A \in SUBSET Gens /\ C \in SUBSET Gens /\ \A a \in A : OwnerGeneration(reg, a) = x
    BY <1>0, <1>3, ServingType DEF Serving
  <1>5. G \subseteq A \cup reg.pending /\ C \in SUBSET {x}
    OBVIOUS
  <1> HIDE DEF A, C, G
  <1>6. c \in Registry /\ Exact(reg, c, x) /\ c.actors = reg.actors
    <2>1. c.actors = reg.actors
      BY <1>0 DEF CancelExact, Registry
    <2> QED BY <1>0, <1>4, <1>5, <2>1, CancelExactKeeps, CancelIsExact
  <1> HIDE DEF c
  <1>7. \A a \in A : OwnerGeneration(c, a) = x
    BY <1>4, <1>6 DEF Exact, OwnerGeneration
  <1>8. Exact(c, m, x) /\ m \in Registry
    BY <1>4, <1>6, <1>7, CancelIsExact, MarkCancelledKeeps, CancelSearchesKeeps
  <1>9. m.actors = c.actors
    BY <1>6 DEF MarkCancelled, CancelSearches, Registry
  <1> HIDE DEF m
  <1>10. Exact(reg, m, x)
    BY <1>6, <1>8, ExactTwice
  <1>11. \A a \in G \cap Published(m) : OwnerGeneration(m, a) = x
    <2> SUFFICES ASSUME NEW a \in G, a \in Published(m) PROVE OwnerGeneration(m, a) = x
      OBVIOUS
    <2>1. a \in Published(reg)
      BY <1>6, <1>9 DEF Published
    <2>2. a \notin reg.pending
      BY <1>0, <2>1 DEF ActorsOK, Published
    <2>3. a \in A
      BY <1>5, <2>2
    <2> QED BY <1>4, <1>10, <2>3 DEF Exact, OwnerGeneration
  <1>12. Exact(reg, reg', x)
    BY <1>2, <1>8, <1>10, <1>11, ObserveIsExact, ExactTwice
  <1> DEFINE W == Attempts(reg', G)
             u == [t EXCEPT !.phase = "Bound", !.waits = W]
  <1>13. /\ task'[o] = u /\ u.phase = "Bound" /\ u.targets = t.targets /\ u.gen = x
         /\ u.selected = t.selected /\ u.key = k
    BY <1>0, <1>2 DEF TaskRecord
  <1> HIDE DEF u
  <1>14. t.selected # 0 => launch[t.selected].key = k /\ pc[t.selected] \notin Before
    BY <1>0 DEF Held, StopsOK, StopOK
  <1>15. StopOK(u, o, pc', launch', reg', lifecycle')
    BY <1>1, <1>3, <1>13, <1>14 DEF StopOK
  <1> QED BY <1>12, <1>13, <1>15 DEF Stopped

\* Under the lock of its key it looks again: an engine it will reap serves
\* its search, or is not published any more.
LEMMA LockIsExact ==
    ASSUME Held, NEW o \in Tasks, task[o].gen # 0, StopLock(o)
    PROVE  Stopped(o)
  <1> DEFINE t == task[o]
             k == t.key
             x == t.gen
             a == reg.actors[k]
             A == Serving(k, t.targets)
             To(p, g) == task' = [task EXCEPT ![o].phase = p, ![o].selected = g]
             Lock == lifecycle' = [lifecycle EXCEPT ![k] = o]
  <1>0. /\ t \in TaskRecord /\ DOMAIN task = Tasks /\ reg \in Registry /\ k \in Keys
        /\ ActorsOK(reg, pc, launch) /\ t.kind = "Stop" /\ t.phase = "Bound"
    BY TaskFacts DEF Held, TypeOK, TaskOK, RegOK, StopLock
  <1>l. lifecycle \in [Keys -> Tasks \cup {None}]
    BY TaskFacts DEF Held, LocksOK
  <1>1. pc' = pc /\ launch' = launch
    BY DEF StopLock, Calm
  <1>2. \/ Lock /\ To("Wait", t.selected) /\ reg' = reg
        \/ A = {} /\ t.selected \notin {0, a} /\ Lock /\ To("Reap", t.selected) /\ reg' = reg
        \/ task' = [task EXCEPT ![o] = Finished] /\ reg' = reg
        \/ A # {} /\ Lock /\ To("Stopping", a) /\ reg' = CancelSearches(reg, A)
        \/ A # {} /\ Lock /\ To("Reap", a) /\ reg' = MarkCancelled(reg, A)
    BY DEF StopLock
  <1>3. t.targets = {x} /\ (t.selected # 0 => launch[t.selected].key = k /\ pc[t.selected] \notin Before)
    BY <1>0 DEF Held, StopsOK, StopOK
  <1>4. A \in SUBSET Gens /\ A \subseteq {a} \ {0} /\ \A b \in A : OwnerGeneration(reg, b) = x
    BY <1>0, <1>3, ServingType DEF Serving
  <1>5. ASSUME NEW p, NEW g, To(p, g)
        PROVE  /\ task'[o].phase = p /\ task'[o].selected = g /\ task'[o].gen = x
               /\ task'[o].targets = t.targets /\ task'[o].key = k
    BY <1>0, <1>5 DEF TaskRecord
  <1> HIDE DEF To, A
  <1>6. Lock => lifecycle'[k] = o
    BY <1>0, <1>l
  <1> HIDE DEF Lock
  <1>7. CASE Lock /\ To("Wait", t.selected) /\ reg' = reg
    <2>1. StopOK(task'[o], o, pc', launch', reg', lifecycle')
      BY <1>3, <1>5, <1>7 DEF StopOK
    <2> QED BY <1>7, <2>1 DEF Stopped, Exact
  <1>8. CASE A = {} /\ t.selected \notin {0, a} /\ Lock /\ To("Reap", t.selected) /\ reg' = reg
    <2>1. t.selected \notin Published(reg)
      BY <1>0, <1>3, <1>8 DEF ActorsOK, Published
    <2>2. StopOK(task'[o], o, pc', launch', reg', lifecycle')
      BY <1>1, <1>3, <1>5, <1>6, <1>8, <2>1 DEF StopOK
    <2> QED BY <1>8, <2>2 DEF Stopped, Exact
  <1>9. CASE task' = [task EXCEPT ![o] = Finished] /\ reg' = reg
    <2>1. task'[o] = Finished
      BY <1>0, <1>9
    <2> QED BY <1>9, <2>1, StopEnds
  <1>10. ASSUME A # {}, Lock, To("Stopping", a) \/ To("Reap", a), Exact(reg, reg', x)
         PROVE  Stopped(o)
    <2>1. a \in A /\ a # 0 /\ OwnerGeneration(reg, a) = x
      BY <1>4, <1>10
    <2>2. OwnerGeneration(reg', a) = x
      BY <1>10, <2>1 DEF Exact, OwnerGeneration
    <2>3. launch[a].key = k /\ pc[a] \notin Before
      BY <1>0, <2>1 DEF ActorsOK
    <2>4. StopOK(task'[o], o, pc', launch', reg', lifecycle')
      BY <1>1, <1>3, <1>5, <1>6, <1>10, <2>2, <2>3 DEF StopOK
    <2> QED BY <1>10, <2>4 DEF Stopped
  <1>11. Exact(reg, CancelSearches(reg, A), x) /\ Exact(reg, MarkCancelled(reg, A), x)
    BY <1>0, <1>4, CancelIsExact
  <1> QED BY <1>2, <1>7, <1>8, <1>9, <1>10, <1>11

\* And then it stops or reaps that engine.
LEMMA ReapIsExact ==
    ASSUME Held, NEW o \in Tasks, task[o].gen # 0, task[o].kind = "Stop",
           StopWarm(o) \/ StopReap(o) \/ CommandEnds(o)
    PROVE  Stopped(o)
  <1> DEFINE t == task[o]
             k == t.key
             x == t.gen
  <1>0. /\ t \in TaskRecord /\ DOMAIN task = Tasks /\ reg \in Registry /\ k \in Keys
        /\ StopOK(t, o, pc, launch, reg, lifecycle)
    BY TaskFacts DEF Held, TypeOK, TaskOK, StopsOK
  <1>1. pc' = pc /\ launch' = launch
    BY DEF StopWarm, StopReap, CommandEnds, Calm
  <1>2. CASE task' = [task EXCEPT ![o] = Finished] /\ reg' = reg
    <2>1. task'[o] = Finished
      BY <1>0, <1>2
    <2> QED BY <1>2, <2>1, StopEnds
  <1>3. CASE /\ t.phase = "Stopping" /\ task' = [task EXCEPT ![o].phase = "Reap"]
             /\ reg' = reg /\ lifecycle' = lifecycle
    <2> DEFINE u == [t EXCEPT !.phase = "Reap"]
    <2>1. /\ task'[o] = u /\ u.phase = "Reap" /\ u.targets = t.targets /\ u.gen = x
          /\ u.selected = t.selected /\ u.key = k /\ u.kind = t.kind
      BY <1>0, <1>3 DEF TaskRecord
    <2> HIDE DEF u
    <2>2. StopOK(u, o, pc', launch', reg', lifecycle')
      BY <1>0, <1>1, <1>3, <2>1 DEF StopOK
    <2> QED BY <1>3, <2>1, <2>2 DEF Stopped, Exact
  <1>4. CASE StopReap(o)
    <2> DEFINE G == {t.selected} \ {0}
               W == Attempts(reg', G)
               u == [t EXCEPT !.phase = "Wait", !.waits = W]
    <2>1. /\ t.phase = "Reap" /\ reg' = Observe(reg, G)
          /\ task' = [task EXCEPT ![o].phase = "Wait", ![o].waits = W]
      BY <1>4 DEF StopReap
    <2>2. \A a \in G \cap Published(reg) : OwnerGeneration(reg, a) = x
      BY <1>0, <2>1 DEF StopOK
    <2>3. /\ task'[o] = u /\ u.phase = "Wait" /\ u.targets = t.targets /\ u.gen = x
      BY <1>0, <2>1 DEF TaskRecord
    <2> HIDE DEF G, u
    <2>4. Exact(reg, reg', x)
      BY <1>0, <2>1, <2>2, ObserveIsExact
    <2>5. StopOK(u, o, pc', launch', reg', lifecycle')
      BY <1>0, <2>1, <2>3 DEF StopOK
    <2> QED BY <2>3, <2>4, <2>5 DEF Stopped
  <1>5. \/ StopReap(o)
        \/ task' = [task EXCEPT ![o] = Finished] /\ reg' = reg
        \/ /\ t.phase = "Stopping" /\ task' = [task EXCEPT ![o].phase = "Reap"]
           /\ reg' = reg /\ lifecycle' = lifecycle
    BY DEF StopWarm, CommandEnds
  <1> QED BY <1>2, <1>3, <1>4, <1>5

\* A task that has not begun its work knows nothing.
LEMMA FreshStop ==
    ASSUME NEW o, NEW t, t.phase = "Begun" \/ t.kind # "Stop" \/ t.gen = 0
    PROVE  StopOK(t, o, pc', launch', reg', lifecycle')
  BY DEF StopOK

\* Every step of a stop of one search.
LEMMA StopsExactly ==
    ASSUME Held, NEW o \in Tasks, task[o].kind = "Stop", task[o].gen # 0, TaskNext(o)
    PROVE  Stopped(o)
  <1>1. \/ StopCapture(o) \/ StopSelect(o) \/ StopBind(o) \/ StopLock(o)
        \/ StopWarm(o) \/ StopReap(o) \/ CommandEnds(o)
    BY DEF TaskNext, ExactBind, ExactLock, Flag, Kill, DrainMark, DrainBarrier, DrainScan,
           DrainAgain, DrainLock, DrainAwait, BinaryRetire, BinaryResume, Drains
  <1> QED BY <1>1, CaptureIsExact, BindIsExact, LockIsExact, ReapIsExact

\* The locks of searches that are about to bind.
LEMMA BindsStep ==
    ASSUME Held, [Next]_vars
    PROVE  BindsOK'
  <1>0. Life /\ BindsOK /\ Settled /\ \A h \in Gens : KeyOf(h) \in Keys /\ h \in Tasks /\ h # None
    BY SettledStep, LifeFacts, SupervisorAssumption DEF Held
  <1>a. ActorsOK(reg, pc, launch)
    BY <1>0, LifeFacts DEF Life, RegOK
  <1>b. "Binding" \notin Before
    BY DEF Before, Early, Guarded
  <1>1. ASSUME NEW h \in Gens, pc[h] = "Binding", pc'[h] = "Binding", reused'[h] = reused[h],
               lifecycle'[KeyOf(h)] = lifecycle[KeyOf(h)]
        PROVE  /\ lifecycle'[KeyOf(h)'] = h /\ reused'[h] \in Gens
               /\ KeyOf(reused[h])' = KeyOf(h)' /\ pc'[reused'[h]] \notin Before
    <2>1. launch'[h] = launch[h]
      BY <1>0, <1>1, <1>b DEF Settled
    <2>2. /\ lifecycle[KeyOf(h)] = h /\ reused[h] \in Gens
          /\ KeyOf(reused[h]) = KeyOf(h) /\ pc[reused[h]] \notin Before
      BY <1>0, <1>1 DEF BindsOK
    <2>3. launch'[reused[h]] = launch[reused[h]] /\ pc'[reused[h]] \notin Before
      BY <1>0, <2>2 DEF Settled
    <2> QED BY <1>1, <2>1, <2>2, <2>3 DEF KeyOf
  <1>2. ASSUME NEW g \in Gens, LaunchStep(g)
        PROVE  BindsOK'
    <2> SUFFICES ASSUME NEW h \in Gens, pc'[h] = "Binding"
                 PROVE  /\ lifecycle'[KeyOf(h)'] = h /\ reused'[h] \in Gens
                        /\ KeyOf(reused[h])' = KeyOf(h)' /\ pc'[reused'[h]] \notin Before
      BY DEF BindsOK
    <2>1. CASE h # g
      <3>1. pc[h] = "Binding" /\ reused'[h] = reused[h]
        BY <1>2, <2>1 DEF LaunchStep, LaunchFrame
      <3>2. lifecycle[KeyOf(h)] = h
        BY <1>0, <3>1 DEF BindsOK
      <3>3. lifecycle'[KeyOf(h)] = lifecycle[KeyOf(h)]
        BY <1>0, <1>2, <2>1, <3>2 DEF LaunchStep, LaunchFrame, OwnLocks
      <3> QED BY <1>1, <3>1, <3>3
    <2>2. CASE h = g /\ pc[g] = "Binding" /\ UNCHANGED <<lifecycle, reused>>
      BY <1>1, <2>2
    <2>3. CASE /\ h = g /\ lifecycle'[KeyOf(g)] = g /\ reused'[g] \in Gens
               /\ reg.actors[KeyOf(g)] = reused'[g] /\ launch'[g] = launch[g]
      <3> DEFINE x == reused'[g]
      <3>1. x # 0 /\ launch[x].key = KeyOf(g) /\ pc[x] \notin Before
        BY <1>0, <1>a, <2>3, GenFacts DEF ActorsOK
      <3>2. launch'[x] = launch[x] /\ pc'[x] \notin Before
        BY <1>0, <2>3, <3>1 DEF Settled
      <3> QED BY <2>3, <3>1, <3>2 DEF KeyOf
    <2> QED BY <1>2, <2>1, <2>2, <2>3 DEF LaunchStep, LaunchFrame
  <1>3. ASSUME NEW o \in Tasks, CommandFrame(o)
        PROVE  BindsOK'
    <2> SUFFICES ASSUME NEW h \in Gens, pc'[h] = "Binding"
                 PROVE  /\ lifecycle'[KeyOf(h)'] = h /\ reused'[h] \in Gens
                        /\ KeyOf(reused[h])' = KeyOf(h)' /\ pc'[reused'[h]] \notin Before
      BY DEF BindsOK
    <2>1. pc[h] = "Binding" /\ reused'[h] = reused[h]
      BY <1>3 DEF CommandFrame
    <2>2. o # h
      BY <1>0, <1>3, <2>1, SupervisorAssumption DEF CommandFrame, Life, GuardsOK
    <2>3. lifecycle[KeyOf(h)] = h
      BY <1>0, <2>1 DEF BindsOK
    <2>4. lifecycle'[KeyOf(h)] = lifecycle[KeyOf(h)]
      BY <1>0, <1>3, <2>2, <2>3 DEF CommandFrame, OwnLocks
    <2> QED BY <1>1, <2>1, <2>4
  <1>4. CASE TerminationFrame
    BY <1>0, <1>4 DEF TerminationFrame, BindsOK, KeyOf
  <1>5. CASE UNCHANGED vars
    BY <1>0, <1>5 DEF vars, BindsOK, KeyOf
  <1>6. Ops \subseteq Tasks
    BY DEF Tasks
  <1> QED BY <1>0, <1>2, <1>3, <1>4, <1>5, <1>6, LaunchLife, TaskLife, BeginLife, TerminationLife DEF Next

\* What stops know, after any step.
LEMMA StopsStep ==
    ASSUME Held, [Next]_vars
    PROVE  StopsOK'
  <1>0. Life /\ BindsOK /\ StopsOK /\ Settled
    BY SettledStep DEF Held
  <1>1. ASSUME NEW m \in Tasks, task'[m] = task[m], Holding(m)
        PROVE  StopOK(task'[m], m, pc', launch', reg', lifecycle')
    BY <1>0, <1>1, TaskFacts, StopStays DEF StopsOK
  <1>2. ASSUME NEW g \in Gens, LaunchStep(g), NEW m \in Tasks
        PROVE  StopOK(task'[m], m, pc', launch', reg', lifecycle')
    <2>1. CASE m # g
      <3>1. task'[m] = task[m]
        BY <1>2, <2>1 DEF LaunchStep, LaunchFrame
      <3>2. Holding(m)
        BY <1>0, <1>2, <2>1, LaunchLeavesLocks
      <3> QED BY <1>1, <3>1, <3>2
    <2>2. CASE m = g /\ task'[g] = task[g]
      <3>1. task[g] = NoTask
        BY <1>0, <1>2 DEF Life, GuardsOK, LaunchStep, LaunchFrame
      <3>2. task'[m].kind # "Stop"
        BY <2>2, <3>1 DEF NoTask
      <3> QED BY <3>2, FreshStop
    <2>3. CASE m = g /\ task'[g] \in {ReleaseOf(g), ExactOf(g)}
      <3>1. task'[m].phase = "Begun"
        BY <2>3 DEF ReleaseOf, ExactOf, NoTask
      <3> QED BY <3>1, FreshStop
    <2> QED BY <1>2, <2>1, <2>2, <2>3 DEF LaunchStep, LaunchFrame
  <1>3. ASSUME NEW o \in Tasks, CommandFrame(o), NEW m \in Tasks, m # o
        PROVE  StopOK(task'[m], m, pc', launch', reg', lifecycle')
    <2>1. task'[m] = task[m] /\ Holding(m)
      BY <1>3, CommandLeavesLocks DEF CommandFrame
    <2> QED BY <1>1, <2>1
  <1>4. ASSUME NEW o \in Tasks, TaskNext(o)
        PROVE  StopOK(task'[o], o, pc', launch', reg', lifecycle')
    <2>1. CASE task[o].kind = "Stop" /\ task[o].gen # 0
      BY <1>4, <2>1, StopsExactly DEF Stopped
    <2>2. CASE ~(task[o].kind = "Stop" /\ task[o].gen # 0)
      <3>1. task'[o].kind # "Stop" \/ task'[o].gen = 0
        BY <1>0, <1>4, <2>2, TaskKept
      <3> QED BY <3>1, FreshStop
    <2> QED BY <2>1, <2>2
  <1>5. ASSUME NEW o \in Ops, NEW c \in Commands, Begin(o, c)
        PROVE  StopOK(task'[o], o, pc', launch', reg', lifecycle')
    <2>1. task'[o] = BegunAs(c)
      BY <1>0, <1>5, BeginLife
    <2>2. task'[o].phase = "Begun"
      BY <2>1 DEF BegunAs, NoTask
    <2> QED BY <2>2, FreshStop
  <1>6. CASE TerminationFrame \/ UNCHANGED vars
    <2>1. task' = task /\ lifecycle' = lifecycle /\ reg'.search = reg.search
      BY <1>6 DEF TerminationFrame, vars
    <2>2. \A m \in Tasks : Holding(m)
      BY <2>1 DEF Holding
    <2> QED BY <1>1, <2>1, <2>2 DEF StopsOK
  <1>7. ASSUME NEW g \in Gens, LaunchNext(g) PROVE StopsOK'
    BY <1>0, <1>2, <1>7, LaunchLife DEF StopsOK
  <1>8. ASSUME NEW o \in Tasks, TaskNext(o) PROVE StopsOK'
    <2>1. CommandFrame(o)
      BY <1>0, <1>8, TaskLife
    <2> SUFFICES ASSUME NEW m \in Tasks PROVE StopOK(task'[m], m, pc', launch', reg', lifecycle')
      BY DEF StopsOK
    <2> QED BY <1>3, <1>4, <1>8, <2>1
  <1>9. ASSUME NEW o \in Ops, NEW c \in Commands, Begin(o, c) PROVE StopsOK'
    <2>1. CommandFrame(o) /\ o \in Tasks
      BY <1>0, <1>9, BeginLife DEF Tasks
    <2> SUFFICES ASSUME NEW m \in Tasks PROVE StopOK(task'[m], m, pc', launch', reg', lifecycle')
      BY DEF StopsOK
    <2> QED BY <1>3, <1>5, <1>9, <2>1
  <1> QED BY <1>0, <1>6, <1>7, <1>8, <1>9, TerminationLife DEF Next

\* What searches and stops hold, in every state.
LEMMA HeldStep ==
    ASSUME Held, [Next]_vars
    PROVE  Held'
  <1>1. Life
    BY DEF Held
  <1> QED BY <1>1, LifeStep, BindsStep, StopsStep DEF Held

\* Nobody holds a lock at first.
LEMMA HeldInit == Init => Held
  <1> SUFFICES ASSUME Init PROVE Held
    OBVIOUS
  <1>1. BindsOK
    BY DEF Init, BindsOK
  <1>2. StopsOK
    BY DEF Init, StopsOK, StopOK, NoTask
  <1> QED BY <1>1, <1>2, LifeInit DEF Held

\* A step that changes the task of a stop is a step of that stop.
LEMMA StopMovesItself ==
    ASSUME Life, [Next]_vars, NEW o \in Tasks, task[o].kind = "Stop", task'[o] # task[o]
    PROVE  TaskNext(o)
  <1>0. task[o] # NoTask
    BY DEF NoTask
  <1>1. ASSUME NEW g \in Gens, LaunchNext(g) PROVE FALSE
    <2>1. LaunchFrame(g)
      BY <1>1, LaunchLife DEF LaunchStep
    <2>2. o = g
      BY <2>1 DEF LaunchFrame
    <2> QED BY <1>0, <2>1, <2>2 DEF Life, GuardsOK, LaunchFrame
  <1>2. ASSUME NEW g \in Gens, Terminations(g) \/ ChildExits(g) PROVE FALSE
    BY <1>2, TerminationLife DEF TerminationFrame
  <1>3. ASSUME NEW m \in Ops, NEW c \in Commands, Begin(m, c) PROVE FALSE
    <2>1. \A n \in Tasks : n # m => task'[n] = task[n]
      BY <1>3, BeginLife DEF CommandFrame
    <2>2. task[m] = NoTask
      BY <1>3 DEF Begin
    <2> QED BY <1>0, <2>1, <2>2
  <1>4. ASSUME NEW m \in Tasks, TaskNext(m) PROVE m = o
    BY <1>4, TaskLife DEF CommandFrame
  <1>5. ~UNCHANGED vars
    BY DEF vars
  <1> QED BY <1>1, <1>2, <1>3, <1>4, <1>5 DEF Next

\* A stop or release of one search takes down no engine that has gone on to
\* serve another search, and cancels no other search, although it selects
\* its engine under no lock and looks at it again two awaits later.
THEOREM StopsAreExact == Spec => StopIsExact
  <1>1. ASSUME Held, [Next]_vars
        PROVE  [\A o \in Tasks :
                   task[o].kind = "Stop" /\ task[o].gen # 0 /\ task'[o] # task[o] =>
                      \A k \in Keys :
                         LET a == reg.actors[k]
                         IN  a # 0 /\ OwnerGeneration(reg, a) # task[o].gen =>
                                /\ reg'.actors[k] = a
                                /\ a \in reg'.stopped => a \in reg.stopped
                                /\ OwnerGeneration(reg, a) \in reg'.cancelled =>
                                      OwnerGeneration(reg, a) \in reg.cancelled]_vars
    <2> SUFFICES ASSUME NEW o \in Tasks, task[o].kind = "Stop", task[o].gen # 0,
                        task'[o] # task[o], NEW k \in Keys, reg.actors[k] # 0,
                        OwnerGeneration(reg, reg.actors[k]) # task[o].gen
                 PROVE  /\ reg'.actors[k] = reg.actors[k]
                        /\ reg.actors[k] \in reg'.stopped => reg.actors[k] \in reg.stopped
                        /\ OwnerGeneration(reg, reg.actors[k]) \in reg'.cancelled =>
                              OwnerGeneration(reg, reg.actors[k]) \in reg.cancelled
      OBVIOUS
    <2>1. Life
      BY <1>1 DEF Held
    <2>2. Exact(reg, reg', task[o].gen)
      BY <1>1, <2>1, StopMovesItself, StopsExactly DEF Stopped
    <2>3. reg.actors[k] \in Gens
      BY <2>1, GenFacts DEF Life, Inv, TypeOK, Registry
    <2> QED BY <2>2, <2>3 DEF Exact
  <1> QED BY <1>1, HeldInit, HeldStep, PTL DEF Spec, StopIsExact
=============================================================================
