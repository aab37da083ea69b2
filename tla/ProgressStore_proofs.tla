------------------------ MODULE ProgressStore_proofs ------------------------
(***************************************************************************)
(* The authority of a progress lease, for any number of ids, threads and   *)
(* generations and any capacity.                                           *)
(***************************************************************************)
EXTENDS ProgressStore, TLAPS

Entries == [Ids -> Item \cup {None}]
Commands == [at: {"Decided", "Emitting", "Answered"}, id: Ids, live: BOOLEAN, gen: Nat]

\* What the action properties rest on: no generation is ahead of the clock,
\* and a clear that has decided knows whether its download is still live.
StoreInv ==
    /\ entries \in Entries
    /\ clock \in Nat
    /\ lease \in [Threads -> Lease \cup {None}]
    /\ \A i \in Present : entries[i].gen <= clock
    /\ live \subseteq Ids
    /\ clear \in {Idle} \cup Commands
    /\ clear.at = "Decided" => (clear.live <=> clear.id \in live)

\* A step that writes at most the id i, keeping its generation, and drops
\* others.
Keeps(i) ==
    /\ entries' \in Entries
    /\ \A j \in Ids : \/ entries'[j] = None
                      \/ entries'[j] = entries[j]
                      \/ /\ j = i /\ entries[i] # None /\ ~Terminal(entries[i])
                         /\ entries'[i].gen = entries[i].gen
                         /\ entries'[i].progress >= entries[i].progress

\* Purging and dropping entries.
LEMMA Drops ==
    ASSUME NEW keep, entries \in Entries, Becomes(None, None, keep)
    PROVE  Keeps(None)
  BY ProgressAssumption DEF Becomes, Keeps, Entries

\* Touching an entry without changing it.
LEMMA Touches ==
    ASSUME NEW i \in Ids, NEW keep, entries \in Entries, Becomes(i, entries[i], keep)
    PROVE  Keeps(i)
  BY DEF Becomes, Keeps, Entries

\* sanitize answers a percentage.
LEMMA SanitizeType == ASSUME NEW p \in Raw PROVE Sanitize(p) \in 0 .. Full
  BY ProgressAssumption DEF Raw, Sanitize

\* transition_with_failure_at under the current lease and under a stale one.
LEMMA TransitionKeeps ==
    ASSUME StoreInv, NEW t \in Threads, NEW l \in Lease, NEW p \in Raw,
           NEW st \in States, Transition(t, l, p, st)
    PROVE  /\ \E i : Keeps(i)
           /\ clock' = clock
  <1>0. clock' = clock /\ l.id \in Ids
    BY DEF Transition, Lease
  <1>1. CASE ~Current(l)
    <2>1. Becomes(None, None, FreshBut(None))
      BY <1>1 DEF Transition
    <2>2. Keeps(None)
      BY <2>1, Drops DEF StoreInv
    <2> QED BY <1>0, <2>2
  <1>2. CASE Current(l)
    <2> DEFINE i == l.id
               new == Moved(l, p, st)
    <2>1. entries[i] \in Item /\ entries[i].gen = l.gen
      BY <1>2, <1>0 DEF Current, Fresh, Present, StoreInv, Entries
    <2>2. Becomes(i, new, FreshBut(i))
      BY <1>2 DEF Transition
    <2>3. CASE Terminal(entries[i])
      <3>1. new = entries[i]
        BY <2>3 DEF Moved
      <3> HIDE DEF new
      <3>2. Keeps(i)
        BY <2>2, <3>1, <1>0, Touches DEF StoreInv
      <3> QED BY <1>0, <3>2
    <2>4. CASE ~Terminal(entries[i])
      <3>1. /\ new.gen = entries[i].gen /\ new.progress \in 0 .. Full
            /\ new.progress >= entries[i].progress
        <4> DEFINE q == Sanitize(p)
        <4>1. q \in 0 .. Full /\ entries[i].progress \in 0 .. Full
          BY SanitizeType, <2>1 DEF Item
        <4>2. new = [gen |-> l.gen, state |-> st,
                     progress |-> IF q > entries[i].progress THEN q ELSE entries[i].progress]
          BY <2>4 DEF Moved
        <4> HIDE DEF q, new
        <4> QED BY <4>1, <4>2, <2>1, ProgressAssumption
      <3>2. new \in Item
        <4>1. new = [gen |-> l.gen, state |-> st, progress |-> new.progress]
          BY <2>4 DEF Moved
        <4> HIDE DEF new
        <4> QED BY <4>1, <3>1, <2>1 DEF Item
      <3> HIDE DEF new
      <3>3. entries' = [j \in Ids |-> IF j = i THEN new
                          ELSE IF j \in Fresh \cap {FreshBut(i)[n] : n \in 1 .. Len(FreshBut(i))}
                               THEN entries[j] ELSE None]
        BY <2>2 DEF Becomes
      <3>4. entries' \in Entries
        BY <3>2, <3>3 DEF StoreInv, Entries
      <3>5. Keeps(i)
        BY <3>1, <3>3, <3>4, <2>1, <2>4, <1>0, ProgressAssumption DEF Keeps
      <3> QED BY <1>0, <3>5
    <2> QED BY <2>3, <2>4
  <1> QED BY <1>1, <1>2

\* What every step does to the entries: it starts a generation, or keeps the
\* generations it leaves.
Starts(i) ==
    /\ entries' \in Entries
    /\ clock' = clock + 1
    /\ entries'[i].gen = clock + 1
    /\ \A j \in Ids \ {i} : entries'[j] = None \/ entries'[j] = entries[j]

EntriesStep ==
    \/ \E i \in Ids : Starts(i)
    \/ /\ \E i : Keeps(i)
       /\ clock' \in Nat /\ clock' >= clock

\* Every operation of the store is such a step and keeps the invariant.
LEMMA StoreStep == StoreInv /\ [Next]_vars => StoreInv' /\ EntriesStep
  <1> SUFFICES ASSUME StoreInv, [Next]_vars PROVE StoreInv' /\ EntriesStep
    OBVIOUS
  <1>k. ASSUME NEW i, Keeps(i), clock' \in Nat, clock' >= clock
        PROVE  /\ EntriesStep
               /\ \A j \in Present' : entries'[j].gen <= clock'
    <2>1. EntriesStep
      BY <1>k DEF EntriesStep
    <2>2. ASSUME NEW j \in Present' PROVE entries'[j].gen <= clock'
      <3>1. j \in Ids /\ entries'[j] # None
        BY <2>2 DEF Present
      <3>2. j \in Present /\ entries'[j].gen = entries[j].gen
        BY <3>1, <1>k, ProgressAssumption DEF Keeps, Present, StoreInv, Entries
      <3>3. entries[j].gen \in Nat /\ entries[j].gen <= clock
        BY <3>2, ProgressAssumption DEF StoreInv, Present, Entries, Item, Gens
      <3> QED BY <3>2, <3>3, <1>k DEF StoreInv
    <2> QED BY <2>1, <2>2
  <1>u. ASSUME UNCHANGED <<entries, clock>> PROVE Keeps(None) /\ clock' \in Nat /\ clock' >= clock
    BY <1>u DEF StoreInv, Keeps
  \* The conjunct about a decided clear only depends on the command and live.
  <1>d. ASSUME UNCHANGED <<clear, live>>
        PROVE  /\ live' \subseteq Ids
               /\ clear' \in {Idle} \cup Commands
               /\ clear'.at = "Decided" => (clear'.live <=> clear'.id \in live')
    BY <1>d DEF StoreInv
  <1>1. ASSUME NEW t \in Threads, NEW i \in Ids, Start(t, i)
        PROVE  StoreInv' /\ EntriesStep
    <2> DEFINE new == [gen |-> clock + 1, progress |-> 0, state |-> "Running"]
               keep == RoomForOne(FreshBut(i))
    <2>1. clock + 1 \in Gens /\ clock' = clock + 1 /\ clock' \in Nat
      BY <1>1, ProgressAssumption DEF Start, StoreInv, Gens
    <2>2. new \in Item
      BY <2>1, ProgressAssumption DEF Item, States
    <2>3. Becomes(i, new, keep)
      BY <1>1 DEF Start
    <2>4. entries' = [j \in Ids |-> IF j = i THEN new
                        ELSE IF j \in Fresh \cap {keep[n] : n \in 1 .. Len(keep)}
                             THEN entries[j] ELSE None]
      BY <2>3 DEF Becomes
    <2>5. entries' \in Entries
      BY <2>2, <2>4 DEF StoreInv, Entries
    <2>6. Starts(i)
      BY <2>1, <2>4, <2>5 DEF Starts
    <2>7. \A j \in Present' : entries'[j].gen <= clock'
      <3> SUFFICES ASSUME NEW j \in Ids, entries'[j] # None PROVE entries'[j].gen <= clock'
        BY DEF Present
      <3>1. CASE j = i
        BY <3>1, <2>1, <2>6 DEF Starts
      <3>2. CASE j # i
        <4>1. entries'[j] = entries[j] /\ j \in Present
          BY <3>2, <2>6 DEF Starts, Present
        <4>2. entries[j].gen \in Nat /\ entries[j].gen <= clock
          BY <4>1 DEF StoreInv, Present, Entries, Item, Gens
        <4> QED BY <4>1, <4>2, <2>1 DEF StoreInv
      <3> QED BY <3>1, <3>2
    <2>8. lease' \in [Threads -> Lease \cup {None}]
      BY <1>1, <2>1 DEF Start, StoreInv, Lease
    <2> QED BY <1>1, <1>d, <2>1, <2>5, <2>6, <2>7, <2>8 DEF Start, StoreInv, EntriesStep
  <1>2. ASSUME NEW t \in Threads, NEW u \in Threads, Share(t, u)
        PROVE  StoreInv' /\ EntriesStep
    BY <1>2, <1>u, <1>k, <1>d DEF Share, store, StoreInv, Keeps
  <1>t. ASSUME NEW t \in Threads, NEW l \in Lease, NEW p \in Raw, NEW st \in States,
               Transition(t, l, p, st), UNCHANGED <<clear, live>>,
               lease' \in [Threads -> Lease \cup {None}]
        PROVE  StoreInv' /\ EntriesStep
    <2>1. PICK i : Keeps(i)
      BY <1>t, TransitionKeeps
    <2>2. clock' = clock
      BY <1>t, TransitionKeeps
    <2> QED BY <1>t, <1>k, <1>d, <2>1, <2>2 DEF StoreInv, Keeps
  <1>3. ASSUME NEW t \in Threads, NEW p \in Raw, NEW st \in {"Running"} \cup Outcomes,
               Report(t, p, st)
        PROVE  StoreInv' /\ EntriesStep
    <2>1. lease[t] \in Lease /\ st \in States
      BY <1>3, ProgressAssumption DEF Report, StoreInv, States
    <2> QED BY <1>3, <1>t, <2>1 DEF Report, StoreInv
  <1>4. ASSUME NEW t \in Threads, DropJob(t)
        PROVE  StoreInv' /\ EntriesStep
    <2>1. lease[t] \in Lease /\ lease' \in [Threads -> Lease \cup {None}]
          /\ UNCHANGED <<clear, live>>
      BY <1>4 DEF DropJob, StoreInv
    <2>2. CASE owner[t]
      <3>1. 0 \in Raw /\ "Cancelled" \in States
        BY ProgressAssumption DEF Raw, States
      <3> QED BY <1>4, <1>t, <2>1, <2>2, <3>1 DEF DropJob
    <2>3. CASE ~owner[t]
      BY <1>4, <1>u, <1>k, <1>d, <2>1, <2>3 DEF DropJob, store, StoreInv, Keeps
    <2> QED BY <2>2, <2>3
  <1>5. ASSUME NEW t \in Threads, Emit(t)
        PROVE  StoreInv' /\ EntriesStep
    BY <1>5, <1>u, <1>k, <1>d DEF Emit, store, StoreInv, Keeps
  <1>6. ASSUME NEW i \in Ids, Get(i)
        PROVE  StoreInv' /\ EntriesStep
    <2>1. \E j : Keeps(j)
      BY <1>6, Drops, Touches DEF Get, StoreInv
    <2> QED BY <1>6, <1>k, <1>d, <2>1 DEF Get, StoreInv, Keeps
  <1>7. ASSUME NEW i \in Ids, Expire(i)
        PROVE  StoreInv' /\ EntriesStep
    BY <1>7, <1>u, <1>k, <1>d DEF Expire, StoreInv, Keeps
  <1>8. ASSUME NEW i \in Ids, Claim(i) \/ Unclaim(i) \/ ClearDecide(i)
        PROVE  StoreInv' /\ EntriesStep
    <2>1. UNCHANGED <<entries, clock, lease>>
      BY <1>8 DEF Claim, Unclaim, ClearDecide, store
    <2>2. live' \subseteq Ids
      BY <1>8 DEF Claim, Unclaim, ClearDecide, StoreInv
    <2>3. /\ clear' \in {Idle} \cup Commands
          /\ clear'.at = "Decided" => (clear'.live <=> clear'.id \in live')
      <3>1. CASE Claim(i) \/ Unclaim(i)
        BY <3>1 DEF Claim, Unclaim, RegistryFree, StoreInv
      <3>2. CASE ClearDecide(i)
        <4> DEFINE b == i \in live
        <4>1. clear' = [at |-> "Decided", id |-> i, live |-> b, gen |-> 0] /\ live' = live
          BY <3>2 DEF ClearDecide
        <4>2. b \in BOOLEAN
          OBVIOUS
        <4>3. clear'.id = i /\ (clear'.live <=> b)
          BY <4>1
        <4>4. clear' \in Commands
          <5> HIDE DEF b
          <5> QED BY <4>1, <4>2 DEF Commands
        <4> QED BY <4>1, <4>3, <4>4
      <3> QED BY <1>8, <3>1, <3>2
    <2> QED BY <1>u, <1>k, <2>1, <2>2, <2>3 DEF StoreInv, Keeps
  <1>9. CASE ClearStore
    <2> DEFINE i == clear.id
               spared == clear.live /\ entries[i] # None /\ entries[i].state = "Running"
    <2>0. clear \in Commands /\ i \in Ids /\ clear.at = "Decided" /\ lease' = lease /\ live' = live
      BY <1>9 DEF ClearStore, StoreInv, Idle, Commands
    <2>1. CASE spared
      <3>1. entries[i].gen \in Nat
        BY <2>0, <2>1, ProgressAssumption DEF StoreInv, Entries, Item, Gens
      <3>2. /\ clear' = [clear EXCEPT !.at = "Answered", !.gen = entries[i].gen]
            /\ UNCHANGED <<entries, clock>>
        BY <1>9, <2>1 DEF ClearStore, store
      <3>3. clear' \in Commands /\ clear'.at = "Answered"
        BY <2>0, <3>1, <3>2 DEF Commands
      <3> QED BY <1>u, <1>k, <2>0, <3>2, <3>3 DEF StoreInv, Keeps
    <2>2. CASE ~spared
      <3>1. /\ clear' = [clear EXCEPT !.at = "Emitting", !.gen = clock + 1]
            /\ clock' = clock + 1
            /\ entries' = [entries EXCEPT ![i] = None]
        BY <1>9, <2>2 DEF ClearStore
      <3>2. clear' \in Commands /\ clear'.at = "Emitting"
        <4> DEFINE next == clock + 1
        <4>1. next \in Nat
          BY DEF StoreInv
        <4>2. clear' = [clear EXCEPT !.at = "Emitting", !.gen = next]
          BY <3>1
        <4> HIDE DEF next
        <4> QED BY <2>0, <4>1, <4>2 DEF Commands
      <3>3. Keeps(None) /\ clock' \in Nat /\ clock' >= clock
        BY <2>0, <3>1 DEF StoreInv, Keeps, Entries
      <3> QED BY <1>k, <2>0, <3>2, <3>3 DEF StoreInv, Keeps
    <2> QED BY <2>1, <2>2
  <1>10. CASE ClearEmit \/ ClearReturn
    <2>1. UNCHANGED <<entries, clock, lease, live>>
      BY <1>10 DEF ClearEmit, ClearReturn, store
    <2>2. clear' \in {Idle} \cup Commands /\ clear'.at # "Decided"
      BY <1>10 DEF ClearEmit, ClearReturn, StoreInv, Idle, Commands
    <2> QED BY <1>u, <1>k, <2>1, <2>2 DEF StoreInv, Keeps
  <1>11. CASE UNCHANGED vars
    BY <1>11, <1>u, <1>k, <1>d DEF vars, store, StoreInv, Keeps
  <1> QED BY <1>1, <1>2, <1>3, <1>4, <1>5, <1>6, <1>7, <1>8, <1>9, <1>10, <1>11 DEF Next

\* The store starts empty.
LEMMA StoreInit == Init => StoreInv
  BY DEF Init, StoreInv, Entries, Present, Idle

\* No generation is ever ahead of the clock, and a decided clear is right
\* about its download until it has acted.
THEOREM StoreInvariance == Spec => []StoreInv
  BY StoreInit, StoreStep, PTL DEF Spec

\* An entry that left the store by completion, restart, eviction, expiry or
\* clear is never recreated by the threads that still report under its lease.
THEOREM StaleLeasesAreRefused == Spec => NoResurrection
  <1>1. StoreInv /\ [Next]_vars =>
           [\A i \in Ids : entries'[i] # None =>
              \/ entries'[i].gen > clock
              \/ entries[i] # None /\ entries'[i].gen = entries[i].gen]_vars
    <2> SUFFICES ASSUME StoreInv, EntriesStep, NEW i \in Ids, entries'[i] # None
                 PROVE  \/ entries'[i].gen > clock
                        \/ entries[i] # None /\ entries'[i].gen = entries[i].gen
      BY StoreStep
    <2>1. ASSUME NEW j \in Ids, Starts(j)
          PROVE  \/ entries'[i].gen > clock
                 \/ entries[i] # None /\ entries'[i].gen = entries[i].gen
      <3>1. CASE i = j
        BY <3>1, <2>1 DEF Starts, StoreInv
      <3>2. CASE i # j
        BY <3>2, <2>1 DEF Starts
      <3> QED BY <3>1, <3>2
    <2>2. ASSUME NEW j, Keeps(j)
          PROVE  entries[i] # None /\ entries'[i].gen = entries[i].gen
      BY <2>2 DEF Keeps
    <2> QED BY <2>1, <2>2 DEF EntriesStep
  <1> QED BY <1>1, StoreInvariance, PTL DEF Spec, NoResurrection

\* The first terminal state of a job is the one that stays, and its progress
\* never falls.
THEOREM TerminalStateSticks == Spec => FirstTerminalWins
  <1>1. StoreInv /\ [Next]_vars =>
           [\A i \in Ids :
              (/\ entries[i] # None /\ entries'[i] # None
               /\ entries'[i].gen = entries[i].gen)
              => /\ entries'[i].progress >= entries[i].progress
                 /\ Terminal(entries[i]) => entries'[i] = entries[i]]_vars
    <2> SUFFICES ASSUME StoreInv, EntriesStep, NEW i \in Ids, entries[i] # None,
                        entries'[i] # None, entries'[i].gen = entries[i].gen
                 PROVE  /\ entries'[i].progress >= entries[i].progress
                        /\ Terminal(entries[i]) => entries'[i] = entries[i]
      BY StoreStep
    <2>0. entries[i].progress \in Nat /\ entries[i].gen \in Nat /\ entries[i].gen <= clock
      BY ProgressAssumption DEF StoreInv, Present, Entries, Item, Gens
    <2>1. ASSUME NEW j \in Ids, Starts(j)
          PROVE  entries'[i] = entries[i]
      <3>1. i # j
        BY <2>0, <2>1 DEF Starts, StoreInv
      <3> QED BY <2>1, <3>1 DEF Starts
    <2>2. ASSUME NEW j, Keeps(j)
          PROVE  /\ entries'[i].progress >= entries[i].progress
                 /\ Terminal(entries[i]) => entries'[i] = entries[i]
      BY <2>0, <2>2 DEF Keeps
    <2> QED BY <2>0, <2>1, <2>2 DEF EntriesStep
  <1> QED BY <1>1, StoreInvariance, PTL DEF Spec, FirstTerminalWins

\* clear_progress spares the running bar of a live download.
THEOREM ClearSparesLiveDownloads == Spec => LiveBarSpared
  <1> DEFINE Spared == ClearStore =>
          \A i \in live : entries[i] # None /\ entries[i].state = "Running"
                          => entries'[i] = entries[i]
  <1>1. StoreInv => Spared
    <2> SUFFICES ASSUME StoreInv, ClearStore, NEW i \in live, entries[i] # None,
                        entries[i].state = "Running"
                 PROVE  entries'[i] = entries[i]
      OBVIOUS
    <2>1. CASE i = clear.id
      <3>1. clear.live
        BY <2>1 DEF ClearStore, StoreInv
      <3> QED BY <2>1, <3>1 DEF ClearStore, store
    <2>2. CASE i # clear.id
      BY <2>2 DEF ClearStore, StoreInv, store, Entries
    <2> QED BY <2>1, <2>2
  <1>2. StoreInv /\ [Next]_vars => [Spared]_vars
    BY <1>1
  <1> QED BY <1>2, StoreInvariance, PTL DEF Spec, LiveBarSpared

=============================================================================
