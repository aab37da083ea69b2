--------------------------- MODULE ProgressStore ---------------------------
(***************************************************************************)
(* The store of job progress: src-tauri/src/progress.rs.                   *)
(*                                                                         *)
(* A mutex guards the store, so each of its methods is one action.  Events  *)
(* are emitted after the mutex is released: a thread that changed the store *)
(* still has its event to send, and threads overtake each other.            *)
(*                                                                         *)
(* clear_progress decides under the operation registry's lock whether a      *)
(* live download reports under the id; live is that part of the registry.   *)
(***************************************************************************)
EXTENDS Integers, Sequences, FiniteSets

CONSTANTS
    Ids,          \* progress ids
    Threads,      \* native threads that report progress
    Capacity,     \* PROGRESS_CAPACITY
    Full,         \* 100 percent; 0 .. Full are the percentages told apart
    Outcomes,     \* terminal states that jobs report, besides being dropped
    MaxGen,       \* bound: generations handed out
    None

States == {"Running", "Succeeded", "Failed", "Cancelled"}
Gens == 1 .. MaxGen + 1     \* a clear decided at the bound still ends
Item == [gen: Gens, progress: 0 .. Full, state: States]
Event == [id: Ids, item: Item, cleared: BOOLEAN]
Lease == [id: Ids, gen: Gens]
Idle == [at |-> "Idle"]      \* no clear_progress command is running

ASSUME ProgressAssumption ==
    /\ Capacity \in Nat \ {0} /\ Full \in Nat \ {0} /\ MaxGen \in Nat
    /\ Outcomes \subseteq {"Succeeded", "Failed", "Cancelled"}
    /\ None \notin Ids \cup Item \cup Event \cup Lease

VARIABLES
    entries,    \* ProgressStoreState.entries
    expired,    \* updated_at is a time to live ago
    recency,    \* the ids in the store, least recently accessed first
    clock,      \* generation_clock
    lease,      \* the lease a thread reports under
    owner,      \* whether the thread owns the job (the others share its lease)
    out,        \* the event a thread has still to emit
    live,       \* ids with an accepted, uncancelled download
    clear       \* the clear_progress command in progress

store == <<entries, expired, recency, clock>>
vars == <<store, lease, owner, out, live, clear>>

Terminal(i) == i.state # "Running"
Present == {i \in Ids : entries[i] # None}

\* purge_expired_at.
Fresh == {i \in Present : ~expired[i]}
FreshBut(i) == SelectSeq(recency, LAMBDA x : x \in Fresh \ {i})

\* evict_to_capacity leaves room for one: the most recently accessed stay.
RoomForOne(order) ==
    IF Len(order) < Capacity THEN order
    ELSE SubSeq(order, Len(order) - Capacity + 2, Len(order))

\* The store once i holds new and, besides it, only the fresh ids of keep are
\* left.
Becomes(i, new, keep) ==
    LET kept == Fresh \cap {keep[n] : n \in 1 .. Len(keep)}
    IN  /\ entries' = [j \in Ids |-> IF j = i THEN new
                                     ELSE IF j \in kept THEN entries[j] ELSE None]
        /\ expired' = [j \in Ids |-> j # i /\ j \in kept /\ expired[j]]
        /\ recency' = IF new = None THEN keep ELSE Append(keep, i)

Init ==
    /\ entries = [i \in Ids |-> None]
    /\ expired = [i \in Ids |-> FALSE]
    /\ recency = <<>>
    /\ clock = 0
    /\ lease = [t \in Threads |-> None]
    /\ owner = [t \in Threads |-> FALSE]
    /\ out = [t \in Threads |-> None]
    /\ live = {}
    /\ clear = Idle

-----------------------------------------------------------------------------
(* The native store and the threads that report to it.                     *)

\* begin_progress: a new generation replaces whatever the id had.
Start(t, i) ==
    /\ lease[t] = None /\ out[t] = None
    /\ clock < MaxGen
    /\ LET new == [gen |-> clock + 1, progress |-> 0, state |-> "Running"]
       IN  /\ Becomes(i, new, RoomForOne(FreshBut(i)))
           /\ lease' = [lease EXCEPT ![t] = [id |-> i, gen |-> clock + 1]]
           /\ out' = [out EXCEPT ![t] = [id |-> i, item |-> new, cleared |-> FALSE]]
    /\ clock' = clock + 1
    /\ owner' = [owner EXCEPT ![t] = TRUE]
    /\ UNCHANGED <<live, clear>>

\* A worker thread of the job gets a clone of the lease.
Share(t, u) ==
    /\ lease[t] # None /\ owner[t]
    /\ lease[u] = None /\ out[u] = None
    /\ lease' = [lease EXCEPT ![u] = lease[t]]
    /\ UNCHANGED <<store, owner, out, live, clear>>

\* The lease names the generation the store has.
CurrentById(l) == l.id \in Fresh

Current(l) == l.id \in Fresh /\ entries[l.id].gen = l.gen

\* sanitize: clamped to 0 .. 100.  What is not finite counts as 0, as what is
\* negative does.
Raw == -1 .. Full + 1
Sanitize(p) == IF p < 0 THEN 0 ELSE IF p > Full THEN Full ELSE p

\* What a transition leaves: a terminal item sticks, progress only grows.
MovedAgain(l, raw, st) ==
    LET old == entries[l.id]
        p == Sanitize(raw)
    IN  [gen |-> l.gen, progress |-> IF p > old.progress THEN p ELSE old.progress,
         state |-> st]

Moved(l, raw, st) ==
    LET old == entries[l.id]
        p == Sanitize(raw)
    IN  IF Terminal(old) THEN old
        ELSE [gen |-> l.gen, progress |-> IF p > old.progress THEN p ELSE old.progress,
              state |-> st]

\* transition_with_failure_at: a stale lease changes nothing but the purge,
\* and only a change of progress or state has an event.
Transition(t, l, p, st) ==
    /\ IF Current(l)
       THEN /\ Becomes(l.id, Moved(l, p, st), FreshBut(l.id))
            /\ out' = IF Moved(l, p, st) = entries[l.id] THEN out
                      ELSE [out EXCEPT ![t] = [id |-> l.id, item |-> Moved(l, p, st),
                                               cleared |-> FALSE]]
       ELSE /\ Becomes(None, None, FreshBut(None))
            /\ UNCHANGED out
    /\ UNCHANGED clock

\* update_progress_with_state, publish_download_failure, JobProgress::complete.
\* Only the owner of a job ends it: at 100 percent, or at what was reached.
Report(t, p, st) ==
    /\ lease[t] # None /\ out[t] = None
    /\ st # "Running" => owner[t] /\ p = IF st = "Succeeded" THEN Full ELSE 0
    /\ Transition(t, lease[t], p, st)
    /\ UNCHANGED <<lease, owner, live, clear>>

\* Drop of a JobProgress, after its workers are joined: an abandoned job was
\* cancelled.  A worker only lets go of its clone.
DropJob(t) ==
    /\ lease[t] # None /\ out[t] = None
    /\ IF owner[t]
       THEN /\ \A u \in Threads \ {t} : lease[u] # lease[t]
            /\ Transition(t, lease[t], 0, "Cancelled")
       ELSE UNCHANGED <<store, out>>
    /\ lease' = [lease EXCEPT ![t] = None]
    /\ owner' = [owner EXCEPT ![t] = FALSE]
    /\ UNCHANGED <<live, clear>>

\* emit, after the store's mutex is released.
Emit(t) ==
    /\ out[t] # None
    /\ out' = [out EXCEPT ![t] = None]
    /\ UNCHANGED <<store, lease, owner, live, clear>>

\* Time passes: TERMINAL_TTL or RUNNING_TTL since the last change.
Expire(i) ==
    /\ entries[i] # None /\ ~expired[i]
    /\ expired' = [expired EXCEPT ![i] = TRUE]
    /\ UNCHANGED <<entries, recency, clock, lease, owner, out, live, clear>>

\* get_progress, whose answer is Answer(i).  failed_snapshot is the same for
\* an id that is not in the store: it purges and touches nothing.
Answer(i) == IF i \in Fresh THEN entries[i] ELSE None

Get(i) ==
    /\ IF i \in Fresh THEN Becomes(i, entries[i], FreshBut(i))
                      ELSE Becomes(None, None, FreshBut(None))
    /\ UNCHANGED <<clock, lease, owner, out, live, clear>>

-----------------------------------------------------------------------------
(* clear_progress: the registry's lock is held from the decision until the  *)
(* store is cleared, and download admission takes that lock too.            *)

RegistryFree == clear.at # "Decided"

ClaimUnlocked(i) ==
    /\ i \notin live
    /\ live' = live \cup {i}
    /\ UNCHANGED <<store, lease, owner, out, clear>>

Claim(i) ==
    /\ RegistryFree
    /\ i \notin live
    /\ live' = live \cup {i}
    /\ UNCHANGED <<store, lease, owner, out, clear>>

\* The download is cancelled or its lease is dropped.
Unclaim(i) ==
    /\ RegistryFree
    /\ i \in live
    /\ live' = live \ {i}
    /\ UNCHANGED <<store, lease, owner, out, clear>>

\* with_live_download_for_progress.
ClearDecide(i) ==
    /\ clear = Idle
    /\ clock < MaxGen
    /\ clear' = [at |-> "Decided", id |-> i, live |-> i \in live, gen |-> 0]
    /\ UNCHANGED <<store, lease, owner, out, live>>

\* clear_unless_live_running.  No purge; the generation clock advances
\* unless a live download's bar is spared.
ClearStore ==
    LET i == clear.id IN
    /\ clear.at = "Decided"
    /\ IF clear.live /\ entries[i] # None /\ entries[i].state = "Running"
       THEN /\ clear' = [clear EXCEPT !.at = "Answered", !.gen = entries[i].gen]
            /\ UNCHANGED store
       ELSE /\ clock' = clock + 1
            /\ clear' = [clear EXCEPT !.at = "Emitting", !.gen = clock + 1]
            /\ entries' = [entries EXCEPT ![i] = None]
            /\ expired' = [expired EXCEPT ![i] = FALSE]
            /\ recency' = SelectSeq(recency, LAMBDA x : x # i)
    /\ UNCHANGED <<lease, owner, out, live>>

ClearEmit ==
    /\ clear.at = "Emitting"
    /\ clear' = [clear EXCEPT !.at = "Answered"]
    /\ UNCHANGED <<store, lease, owner, out, live>>

\* The command returns its generation.
ClearReturn ==
    /\ clear.at = "Answered"
    /\ clear' = Idle
    /\ UNCHANGED <<store, lease, owner, out, live>>

-----------------------------------------------------------------------------

Next ==
    \/ \E t \in Threads :
          \/ \E i \in Ids : Start(t, i)
          \/ \E u \in Threads : Share(t, u)
          \/ \E p \in Raw, st \in {"Running"} \cup Outcomes : Report(t, p, st)
          \/ DropJob(t) \/ Emit(t)
    \/ \E i \in Ids :
          Get(i) \/ Expire(i) \/ Claim(i) \/ Unclaim(i) \/ ClearDecide(i)
    \/ ClearStore \/ ClearEmit \/ ClearReturn

Spec == Init /\ [][Next]_vars

-----------------------------------------------------------------------------

\* "no stale or arbitrary ID can recreate an entry after completion, restart,
\* eviction, or clear" (progress.rs:159-160): a generation that left the
\* store does not come back, although its threads go on reporting.
NoResurrection ==
    [][\A i \in Ids : entries'[i] # None =>
          \/ entries'[i].gen > clock
          \/ entries[i] # None /\ entries'[i].gen = entries[i].gen]_vars

\* Within a generation the first terminal state stays and progress never
\* falls, whichever threads of the job report and in whatever order.
FirstTerminalWins ==
    [][\A i \in Ids :
          (/\ entries[i] # None /\ entries'[i] # None
           /\ entries'[i].gen = entries[i].gen)
          => /\ entries'[i].progress >= entries[i].progress
             /\ Terminal(entries[i]) => entries'[i] = entries[i]]_vars

\* clear_progress never removes the running bar of a live download, also
\* when the download is admitted and started while the clear is deciding.
LiveBarSpared ==
    [][ClearStore =>
          \A i \in live : entries[i] # None /\ entries[i].state = "Running"
                          => entries'[i] = entries[i]]_vars

=============================================================================
