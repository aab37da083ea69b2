---------------------------- MODULE SearchCache ----------------------------
(***************************************************************************)
(* Position search over a database that is edited at the same time: the    *)
(* caches of src-tauri/src/main.rs, the index loader and the searches of   *)
(* src-tauri/src/db/search.rs, and the mutations of src-tauri/src/db/      *)
(* mod.rs, which commit first and invalidate afterwards.                   *)
(*                                                                         *)
(* A database is known by its revision: object, length, mtime and          *)
(* DataRevision of DatabaseIdentity change together here.  A sidecar is    *)
(* the revision its entries were read at (IndexSource), 0 when there is    *)
(* none; a mapped index is the revision of the sidecar it maps.            *)
(*                                                                         *)
(* The generation locks are the leases of KeyedLocks, whose processes are  *)
(* the searches; the collision locks are used as the per-key lock that     *)
(* KeyedLocks implements.                                                  *)
(***************************************************************************)
EXTENDS KeyedLocks, Sequences

CONSTANTS
    Mutators,       \* threads that edit a database or clear the cache
    Queries,        \* GameQuery
    Kinds,          \* "Search", "Presence", "Preload": who calls the loader
    Folder,         \* the parent directory of a database
    IndexCapacity,  \* SEARCH_INDEX_CACHE_CAPACITY
    ResultCapacity, \* SEARCH_RESULT_CACHE_CAPACITY
    MaxRevision,    \* bound on commits
    MaxCalls        \* bound on the searches of a process

ASSUME SearchAssumption ==
    /\ Folder \in [Keys -> Keys]
    /\ Kinds \subseteq {"Search", "Presence", "Preload"}
    /\ IndexCapacity \in Nat \ {0} /\ ResultCapacity \in Nat \ {0}
    /\ MaxRevision \in Nat /\ MaxCalls \in Nat
    /\ Procs \cap Mutators = {} /\ None \notin Mutators \cup Queries

Threads == Procs \cup Mutators

VARIABLES
    revision,   \* the committed revision of a database
    sidecar,    \* its preferred sidecar
    legacy,     \* its legacy sidecar
    writer,     \* who holds the repository's write lock
    counter,    \* SearchCache.invalidation_counter
    indexes,    \* SearchCache.indexes
    results,    \* SearchCache.results
    collisions, \* who holds the collision lock of a query
    at,         \* where a thread is
    then,       \* where it goes after invalidate_database
    call,       \* the database, query and kind of its call
    round,      \* which probe_attempt of the loader
    snap,       \* invalidation_snapshot
    probed,     \* expected_source
    loaded,     \* the source it generates from, or the index it has mapped
    answer,     \* what its call is about to return
    calls       \* calls it has begun

diskVars == <<revision, sidecar, legacy, writer>>
cacheVars == <<counter, indexes, results, collisions>>
threadVars == <<at, then, call, round, snap, probed, loaded, answer, calls>>
searchVars == <<vars, diskVars, cacheVars, threadVars>>

\* BoundedSearchCache: the values, and their keys with the newest last.
NoCache == [values |-> << >>, newest |-> << >>]

NoCall == [db |-> None, query |-> None, kind |-> None, since |-> 0]

SearchInit ==
    /\ Init
    /\ revision = [d \in Keys |-> 1]
    /\ sidecar \in [Keys -> {0, 1}] /\ legacy \in [Keys -> {0, 1}]
    /\ writer = [d \in Keys |-> None]
    /\ counter = 0 /\ indexes = NoCache /\ results = NoCache
    /\ collisions = [c \in Queries \X Keys |-> None]
    /\ at = [p \in Threads |-> "Idle"] /\ then = [p \in Threads |-> "Idle"]
    /\ call = [p \in Threads |-> NoCall]
    /\ round = [p \in Threads |-> "Fast"]
    /\ snap = [p \in Threads |-> 0] /\ probed = [p \in Threads |-> 0]
    /\ loaded = [p \in Threads |-> 0]
    /\ answer = [p \in Threads |-> None]
    /\ calls = [p \in Threads |-> 0]

Db(p) == call[p].db

Go(p, a) == at' = [at EXCEPT ![p] = a]

-----------------------------------------------------------------------------
(* BoundedSearchCache.                                                     *)

KeysOf(c) == DOMAIN c.values

ValueOf(c, k) == c.values[k]

\* The keys of s that are not in K, in their order.
Without(s, K) == SelectSeq(s, LAMBDA k : k \notin K)

\* get: the entry becomes the newest.
Touch(c, k) ==
    [values |-> c.values, newest |-> Append(Without(c.newest, {k}), k)]

\* The keys in K leave.
Drop(c, K) ==
    [values |-> [k \in KeysOf(c) \ K |-> c.values[k]], newest |-> Without(c.newest, K)]

\* insert: the oldest entry leaves a full cache.
Insert(c, k, v, capacity) ==
    LET d == [values |-> [j \in KeysOf(c) \cup {k} |-> IF j = k THEN v ELSE c.values[j]],
              newest |-> Append(Without(c.newest, {k}), k)]
    IN  IF Len(d.newest) > capacity THEN Drop(d, {Head(d.newest)}) ELSE d

\* retain, outside the scope of an invalidation: the parent directory, or
\* everything when it cannot be identified.
InScope(d, e) == Folder[e] = Folder[d]

Retain(c, d, all) == Drop(c, {k \in KeysOf(c) : all \/ InScope(d, k.db)})

-----------------------------------------------------------------------------
(* invalidate_database: the counter first, then the results, then the      *)
(* indexes, each cache under its own mutex.                                *)

Invalidate(p, next) ==
    /\ Go(p, "Bump")
    /\ then' = [then EXCEPT ![p] = next]

Bump(p) ==
    /\ at[p] = "Bump"
    /\ counter' = counter + 1
    /\ Go(p, "DropResults")
    /\ UNCHANGED <<indexes, results, collisions, then, call, round, snap, probed,
                   loaded, answer, calls>>
    /\ UNCHANGED diskVars /\ UNCHANGED vars

DropResults(p) ==
    /\ at[p] = "DropResults"
    /\ \E all \in BOOLEAN : results' = Retain(results, Db(p), all)
    /\ Go(p, "DropIndexes")
    /\ UNCHANGED <<counter, indexes, collisions, then, call, round, snap, probed,
                   loaded, answer, calls>>
    /\ UNCHANGED diskVars /\ UNCHANGED vars

DropIndexes(p) ==
    /\ at[p] = "DropIndexes"
    /\ \E all \in BOOLEAN : indexes' = Retain(indexes, Db(p), all)
    /\ Go(p, then[p])
    /\ then' = [then EXCEPT ![p] = "Idle"]
    /\ UNCHANGED <<counter, results, collisions, call, round, snap, probed,
                   loaded, answer, calls>>
    /\ UNCHANGED diskVars /\ UNCHANGED vars

-----------------------------------------------------------------------------
(* A mutation commits under the write lock and invalidates outside it.     *)

Steady == UNCHANGED <<round, snap, probed, loaded, answer>> /\ UNCHANGED vars

\* with_write_lock_cancellable
BeginMutation(m, d) ==
    /\ m \in Mutators /\ at[m] = "Idle" /\ calls[m] < MaxCalls
    /\ writer[d] = None
    /\ writer' = [writer EXCEPT ![d] = m]
    /\ call' = [call EXCEPT ![m] = [NoCall EXCEPT !.db = d]]
    /\ calls' = [calls EXCEPT ![m] = @ + 1]
    /\ Go(m, "Mutating")
    /\ UNCHANGED <<revision, sidecar, legacy, then>>
    /\ UNCHANGED cacheVars /\ Steady

\* bump_revision_in_transaction commits, or the transaction is rolled back:
\* finish_search_cache_after_transaction invalidates after a database error
\* too, and not after a refusal or a cancellation.
EndMutation(m) ==
    /\ at[m] = "Mutating"
    /\ writer' = [writer EXCEPT ![Db(m)] = None]
    /\ \/ /\ revision[Db(m)] < MaxRevision
          /\ revision' = [revision EXCEPT ![Db(m)] = @ + 1]
          /\ Invalidate(m, "Idle")
       \/ UNCHANGED revision /\ Invalidate(m, "Idle")
       \/ UNCHANGED <<revision, then>> /\ Go(m, "Idle")
    /\ UNCHANGED <<sidecar, legacy, call, calls>>
    /\ UNCHANGED cacheVars /\ Steady

\* clear_games: the results, then the indexes, and no invalidation.
ClearResults(m) ==
    /\ m \in Mutators /\ at[m] = "Idle" /\ calls[m] < MaxCalls
    /\ results' = NoCache
    /\ calls' = [calls EXCEPT ![m] = @ + 1]
    /\ Go(m, "Clearing")
    /\ UNCHANGED <<counter, indexes, collisions, then, call>>
    /\ UNCHANGED diskVars /\ Steady

ClearIndexes(m) ==
    /\ at[m] = "Clearing"
    /\ indexes' = NoCache
    /\ Go(m, "Idle")
    /\ UNCHANGED <<counter, results, collisions, then, call, calls>>
    /\ UNCHANGED diskVars /\ Steady

-----------------------------------------------------------------------------
(* load_search_index_cancellable.                                          *)

Lookup == UNCHANGED <<call, answer, calls>> /\ UNCHANGED diskVars

\* A position search and a presence check take the collision lock of their
\* query; preloading the reference database takes none.
StartCall(p, d, q, kind) ==
    /\ p \in Procs /\ at[p] = "Idle" /\ calls[p] < MaxCalls
    /\ call' = [call EXCEPT ![p] = [db |-> d, query |-> q, kind |-> kind,
                                    since |-> revision[d]]]
    /\ calls' = [calls EXCEPT ![p] = @ + 1]
    /\ Go(p, IF kind = "Preload" THEN "Snapshot" ELSE "Collide")
    /\ UNCHANGED <<then, round, snap, probed, loaded, answer>>
    /\ UNCHANGED diskVars /\ UNCHANGED cacheVars /\ UNCHANGED vars

Collide(p) ==
    /\ at[p] = "Collide"
    /\ collisions[<<call[p].query, Db(p)>>] = None
    /\ collisions' = [collisions EXCEPT ![<<call[p].query, Db(p)>>] = p]
    /\ Go(p, "Snapshot")
    /\ UNCHANGED <<counter, indexes, results, then, round, snap, probed, loaded>>
    /\ Lookup /\ UNCHANGED vars

\* probe_attempt: the snapshot before the identity.
Snapshot(p) ==
    /\ at[p] = "Snapshot"
    /\ snap' = [snap EXCEPT ![p] = counter]
    /\ Go(p, "Probe")
    /\ UNCHANGED <<then, round, probed, loaded>>
    /\ Lookup /\ UNCHANGED cacheVars /\ UNCHANGED vars

Probe(p) ==
    /\ at[p] = "Probe"
    /\ probed' = [probed EXCEPT ![p] = revision[Db(p)]]
    /\ Go(p, "Open")
    /\ UNCHANGED <<then, round, snap, loaded>>
    /\ Lookup /\ UNCHANGED cacheVars /\ UNCHANGED vars

\* open_valid_preferred serves a sidecar only if it was made from what this
\* call has probed.  Without one, the first round takes the generation lock,
\* the second invalidates and promotes, the third generates, and the last,
\* after a generation, gives up.
Open(p) ==
    /\ at[p] = "Open"
    /\ IF sidecar[Db(p)] = probed[p]
       THEN /\ loaded' = [loaded EXCEPT ![p] = probed[p]]
            /\ Go(p, "Cache")
            /\ UNCHANGED then
       ELSE /\ loaded' = [loaded EXCEPT ![p] = 0]
            /\ CASE round[p] = "Fast" -> Go(p, "Lease") /\ UNCHANGED then
                 [] round[p] = "Locked" -> Invalidate(p, "Promote")
                 [] round[p] = "Promoted" -> Go(p, "Generate") /\ UNCHANGED then
                 [] round[p] = "Generated" -> Go(p, "Leave") /\ UNCHANGED then
    /\ UNCHANGED <<round, snap, probed>>
    /\ Lookup /\ UNCHANGED cacheVars /\ UNCHANGED vars

\* What a round has probed is not used after it.
Unprobed(p) ==
    snap' = [snap EXCEPT ![p] = 0] /\ probed' = [probed EXCEPT ![p] = 0]

\* generation_lock(..).lock_cancellable
LeaseGeneration(p, l) ==
    /\ at[p] = "Lease"
    /\ Lease(p, Db(p), l)
    /\ Go(p, "Wait")
    /\ Unprobed(p)
    /\ UNCHANGED <<then, round, loaded>>
    /\ Lookup /\ UNCHANGED cacheVars

\* Whoever held the lock may have generated: probe and open again.
LockGenerationOnly(p) ==
    /\ at[p] = "Wait"
    /\ Acquire(p)
    /\ round' = [round EXCEPT ![p] = "Promoted"]
    /\ Go(p, "Generate")
    /\ UNCHANGED <<then, snap, probed, loaded>>
    /\ Lookup /\ UNCHANGED cacheVars

LockGeneration(p) ==
    /\ at[p] = "Wait"
    /\ Acquire(p)
    /\ round' = [round EXCEPT ![p] = "Locked"]
    /\ Go(p, "Snapshot")
    /\ UNCHANGED <<then, snap, probed, loaded>>
    /\ Lookup /\ UNCHANGED cacheVars

\* promote_legacy_index_sidecar_at: only where no preferred sidecar is, and
\* only a legacy one made from the identity this call has probed.  The
\* snapshot stays the one before the invalidation.
Promotable(p) == sidecar[Db(p)] = 0 /\ legacy[Db(p)] = probed[p]

Promote(p) ==
    /\ at[p] = "Promote"
    /\ IF Promotable(p)
       THEN /\ sidecar' = [sidecar EXCEPT ![Db(p)] = legacy[Db(p)]]
            /\ legacy' = [legacy EXCEPT ![Db(p)] = 0]
       ELSE UNCHANGED <<sidecar, legacy>>
    /\ round' = [round EXCEPT ![p] = "Promoted"]
    /\ Go(p, "Open")
    /\ UNCHANGED <<revision, writer, then, call, snap, probed, loaded, answer, calls>>
    /\ UNCHANGED cacheVars /\ UNCHANGED vars

\* The sidecar is published and the call fails all the same: its directory
\* was not synced, or the legacy one could not be removed.
PromoteFails(p) ==
    /\ at[p] = "Promote" /\ Promotable(p)
    /\ sidecar' = [sidecar EXCEPT ![Db(p)] = legacy[Db(p)]]
    /\ Go(p, "Leave")
    /\ Unprobed(p)
    /\ UNCHANGED <<revision, legacy, writer, then, call, round, loaded, answer, calls>>
    /\ UNCHANGED cacheVars /\ UNCHANGED vars

\* generate_search_index, under the write lock: it reads the source, then
\* invalidates, writes the sidecar and invalidates again.
LockWriter(p) ==
    /\ at[p] = "Generate"
    /\ writer[Db(p)] = None
    /\ writer' = [writer EXCEPT ![Db(p)] = p]
    /\ loaded' = [loaded EXCEPT ![p] = revision[Db(p)]]
    /\ Invalidate(p, "WriteSidecar")
    /\ Unprobed(p)
    /\ UNCHANGED <<revision, sidecar, legacy, call, round, answer, calls>>
    /\ UNCHANGED cacheVars /\ UNCHANGED vars

WriteSidecar(p) ==
    /\ at[p] = "WriteSidecar"
    /\ sidecar' = [sidecar EXCEPT ![Db(p)] = loaded[p]]
    /\ Invalidate(p, "UnlockWriter")
    /\ UNCHANGED <<revision, legacy, writer, call, round, snap, probed, loaded, answer, calls>>
    /\ UNCHANGED cacheVars /\ UNCHANGED vars

UnlockWriter(p) ==
    /\ at[p] = "UnlockWriter"
    /\ writer' = [writer EXCEPT ![Db(p)] = None]
    /\ round' = [round EXCEPT ![p] = "Generated"]
    /\ loaded' = [loaded EXCEPT ![p] = 0]
    /\ Go(p, "Snapshot")
    /\ UNCHANGED <<revision, sidecar, legacy, then, call, snap, probed, answer, calls>>
    /\ UNCHANGED cacheVars /\ UNCHANGED vars

\* insert_index, under the mutex of the indexes: share what is there, and
\* cache nothing that was probed before an invalidation began.
InsertIndexAlways(s, k, p) ==
    IF k \in KeysOf(s) THEN Touch(s, k) ELSE Insert(s, k, k.source, IndexCapacity)

InsertIndex(s, k, p) ==
    IF k \in KeysOf(s) THEN Touch(s, k)
    ELSE IF counter # snap[p] THEN s
    ELSE Insert(s, k, k.source, IndexCapacity)

CacheLoaded(p) ==
    /\ at[p] = "Cache"
    /\ indexes' = InsertIndex(indexes, [db |-> Db(p), source |-> loaded[p]], p)
    /\ Go(p, "Leave")
    /\ Unprobed(p)
    /\ UNCHANGED <<counter, results, collisions, then, round, loaded>>
    /\ Lookup /\ UNCHANGED vars

\* The loader returns: the guard of the generation lock is dropped, and then
\* its lease.  Its round is over.
DropGuard(p) ==
    /\ at[p] = "Leave"
    /\ Unlock(p) \/ BeginDrop(p) \/ Release(p) \/ Remove(p)
    /\ UNCHANGED <<diskVars, cacheVars, threadVars>>

Loaded(p) ==
    /\ at[p] = "Leave" /\ pc[p] = "Idle"
    /\ Go(p, IF loaded[p] = 0 THEN "Finish" ELSE "Loaded")
    /\ round' = [round EXCEPT ![p] = "Fast"]
    /\ UNCHANGED <<then, snap, probed, loaded>>
    /\ Lookup /\ UNCHANGED cacheVars /\ UNCHANGED vars

-----------------------------------------------------------------------------
(* search_position_blocking, is_position_in_db_cancellable and             *)
(* preload_reference_db, once the index is loaded.                         *)

ResultKey(p) == [db |-> Db(p), query |-> call[p].query, source |-> loaded[p]]

\* The transaction reads one revision throughout.  The rows of a result come
\* from it and its statistics from the index, so the two must agree.
AgreesAlways(p) == TRUE

Agrees(p) == revision[Db(p)] = loaded[p]

Transact(p) ==
    /\ at[p] = "Loaded" /\ call[p].kind = "Search"
    /\ \/ /\ Agrees(p) /\ ResultKey(p) \in KeysOf(results)
          /\ answer' = [answer EXCEPT ![p] = ValueOf(results, ResultKey(p))]
          /\ results' = Touch(results, ResultKey(p))
          /\ Go(p, "Finish")
       \/ /\ Agrees(p) /\ ResultKey(p) \notin KeysOf(results)
          /\ answer' = [answer EXCEPT ![p] = [index |-> loaded[p], rows |-> revision[Db(p)]]]
          /\ Go(p, "Insert")
          /\ UNCHANGED results
       \/ /\ ~Agrees(p)
          /\ Go(p, "Finish")
          /\ UNCHANGED <<results, answer>>
    /\ UNCHANGED <<counter, indexes, collisions, then, call, round, snap, probed, loaded, calls>>
    /\ UNCHANGED diskVars /\ UNCHANGED vars

\* The n oldest entries leave.
EvictOldest(c, n) == Drop(c, {c.newest[i] : i \in 1 .. n})

\* insert_result, at the end of the transaction; no counter guards it.  A
\* result beyond SEARCH_RESULT_CACHE_MAX_BYTES is not kept; for another, the
\* oldest leave until the bytes of all fit.
InsertResult(p) ==
    /\ at[p] = "Insert"
    /\ \/ UNCHANGED results
       \/ LET c == Insert(results, ResultKey(p), answer[p], ResultCapacity)
          IN  \E n \in 0 .. Len(c.newest) - 1 : results' = EvictOldest(c, n)
    /\ Go(p, "Finish")
    /\ UNCHANGED <<counter, indexes, collisions, then, round, snap, probed, loaded>>
    /\ Lookup /\ UNCHANGED vars

\* A presence check scans the index alone.
Scan(p) ==
    /\ at[p] = "Loaded" /\ call[p].kind # "Search"
    /\ answer' = [answer EXCEPT ![p] = [index |-> loaded[p], rows |-> loaded[p]]]
    /\ Go(p, "Finish")
    /\ UNCHANGED <<then, call, round, snap, probed, loaded, calls>>
    /\ UNCHANGED diskVars /\ UNCHANGED cacheVars /\ UNCHANGED vars

Finish(p) ==
    /\ at[p] = "Finish"
    /\ collisions' = [c \in DOMAIN collisions |-> IF collisions[c] = p THEN None ELSE collisions[c]]
    /\ Go(p, "Idle")
    /\ call' = [call EXCEPT ![p] = NoCall]
    /\ answer' = [answer EXCEPT ![p] = None]
    /\ loaded' = [loaded EXCEPT ![p] = 0]
    /\ UNCHANGED <<counter, indexes, results, then, round, snap, probed, calls>>
    /\ UNCHANGED diskVars /\ UNCHANGED vars

\* Cancellation, or an error of the disk or the database, where the code
\* checks for it: the call leaves, and its guards with it.  Once the sidecar
\* is written, the generation runs to its end.
Failing == {"Collide", "Probe", "Open", "Lease", "Wait", "Promote", "Generate",
            "WriteSidecar", "Cache", "Loaded", "Insert"}

Fail(p) ==
    /\ at[p] \in Failing
    /\ answer' = [answer EXCEPT ![p] = None]
    /\ loaded' = [loaded EXCEPT ![p] = 0]
    /\ writer' = [d \in Keys |-> IF writer[d] = p THEN None ELSE writer[d]]
    /\ Go(p, "Leave")
    /\ Unprobed(p)
    /\ UNCHANGED <<revision, sidecar, legacy, then, call, round, calls>>
    /\ UNCHANGED cacheVars /\ UNCHANGED vars

SearchNext ==
    \/ \E p \in Procs :
          \/ \E d \in Keys, q \in Queries, kind \in Kinds :
                StartCall(p, d, q, kind)
          \/ Collide(p) \/ Snapshot(p) \/ Probe(p) \/ Open(p)
          \/ \E l \in Locks : LeaseGeneration(p, l)
          \/ LockGeneration(p) \/ Promote(p) \/ PromoteFails(p) \/ LockWriter(p)
          \/ WriteSidecar(p) \/ UnlockWriter(p) \/ CacheLoaded(p) \/ DropGuard(p)
          \/ Loaded(p) \/ Transact(p) \/ InsertResult(p) \/ Scan(p) \/ Finish(p)
          \/ Fail(p)
    \/ \E m \in Mutators :
          \/ \E d \in Keys : BeginMutation(m, d)
          \/ EndMutation(m) \/ ClearResults(m) \/ ClearIndexes(m)
    \/ \E p \in Threads : Bump(p) \/ DropResults(p) \/ DropIndexes(p)

SearchSpec == SearchInit /\ [][SearchNext]_searchVars

-----------------------------------------------------------------------------

\* "publication under the indexes mutex either precedes the eviction or sees
\* the changed counter and stays uncached" (main.rs:448-450): once a mutation
\* has invalidated, no index of an older revision is cached, however long ago
\* its loader probed.
Invalidating(d) ==
    \E m \in Mutators : Db(m) = d /\ at[m] \in {"Bump", "DropResults", "DropIndexes"}

NoStaleIndex ==
    \A k \in KeysOf(indexes) : k.source < revision[k.db] => Invalidating(k.db)

\* "One object-owned lock serializes generation across every authorized
\* spelling" (search.rs:245-246): who waited for a generation finds its
\* sidecar, so no search writes a sidecar that is already there.
NoRedundantGeneration ==
    \A p \in Procs : at[p] = "WriteSidecar" => sidecar[Db(p)] # loaded[p]

\* A call answers from an index and from rows of one revision, which was
\* current at some moment of the call, whether or not it comes from a cache.
AnswerIsCurrent ==
    \A p \in Procs : answer[p] # None =>
       answer[p].index = answer[p].rows /\ answer[p].index >= call[p].since

=============================================================================
