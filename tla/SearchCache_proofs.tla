------------------------- MODULE SearchCache_proofs -------------------------
(***************************************************************************)
(* The search caches and the index loader, for any number of searches,     *)
(* databases, mutators and queries, and any capacity of the caches.        *)
(***************************************************************************)
EXTENDS SearchCache, KeyedLocks_proofs

-----------------------------------------------------------------------------
(* The inductive invariant.                                                *)

Busy == {"Bump", "DropResults", "DropIndexes"}
SearchPlaces ==
    {"Idle", "Collide", "Snapshot", "Probe", "Open", "Lease", "Wait", "Promote", "Generate",
     "WriteSidecar", "UnlockWriter", "Cache", "Leave", "Loaded", "Insert", "Finish"} \cup Busy
MutatorPlaces == {"Idle", "Mutating", "Clearing"} \cup Busy
Places == SearchPlaces \cup MutatorPlaces
Rounds == {"Fast", "Locked", "Promoted", "Generated"}
Calls == [db : Keys \cup {None}, query : Queries \cup {None},
          kind : {"Search", "Presence", "Preload", None}, since : Nat]
Answer(n) == [index |-> n, rows |-> n]

SearchType ==
    /\ at \in [Threads -> Places]
    /\ then \in [Threads -> Places]
    /\ call \in [Threads -> Calls]
    /\ round \in [Threads -> Rounds]
    /\ snap \in [Threads -> Nat] /\ probed \in [Threads -> Nat] /\ loaded \in [Threads -> Nat]
    /\ DOMAIN answer = Threads
    /\ revision \in [Keys -> Nat] /\ sidecar \in [Keys -> Nat] /\ legacy \in [Keys -> Nat]
    /\ counter \in Nat

\* A mutator that has committed or invalidates is at a database.
MutatorOK(m) ==
    /\ at[m] \in MutatorPlaces
    /\ at[m] \in Busy => then[m] = "Idle"
    /\ at[m] = "Mutating" \/ at[m] \in Busy => Db(m) \in Keys

\* The generation lock of the call's database.
Held(p) == pc[p] = "Locked" /\ key[p] = Db(p)

\* A search that writes a sidecar, or is about to, has the generation lock.
PlaceOK(p) ==
    /\ at[p] \in SearchPlaces
    /\ at[p] # "Idle" => Db(p) \in Keys /\ call[p].since <= revision[Db(p)]
    /\ at[p] \in {"Idle", "Collide", "Loaded", "Insert", "Finish", "Lease"} =>
          pc[p] = "Idle" /\ round[p] = "Fast"
    /\ at[p] = "Wait" => pc[p] = "Leased" /\ key[p] = Db(p) /\ round[p] = "Fast"
    /\ at[p] \in {"Snapshot", "Probe", "Open", "Cache"} =>
          \/ round[p] = "Fast" /\ pc[p] = "Idle"
          \/ round[p] # "Fast" /\ Held(p)
    /\ at[p] \in Busy \cup {"Promote", "Generate", "WriteSidecar", "UnlockWriter"} => Held(p)
    /\ at[p] \in Busy => then[p] \in {"Promote", "WriteSidecar", "UnlockWriter"}
    /\ at[p] = "Promote" \/ (at[p] \in Busy /\ then[p] = "Promote") => round[p] = "Locked"

\* What the round has probed is still to be used.
Probing(p) ==
    \/ at[p] \in {"Open", "Cache", "Promote", "Generate"}
    \/ at[p] \in Busy /\ then[p] = "Promote"

\* A mutation of d has committed and not yet counted.
Bumping(d) == \E m \in Mutators : Db(m) = d /\ at[m] = "Bump"

\* As long as the counter is the one of the snapshot, what was probed is
\* current, or whoever made it old has yet to count.
ProbeOK(p) ==
    /\ at[p] = "Probe" => snap[p] <= counter
    /\ Probing(p) =>
          /\ snap[p] <= counter
          /\ call[p].since <= probed[p] /\ probed[p] <= revision[Db(p)]
          /\ snap[p] = counter /\ probed[p] < revision[Db(p)] => Bumping(Db(p))
    /\ at[p] = "Cache" => loaded[p] = probed[p]

\* Under the generation lock no sidecar is newer than what was probed, and a
\* search that generates found none of that revision.
SoleOK(p) ==
    /\ Probing(p) /\ round[p] \in {"Locked", "Promoted"} => sidecar[Db(p)] <= probed[p]
    /\ at[p] = "Generate" => sidecar[Db(p)] < probed[p]
    /\ at[p] = "WriteSidecar" \/ (at[p] \in Busy /\ then[p] = "WriteSidecar") =>
          sidecar[Db(p)] < loaded[p]

\* What a call has loaded was current after it began.
AnswerOK(p) ==
    /\ at[p] = "Idle" => loaded[p] = 0
    /\ loaded[p] # 0 => call[p].since <= loaded[p] /\ loaded[p] <= revision[Db(p)]
    /\ at[p] = "Loaded" => loaded[p] # 0
    /\ at[p] = "Insert" => loaded[p] # 0 /\ answer[p] = Answer(loaded[p])
    /\ answer[p] # None =>
          at[p] \in {"Insert", "Finish"} /\ loaded[p] # 0 /\ answer[p] = Answer(loaded[p])

SearchOK(p) == PlaceOK(p) /\ ProbeOK(p) /\ SoleOK(p) /\ AnswerOK(p)

IndexKeysOK == \A k \in KeysOf(indexes) : k.db \in Keys /\ k.source \in Nat

ResultsOK == \A k \in KeysOf(results) : results.values[k] = Answer(k.source)

SidecarsOK == \A d \in Keys : sidecar[d] <= revision[d]

SearchInv ==
    /\ Inv /\ SearchType
    /\ \A m \in Mutators : MutatorOK(m)
    /\ \A p \in Procs : SearchOK(p)
    /\ IndexKeysOK /\ ResultsOK /\ SidecarsOK /\ NoStaleIndex

-----------------------------------------------------------------------------
(* The bounded caches.                                                     *)

\* get changes the order of a cache and nothing else.
LEMMA TouchKeeps ==
    ASSUME NEW c, NEW k
    PROVE  KeysOf(Touch(c, k)) = KeysOf(c) /\ Touch(c, k).values = c.values
  BY DEF Touch, KeysOf

\* What is dropped is gone, and the rest is as it was.
LEMMA DropKeeps ==
    ASSUME NEW c, NEW K
    PROVE  /\ KeysOf(Drop(c, K)) = KeysOf(c) \ K
           /\ \A k \in KeysOf(c) \ K : Drop(c, K).values[k] = c.values[k]
  BY DEF Drop, KeysOf

\* insert adds one key, and may drop another.
LEMMA InsertKeeps ==
    ASSUME NEW c, NEW k, NEW v, NEW capacity
    PROVE  /\ KeysOf(Insert(c, k, v, capacity)) \subseteq KeysOf(c) \cup {k}
           /\ \A j \in KeysOf(Insert(c, k, v, capacity)) :
                 Insert(c, k, v, capacity).values[j] = IF j = k THEN v ELSE c.values[j]
  <1> DEFINE d == [values |-> [j \in KeysOf(c) \cup {k} |-> IF j = k THEN v ELSE c.values[j]],
                   newest |-> Append(Without(c.newest, {k}), k)]
  <1>1. /\ KeysOf(d) = KeysOf(c) \cup {k}
        /\ \A j \in KeysOf(d) : d.values[j] = IF j = k THEN v ELSE c.values[j]
    BY DEF KeysOf
  <1>2. Insert(c, k, v, capacity) = IF Len(d.newest) > capacity THEN Drop(d, {Head(d.newest)}) ELSE d
    BY DEF Insert
  <1> HIDE DEF d
  <1> QED BY <1>1, <1>2, DropKeeps

-----------------------------------------------------------------------------
(* Steps of a search.                                                      *)

\* A search and the generation locks: only its own lease may move.
Others(p) ==
    /\ \A q \in Threads \ {p} :
          /\ at'[q] = at[q] /\ then'[q] = then[q] /\ call'[q] = call[q] /\ round'[q] = round[q]
          /\ snap'[q] = snap[q] /\ probed'[q] = probed[q] /\ loaded'[q] = loaded[q]
          /\ answer'[q] = answer[q]
    /\ \A q \in Procs \ {p} : pc'[q] = pc[q] /\ key'[q] = key[q]

\* Procs and mutators are threads, and nobody is both.
LEMMA ThreadKinds ==
    /\ Procs \subseteq Threads /\ Mutators \subseteq Threads
    /\ \A p \in Procs : p \notin Mutators
  BY SearchAssumption DEF Threads

\* A sidecar changes only for who has the generation lock of its database.
SidecarByHolder(p) ==
    sidecar' = sidecar \/ /\ Held(p)
                          /\ \A d \in Keys \ {Db(p)} : sidecar'[d] = sidecar[d]
                          /\ \A d \in Keys : sidecar'[d] <= revision[d]

\* What is left to show of a step of one search, which commits nothing.
LEMMA ProcStep ==
    ASSUME SearchInv, NEW p \in Procs, Others(p), UNCHANGED revision, SidecarByHolder(p),
           counter <= counter', [Next]_vars, SearchType', SearchOK(p)', ResultsOK',
           \A k \in KeysOf(indexes') \ KeysOf(indexes) :
              /\ k.db \in Keys /\ k.source \in Nat
              /\ k.source < revision[k.db] => Bumping(k.db)
    PROVE  SearchInv'
  <1>1. Inv'
    BY InvStep DEF SearchInv
  <1>2. \A m \in Mutators : at'[m] = at[m] /\ then'[m] = then[m] /\ call'[m] = call[m]
    BY ThreadKinds DEF Others
  <1>3. \A m \in Mutators : MutatorOK(m)'
    BY <1>2 DEF SearchInv, MutatorOK, Db
  <1>4. \A d : Bumping(d)' <=> Bumping(d)
    BY <1>2 DEF Bumping, Db
  <1>5. ASSUME NEW q \in Procs, q # p PROVE SearchOK(q)'
    <2>1. /\ at'[q] = at[q] /\ then'[q] = then[q] /\ call'[q] = call[q] /\ round'[q] = round[q]
          /\ snap'[q] = snap[q] /\ probed'[q] = probed[q] /\ loaded'[q] = loaded[q]
          /\ answer'[q] = answer[q] /\ pc'[q] = pc[q] /\ key'[q] = key[q]
          /\ SearchOK(q) /\ snap[q] \in Nat /\ counter \in Nat /\ counter' \in Nat
      BY <1>5, ThreadKinds DEF Others, SearchInv, SearchType
    <2>2. PlaceOK(q)' /\ AnswerOK(q)'
      BY <2>1 DEF SearchOK, PlaceOK, AnswerOK, Held, Db
    <2>3. ProbeOK(q)'
      BY <2>1, <1>4 DEF SearchOK, ProbeOK, Probing, Db
    <2>4. Held(q) /\ Db(q) \in Keys => sidecar'[Db(q)] = sidecar[Db(q)]
      BY <1>5 DEF SearchInv, Inv, Anchored, HolderOK, Owns, Held, SidecarByHolder
    <2>5. /\ Probing(q) /\ round[q] \in {"Locked", "Promoted"} => Held(q) /\ Db(q) \in Keys
          /\ at[q] \in Busy \cup {"Generate", "WriteSidecar"} => Held(q) /\ Db(q) \in Keys
      BY <2>1 DEF SearchOK, PlaceOK, Probing, Busy
    <2>6. SoleOK(q)'
      BY <2>1, <2>4, <2>5 DEF SearchOK, SoleOK, Probing, Db
    <2> QED BY <2>2, <2>3, <2>6 DEF SearchOK
  <1>6. IndexKeysOK'
    BY DEF SearchInv, IndexKeysOK
  <1>7. SidecarsOK'
    BY DEF SearchInv, SidecarsOK, SidecarByHolder
  <1>8. \A d : (Bumping(d) => Invalidating(d)) /\ (Invalidating(d) => Invalidating(d)')
    BY <1>2 DEF Bumping, Invalidating, Db
  <1>9. NoStaleIndex'
    BY <1>8 DEF SearchInv, NoStaleIndex
  <1> QED BY <1>1, <1>3, <1>5, <1>6, <1>7, <1>9 DEF SearchInv

\* And of one that counts nothing and writes no sidecar either.
LEMMA ProcKept ==
    ASSUME SearchInv, NEW p \in Procs, Others(p), UNCHANGED <<revision, sidecar, counter>>,
           [Next]_vars, SearchType', SearchOK(p)', ResultsOK',
           \A k \in KeysOf(indexes') \ KeysOf(indexes) :
              /\ k.db \in Keys /\ k.source \in Nat
              /\ k.source < revision[k.db] => Bumping(k.db)
    PROVE  SearchInv'
  <1>1. SidecarByHolder(p) /\ counter <= counter' /\ UNCHANGED revision
    BY DEF SidecarByHolder, SearchInv, SearchType
  <1> QED BY <1>1, ProcStep

\* The local state of one search after its step.
Becomes(p, a, n, r, s, b, l) ==
    /\ at' = [at EXCEPT ![p] = a]
    /\ then' = [then EXCEPT ![p] = n]
    /\ round' = [round EXCEPT ![p] = r]
    /\ snap' = [snap EXCEPT ![p] = s]
    /\ probed' = [probed EXCEPT ![p] = b]
    /\ loaded' = [loaded EXCEPT ![p] = l]

\* A search moves on within its call.
LEMMA LocalKept ==
    ASSUME SearchInv, NEW p \in Procs, NEW a \in Places, NEW n \in Places,
           NEW r \in Rounds, NEW s \in Nat, NEW b \in Nat, NEW l \in Nat,
           Becomes(p, a, n, r, s, b, l), call' = call
    PROVE  /\ at'[p] = a /\ then'[p] = n /\ round'[p] = r /\ snap'[p] = s /\ probed'[p] = b
           /\ loaded'[p] = l /\ call'[p] = call[p]
           /\ (/\ DOMAIN answer' = Threads /\ \A q \in Threads \ {p} : answer'[q] = answer[q]
               /\ \A q \in Procs \ {p} : pc'[q] = pc[q] /\ key'[q] = key[q]
               => Others(p))
           /\ (/\ DOMAIN answer' = Threads /\ UNCHANGED revision
               /\ sidecar' \in [Keys -> Nat] /\ legacy' \in [Keys -> Nat] /\ counter' \in Nat
               => SearchType')
  <1>1. SearchType /\ p \in Threads
    BY ThreadKinds DEF SearchInv
  <1>2. /\ at'[p] = a /\ then'[p] = n /\ round'[p] = r /\ snap'[p] = s /\ probed'[p] = b
        /\ loaded'[p] = l /\ call'[p] = call[p]
    BY <1>1 DEF SearchType, Becomes
  <1>3. \A q \in Threads \ {p} :
          /\ at'[q] = at[q] /\ then'[q] = then[q] /\ call'[q] = call[q] /\ round'[q] = round[q]
          /\ snap'[q] = snap[q] /\ probed'[q] = probed[q] /\ loaded'[q] = loaded[q]
    BY <1>1 DEF SearchType, Becomes
  <1>4. /\ at' \in [Threads -> Places]
        /\ then' \in [Threads -> Places]
        /\ round' \in [Threads -> Rounds]
        /\ snap' \in [Threads -> Nat] /\ probed' \in [Threads -> Nat] /\ loaded' \in [Threads -> Nat]
    BY <1>1 DEF SearchType, Becomes
  <1> QED BY <1>1, <1>2, <1>3, <1>4 DEF SearchType, Others

\* The parts of a step that leaves what is shared alone.
Private ==
    UNCHANGED <<revision, sidecar, legacy, counter, indexes, results, answer, call>>

\* A search that neither loads nor answers.
LEMMA LookupKept ==
    ASSUME SearchInv, NEW p \in Procs, NEW a \in Places, NEW n \in Places,
           NEW r \in Rounds, NEW s \in Nat, NEW b \in Nat, NEW l \in Nat,
           Becomes(p, a, n, r, s, b, l), Private, [Next]_vars,
           \A q \in Procs \ {p} : pc'[q] = pc[q] /\ key'[q] = key[q],
           SearchOK(p)'
    PROVE  SearchInv'
  <1>1. DOMAIN answer' = Threads /\ \A q \in Threads \ {p} : answer'[q] = answer[q]
    BY DEF Private, SearchInv, SearchType
  <1>2. sidecar' \in [Keys -> Nat] /\ legacy' \in [Keys -> Nat] /\ counter' \in Nat
    BY DEF Private, SearchInv, SearchType
  <1>3. Others(p) /\ SearchType'
    BY <1>1, <1>2, LocalKept DEF Private
  <1>4. ResultsOK' /\ KeysOf(indexes') \ KeysOf(indexes) = {}
    BY DEF Private, SearchInv, ResultsOK
  <1> QED BY <1>3, <1>4, ProcKept DEF Private

\* What every proof about a search starts from.
LEMMA SearchFacts ==
    ASSUME SearchInv, NEW p \in Procs
    PROVE  /\ p \in Threads /\ SearchOK(p)
           /\ at[p] \in SearchPlaces /\ round[p] \in Rounds
           /\ snap[p] \in Nat /\ probed[p] \in Nat /\ loaded[p] \in Nat
           /\ counter \in Nat /\ call[p] \in Calls /\ call[p].since \in Nat
           /\ at[p] # "Idle" => /\ Db(p) \in Keys /\ revision[Db(p)] \in Nat
                                /\ sidecar[Db(p)] \in Nat /\ sidecar[Db(p)] <= revision[Db(p)]
  <1>1. p \in Threads /\ SearchOK(p) /\ SearchType
    BY ThreadKinds DEF SearchInv
  <1>2. call[p] \in Calls /\ call[p].since \in Nat
    BY <1>1 DEF SearchType, Calls
  <1>3. at[p] \in SearchPlaces /\ (at[p] # "Idle" => Db(p) \in Keys)
    BY <1>1 DEF SearchOK, PlaceOK
  <1> QED BY <1>1, <1>2, <1>3 DEF SearchInv, SearchType, SidecarsOK

\* The search p has the new values, and its lease may have moved.
Moved(p, a, n, r, s, b, l) ==
    /\ at'[p] = a /\ then'[p] = n /\ round'[p] = r /\ snap'[p] = s /\ probed'[p] = b
    /\ loaded'[p] = l /\ call'[p] = call[p] /\ answer'[p] = answer[p]
    /\ \A d : Bumping(d)' <=> Bumping(d)
    /\ SearchOK(p)' => SearchInv'

\* The loader's lookups, and the guards it takes and drops.
LEMMA LoaderKept ==
    ASSUME SearchInv, NEW p \in Procs,
           \/ Collide(p) \/ Snapshot(p) \/ Probe(p) \/ Open(p)
           \/ \E l \in Locks : LeaseGeneration(p, l)
           \/ LockGeneration(p) \/ LockWriter(p) \/ UnlockWriter(p) \/ DropGuard(p) \/ Loaded(p)
    PROVE  SearchInv' /\ [Next]_vars
  <1>f. /\ p \in Threads /\ SearchOK(p)
        /\ at[p] \in SearchPlaces /\ round[p] \in Rounds
        /\ snap[p] \in Nat /\ probed[p] \in Nat /\ loaded[p] \in Nat
        /\ counter \in Nat /\ call[p] \in Calls /\ call[p].since \in Nat
        /\ at[p] # "Idle" => /\ Db(p) \in Keys /\ revision[Db(p)] \in Nat
                             /\ sidecar[Db(p)] \in Nat /\ sidecar[Db(p)] <= revision[Db(p)]
    BY SearchFacts
  <1>t. /\ SearchType /\ then[p] \in Places
        /\ at = [at EXCEPT ![p] = at[p]] /\ then = [then EXCEPT ![p] = then[p]]
        /\ round = [round EXCEPT ![p] = round[p]] /\ snap = [snap EXCEPT ![p] = snap[p]]
        /\ probed = [probed EXCEPT ![p] = probed[p]] /\ loaded = [loaded EXCEPT ![p] = loaded[p]]
    BY <1>f DEF SearchInv, SearchType
  <1>k. ASSUME NEW a \in Places, NEW n \in Places, NEW r \in Rounds,
               NEW s \in Nat, NEW b \in Nat, NEW l \in Nat,
               Becomes(p, a, n, r, s, b, l), Private, [Next]_vars,
               \A q \in Procs \ {p} : pc'[q] = pc[q] /\ key'[q] = key[q]
        PROVE  Moved(p, a, n, r, s, b, l)
    <2>1. SearchOK(p)' => SearchInv'
      BY <1>k, LookupKept
    <2>2. /\ at'[p] = a /\ then'[p] = n /\ round'[p] = r /\ snap'[p] = s /\ probed'[p] = b
          /\ loaded'[p] = l
      BY <1>k, LocalKept DEF Private
    <2>3. \A m \in Mutators : at'[m] = at[m] /\ call'[m] = call[m]
      BY <1>k, <1>f, <1>t, ThreadKinds DEF Becomes, Private, SearchType
    <2>4. \A d : Bumping(d)' <=> Bumping(d)
      BY <2>3 DEF Bumping, Db
    <2> QED BY <1>k, <2>1, <2>2, <2>4 DEF Moved, Private
  <1>p. SearchPlaces \subseteq Places /\ Rounds = {"Fast", "Locked", "Promoted", "Generated"}
    BY DEF Places, Rounds
  <1>u. ASSUME UNCHANGED vars
        PROVE  [Next]_vars /\ \A q \in Procs : pc'[q] = pc[q] /\ key'[q] = key[q]
    BY <1>u DEF vars
  <1>1. ASSUME Collide(p) PROVE SearchInv' /\ [Next]_vars
    <2>1. /\ Becomes(p, "Snapshot", then[p], round[p], snap[p], probed[p], loaded[p])
          /\ Private /\ UNCHANGED vars /\ at[p] = "Collide"
      BY <1>1, <1>f, <1>t DEF Collide, Becomes, Private, Go, Lookup, diskVars
    <2>2. Moved(p, "Snapshot", then[p], round[p], snap[p], probed[p], loaded[p])
      BY <1>f, <1>t, <1>p, <1>k, <1>u, <2>1 DEF SearchPlaces, Busy
    <2>3. /\ at'[p] = "Snapshot" /\ then'[p] = then[p] /\ round'[p] = round[p]
          /\ snap'[p] = snap[p] /\ probed'[p] = probed[p] /\ loaded'[p] = loaded[p]
          /\ call'[p] = call[p] /\ pc'[p] = pc[p] /\ key'[p] = key[p] /\ answer'[p] = answer[p]
          /\ UNCHANGED <<revision, sidecar, counter>> /\ \A d : Bumping(d)' <=> Bumping(d)
      BY <1>u, <2>1, <2>2 DEF Moved, Private
    <2>4. PlaceOK(p)' /\ AnswerOK(p)'
      BY <1>f, <2>1, <2>3 DEF SearchOK, PlaceOK, AnswerOK, ProbeOK, Probing, Held, Db, SearchPlaces, Busy
    <2>5. ProbeOK(p)' /\ SoleOK(p)'
      BY <1>f, <2>1, <2>3 DEF SearchOK, PlaceOK, ProbeOK, SoleOK, Probing, Db, Busy
    <2> QED BY <1>u, <2>1, <2>2, <2>4, <2>5 DEF Moved, SearchOK
  <1>2. ASSUME Snapshot(p) PROVE SearchInv' /\ [Next]_vars
    <2>1. /\ Becomes(p, "Probe", then[p], round[p], counter, probed[p], loaded[p])
          /\ Private /\ UNCHANGED vars /\ at[p] = "Snapshot"
      BY <1>2, <1>f, <1>t DEF Snapshot, Becomes, Private, Go, Lookup, diskVars, cacheVars
    <2>2. Moved(p, "Probe", then[p], round[p], counter, probed[p], loaded[p])
      BY <1>f, <1>t, <1>p, <1>k, <1>u, <2>1 DEF SearchPlaces, Busy
    <2>3. /\ at'[p] = "Probe" /\ then'[p] = then[p] /\ round'[p] = round[p]
          /\ snap'[p] = counter /\ probed'[p] = probed[p] /\ loaded'[p] = loaded[p]
          /\ call'[p] = call[p] /\ pc'[p] = pc[p] /\ key'[p] = key[p] /\ answer'[p] = answer[p]
          /\ UNCHANGED <<revision, sidecar, counter>> /\ \A d : Bumping(d)' <=> Bumping(d)
      BY <1>u, <2>1, <2>2 DEF Moved, Private
    <2>4. PlaceOK(p)' /\ AnswerOK(p)'
      BY <1>f, <2>1, <2>3 DEF SearchOK, PlaceOK, AnswerOK, ProbeOK, Probing, Held, Db, SearchPlaces, Busy
    <2>5. ProbeOK(p)' /\ SoleOK(p)'
      BY <1>f, <2>1, <2>3 DEF SearchOK, PlaceOK, ProbeOK, SoleOK, Probing, Db, Busy
    <2> QED BY <1>u, <2>1, <2>2, <2>4, <2>5 DEF Moved, SearchOK
  <1>3. ASSUME Probe(p) PROVE SearchInv' /\ [Next]_vars
    <2>1. /\ Becomes(p, "Open", then[p], round[p], snap[p], revision[Db(p)], loaded[p])
          /\ Private /\ UNCHANGED vars /\ at[p] = "Probe"
      BY <1>3, <1>f, <1>t DEF Probe, Becomes, Private, Go, Lookup, diskVars, cacheVars
    <2>2. Moved(p, "Open", then[p], round[p], snap[p], revision[Db(p)], loaded[p])
      BY <1>f, <1>t, <1>p, <1>k, <1>u, <2>1 DEF SearchPlaces, Busy
    <2>3. /\ at'[p] = "Open" /\ then'[p] = then[p] /\ round'[p] = round[p]
          /\ snap'[p] = snap[p] /\ probed'[p] = revision[Db(p)] /\ loaded'[p] = loaded[p]
          /\ call'[p] = call[p] /\ pc'[p] = pc[p] /\ key'[p] = key[p] /\ answer'[p] = answer[p]
          /\ UNCHANGED <<revision, sidecar, counter>> /\ \A d : Bumping(d)' <=> Bumping(d)
      BY <1>u, <2>1, <2>2 DEF Moved, Private
    <2>4. PlaceOK(p)' /\ AnswerOK(p)'
      BY <1>f, <2>1, <2>3 DEF SearchOK, PlaceOK, AnswerOK, ProbeOK, Probing, Held, Db, SearchPlaces, Busy
    <2>5. ProbeOK(p)' /\ SoleOK(p)'
      BY <1>f, <2>1, <2>3 DEF SearchOK, PlaceOK, ProbeOK, SoleOK, Probing, Db, Busy
    <2> QED BY <1>u, <2>1, <2>2, <2>4, <2>5 DEF Moved, SearchOK
  <1>4. ASSUME Open(p), sidecar[Db(p)] = probed[p] PROVE SearchInv' /\ [Next]_vars
    <2>1. /\ Becomes(p, "Cache", then[p], round[p], snap[p], probed[p], probed[p])
          /\ Private /\ UNCHANGED vars /\ at[p] = "Open" /\ sidecar[Db(p)] = probed[p]
      BY <1>4, <1>f, <1>t DEF Open, Becomes, Private, Go, Lookup, diskVars, cacheVars
    <2>2. Moved(p, "Cache", then[p], round[p], snap[p], probed[p], probed[p])
      BY <1>f, <1>t, <1>p, <1>k, <1>u, <2>1 DEF SearchPlaces, Busy
    <2>3. /\ at'[p] = "Cache" /\ then'[p] = then[p] /\ round'[p] = round[p]
          /\ snap'[p] = snap[p] /\ probed'[p] = probed[p] /\ loaded'[p] = probed[p]
          /\ call'[p] = call[p] /\ pc'[p] = pc[p] /\ key'[p] = key[p] /\ answer'[p] = answer[p]
          /\ UNCHANGED <<revision, sidecar, counter>> /\ \A d : Bumping(d)' <=> Bumping(d)
      BY <1>u, <2>1, <2>2 DEF Moved, Private
    <2>4. PlaceOK(p)' /\ AnswerOK(p)'
      BY <1>f, <2>1, <2>3 DEF SearchOK, PlaceOK, AnswerOK, ProbeOK, Probing, Held, Db, SearchPlaces, Busy
    <2>5. ProbeOK(p)' /\ SoleOK(p)'
      BY <1>f, <2>1, <2>3 DEF SearchOK, PlaceOK, ProbeOK, SoleOK, Probing, Db, Busy
    <2> QED BY <1>u, <2>1, <2>2, <2>4, <2>5 DEF Moved, SearchOK
  <1>5. ASSUME Open(p), sidecar[Db(p)] # probed[p], round[p] = "Fast" PROVE SearchInv' /\ [Next]_vars
    <2>1. /\ Becomes(p, "Lease", then[p], round[p], snap[p], probed[p], 0)
          /\ Private /\ UNCHANGED vars /\ at[p] = "Open"
          /\ sidecar[Db(p)] # probed[p] /\ round[p] = "Fast"
      BY <1>5, <1>f, <1>t DEF Open, Becomes, Private, Go, Lookup, diskVars, cacheVars, Invalidate
    <2>2. Moved(p, "Lease", then[p], round[p], snap[p], probed[p], 0)
      BY <1>f, <1>t, <1>p, <1>k, <1>u, <2>1 DEF SearchPlaces, Busy
    <2>3. /\ at'[p] = "Lease" /\ then'[p] = then[p] /\ round'[p] = round[p]
          /\ snap'[p] = snap[p] /\ probed'[p] = probed[p] /\ loaded'[p] = 0
          /\ call'[p] = call[p] /\ pc'[p] = pc[p] /\ key'[p] = key[p] /\ answer'[p] = answer[p]
          /\ UNCHANGED <<revision, sidecar, counter>> /\ \A d : Bumping(d)' <=> Bumping(d)
      BY <1>u, <2>1, <2>2 DEF Moved, Private
    <2>4. PlaceOK(p)' /\ AnswerOK(p)'
      BY <1>f, <2>1, <2>3 DEF SearchOK, PlaceOK, AnswerOK, ProbeOK, Probing, Held, Db, SearchPlaces, Busy
    <2>5. ProbeOK(p)' /\ SoleOK(p)'
      BY <1>f, <2>1, <2>3 DEF SearchOK, PlaceOK, ProbeOK, SoleOK, Probing, Db, Busy
    <2> QED BY <1>u, <2>1, <2>2, <2>4, <2>5 DEF Moved, SearchOK
  <1>6. ASSUME Open(p), sidecar[Db(p)] # probed[p], round[p] = "Locked" PROVE SearchInv' /\ [Next]_vars
    <2>1. /\ Becomes(p, "Bump", "Promote", round[p], snap[p], probed[p], 0)
          /\ Private /\ UNCHANGED vars /\ at[p] = "Open"
          /\ sidecar[Db(p)] # probed[p] /\ round[p] = "Locked"
      BY <1>6, <1>f, <1>t DEF Open, Becomes, Private, Go, Lookup, diskVars, cacheVars, Invalidate
    <2>2. Moved(p, "Bump", "Promote", round[p], snap[p], probed[p], 0)
      BY <1>f, <1>t, <1>p, <1>k, <1>u, <2>1 DEF SearchPlaces, Busy
    <2>3. /\ at'[p] = "Bump" /\ then'[p] = "Promote" /\ round'[p] = round[p]
          /\ snap'[p] = snap[p] /\ probed'[p] = probed[p] /\ loaded'[p] = 0
          /\ call'[p] = call[p] /\ pc'[p] = pc[p] /\ key'[p] = key[p] /\ answer'[p] = answer[p]
          /\ UNCHANGED <<revision, sidecar, counter>> /\ \A d : Bumping(d)' <=> Bumping(d)
      BY <1>u, <2>1, <2>2 DEF Moved, Private
    <2>4. PlaceOK(p)' /\ AnswerOK(p)'
      BY <1>f, <2>1, <2>3 DEF SearchOK, PlaceOK, AnswerOK, ProbeOK, Probing, Held, Db, SearchPlaces, Busy
    <2>5. ProbeOK(p)' /\ SoleOK(p)'
      BY <1>f, <2>1, <2>3 DEF SearchOK, PlaceOK, ProbeOK, SoleOK, Probing, Db, Busy
    <2> QED BY <1>u, <2>1, <2>2, <2>4, <2>5 DEF Moved, SearchOK
  <1>7. ASSUME Open(p), sidecar[Db(p)] # probed[p], round[p] = "Promoted" PROVE SearchInv' /\ [Next]_vars
    <2>1. /\ Becomes(p, "Generate", then[p], round[p], snap[p], probed[p], 0)
          /\ Private /\ UNCHANGED vars /\ at[p] = "Open"
          /\ sidecar[Db(p)] # probed[p] /\ round[p] = "Promoted"
      BY <1>7, <1>f, <1>t DEF Open, Becomes, Private, Go, Lookup, diskVars, cacheVars, Invalidate
    <2>2. Moved(p, "Generate", then[p], round[p], snap[p], probed[p], 0)
      BY <1>f, <1>t, <1>p, <1>k, <1>u, <2>1 DEF SearchPlaces, Busy
    <2>3. /\ at'[p] = "Generate" /\ then'[p] = then[p] /\ round'[p] = round[p]
          /\ snap'[p] = snap[p] /\ probed'[p] = probed[p] /\ loaded'[p] = 0
          /\ call'[p] = call[p] /\ pc'[p] = pc[p] /\ key'[p] = key[p] /\ answer'[p] = answer[p]
          /\ UNCHANGED <<revision, sidecar, counter>> /\ \A d : Bumping(d)' <=> Bumping(d)
      BY <1>u, <2>1, <2>2 DEF Moved, Private
    <2>4. PlaceOK(p)' /\ AnswerOK(p)'
      BY <1>f, <2>1, <2>3 DEF SearchOK, PlaceOK, AnswerOK, ProbeOK, Probing, Held, Db, SearchPlaces, Busy
    <2>5. ProbeOK(p)' /\ SoleOK(p)'
      BY <1>f, <2>1, <2>3 DEF SearchOK, PlaceOK, ProbeOK, SoleOK, Probing, Db, Busy
    <2> QED BY <1>u, <2>1, <2>2, <2>4, <2>5 DEF Moved, SearchOK
  <1>8. ASSUME Open(p), sidecar[Db(p)] # probed[p], round[p] = "Generated" PROVE SearchInv' /\ [Next]_vars
    <2>1. /\ Becomes(p, "Leave", then[p], round[p], snap[p], probed[p], 0)
          /\ Private /\ UNCHANGED vars /\ at[p] = "Open"
          /\ sidecar[Db(p)] # probed[p] /\ round[p] = "Generated"
      BY <1>8, <1>f, <1>t DEF Open, Becomes, Private, Go, Lookup, diskVars, cacheVars, Invalidate
    <2>2. Moved(p, "Leave", then[p], round[p], snap[p], probed[p], 0)
      BY <1>f, <1>t, <1>p, <1>k, <1>u, <2>1 DEF SearchPlaces, Busy
    <2>3. /\ at'[p] = "Leave" /\ then'[p] = then[p] /\ round'[p] = round[p]
          /\ snap'[p] = snap[p] /\ probed'[p] = probed[p] /\ loaded'[p] = 0
          /\ call'[p] = call[p] /\ pc'[p] = pc[p] /\ key'[p] = key[p] /\ answer'[p] = answer[p]
          /\ UNCHANGED <<revision, sidecar, counter>> /\ \A d : Bumping(d)' <=> Bumping(d)
      BY <1>u, <2>1, <2>2 DEF Moved, Private
    <2>4. PlaceOK(p)' /\ AnswerOK(p)'
      BY <1>f, <2>1, <2>3 DEF SearchOK, PlaceOK, AnswerOK, ProbeOK, Probing, Held, Db, SearchPlaces, Busy
    <2>5. ProbeOK(p)' /\ SoleOK(p)'
      BY <1>f, <2>1, <2>3 DEF SearchOK, PlaceOK, ProbeOK, SoleOK, Probing, Db, Busy
    <2> QED BY <1>u, <2>1, <2>2, <2>4, <2>5 DEF Moved, SearchOK
  <1>9. ASSUME LockWriter(p) PROVE SearchInv' /\ [Next]_vars
    <2>1. /\ Becomes(p, "Bump", "WriteSidecar", round[p], 0, 0, revision[Db(p)])
          /\ Private /\ UNCHANGED vars /\ at[p] = "Generate"
      BY <1>9, <1>f, <1>t DEF LockWriter, Becomes, Private, Go, Invalidate, Unprobed, cacheVars
    <2>2. Moved(p, "Bump", "WriteSidecar", round[p], 0, 0, revision[Db(p)])
      BY <1>f, <1>t, <1>p, <1>k, <1>u, <2>1 DEF SearchPlaces, Busy
    <2>3. /\ at'[p] = "Bump" /\ then'[p] = "WriteSidecar" /\ round'[p] = round[p]
          /\ snap'[p] = 0 /\ probed'[p] = 0 /\ loaded'[p] = revision[Db(p)]
          /\ call'[p] = call[p] /\ pc'[p] = pc[p] /\ key'[p] = key[p] /\ answer'[p] = answer[p]
          /\ UNCHANGED <<revision, sidecar, counter>> /\ \A d : Bumping(d)' <=> Bumping(d)
      BY <1>u, <2>1, <2>2 DEF Moved, Private
    <2>4. PlaceOK(p)' /\ AnswerOK(p)'
      BY <1>f, <2>1, <2>3 DEF SearchOK, PlaceOK, AnswerOK, ProbeOK, Probing, Held, Db, SearchPlaces, Busy
    <2>5. ProbeOK(p)' /\ SoleOK(p)'
      BY <1>f, <2>1, <2>3 DEF SearchOK, PlaceOK, ProbeOK, SoleOK, Probing, Db, Busy
    <2> QED BY <1>u, <2>1, <2>2, <2>4, <2>5 DEF Moved, SearchOK
  <1>10. ASSUME UnlockWriter(p) PROVE SearchInv' /\ [Next]_vars
    <2>1. /\ Becomes(p, "Snapshot", then[p], "Generated", snap[p], probed[p], 0)
          /\ Private /\ UNCHANGED vars /\ at[p] = "UnlockWriter"
      BY <1>10, <1>f, <1>t DEF UnlockWriter, Becomes, Private, Go, cacheVars
    <2>2. Moved(p, "Snapshot", then[p], "Generated", snap[p], probed[p], 0)
      BY <1>f, <1>t, <1>p, <1>k, <1>u, <2>1 DEF SearchPlaces, Busy
    <2>3. /\ at'[p] = "Snapshot" /\ then'[p] = then[p] /\ round'[p] = "Generated"
          /\ snap'[p] = snap[p] /\ probed'[p] = probed[p] /\ loaded'[p] = 0
          /\ call'[p] = call[p] /\ pc'[p] = pc[p] /\ key'[p] = key[p] /\ answer'[p] = answer[p]
          /\ UNCHANGED <<revision, sidecar, counter>> /\ \A d : Bumping(d)' <=> Bumping(d)
      BY <1>u, <2>1, <2>2 DEF Moved, Private
    <2>4. PlaceOK(p)' /\ AnswerOK(p)'
      BY <1>f, <2>1, <2>3 DEF SearchOK, PlaceOK, AnswerOK, ProbeOK, Probing, Held, Db, SearchPlaces, Busy
    <2>5. ProbeOK(p)' /\ SoleOK(p)'
      BY <1>f, <2>1, <2>3 DEF SearchOK, PlaceOK, ProbeOK, SoleOK, Probing, Db, Busy
    <2> QED BY <1>u, <2>1, <2>2, <2>4, <2>5 DEF Moved, SearchOK
  <1>11. ASSUME Loaded(p), loaded[p] = 0 PROVE SearchInv' /\ [Next]_vars
    <2>1. /\ Becomes(p, "Finish", then[p], "Fast", snap[p], probed[p], loaded[p])
          /\ Private /\ UNCHANGED vars /\ at[p] = "Leave" /\ pc[p] = "Idle"
      BY <1>11, <1>f, <1>t DEF Loaded, Becomes, Private, Go, Lookup, diskVars, cacheVars
    <2>2. Moved(p, "Finish", then[p], "Fast", snap[p], probed[p], loaded[p])
      BY <1>f, <1>t, <1>p, <1>k, <1>u, <2>1 DEF SearchPlaces, Busy
    <2>3. /\ at'[p] = "Finish" /\ then'[p] = then[p] /\ round'[p] = "Fast"
          /\ snap'[p] = snap[p] /\ probed'[p] = probed[p] /\ loaded'[p] = loaded[p]
          /\ call'[p] = call[p] /\ pc'[p] = pc[p] /\ key'[p] = key[p] /\ answer'[p] = answer[p]
          /\ UNCHANGED <<revision, sidecar, counter>> /\ \A d : Bumping(d)' <=> Bumping(d)
      BY <1>u, <2>1, <2>2 DEF Moved, Private
    <2>4. PlaceOK(p)' /\ AnswerOK(p)'
      BY <1>f, <2>1, <2>3 DEF SearchOK, PlaceOK, AnswerOK, ProbeOK, Probing, Held, Db, SearchPlaces, Busy
    <2>5. ProbeOK(p)' /\ SoleOK(p)'
      BY <1>f, <2>1, <2>3 DEF SearchOK, PlaceOK, ProbeOK, SoleOK, Probing, Db, Busy
    <2> QED BY <1>u, <2>1, <2>2, <2>4, <2>5 DEF Moved, SearchOK
  <1>12. ASSUME Loaded(p), loaded[p] # 0 PROVE SearchInv' /\ [Next]_vars
    <2>1. /\ Becomes(p, "Loaded", then[p], "Fast", snap[p], probed[p], loaded[p])
          /\ Private /\ UNCHANGED vars /\ at[p] = "Leave" /\ pc[p] = "Idle" /\ loaded[p] # 0
      BY <1>12, <1>f, <1>t DEF Loaded, Becomes, Private, Go, Lookup, diskVars, cacheVars
    <2>2. Moved(p, "Loaded", then[p], "Fast", snap[p], probed[p], loaded[p])
      BY <1>f, <1>t, <1>p, <1>k, <1>u, <2>1 DEF SearchPlaces, Busy
    <2>3. /\ at'[p] = "Loaded" /\ then'[p] = then[p] /\ round'[p] = "Fast"
          /\ snap'[p] = snap[p] /\ probed'[p] = probed[p] /\ loaded'[p] = loaded[p]
          /\ call'[p] = call[p] /\ pc'[p] = pc[p] /\ key'[p] = key[p] /\ answer'[p] = answer[p]
          /\ UNCHANGED <<revision, sidecar, counter>> /\ \A d : Bumping(d)' <=> Bumping(d)
      BY <1>u, <2>1, <2>2 DEF Moved, Private
    <2>4. PlaceOK(p)' /\ AnswerOK(p)'
      BY <1>f, <2>1, <2>3 DEF SearchOK, PlaceOK, AnswerOK, ProbeOK, Probing, Held, Db, SearchPlaces, Busy
    <2>5. ProbeOK(p)' /\ SoleOK(p)'
      BY <1>f, <2>1, <2>3 DEF SearchOK, PlaceOK, ProbeOK, SoleOK, Probing, Db, Busy
    <2> QED BY <1>u, <2>1, <2>2, <2>4, <2>5 DEF Moved, SearchOK
  <1>13. ASSUME NEW k \in Locks, LeaseGeneration(p, k) PROVE SearchInv' /\ [Next]_vars
    <2>1. /\ Becomes(p, "Wait", then[p], round[p], 0, 0, loaded[p])
          /\ Private /\ Lease(p, Db(p), k) /\ at[p] = "Lease"
      BY <1>13, <1>f, <1>t DEF LeaseGeneration, Becomes, Private, Go, Lookup, Unprobed, diskVars, cacheVars
    <2>n. [Next]_vars
      BY <1>f, <2>1 DEF Next
    <2>o. /\ \A q \in Procs \ {p} : pc'[q] = pc[q] /\ key'[q] = key[q]
          /\ pc'[p] = "Leased" /\ key'[p] = Db(p)
      BY <2>1 DEF Lease, SearchInv, Inv, TypeOK
    <2>2. Moved(p, "Wait", then[p], round[p], 0, 0, loaded[p])
      BY <1>f, <1>t, <1>p, <1>k, <2>1, <2>n, <2>o DEF SearchPlaces, Busy
    <2>3. /\ at'[p] = "Wait" /\ then'[p] = then[p] /\ round'[p] = round[p]
          /\ loaded'[p] = loaded[p] /\ call'[p] = call[p] /\ answer'[p] = answer[p]
          /\ UNCHANGED <<revision, sidecar, counter>>
      BY <2>1, <2>2 DEF Moved, Private
    <2>4. PlaceOK(p)' /\ AnswerOK(p)'
      BY <1>f, <2>1, <2>3, <2>o DEF SearchOK, PlaceOK, AnswerOK, Db, SearchPlaces, Busy
    <2>5. ProbeOK(p)' /\ SoleOK(p)'
      BY <2>3 DEF ProbeOK, SoleOK, Probing, Busy
    <2> QED BY <2>2, <2>4, <2>5, <2>n DEF Moved, SearchOK
  <1>14. ASSUME LockGeneration(p) PROVE SearchInv' /\ [Next]_vars
    <2>1. /\ Becomes(p, "Snapshot", then[p], "Locked", snap[p], probed[p], loaded[p])
          /\ Private /\ Acquire(p) /\ at[p] = "Wait"
      BY <1>14, <1>f, <1>t DEF LockGeneration, Becomes, Private, Go, Lookup, diskVars, cacheVars
    <2>n. [Next]_vars
      BY <2>1 DEF Next
    <2>o. /\ \A q \in Procs \ {p} : pc'[q] = pc[q] /\ key'[q] = key[q]
          /\ pc'[p] = "Locked" /\ key'[p] = key[p]
      BY <2>1 DEF Acquire, SearchInv, Inv, TypeOK
    <2>2. Moved(p, "Snapshot", then[p], "Locked", snap[p], probed[p], loaded[p])
      BY <1>f, <1>t, <1>p, <1>k, <2>1, <2>n, <2>o DEF SearchPlaces, Busy
    <2>3. /\ at'[p] = "Snapshot" /\ then'[p] = then[p] /\ round'[p] = "Locked"
          /\ loaded'[p] = loaded[p] /\ call'[p] = call[p] /\ answer'[p] = answer[p]
          /\ UNCHANGED <<revision, sidecar, counter>>
      BY <2>1, <2>2 DEF Moved, Private
    <2>4. PlaceOK(p)' /\ AnswerOK(p)'
      BY <1>f, <2>1, <2>3, <2>o DEF SearchOK, PlaceOK, AnswerOK, Held, Db, SearchPlaces, Busy
    <2>5. ProbeOK(p)' /\ SoleOK(p)'
      BY <2>3 DEF ProbeOK, SoleOK, Probing, Busy
    <2> QED BY <2>2, <2>4, <2>5, <2>n DEF Moved, SearchOK
  <1>15. ASSUME DropGuard(p) PROVE SearchInv' /\ [Next]_vars
    <2>1. /\ Becomes(p, at[p], then[p], round[p], snap[p], probed[p], loaded[p])
          /\ Private /\ at[p] = "Leave"
      BY <1>15, <1>t DEF DropGuard, Becomes, Private, diskVars, cacheVars, threadVars
    <2>n. [Next]_vars
      BY <1>15 DEF DropGuard, Next
    <2>o. \A q \in Procs \ {p} : pc'[q] = pc[q] /\ key'[q] = key[q]
      BY <1>15 DEF DropGuard, Unlock, BeginDrop, Release, Remove, SearchInv, Inv, TypeOK
    <2>2. Moved(p, at[p], then[p], round[p], snap[p], probed[p], loaded[p])
      BY <1>f, <1>t, <1>p, <1>k, <2>1, <2>n, <2>o
    <2>3. /\ at'[p] = "Leave" /\ then'[p] = then[p] /\ round'[p] = round[p]
          /\ loaded'[p] = loaded[p] /\ call'[p] = call[p] /\ answer'[p] = answer[p]
          /\ UNCHANGED <<revision, sidecar, counter>>
      BY <2>1, <2>2 DEF Moved, Private
    <2>4. PlaceOK(p)' /\ AnswerOK(p)'
      BY <1>f, <2>1, <2>3 DEF SearchOK, PlaceOK, AnswerOK, Db, SearchPlaces, Busy
    <2>5. ProbeOK(p)' /\ SoleOK(p)'
      BY <2>3 DEF ProbeOK, SoleOK, Probing, Busy
    <2> QED BY <2>2, <2>4, <2>5, <2>n DEF Moved, SearchOK
  <1> QED BY <1>f, <1>p, <1>1, <1>2, <1>3, <1>4, <1>5, <1>6, <1>7, <1>8, <1>9, <1>10, <1>11, <1>12,
             <1>13, <1>14, <1>15

\* Only p may have another answer.
Answers(p) ==
    /\ DOMAIN answer' = Threads
    /\ \A q \in Threads \ {p} : answer'[q] = answer[q]

\* A call begins, caches what it has mapped, answers or fails.
LEMMA CallKept ==
    ASSUME SearchInv, NEW p \in Procs,
           \/ \E d \in Keys, q \in Queries, kind \in Kinds : StartCall(p, d, q, kind)
           \/ CacheLoaded(p) \/ Transact(p) \/ InsertResult(p) \/ Scan(p) \/ Finish(p) \/ Fail(p)
    PROVE  SearchInv' /\ [Next]_vars
  <1>f. /\ p \in Threads /\ SearchOK(p)
        /\ at[p] \in SearchPlaces /\ round[p] \in Rounds
        /\ snap[p] \in Nat /\ probed[p] \in Nat /\ loaded[p] \in Nat
        /\ counter \in Nat /\ call[p] \in Calls /\ call[p].since \in Nat
        /\ at[p] # "Idle" => /\ Db(p) \in Keys /\ revision[Db(p)] \in Nat
                             /\ sidecar[Db(p)] \in Nat /\ sidecar[Db(p)] <= revision[Db(p)]
    BY SearchFacts
  <1>t. SearchType /\ ResultsOK
    BY DEF SearchInv
  <1>p. SearchPlaces \subseteq Places
    BY DEF Places
  <1>u. ASSUME UNCHANGED vars
        PROVE  [Next]_vars /\ \A q \in Procs : pc'[q] = pc[q] /\ key'[q] = key[q]
    BY <1>u DEF vars
  <1>1. ASSUME NEW d \in Keys, NEW q \in Queries, NEW kind \in Kinds, StartCall(p, d, q, kind)
        PROVE  SearchInv' /\ [Next]_vars
    <2> DEFINE c == [db |-> d, query |-> q, kind |-> kind, since |-> revision[d]]
               a == IF kind = "Preload" THEN "Snapshot" ELSE "Collide"
    <2>0. /\ at[p] = "Idle" /\ at' = [at EXCEPT ![p] = a] /\ call' = [call EXCEPT ![p] = c]
          /\ UNCHANGED vars /\ UNCHANGED <<revision, sidecar, legacy, counter, indexes, results>>
          /\ UNCHANGED <<then, round, snap, probed, loaded, answer>>
      BY <1>1 DEF StartCall, Go, diskVars, cacheVars
    <2>1. c \in Calls /\ c.db = d /\ c.since = revision[d] /\ a \in {"Snapshot", "Collide"}
      BY <1>t, SearchAssumption DEF Calls, SearchType
    <2> HIDE DEF a, c
    <2>2. Others(p)
      BY <1>f, <1>t, <1>u, <2>0 DEF Others, SearchType
    <2>3. SearchType'
      BY <1>t, <1>p, <2>0, <2>1 DEF SearchType, SearchPlaces
    <2>4. at'[p] = a /\ call'[p] = c /\ pc'[p] = pc[p]
      BY <1>f, <1>t, <1>u, <2>0 DEF SearchType
    <2>5. PlaceOK(p)' /\ AnswerOK(p)'
      BY <1>f, <1>t, <2>0, <2>1, <2>4 DEF SearchOK, PlaceOK, AnswerOK, SearchType, Db, SearchPlaces, Busy
    <2>6. ProbeOK(p)' /\ SoleOK(p)'
      BY <2>1, <2>4 DEF ProbeOK, SoleOK, Probing, Busy
    <2>7. ResultsOK' /\ KeysOf(indexes') \ KeysOf(indexes) = {}
      BY <1>t, <2>0 DEF ResultsOK
    <2> QED BY <1>u, <2>0, <2>2, <2>3, <2>5, <2>6, <2>7, ProcKept DEF SearchOK
  <1>2. ASSUME CacheLoaded(p) PROVE SearchInv' /\ [Next]_vars
    <2> DEFINE k == [db |-> Db(p), source |-> loaded[p]]
    <2>0. /\ at[p] = "Cache" /\ at' = [at EXCEPT ![p] = "Leave"]
          /\ snap' = [snap EXCEPT ![p] = 0] /\ probed' = [probed EXCEPT ![p] = 0]
          /\ UNCHANGED vars /\ UNCHANGED <<revision, sidecar, legacy, counter, results>>
          /\ UNCHANGED <<then, round, call, loaded, answer>>
          /\ indexes' = InsertIndex(indexes, k, p)
      BY <1>2 DEF CacheLoaded, Go, Unprobed, Lookup, diskVars
    <2>1. k.db = Db(p) /\ k.source = loaded[p]
      OBVIOUS
    <2> HIDE DEF k
    <2>2. Others(p)
      BY <1>f, <1>t, <1>u, <2>0 DEF Others, SearchType
    <2>3. SearchType'
      BY <1>t, <1>p, <2>0 DEF SearchType, SearchPlaces
    <2>4. at'[p] = "Leave"
      BY <1>f, <1>t, <2>0 DEF SearchType
    <2>5. PlaceOK(p)' /\ AnswerOK(p)'
      BY <1>f, <2>0, <2>4 DEF SearchOK, PlaceOK, AnswerOK, Db, SearchPlaces, Busy
    <2>6. ProbeOK(p)' /\ SoleOK(p)' /\ ResultsOK'
      BY <1>t, <2>0, <2>4 DEF ProbeOK, SoleOK, Probing, Busy, ResultsOK
    <2>7. \/ KeysOf(indexes') \subseteq KeysOf(indexes)
          \/ counter = snap[p] /\ KeysOf(indexes') \subseteq KeysOf(indexes) \cup {k}
      BY <2>0, TouchKeeps, InsertKeeps DEF InsertIndex
    <2>8. /\ Db(p) \in Keys /\ loaded[p] \in Nat
          /\ counter = snap[p] /\ loaded[p] < revision[Db(p)] => Bumping(Db(p))
      BY <1>f, <2>0 DEF SearchOK, ProbeOK, Probing
    <2>9. \A j \in KeysOf(indexes') \ KeysOf(indexes) :
             j.db \in Keys /\ j.source \in Nat /\ (j.source < revision[j.db] => Bumping(j.db))
      BY <2>1, <2>7, <2>8
    <2> QED BY <1>u, <2>0, <2>2, <2>3, <2>5, <2>6, <2>9, ProcKept DEF SearchOK
  <1>r. ASSUME NEW a \in {"Insert", "Finish"}, at[p] \in {"Loaded", "Insert"},
               at' = [at EXCEPT ![p] = a], ResultsOK',
               Answers(p), answer'[p] = Answer(loaded[p]) \/ (answer'[p] = None /\ a = "Finish"),
               UNCHANGED vars, UNCHANGED <<revision, sidecar, legacy, counter, indexes>>,
               UNCHANGED <<then, round, call, snap, probed, loaded>>
        PROVE  SearchInv' /\ [Next]_vars
    <2>2. Others(p)
      BY <1>f, <1>t, <1>u, <1>r DEF Others, SearchType, Answers
    <2>3. SearchType'
      BY <1>t, <1>p, <1>r DEF SearchType, SearchPlaces, Answers
    <2>4. at'[p] = a
      BY <1>f, <1>t, <1>r DEF SearchType
    <2>5. PlaceOK(p)' /\ AnswerOK(p)'
      BY <1>f, <1>u, <1>r, <2>4 DEF SearchOK, PlaceOK, AnswerOK, Db, SearchPlaces, Busy
    <2>6. ProbeOK(p)' /\ SoleOK(p)' /\ KeysOf(indexes') \ KeysOf(indexes) = {}
      BY <1>r, <2>4 DEF ProbeOK, SoleOK, Probing, Busy
    <2> QED BY <1>u, <1>r, <2>2, <2>3, <2>5, <2>6, ProcKept DEF SearchOK
  <1>v. /\ \A v : answer' = [answer EXCEPT ![p] = v] => Answers(p) /\ answer'[p] = v
        /\ answer' = answer => Answers(p)
    BY <1>f, <1>t DEF Answers, SearchType
  <1>3. ASSUME Transact(p) PROVE SearchInv' /\ [Next]_vars
    <2>0. /\ at[p] = "Loaded"
          /\ UNCHANGED vars /\ UNCHANGED <<revision, sidecar, legacy, counter, indexes>>
          /\ UNCHANGED <<then, round, call, snap, probed, loaded>>
      BY <1>3 DEF Transact, diskVars
    <2>1. ResultKey(p).source = loaded[p]
      BY DEF ResultKey
    <2>2. ASSUME Answers(p), answer'[p] = Answer(loaded[p]),
                 NEW a \in {"Insert", "Finish"}, at' = [at EXCEPT ![p] = a], ResultsOK'
          PROVE  SearchInv' /\ [Next]_vars
      BY <1>r, <2>0, <2>2
    <2>3. CASE Agrees(p) /\ ResultKey(p) \in KeysOf(results)
      <3>1. /\ answer' = [answer EXCEPT ![p] = ValueOf(results, ResultKey(p))]
            /\ results' = Touch(results, ResultKey(p)) /\ at' = [at EXCEPT ![p] = "Finish"]
        BY <1>3, <2>3 DEF Transact, Go
      <3>2. ValueOf(results, ResultKey(p)) = Answer(loaded[p])
        BY <1>t, <2>1, <2>3 DEF ResultsOK, ValueOf
      <3>3. ResultsOK'
        BY <1>t, <3>1, TouchKeeps DEF ResultsOK
      <3> QED BY <1>v, <2>2, <3>1, <3>2, <3>3
    <2>4. CASE Agrees(p) /\ ResultKey(p) \notin KeysOf(results)
      <3>1. /\ answer' = [answer EXCEPT ![p] = [index |-> loaded[p], rows |-> revision[Db(p)]]]
            /\ results' = results /\ at' = [at EXCEPT ![p] = "Insert"]
        BY <1>3, <2>4 DEF Transact, Go
      <3>2. [index |-> loaded[p], rows |-> revision[Db(p)]] = Answer(loaded[p])
        BY <2>4 DEF Agrees, Answer
      <3>3. ResultsOK'
        BY <1>t, <3>1 DEF ResultsOK
      <3> QED BY <1>v, <2>2, <3>1, <3>2, <3>3
    <2>5. CASE ~Agrees(p)
      <3>1. answer' = answer /\ results' = results /\ at' = [at EXCEPT ![p] = "Finish"]
        BY <1>3, <2>5 DEF Transact, Go
      <3>2. ResultsOK'
        BY <1>t, <3>1 DEF ResultsOK
      <3>3. answer[p] = None
        BY <1>f, <2>0 DEF SearchOK, AnswerOK
      <3> QED BY <1>r, <1>v, <2>0, <3>1, <3>2, <3>3
    <2> QED BY <2>3, <2>4, <2>5
  <1>4. ASSUME InsertResult(p) PROVE SearchInv' /\ [Next]_vars
    <2>0. /\ at[p] = "Insert" /\ at' = [at EXCEPT ![p] = "Finish"] /\ answer' = answer
          /\ UNCHANGED vars /\ UNCHANGED <<revision, sidecar, legacy, counter, indexes>>
          /\ UNCHANGED <<then, round, call, snap, probed, loaded>>
      BY <1>4 DEF InsertResult, Go, Lookup, diskVars
    <2>k. ASSUME NEW k \in KeysOf(results'), results' # results
          PROVE  \/ k = ResultKey(p) /\ results'.values[k] = answer[p]
                 \/ k \in KeysOf(results) /\ results'.values[k] = results.values[k]
      <3>1. PICK n : results' = EvictOldest(Insert(results, ResultKey(p), answer[p], ResultCapacity), n)
        BY <1>4, <2>k DEF InsertResult
      <3>2. PICK c : c = Insert(results, ResultKey(p), answer[p], ResultCapacity)
        OBVIOUS
      <3>3. PICK K : K = {c.newest[i] : i \in 1 .. n}
        OBVIOUS
      <3>4. results' = Drop(c, K)
        BY <3>1, <3>2, <3>3 DEF EvictOldest
      <3>5. k \in KeysOf(c) \ K /\ results'.values[k] = c.values[k]
        BY <3>4, <2>k, DropKeeps
      <3>6. c.values[k] = IF k = ResultKey(p) THEN answer[p] ELSE results.values[k]
        BY <3>2, <3>5, InsertKeeps
      <3>7. k = ResultKey(p) \/ k \in KeysOf(results)
        BY <3>2, <3>5, InsertKeeps
      <3> QED BY <3>5, <3>6, <3>7
    <2>1. ResultKey(p).source = loaded[p]
      BY DEF ResultKey
    <2>2. answer[p] = Answer(loaded[p])
      BY <1>f, <2>0 DEF SearchOK, AnswerOK
    <2>3. ResultsOK'
      BY <1>t, <2>1, <2>2, <2>k DEF ResultsOK
    <2> QED BY <1>r, <1>v, <2>0, <2>2, <2>3
  <1>5. ASSUME Scan(p) PROVE SearchInv' /\ [Next]_vars
    <2>0. /\ at[p] = "Loaded" /\ at' = [at EXCEPT ![p] = "Finish"]
          /\ answer' = [answer EXCEPT ![p] = Answer(loaded[p])]
          /\ UNCHANGED vars /\ UNCHANGED <<revision, sidecar, legacy, counter, indexes, results>>
          /\ UNCHANGED <<then, round, call, snap, probed, loaded>>
      BY <1>5 DEF Scan, Go, Lookup, diskVars, cacheVars, Answer
    <2>1. ResultsOK'
      BY <1>t, <2>0 DEF ResultsOK
    <2> QED BY <1>r, <1>v, <2>0, <2>1
  <1>6. ASSUME Finish(p) PROVE SearchInv' /\ [Next]_vars
    <2>0. /\ at[p] = "Finish" /\ at' = [at EXCEPT ![p] = "Idle"]
          /\ call' = [call EXCEPT ![p] = NoCall] /\ answer' = [answer EXCEPT ![p] = None]
          /\ loaded' = [loaded EXCEPT ![p] = 0]
          /\ UNCHANGED vars /\ UNCHANGED <<revision, sidecar, legacy, counter, indexes, results>>
          /\ UNCHANGED <<then, round, snap, probed>>
      BY <1>6 DEF Finish, Go, diskVars
    <2>1. NoCall \in Calls
      BY DEF NoCall, Calls
    <2>2. Others(p)
      BY <1>f, <1>t, <1>u, <2>0 DEF Others, SearchType
    <2>3. SearchType'
      BY <1>t, <1>p, <2>0, <2>1 DEF SearchType, SearchPlaces
    <2>4. at'[p] = "Idle" /\ loaded'[p] = 0 /\ answer'[p] = None /\ pc'[p] = pc[p]
      BY <1>f, <1>t, <1>u, <2>0 DEF SearchType
    <2>5. PlaceOK(p)' /\ AnswerOK(p)'
      BY <1>f, <2>0, <2>4 DEF SearchOK, PlaceOK, AnswerOK, Db, SearchPlaces, Busy
    <2>6. ProbeOK(p)' /\ SoleOK(p)'
      BY <2>4 DEF ProbeOK, SoleOK, Probing, Busy
    <2>7. ResultsOK' /\ KeysOf(indexes') \ KeysOf(indexes) = {}
      BY <1>t, <2>0 DEF ResultsOK
    <2> QED BY <1>u, <2>0, <2>2, <2>3, <2>5, <2>6, <2>7, ProcKept DEF SearchOK
  <1>7. ASSUME Fail(p) PROVE SearchInv' /\ [Next]_vars
    <2>0. /\ at[p] # "Idle" /\ at' = [at EXCEPT ![p] = "Leave"]
          /\ answer' = [answer EXCEPT ![p] = None] /\ loaded' = [loaded EXCEPT ![p] = 0]
          /\ snap' = [snap EXCEPT ![p] = 0] /\ probed' = [probed EXCEPT ![p] = 0]
          /\ UNCHANGED vars /\ UNCHANGED <<revision, sidecar, legacy, counter, indexes, results>>
          /\ UNCHANGED <<then, round, call>>
      BY <1>7 DEF Fail, Failing, Go, Unprobed, cacheVars
    <2>2. Others(p)
      BY <1>f, <1>t, <1>u, <2>0 DEF Others, SearchType
    <2>3. SearchType'
      BY <1>t, <1>p, <2>0 DEF SearchType, SearchPlaces
    <2>4. at'[p] = "Leave" /\ loaded'[p] = 0 /\ answer'[p] = None
      BY <1>f, <1>t, <2>0 DEF SearchType
    <2>5. PlaceOK(p)' /\ AnswerOK(p)'
      BY <1>f, <2>0, <2>4 DEF SearchOK, PlaceOK, AnswerOK, Db, SearchPlaces, Busy
    <2>6. ProbeOK(p)' /\ SoleOK(p)'
      BY <2>4 DEF ProbeOK, SoleOK, Probing, Busy
    <2>7. ResultsOK' /\ KeysOf(indexes') \ KeysOf(indexes) = {}
      BY <1>t, <2>0 DEF ResultsOK
    <2> QED BY <1>u, <2>0, <2>2, <2>3, <2>5, <2>6, <2>7, ProcKept DEF SearchOK
  <1> QED BY <1>1, <1>2, <1>3, <1>4, <1>5, <1>6, <1>7

\* The sidecars are promoted and written under the generation lock.
LEMMA SidecarKept ==
    ASSUME SearchInv, NEW p \in Procs, Promote(p) \/ PromoteFails(p) \/ WriteSidecar(p)
    PROVE  SearchInv' /\ [Next]_vars
  <1>f. /\ p \in Threads /\ SearchOK(p)
        /\ at[p] \in SearchPlaces /\ round[p] \in Rounds
        /\ snap[p] \in Nat /\ probed[p] \in Nat /\ loaded[p] \in Nat
        /\ counter \in Nat /\ call[p] \in Calls /\ call[p].since \in Nat
        /\ at[p] # "Idle" => /\ Db(p) \in Keys /\ revision[Db(p)] \in Nat
                             /\ sidecar[Db(p)] \in Nat /\ sidecar[Db(p)] <= revision[Db(p)]
    BY SearchFacts
  <1>t. SearchType /\ ResultsOK /\ SidecarsOK
    BY DEF SearchInv
  <1>p. SearchPlaces \subseteq Places
    BY DEF Places
  <1>u. ASSUME UNCHANGED vars
        PROVE  [Next]_vars /\ \A q \in Procs : pc'[q] = pc[q] /\ key'[q] = key[q]
    BY <1>u DEF vars
  <1>1. ASSUME Promote(p) PROVE SearchInv' /\ [Next]_vars
    <2> DEFINE d == Db(p)
               new == IF sidecar[d] = 0 /\ legacy[d] = probed[p] THEN legacy[d] ELSE sidecar[d]
               old == IF sidecar[d] = 0 /\ legacy[d] = probed[p] THEN 0 ELSE legacy[d]
    <2>0. /\ at[p] = "Promote" /\ at' = [at EXCEPT ![p] = "Open"]
          /\ round' = [round EXCEPT ![p] = "Promoted"]
          /\ sidecar' = [sidecar EXCEPT ![d] = new] /\ legacy' = [legacy EXCEPT ![d] = old]
          /\ UNCHANGED vars /\ UNCHANGED <<revision, counter, indexes, results>>
          /\ UNCHANGED <<then, call, snap, probed, loaded, answer>>
      BY <1>1, <1>f, <1>t DEF Promote, Promotable, Go, cacheVars, SearchType
    <2>1. /\ d \in Keys /\ new \in Nat /\ old \in Nat
          /\ new = sidecar[d] \/ new = probed[p]
          /\ probed[p] <= revision[d] /\ sidecar[d] <= probed[p] /\ Held(p)
      BY <1>f, <1>t, <2>0 DEF SearchOK, ProbeOK, PlaceOK, SoleOK, Probing, SearchType
    <2> HIDE DEF new, old
    <2>2. /\ Others(p) /\ SearchType'
      BY <1>f, <1>t, <1>p, <1>u, <2>0, <2>1 DEF Others, SearchType, Rounds, SearchPlaces
    <2>4. at'[p] = "Open" /\ round'[p] = "Promoted" /\ pc'[p] = pc[p] /\ key'[p] = key[p]
      BY <1>f, <1>t, <1>u, <2>0 DEF SearchType
    <2>5. SidecarByHolder(p) /\ sidecar'[d] = new
      BY <1>f, <1>t, <2>0, <2>1 DEF SidecarByHolder, SearchType, SidecarsOK
    <2>6. PlaceOK(p)' /\ AnswerOK(p)'
      BY <1>f, <2>0, <2>1, <2>4 DEF SearchOK, PlaceOK, AnswerOK, Held, Db, SearchPlaces, Busy
    <2>7. \A e : Bumping(e) => Bumping(e)'
      BY <1>f, <1>t, <2>0, ThreadKinds DEF Bumping, Db, SearchType
    <2>8. ProbeOK(p)' /\ SoleOK(p)'
      BY <1>f, <2>0, <2>1, <2>4, <2>5, <2>7 DEF SearchOK, ProbeOK, SoleOK, Probing, Db, Busy
    <2>9. ResultsOK' /\ KeysOf(indexes') \ KeysOf(indexes) = {} /\ counter <= counter'
      BY <1>f, <1>t, <2>0 DEF ResultsOK
    <2> QED BY <1>u, <2>0, <2>2, <2>5, <2>6, <2>8, <2>9, ProcStep DEF SearchOK
  <1>2. ASSUME WriteSidecar(p) PROVE SearchInv' /\ [Next]_vars
    <2> DEFINE d == Db(p)
    <2>0. /\ at[p] = "WriteSidecar" /\ at' = [at EXCEPT ![p] = "Bump"]
          /\ then' = [then EXCEPT ![p] = "UnlockWriter"]
          /\ sidecar' = [sidecar EXCEPT ![d] = loaded[p]]
          /\ UNCHANGED vars /\ UNCHANGED <<revision, legacy, counter, indexes, results>>
          /\ UNCHANGED <<round, call, snap, probed, loaded, answer>>
      BY <1>2 DEF WriteSidecar, Invalidate, Go, cacheVars
    <2>1. d \in Keys /\ loaded[p] <= revision[d] /\ Held(p)
      BY <1>f, <2>0 DEF SearchOK, PlaceOK, SoleOK, AnswerOK
    <2>2. /\ Others(p) /\ SearchType'
      BY <1>f, <1>t, <1>p, <1>u, <2>0, <2>1 DEF Others, SearchType, SearchPlaces, Busy
    <2>4. at'[p] = "Bump" /\ then'[p] = "UnlockWriter" /\ pc'[p] = pc[p] /\ key'[p] = key[p]
      BY <1>f, <1>t, <1>u, <2>0 DEF SearchType
    <2>5. SidecarByHolder(p)
      BY <1>f, <1>t, <2>0, <2>1 DEF SidecarByHolder, SearchType, SidecarsOK
    <2>6. PlaceOK(p)' /\ AnswerOK(p)'
      BY <1>f, <2>0, <2>1, <2>4 DEF SearchOK, PlaceOK, AnswerOK, Held, Db, SearchPlaces, Busy
    <2>8. ProbeOK(p)' /\ SoleOK(p)'
      BY <2>4 DEF ProbeOK, SoleOK, Probing, Busy
    <2>9. ResultsOK' /\ KeysOf(indexes') \ KeysOf(indexes) = {} /\ counter <= counter'
      BY <1>f, <1>t, <2>0 DEF ResultsOK
    <2> QED BY <1>u, <2>0, <2>2, <2>5, <2>6, <2>8, <2>9, ProcStep DEF SearchOK
  <1>3. ASSUME PromoteFails(p) PROVE SearchInv' /\ [Next]_vars
    <2> DEFINE d == Db(p)
    <2>0. /\ at[p] = "Promote" /\ at' = [at EXCEPT ![p] = "Leave"] /\ legacy[d] = probed[p]
          /\ snap' = [snap EXCEPT ![p] = 0] /\ probed' = [probed EXCEPT ![p] = 0]
          /\ sidecar' = [sidecar EXCEPT ![d] = probed[p]]
          /\ UNCHANGED vars /\ UNCHANGED <<revision, legacy, counter, indexes, results>>
          /\ UNCHANGED <<then, call, round, loaded, answer>>
      BY <1>3 DEF PromoteFails, Promotable, Unprobed, Go, cacheVars
    <2>1. d \in Keys /\ probed[p] <= revision[d] /\ Held(p)
      BY <1>f, <2>0 DEF SearchOK, ProbeOK, PlaceOK, Probing
    <2>2. /\ Others(p) /\ SearchType'
      BY <1>f, <1>t, <1>p, <1>u, <2>0, <2>1 DEF Others, SearchType, SearchPlaces
    <2>4. at'[p] = "Leave" /\ pc'[p] = pc[p] /\ key'[p] = key[p]
      BY <1>f, <1>t, <1>u, <2>0 DEF SearchType
    <2>5. SidecarByHolder(p)
      BY <1>f, <1>t, <2>0, <2>1 DEF SidecarByHolder, SearchType, SidecarsOK
    <2>6. PlaceOK(p)' /\ AnswerOK(p)'
      BY <1>f, <2>0, <2>1, <2>4 DEF SearchOK, PlaceOK, AnswerOK, Held, Db, SearchPlaces, Busy
    <2>8. ProbeOK(p)' /\ SoleOK(p)'
      BY <2>4 DEF ProbeOK, SoleOK, Probing, Busy
    <2>9. ResultsOK' /\ KeysOf(indexes') \ KeysOf(indexes) = {} /\ counter <= counter'
      BY <1>f, <1>t, <2>0 DEF ResultsOK
    <2> QED BY <1>u, <2>0, <2>2, <2>5, <2>6, <2>8, <2>9, ProcStep DEF SearchOK
  <1> QED BY <1>1, <1>2, <1>3

-----------------------------------------------------------------------------
(* Invalidations and mutations.                                            *)

\* retain keeps no index of the database that is invalidated.
LEMMA RetainKeeps ==
    ASSUME NEW c, NEW d, NEW all
    PROVE  /\ KeysOf(Retain(c, d, all)) \subseteq KeysOf(c)
           /\ \A k \in KeysOf(Retain(c, d, all)) :
                 k.db # d /\ Retain(c, d, all).values[k] = c.values[k]
  <1> DEFINE K == {k \in KeysOf(c) : all \/ InScope(d, k.db)}
  <1>1. Retain(c, d, all) = Drop(c, K)
    BY DEF Retain
  <1>2. \A k \in KeysOf(c) \ K : k.db # d
    BY DEF InScope
  <1> HIDE DEF K
  <1> QED BY <1>1, <1>2, DropKeeps

\* A search invalidates, before it promotes, writes or has written a sidecar.
LEMMA SearchInvalidates ==
    ASSUME SearchInv, NEW p \in Procs, Bump(p) \/ DropResults(p) \/ DropIndexes(p)
    PROVE  SearchInv' /\ [Next]_vars
  <1>f. /\ p \in Threads /\ SearchOK(p) /\ snap[p] \in Nat /\ counter \in Nat
    BY SearchFacts
  <1>t. SearchType /\ ResultsOK
    BY DEF SearchInv
  <1>0. /\ at[p] \in Busy /\ UNCHANGED vars
        /\ UNCHANGED <<revision, sidecar, legacy, round, call, snap, probed, loaded, answer>>
        /\ \/ at' = [at EXCEPT ![p] = "DropResults"] /\ UNCHANGED then
           \/ at' = [at EXCEPT ![p] = "DropIndexes"] /\ UNCHANGED then
           \/ at' = [at EXCEPT ![p] = then[p]] /\ then' = [then EXCEPT ![p] = "Idle"]
        /\ counter' = counter \/ counter' = counter + 1
    BY DEF Bump, DropResults, DropIndexes, Go, diskVars, Busy
  <1>1. [Next]_vars /\ \A q \in Procs : pc'[q] = pc[q] /\ key'[q] = key[q]
    BY <1>0 DEF vars
  <1>2. Others(p)
    BY <1>f, <1>t, <1>0, <1>1 DEF Others, SearchType
  <1>3. SearchType'
    BY <1>f, <1>t, <1>0 DEF SearchType, Places, SearchPlaces, Busy
  <1>4. \/ at'[p] \in Busy /\ then'[p] = then[p]
        \/ at'[p] = then[p]
    BY <1>f, <1>t, <1>0 DEF SearchType, Busy
  <1>5. \A d : Bumping(d) => Bumping(d)'
    BY <1>2, ThreadKinds DEF Others, Bumping, Db
  <1>6. then[p] \in {"Promote", "WriteSidecar", "UnlockWriter"}
    BY <1>f, <1>0 DEF SearchOK, PlaceOK
  <1>7. PlaceOK(p)' /\ AnswerOK(p)'
    BY <1>f, <1>0, <1>1, <1>4, <1>6 DEF SearchOK, PlaceOK, AnswerOK, Held, Db, SearchPlaces, Busy
  <1>8. ProbeOK(p)'
    BY <1>f, <1>0, <1>4, <1>5, <1>6 DEF SearchOK, ProbeOK, Probing, Db, Busy
  <1>9. SoleOK(p)'
    BY <1>f, <1>0, <1>4, <1>6 DEF SearchOK, SoleOK, Probing, Db, Busy
  <1>10. ResultsOK'
    BY <1>t, RetainKeeps DEF ResultsOK, Bump, DropResults, DropIndexes
  <1>11. KeysOf(indexes') \ KeysOf(indexes) = {}
    BY RetainKeeps DEF Bump, DropResults, DropIndexes
  <1>12. counter <= counter' /\ SidecarByHolder(p) /\ UNCHANGED revision
    BY <1>f, <1>0 DEF SidecarByHolder
  <1> QED BY <1>1, <1>2, <1>3, <1>7, <1>8, <1>9, <1>10, <1>11, <1>12, ProcStep DEF SearchOK

\* What is left to show of a step of one mutator: who makes what was probed
\* old has yet to count, and who has counted leaves no snapshot current.
LEMMA MutatorStep ==
    ASSUME SearchInv, NEW m \in Mutators, Others(m), UNCHANGED <<vars, sidecar>>,
           SearchType', MutatorOK(m)', ResultsOK', counter <= counter',
           KeysOf(indexes') \subseteq KeysOf(indexes),
           \A d \in Keys : revision[d] <= revision'[d]
                           /\ (revision'[d] # revision[d] => Bumping(d)'),
           \A d : Bumping(d) => Bumping(d)' \/ counter < counter',
           \A k \in KeysOf(indexes') : Invalidating(k.db) => Invalidating(k.db)'
    PROVE  SearchInv'
  <1>t. /\ SearchType /\ \A p \in Procs : p # m
    BY ThreadKinds DEF SearchInv
  <1>1. Inv'
    <2>1. [Next]_vars
      OBVIOUS
    <2> QED BY <2>1, InvStep DEF SearchInv
  <1>2. ASSUME NEW n \in Mutators PROVE MutatorOK(n)'
    <2>1. n # m => at'[n] = at[n] /\ then'[n] = then[n] /\ call'[n] = call[n]
      BY ThreadKinds DEF Others
    <2> QED BY <2>1 DEF SearchInv, MutatorOK, Db
  <1>3. ASSUME NEW q \in Procs PROVE SearchOK(q)'
    <2>1. /\ at'[q] = at[q] /\ then'[q] = then[q] /\ call'[q] = call[q] /\ round'[q] = round[q]
          /\ snap'[q] = snap[q] /\ probed'[q] = probed[q] /\ loaded'[q] = loaded[q]
          /\ answer'[q] = answer[q] /\ pc'[q] = pc[q] /\ key'[q] = key[q]
          /\ UNCHANGED sidecar
      BY <1>t, ThreadKinds DEF Others, vars
    <2>2. /\ SearchOK(q) /\ snap[q] \in Nat /\ counter \in Nat /\ counter' \in Nat
          /\ probed[q] \in Nat /\ loaded[q] \in Nat /\ call[q].since \in Nat
          /\ at[q] # "Idle" => Db(q) \in Keys
      BY SearchFacts DEF SearchType
    <2>3. at[q] # "Idle" => /\ revision[Db(q)] \in Nat /\ revision'[Db(q)] \in Nat
                            /\ revision[Db(q)] <= revision'[Db(q)]
      BY <1>t, <2>2 DEF SearchType
    <2>4. PlaceOK(q)' /\ SoleOK(q)' /\ AnswerOK(q)'
      BY <2>1, <2>2, <2>3 DEF SearchOK, PlaceOK, SoleOK, AnswerOK, Held, Probing, Db
    <2>5. Probing(q) => at[q] # "Idle"
      BY DEF Probing, Busy
    <2>6. ProbeOK(q)'
      BY <2>1, <2>2, <2>3, <2>5 DEF SearchOK, ProbeOK, Probing, Db
    <2> QED BY <2>4, <2>6 DEF SearchOK
  <1>4. IndexKeysOK'
    BY DEF SearchInv, IndexKeysOK
  <1>5. SidecarsOK'
    <2>1. \A d \in Keys : sidecar[d] \in Nat /\ revision[d] \in Nat /\ revision'[d] \in Nat
      BY <1>t DEF SearchType
    <2> QED BY <2>1 DEF SearchInv, SidecarsOK
  <1>6. \A d : Bumping(d)' => Invalidating(d)'
    BY DEF Bumping, Invalidating
  <1>7. NoStaleIndex'
    BY <1>6 DEF SearchInv, NoStaleIndex, IndexKeysOK
  <1> QED BY <1>1, <1>2, <1>3, <1>4, <1>5, <1>7 DEF SearchInv

\* A mutator is at a, and goes to n after an invalidation of c.db.
At(m, a, n, c) ==
    /\ at' = [at EXCEPT ![m] = a] /\ then' = [then EXCEPT ![m] = n] /\ call' = [call EXCEPT ![m] = c]
    /\ UNCHANGED <<vars, sidecar, legacy, round, snap, probed, loaded, answer>>

\* It has moved and nobody else has.
Arrived(m, a, n, c) ==
    /\ at'[m] = a /\ then'[m] = n /\ call'[m] = c /\ Others(m)
    /\ \A d : Bumping(d) => Bumping(d)' \/ (Db(m) = d /\ at[m] = "Bump")
    /\ \A d : Invalidating(d) => Invalidating(d)' \/ (Db(m) = d /\ at[m] \in Busy)
    /\ a = "Bump" => Bumping(c.db)'
    /\ a \in Busy => Invalidating(c.db)'
    /\ (revision' \in [Keys -> Nat] /\ counter' \in Nat => SearchType')

\* Where a mutator is, and who it leaves alone.
LEMMA MutatorMoves ==
    ASSUME SearchInv, NEW m \in Mutators, NEW a \in MutatorPlaces, NEW n \in Places,
           NEW c \in Calls, At(m, a, n, c)
    PROVE  Arrived(m, a, n, c)
  <1>t. SearchType /\ m \in Threads /\ \A p \in Procs : p # m
    BY ThreadKinds DEF SearchInv
  <1>1. at'[m] = a /\ then'[m] = n /\ call'[m] = c
    BY <1>t DEF At, SearchType
  <1>2. Others(m)
    BY <1>t DEF At, SearchType, Others, vars
  <1>3. \A k \in Mutators \ {m} : at'[k] = at[k] /\ call'[k] = call[k]
    BY <1>2, ThreadKinds DEF Others
  <1>4. \A d : Bumping(d) => Bumping(d)' \/ (Db(m) = d /\ at[m] = "Bump")
    BY <1>3 DEF Bumping, Db
  <1>5. \A d : Invalidating(d) => Invalidating(d)' \/ (Db(m) = d /\ at[m] \in Busy)
    BY <1>3 DEF Invalidating, Db, Busy
  <1>6. /\ a = "Bump" => Bumping(c.db)'
        /\ a \in Busy => Invalidating(c.db)'
    BY <1>1 DEF Bumping, Invalidating, Db, Busy
  <1>7. revision' \in [Keys -> Nat] /\ counter' \in Nat => SearchType'
    <2>1. a \in Places
      BY DEF Places
    <2> QED BY <1>t, <2>1 DEF At, SearchType
  <1> QED BY <1>1, <1>2, <1>4, <1>5, <1>6, <1>7 DEF Arrived

\* Every step of a mutator: a commit is counted before its mutator rests, and
\* the indexes it made old are dropped after that.
LEMMA MutatorKept ==
    ASSUME SearchInv, NEW m \in Mutators,
           \/ \E d \in Keys : BeginMutation(m, d)
           \/ EndMutation(m) \/ ClearResults(m) \/ ClearIndexes(m)
           \/ Bump(m) \/ DropResults(m) \/ DropIndexes(m)
    PROVE  SearchInv' /\ [Next]_vars
  <1>t. /\ SearchType /\ ResultsOK /\ MutatorOK(m) /\ m \in Threads
        /\ revision \in [Keys -> Nat] /\ counter \in Nat
        /\ then[m] \in Places /\ call[m] \in Calls /\ "Idle" \in Places
    BY ThreadKinds DEF SearchInv, SearchType, Places, MutatorPlaces
  <1>s. /\ then = [then EXCEPT ![m] = then[m]] /\ call = [call EXCEPT ![m] = call[m]]
    BY <1>t DEF SearchType
  <1>p. {"Idle", "Mutating", "Clearing"} \cup Busy = MutatorPlaces
    BY DEF MutatorPlaces
  <1>k. ASSUME NEW a \in MutatorPlaces, NEW n \in Places, NEW c \in Calls, At(m, a, n, c),
               counter <= counter', counter' \in Nat, revision' \in [Keys -> Nat],
               a \in Busy => n = "Idle", a = "Mutating" \/ a \in Busy => c.db \in Keys,
               ResultsOK', KeysOf(indexes') \subseteq KeysOf(indexes),
               \A d \in Keys : revision[d] <= revision'[d]
                               /\ (revision'[d] # revision[d] => a = "Bump" /\ c.db = d),
               at[m] = "Bump" => counter < counter',
               \A k \in KeysOf(indexes') : at[m] \in Busy /\ Db(m) = k.db => a \in Busy /\ c.db = k.db
        PROVE  SearchInv' /\ [Next]_vars
    <2>1. Arrived(m, a, n, c)
      BY <1>k, MutatorMoves
    <2>2. /\ at'[m] = a /\ then'[m] = n /\ call'[m] = c /\ Others(m)
          /\ \A d : Bumping(d) => Bumping(d)' \/ (Db(m) = d /\ at[m] = "Bump")
          /\ \A d : Invalidating(d) => Invalidating(d)' \/ (Db(m) = d /\ at[m] \in Busy)
          /\ a = "Bump" => Bumping(c.db)'
          /\ a \in Busy => Invalidating(c.db)'
          /\ SearchType'
      BY <1>k, <2>1 DEF Arrived
    <2>3. MutatorOK(m)'
      BY <1>k, <2>2 DEF MutatorOK, Db
    <2>4. /\ \A d : Bumping(d) => Bumping(d)' \/ counter < counter'
          /\ \A d \in Keys : revision[d] <= revision'[d]
                             /\ (revision'[d] # revision[d] => Bumping(d)')
      BY <1>k, <2>2
    <2>5. \A k \in KeysOf(indexes') : Invalidating(k.db) => Invalidating(k.db)'
      BY <1>k, <2>2
    <2>6. UNCHANGED <<vars, sidecar>>
      BY <1>k DEF At
    <2> QED BY <1>k, <2>2, <2>3, <2>4, <2>5, <2>6, MutatorStep
  <1>i. /\ \A d \in Keys : revision[d] <= revision[d]
        /\ counter <= counter /\ counter + 1 \in Nat /\ counter < counter + 1
        /\ UNCHANGED results => ResultsOK'
    BY <1>t DEF ResultsOK
  <1>1. ASSUME NEW d \in Keys, BeginMutation(m, d) PROVE SearchInv' /\ [Next]_vars
    <2> DEFINE c == [NoCall EXCEPT !.db = d]
    <2>0. /\ At(m, "Mutating", then[m], c) /\ at[m] = "Idle"
          /\ UNCHANGED <<revision, counter, indexes, results>>
      BY <1>1, <1>s DEF BeginMutation, At, Go, Steady, cacheVars
    <2>1. c \in Calls /\ c.db = d
      BY DEF NoCall, Calls
    <2> HIDE DEF c
    <2> QED BY <1>t, <1>i, <1>k, <1>p, <2>0, <2>1 DEF Busy
  <1>2. ASSUME EndMutation(m) PROVE SearchInv' /\ [Next]_vars
    <2>0. /\ at[m] = "Mutating" /\ Db(m) \in Keys /\ revision[Db(m)] \in Nat
          /\ UNCHANGED <<counter, indexes, results>>
      BY <1>2, <1>t DEF EndMutation, cacheVars, MutatorOK
    <2>1. CASE revision' = [revision EXCEPT ![Db(m)] = @ + 1] /\ Invalidate(m, "Idle")
      <3>1. At(m, "Bump", "Idle", call[m])
        BY <1>2, <1>s, <2>1 DEF EndMutation, At, Invalidate, Go, Steady
      <3>2. /\ revision' \in [Keys -> Nat]
            /\ \A d \in Keys : revision[d] <= revision'[d] /\ (revision'[d] # revision[d] => d = call[m].db)
        BY <1>t, <2>0, <2>1 DEF Db
      <3> QED BY <1>t, <1>i, <1>k, <1>p, <2>0, <3>1, <3>2 DEF Busy, Db
    <2>2. CASE UNCHANGED revision /\ Invalidate(m, "Idle")
      <3>1. At(m, "Bump", "Idle", call[m])
        BY <1>2, <1>s, <2>2 DEF EndMutation, At, Invalidate, Go, Steady
      <3> QED BY <1>t, <1>i, <1>k, <1>p, <2>0, <2>2, <3>1 DEF Busy, Db
    <2>3. CASE UNCHANGED <<revision, then>> /\ Go(m, "Idle")
      <3>1. At(m, "Idle", then[m], call[m])
        BY <1>2, <1>s, <2>3 DEF EndMutation, At, Go, Steady
      <3> QED BY <1>t, <1>i, <1>k, <1>p, <2>0, <2>3, <3>1 DEF Busy, Db
    <2> QED BY <1>2, <2>1, <2>2, <2>3 DEF EndMutation
  <1>3. ASSUME ClearResults(m) PROVE SearchInv' /\ [Next]_vars
    <2>0. /\ At(m, "Clearing", then[m], call[m]) /\ at[m] = "Idle" /\ results' = NoCache
          /\ UNCHANGED <<revision, counter, indexes>>
      BY <1>3, <1>s DEF ClearResults, At, Go, Steady, diskVars
    <2>1. ResultsOK'
      BY <2>0 DEF ResultsOK, NoCache, KeysOf
    <2> QED BY <1>t, <1>i, <1>k, <1>p, <2>0, <2>1 DEF Busy
  <1>4. ASSUME ClearIndexes(m) PROVE SearchInv' /\ [Next]_vars
    <2>0. /\ At(m, "Idle", then[m], call[m]) /\ at[m] = "Clearing" /\ indexes' = NoCache
          /\ UNCHANGED <<revision, counter, results>>
      BY <1>4, <1>s DEF ClearIndexes, At, Go, Steady, diskVars
    <2>1. KeysOf(indexes') \subseteq KeysOf(indexes)
      BY <2>0 DEF NoCache, KeysOf
    <2> QED BY <1>t, <1>i, <1>k, <1>p, <2>0, <2>1 DEF Busy
  <1>5. ASSUME Bump(m) PROVE SearchInv' /\ [Next]_vars
    <2>0. /\ At(m, "DropResults", then[m], call[m]) /\ at[m] = "Bump" /\ counter' = counter + 1
          /\ UNCHANGED <<revision, results, indexes>>
      BY <1>5, <1>s DEF Bump, At, Go, diskVars
    <2>1. then[m] = "Idle" /\ call[m].db \in Keys
      BY <1>t, <2>0 DEF MutatorOK, Busy, Db
    <2> QED BY <1>t, <1>i, <1>k, <1>p, <2>0, <2>1 DEF Busy, Db
  <1>6. ASSUME DropResults(m) PROVE SearchInv' /\ [Next]_vars
    <2>0. /\ At(m, "DropIndexes", then[m], call[m]) /\ at[m] = "DropResults"
          /\ UNCHANGED <<revision, counter, indexes>>
          /\ \E all \in BOOLEAN : results' = Retain(results, Db(m), all)
      BY <1>6, <1>s DEF DropResults, At, Go, diskVars
    <2>1. then[m] = "Idle" /\ call[m].db \in Keys
      BY <1>t, <2>0 DEF MutatorOK, Busy, Db
    <2>2. ResultsOK'
      BY <1>t, <2>0, RetainKeeps DEF ResultsOK
    <2> QED BY <1>t, <1>i, <1>k, <1>p, <2>0, <2>1, <2>2 DEF Busy, Db
  <1>7. ASSUME DropIndexes(m) PROVE SearchInv' /\ [Next]_vars
    <2>0. /\ at[m] = "DropIndexes" /\ UNCHANGED <<revision, counter, results>>
          /\ \E all \in BOOLEAN : indexes' = Retain(indexes, Db(m), all)
      BY <1>7 DEF DropIndexes, diskVars
    <2>1. then[m] = "Idle"
      BY <1>t, <2>0 DEF MutatorOK, Busy
    <2>2. At(m, "Idle", "Idle", call[m])
      BY <1>7, <1>s, <2>1 DEF DropIndexes, At, Go, diskVars
    <2>3. /\ KeysOf(indexes') \subseteq KeysOf(indexes)
          /\ \A k \in KeysOf(indexes') : k.db # Db(m)
      BY <2>0, RetainKeeps
    <2> QED BY <1>t, <1>i, <1>k, <1>p, <2>0, <2>2, <2>3 DEF Busy
  <1> QED BY <1>1, <1>2, <1>3, <1>4, <1>5, <1>6, <1>7

-----------------------------------------------------------------------------
(* The results.                                                            *)

\* The application starts with empty caches and any sidecars of the databases
\* it finds.
LEMMA SearchInitInv == SearchInit => SearchInv
  <1> SUFFICES ASSUME SearchInit PROVE SearchInv
    OBVIOUS
  <1>1. Inv
    BY InitInv DEF SearchInit
  <1>2. NoCall \in Calls /\ "Idle" \in Places /\ "Fast" \in Rounds /\ NoCall.since = 0
    BY DEF NoCall, Calls, Places, SearchPlaces, Rounds
  <1>3. SearchType
    BY <1>2 DEF SearchInit, SearchType
  <1>4. \A m \in Mutators : MutatorOK(m)
    BY ThreadKinds DEF SearchInit, MutatorOK, MutatorPlaces, Busy
  <1>5. ASSUME NEW p \in Procs PROVE SearchOK(p)
    <2>1. /\ at[p] = "Idle" /\ then[p] = "Idle" /\ round[p] = "Fast" /\ loaded[p] = 0
          /\ answer[p] = None /\ pc[p] = "Idle"
      BY ThreadKinds DEF SearchInit, Init
    <2> QED BY <2>1 DEF SearchOK, PlaceOK, ProbeOK, SoleOK, AnswerOK, Probing, SearchPlaces, Busy
  <1>6. KeysOf(indexes) = {} /\ KeysOf(results) = {}
    BY DEF SearchInit, NoCache, KeysOf
  <1>7. SidecarsOK
    BY DEF SearchInit, SidecarsOK
  <1> QED BY <1>1, <1>3, <1>4, <1>5, <1>6, <1>7
          DEF SearchInv, IndexKeysOK, ResultsOK, NoStaleIndex

\* Every step of a search or a mutator keeps the invariant, and is a step of
\* the generation locks or none of theirs.
LEMMA SearchStep == SearchInv /\ [SearchNext]_searchVars => SearchInv' /\ [Next]_vars
  <1> SUFFICES ASSUME SearchInv, [SearchNext]_searchVars PROVE SearchInv' /\ [Next]_vars
    OBVIOUS
  <1>1. ASSUME NEW p \in Procs,
               \/ \E d \in Keys, q \in Queries, kind \in Kinds : StartCall(p, d, q, kind)
               \/ Collide(p) \/ Snapshot(p) \/ Probe(p) \/ Open(p)
               \/ \E l \in Locks : LeaseGeneration(p, l)
               \/ LockGeneration(p) \/ Promote(p) \/ PromoteFails(p) \/ LockWriter(p)
               \/ WriteSidecar(p) \/ UnlockWriter(p) \/ CacheLoaded(p) \/ DropGuard(p)
               \/ Loaded(p) \/ Transact(p) \/ InsertResult(p) \/ Scan(p) \/ Finish(p)
               \/ Fail(p)
        PROVE  SearchInv' /\ [Next]_vars
    BY <1>1, CallKept, LoaderKept, SidecarKept
  <1>2. ASSUME NEW m \in Mutators,
               \/ \E d \in Keys : BeginMutation(m, d)
               \/ EndMutation(m) \/ ClearResults(m) \/ ClearIndexes(m)
        PROVE  SearchInv' /\ [Next]_vars
    BY <1>2, MutatorKept
  <1>3. ASSUME NEW p \in Threads, Bump(p) \/ DropResults(p) \/ DropIndexes(p)
        PROVE  SearchInv' /\ [Next]_vars
    BY <1>3, SearchInvalidates, MutatorKept DEF Threads
  <1>4. CASE UNCHANGED searchVars
    <2>1. UNCHANGED vars /\ UNCHANGED diskVars /\ UNCHANGED cacheVars /\ UNCHANGED threadVars
      BY <1>4 DEF searchVars
    <2>2. Inv' /\ [Next]_vars
      BY <2>1, InvStep DEF SearchInv
    <2>3. SearchType' /\ (\A m \in Mutators : MutatorOK(m)')
      BY <2>1 DEF SearchInv, SearchType, MutatorOK, Db, diskVars, cacheVars, threadVars
    <2>4. \A p \in Procs : SearchOK(p)'
      BY <2>1 DEF SearchInv, SearchOK, PlaceOK, ProbeOK, SoleOK, AnswerOK, Held, Probing, Bumping, Db,
                  vars, diskVars, cacheVars, threadVars
    <2>5. IndexKeysOK' /\ ResultsOK' /\ SidecarsOK' /\ NoStaleIndex'
      BY <2>1 DEF SearchInv, IndexKeysOK, ResultsOK, SidecarsOK, NoStaleIndex, Invalidating, Db,
                  diskVars, cacheVars, threadVars
    <2> QED BY <2>2, <2>3, <2>4, <2>5 DEF SearchInv
  <1> QED BY <1>1, <1>2, <1>3, <1>4 DEF SearchNext

\* The inductive invariant of the search caches holds throughout.
THEOREM SearchInvariance == SearchSpec => []SearchInv
  BY SearchInitInv, SearchStep, PTL DEF SearchSpec

\* The loaders use the generation locks as the leases of keyed_locks.rs may be
\* used, so whatever is proved of the leases holds of the search caches.
THEOREM SearchRunsTheLocks == SearchSpec => Spec
  <1>1. SearchInit => Init
    BY DEF SearchInit
  <1> QED BY <1>1, SearchInitInv, SearchStep, PTL DEF SearchSpec, Spec

\* Once a mutation has invalidated, no index of an older revision is cached:
\* insert_index compares the counter with the snapshot taken before the probe.
THEOREM StaleIndexesAreDropped == SearchSpec => []NoStaleIndex
  <1>1. SearchInv => NoStaleIndex
    BY DEF SearchInv
  <1> QED BY <1>1, SearchInvariance, PTL

\* Under the generation lock nobody writes a sidecar that is already there.
THEOREM GenerationsAreNeeded == SearchSpec => []NoRedundantGeneration
  <1>1. SearchInv => NoRedundantGeneration
    <2> SUFFICES ASSUME SearchInv, NEW p \in Procs, at[p] = "WriteSidecar"
                 PROVE  sidecar[Db(p)] # loaded[p]
      BY DEF NoRedundantGeneration
    <2>1. SearchOK(p) /\ loaded[p] \in Nat /\ sidecar[Db(p)] \in Nat
      BY SearchFacts
    <2> QED BY <2>1 DEF SearchOK, SoleOK
  <1> QED BY <1>1, SearchInvariance, PTL

\* What a search answers was true of the database at one moment of the call.
THEOREM AnswersAreCurrent == SearchSpec => []AnswerIsCurrent
  <1>1. SearchInv => AnswerIsCurrent
    <2> SUFFICES ASSUME SearchInv, NEW p \in Procs, answer[p] # None
                 PROVE  answer[p].index = answer[p].rows /\ answer[p].index >= call[p].since
      BY DEF AnswerIsCurrent
    <2>1. SearchOK(p) /\ loaded[p] \in Nat /\ call[p].since \in Nat
      BY SearchFacts
    <2> QED BY <2>1 DEF SearchOK, AnswerOK, Answer
  <1> QED BY <1>1, SearchInvariance, PTL

\* So the generation locks exclude one another, and keep an entry only for a
\* database with an outstanding lease.
THEOREM SearchesAreSerialised == SearchSpec => []EntriesLeased /\ IsKeyLock
  BY SearchRunsTheLocks, EntriesAreLeased, LeasesAreKeyLocks, PTL
=============================================================================
