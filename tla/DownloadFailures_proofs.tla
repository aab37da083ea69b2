----------------------- MODULE DownloadFailures_proofs -----------------------
(***************************************************************************)
(* Every failed download is told once, for any number of documents,        *)
(* progress ids and native threads, and any capacity of the store.         *)
(***************************************************************************)
EXTENDS DownloadFailures, TLAPS

-----------------------------------------------------------------------------
(* The inductive invariant.                                                *)

JobOutcomes == {"Succeeded", "Failed", "Cancelled", "Conflict"}
Works == [at : {"Idle", "Claimed", "Running", "Reported"}, id : Ids \cup {None}, document : Nat,
          cancelled : BOOLEAN, gen : Nat, outcome : JobOutcomes \cup {None}]
Replies == [outcome : JobOutcomes, gen : Nat]
Jobs == [at : {"None", "Preparing", "Invoked", "Clearing"}, cancelRequested : BOOLEAN,
         ticket : BOOLEAN, failures : SUBSET Gens, reply : Replies \cup {None}]
Told == [id : Ids, item : Item, cleared : {FALSE}]
Pages == {"Loading", "Listening", "Answered", "Ready", "Blind", "Deaf"}

FailuresType ==
    /\ entries \in [Ids -> Item \cup {None}] /\ DOMAIN expired = Ids
    /\ clock \in Nat
    /\ out \in [Threads -> Told \cup {None}]
    /\ lease \in [Threads -> Lease \cup {None}]
    /\ work \in [Threads -> Works]
    /\ document \in Nat /\ page \in Pages
    /\ snapshot \subseteq Ids \X Gens
    /\ wire \in Seq(Told)
    /\ job \in [Ids -> Jobs]
    /\ owned \subseteq Gens /\ announced \subseteq Gens /\ heard \subseteq Gens
    /\ told \in [Gens -> Nat]

Failed(x) == x # None /\ x.state = "Failed"

\* Where the failure of generation g of i may be found.
InStore(i, g) == Failed(entries[i]) /\ entries[i].gen = g
IsFailure(e, i, g) == e # None /\ e.id = i /\ Failed(e.item) /\ e.item.gen = g
InOut(i, g) == \E t \in Threads : IsFailure(out[t], i, g)
Carries(s, i, g) == \E n \in 1 .. Len(s) : IsFailure(s[n], i, g)
OnWire(i, g) == Carries(wire, i, g)
Trace(i, g) ==
    InStore(i, g) \/ InOut(i, g) \/ OnWire(i, g) \/ <<i, g>> \in snapshot \/ g \in job[i].failures

\* The generation has failed, as far as anyone can see.
Seen(g) == g \in heard \/ \E i \in Ids : Trace(i, g)

\* This document has not told of g, nor will an observer.
Silent(g) == g \notin announced /\ g \in Gens /\ told[g] = 0

\* A workflow: its generation, and what the document that asked knows of it.
WorkOK(t) ==
    LET w == work[t] IN
    /\ w.at # "Idle" => w.id \in Ids /\ w.document <= document
    /\ w.at = "Idle" => w.gen = 0 /\ w.id = None
    /\ w.at = "Claimed" => w.gen = 0
    /\ w.at = "Running" => w.gen \in Gens /\ lease[t] = [id |-> w.id, gen |-> w.gen]
    /\ w.gen <= clock /\ w.gen \notin owned
    /\ w.at # "Idle" /\ w.document = document =>
          /\ job[w.id].at = "Invoked" /\ job[w.id].reply = None
          /\ w.gen # 0 =>
                /\ Silent(w.gen)
                /\ \A i \in Ids : Trace(i, w.gen) => i = w.id
                /\ Seen(w.gen) => w.at = "Reported" /\ w.outcome = "Failed"
    /\ w.at = "Reported" => w.outcome \in JobOutcomes

\* A job: what it has buffered, and the generation its rejection will tell of.
JobOK(i) ==
    LET j == job[i] IN
    /\ j.at # "None" => Started
    /\ j.at \in {"None", "Preparing"} => j.reply = None /\ j.failures = {} /\ ~j.ticket
    /\ j.at = "Invoked" => j.ticket
    /\ j.at = "Clearing" => j.reply # None /\ (~j.ticket => j.failures = {} /\ j.reply.gen = 0)
    /\ j.reply # None /\ j.reply.gen # 0 =>
          /\ Silent(j.reply.gen) /\ j.reply.gen <= clock
          /\ j.reply.gen \in owned <=> j.at = "Clearing"
          /\ \A k \in Ids : Trace(k, j.reply.gen) => k = i
          /\ Seen(j.reply.gen) => j.reply.outcome = "Failed"

\* No generation is pending twice, and no job has two workflows.
GensApart == \A t, u \in Threads : t # u /\ work[t].gen # 0 => work[t].gen # work[u].gen
IdsApart ==
    \A t, u \in Threads : /\ t # u /\ work[t].at # "Idle" /\ work[u].at # "Idle"
                          /\ work[t].document = document /\ work[u].document = document
                          => work[t].id # work[u].id
Answered ==
    \A i \in Ids, t \in Threads :
       job[i].reply # None /\ job[i].reply.gen # 0 => work[t].gen # job[i].reply.gen
RepliesApart ==
    \A i, k \in Ids : /\ i # k /\ job[i].reply # None /\ job[k].reply # None
                      /\ job[i].reply.gen # 0
                      => job[i].reply.gen # job[k].reply.gen

Apart == GensApart /\ IdsApart /\ Answered /\ RepliesApart

\* A rejection that is still to be settled will tell of g.
Rejecting(g) == \E i \in Ids : job[i].at = "Clearing" /\ job[i].reply # None /\ job[i].reply.gen = g

\* What has been told has one receipt, and what was heard is told or waits.
ReceiptsOK ==
    \A g \in Gens :
       /\ told[g] # 0 => told[g] = 1 /\ g \in announced \cup owned
       /\ g \in announced => told[g] = 1 /\ g \notin owned
       /\ g \in owned => told[g] = 1 \/ Rejecting(g) \/ ~Seen(g)
       /\ g \in heard => g \in announced \cup owned \/ \E i \in Ids : g \in job[i].failures
       /\ g \in announced \cup owned \/ Seen(g) => g <= clock

\* What a started document finds in the store has reached it, or will.
StoredOK ==
    /\ page = "Ready" => snapshot = {}
    /\ page \in {"Answered", "Ready"} =>
          \A i \in Fresh, g \in Gens : InStore(i, g) =>
             g \in heard \/ <<i, g>> \in snapshot \/ InOut(i, g) \/ OnWire(i, g)

FailuresInv ==
    /\ FailuresType
    /\ \A t \in Threads : WorkOK(t)
    /\ \A i \in Ids : JobOK(i)
    /\ Apart /\ ReceiptsOK /\ StoredOK

-----------------------------------------------------------------------------
(* Events and entries.                                                     *)

\* The first event, or a later one.
LEMMA CarriesTail ==
    ASSUME NEW s \in Seq(Told), s # <<>>, NEW i, NEW g
    PROVE  Carries(s, i, g) <=> IsFailure(Head(s), i, g) \/ Carries(Tail(s), i, g)
  <1>1. /\ Len(s) \in Nat /\ Len(s) >= 1 /\ Head(s) = s[1] /\ Len(Tail(s)) = Len(s) - 1
        /\ \A n \in 1 .. Len(s) - 1 : Tail(s)[n] = s[n + 1]
    OBVIOUS
  <1>2. ASSUME NEW n \in 1 .. Len(s), IsFailure(s[n], i, g)
        PROVE  IsFailure(Head(s), i, g) \/ Carries(Tail(s), i, g)
    <2>1. CASE n = 1
      BY <1>1, <1>2, <2>1
    <2>2. CASE n # 1
      <3>1. n - 1 \in 1 .. Len(Tail(s)) /\ Tail(s)[n - 1] = s[n]
        BY <1>1, <2>2
      <3> QED BY <1>2, <3>1 DEF Carries
    <2> QED BY <2>1, <2>2
  <1>3. ASSUME NEW n \in 1 .. Len(Tail(s)), IsFailure(Tail(s)[n], i, g)
        PROVE  Carries(s, i, g)
    <2>1. n + 1 \in 1 .. Len(s) /\ Tail(s)[n] = s[n + 1]
      BY <1>1
    <2> QED BY <1>3, <2>1 DEF Carries
  <1>4. IsFailure(Head(s), i, g) => Carries(s, i, g)
    BY <1>1 DEF Carries
  <1> QED BY <1>2, <1>3, <1>4 DEF Carries

\* The last event, or an earlier one.
LEMMA CarriesAppend ==
    ASSUME NEW s \in Seq(Told), NEW e \in Told, NEW i, NEW g
    PROVE  Carries(Append(s, e), i, g) <=> Carries(s, i, g) \/ IsFailure(e, i, g)
  <1>1. /\ Len(s) \in Nat /\ Len(Append(s, e)) = Len(s) + 1 /\ Append(s, e)[Len(s) + 1] = e
        /\ \A n \in 1 .. Len(s) : Append(s, e)[n] = s[n]
    OBVIOUS
  <1>2. ASSUME NEW n \in 1 .. Len(Append(s, e)), IsFailure(Append(s, e)[n], i, g)
        PROVE  Carries(s, i, g) \/ IsFailure(e, i, g)
    <2>1. n \in 1 .. Len(s) \/ n = Len(s) + 1
      BY <1>1
    <2> QED BY <1>1, <1>2, <2>1 DEF Carries
  <1>3. ASSUME NEW n \in 1 .. Len(s), IsFailure(s[n], i, g)
        PROVE  Carries(Append(s, e), i, g)
    <2>1. n \in 1 .. Len(Append(s, e)) /\ Append(s, e)[n] = s[n]
      BY <1>1
    <2> QED BY <1>3, <2>1 DEF Carries
  <1>4. IsFailure(e, i, g) => Carries(Append(s, e), i, g)
    <2>1. Len(s) + 1 \in 1 .. Len(Append(s, e))
      BY <1>1
    <2> QED BY <1>1, <2>1 DEF Carries
  <1> QED BY <1>2, <1>3, <1>4 DEF Carries

\* The store keeps failures at most, and revives no expired one.
StoreCalm ==
    \A i \in Ids : Failed(entries'[i]) => entries'[i] = entries[i] /\ (i \in Fresh' => i \in Fresh)

\* What a write leaves of the other entries.
LEMMA BecomesKeeps ==
    ASSUME FailuresType, NEW i, NEW new \in Item \cup {None}, NEW keep, Becomes(i, new, keep)
    PROVE  /\ entries' \in [Ids -> Item \cup {None}] /\ DOMAIN expired' = Ids
           /\ \A j \in Ids : IF j = i THEN entries'[j] = new
                             ELSE entries'[j] = None \/ (entries'[j] = entries[j] /\ j \in Fresh)
  BY DEF FailuresType, Becomes

\* A write of anything but a failure.
LEMMA BecomesCalm ==
    ASSUME FailuresType, NEW i, NEW new \in Item \cup {None}, NEW keep, Becomes(i, new, keep),
           ~Failed(new)
    PROVE  entries' \in [Ids -> Item \cup {None}] /\ DOMAIN expired' = Ids /\ StoreCalm
  BY BecomesKeeps DEF StoreCalm, Failed

-----------------------------------------------------------------------------
(* Steps that show no new failure and tell of none.                        *)

NoNews == \A i \in Ids, g \in Gens : Trace(i, g)' => Trace(i, g)

\* The only new failure is that of g.
NewsOf(g) == \A i \in Ids, h \in Gens \ {g} : Trace(i, h)' => Trace(i, h)

SameWork(t) ==
    /\ work'[t].at = work[t].at /\ work'[t].id = work[t].id /\ work'[t].document = work[t].document
    /\ work'[t].gen = work[t].gen /\ work'[t].outcome = work[t].outcome
    /\ work[t].at = "Running" => lease'[t] = lease[t]

SameJob(i) ==
    /\ job'[i].at = job[i].at /\ job'[i].ticket = job[i].ticket
    /\ job'[i].failures = job[i].failures /\ job'[i].reply = job[i].reply

\* A workflow that does not move.
LEMMA WorkKept ==
    ASSUME FailuresInv, NEW t \in Threads, NEW n, NewsOf(n), work[t].gen # 0 => work[t].gen # n,
           SameWork(t),
           UNCHANGED <<document, owned, announced, told, heard>>, clock <= clock', clock' \in Nat,
           work[t].at # "Idle" /\ work[t].document = document => SameJob(work[t].id)
    PROVE  WorkOK(t)'
  <1>1. WorkOK(t) /\ work[t] \in Works /\ clock \in Nat
    BY DEF FailuresInv, FailuresType
  <1>2. work[t].gen \in Nat /\ \A g \in Gens \ {n} : Seen(g)' => Seen(g)
    BY <1>1 DEF Works, NewsOf, Seen
  <1>3. \A g : Silent(g) => Silent(g)' /\ g \in Gens
    BY DEF Silent
  <1> QED BY <1>1, <1>2, <1>3 DEF WorkOK, SameWork, SameJob, NewsOf

\* A job that does not move.
LEMMA JobKept ==
    ASSUME FailuresInv, NEW i \in Ids, NEW n, NewsOf(n), SameJob(i),
           job[i].reply # None /\ job[i].reply.gen # 0 => job[i].reply.gen # n,
           UNCHANGED <<document, owned, announced, told, heard>>, clock <= clock', clock' \in Nat,
           Started => Started'
    PROVE  JobOK(i)'
  <1>1. JobOK(i) /\ job[i] \in Jobs /\ clock \in Nat
    BY DEF FailuresInv, FailuresType
  <1>2. /\ job[i].reply # None => job[i].reply.gen \in Nat
        /\ \A g \in Gens \ {n} : Seen(g)' => Seen(g)
    BY <1>1 DEF Jobs, Replies, NewsOf, Seen
  <1>3. \A g : Silent(g) => Silent(g)' /\ g \in Gens
    BY DEF Silent
  <1> QED BY <1>1, <1>2, <1>3 DEF JobOK, SameJob, NewsOf

\* Jobs go on buffering and rejecting.
JobsGoOn ==
    \A i \in Ids : /\ job'[i].failures = job[i].failures
                   /\ job[i].at = "Clearing" => job'[i].at = "Clearing" /\ job'[i].reply = job[i].reply

\* Receipts stay what they are.
LEMMA ReceiptsKept ==
    ASSUME FailuresInv, NEW n, NewsOf(n), n \notin owned, n <= clock, JobsGoOn,
           UNCHANGED <<owned, announced, told, heard>>, n \in Nat, clock <= clock', clock' \in Nat
    PROVE  ReceiptsOK'
  <1>1. ReceiptsOK /\ clock \in Nat
    BY DEF FailuresInv, FailuresType
  <1>2. \A g \in Gens : (Seen(g)' => Seen(g) \/ g = n) /\ (Rejecting(g) => Rejecting(g)') /\ g \in Nat
    BY ProgressAssumption DEF NewsOf, Seen, Rejecting, JobsGoOn, Gens
  <1>3. \A g \in Gens : (\E i \in Ids : g \in job[i].failures) => (\E i \in Ids : g \in job'[i].failures)
    BY DEF JobsGoOn
  <1> QED BY <1>1, <1>2, <1>3 DEF ReceiptsOK

\* Events of threads: none is lost, and no failure is among the new ones.
OutCalm ==
    \A t \in Threads : \/ out'[t] = out[t]
                       \/ out[t] = None /\ out'[t] # None /\ ~Failed(out'[t].item)

\* Native steps that show no failure.
LEMMA BackstageKept ==
    ASSUME FailuresInv, FailuresType', StoreCalm, OutCalm,
           UNCHANGED <<wire, snapshot, document, owned, announced, told, heard, page>>,
           JobsGoOn, clock <= clock', Apart',
           \A t \in Threads : \/ NoNews => WorkOK(t)'
                              \/ SameWork(t) /\ (work[t].at # "Idle" /\ work[t].document = document
                                                 => SameJob(work[t].id)),
           \A i \in Ids : (NoNews => JobOK(i)') \/ SameJob(i)
    PROVE  FailuresInv'
  <1>1. \A i \in Ids, g \in Gens : /\ InStore(i, g)' => InStore(i, g)
                                   /\ InStore(i, g)' /\ i \in Fresh' => i \in Fresh
    BY DEF StoreCalm, InStore
  <1>2. \A i \in Ids, g \in Gens : InOut(i, g)' <=> InOut(i, g)
    BY DEF OutCalm, InOut, IsFailure
  <1>3. \A i \in Ids, g \in Gens : OnWire(i, g)' <=> OnWire(i, g)
    BY DEF OnWire
  <1>4. NoNews
    BY <1>1, <1>2, <1>3 DEF NoNews, Trace, JobsGoOn
  <1>5. clock' \in Nat /\ NewsOf(0) /\ 0 \in Nat /\ 0 \notin owned /\ 0 <= clock
    BY <1>4 DEF FailuresInv, FailuresType, NoNews, NewsOf, Gens
  <1>6. \A t \in Threads : WorkOK(t)'
    BY <1>4, <1>5, WorkKept
  <1>7. \A i \in Ids : JobOK(i)'
    BY <1>4, <1>5, JobKept DEF Started
  <1>8. ReceiptsOK'
    BY <1>5, ReceiptsKept
  <1>9. StoredOK'
    BY <1>1, <1>2, <1>3 DEF FailuresInv, StoredOK, Fresh, Present
  <1> QED BY <1>6, <1>7, <1>8, <1>9 DEF FailuresInv

-----------------------------------------------------------------------------
(* The native side.                                                        *)

\* The types of what a quiet step leaves alone.
LEMMA BackstageType ==
    ASSUME FailuresType,
           UNCHANGED <<wire, snapshot, document, owned, announced, told, heard, page>>,
           entries' \in [Ids -> Item \cup {None}], DOMAIN expired' = Ids, clock' \in Nat,
           out' \in [Threads -> Told \cup {None}], lease' \in [Threads -> Lease \cup {None}],
           work' \in [Threads -> Works], job' \in [Ids -> Jobs]
    PROVE  FailuresType'
  BY DEF FailuresType

\* Nothing in the store changes.
LEMMA StoreRests ==
    ASSUME UNCHANGED <<entries, expired>>
    PROVE  StoreCalm
  BY DEF StoreCalm, Fresh, Present

\* What every step finds.
LEMMA Found ==
    ASSUME FailuresInv
    PROVE  /\ FailuresType /\ Apart /\ ReceiptsOK /\ StoredOK
           /\ \A t \in Threads : WorkOK(t) /\ work[t] \in Works /\ work[t].gen \in Nat
           /\ \A i \in Ids : JobOK(i) /\ job[i] \in Jobs
           /\ \A i \in Ids : job[i].reply # None => job[i].reply \in Replies /\ job[i].reply.gen \in Nat
           /\ None \notin Replies /\ None \notin Ids /\ None \notin Item /\ None \notin Told
  <1>1. /\ FailuresType /\ Apart /\ ReceiptsOK /\ StoredOK
        /\ \A t \in Threads : WorkOK(t) /\ work[t] \in Works
        /\ \A i \in Ids : JobOK(i) /\ job[i] \in Jobs
    BY DEF FailuresInv, FailuresType
  <1>2. \A t \in Threads : work[t].gen \in Nat
    BY <1>1 DEF Works
  <1>3. \A i \in Ids : job[i].reply # None => job[i].reply \in Replies /\ job[i].reply.gen \in Nat
    BY <1>1 DEF Jobs, Replies
  <1>4. None \notin Replies /\ None \notin Ids /\ None \notin Item /\ None \notin Told
    BY ProgressAssumption, DocumentsAssumption DEF Replies, JobOutcomes, Told, Event
  <1> QED BY <1>1, <1>2, <1>3, <1>4

\* A thread takes a download over from the job that asks for it.
LEMMA ClaimKept ==
    ASSUME FailuresInv, NEW t \in Threads, NEW i \in Ids, ClaimDownload(t, i)
    PROVE  FailuresInv'
  <1> DEFINE w == [NoWork EXCEPT !.at = "Claimed", !.id = i, !.document = document]
  <1>f. /\ FailuresType /\ Apart
        /\ \A u \in Threads : WorkOK(u) /\ work[u] \in Works /\ work[u].gen \in Nat
        /\ \A k \in Ids : JobOK(k) /\ job[k] \in Jobs
    BY Found
  <1>1. /\ work' = [work EXCEPT ![t] = w] /\ work[t] = NoWork
        /\ UNCHANGED <<entries, expired, clock, out, lease, job>>
        /\ UNCHANGED <<wire, snapshot, document, owned, announced, told, heard, page>>
        /\ job[i].at = "Invoked" /\ job[i].reply = None
        /\ \A u \in Threads : work[u].id = i => work[u].document # document
    BY DEF ClaimDownload, Claim, Called, Here, receipts, store
  <1>2. /\ w.at = "Claimed" /\ w.id = i /\ w.document = document /\ w.gen = 0 /\ w \in Works
    BY <1>f DEF NoWork, Works, FailuresType
  <1> HIDE DEF w
  <1>3. work'[t] = w /\ \A u \in Threads \ {t} : work'[u] = work[u]
    BY <1>1, <1>f DEF FailuresType
  <1>4. FailuresType'
    BY <1>f, <1>1, <1>2, BackstageType DEF FailuresType
  <1>5. WorkOK(t)'
    BY <1>f, <1>1, <1>2, <1>3 DEF WorkOK, FailuresType, Gens
  <1>6. Apart'
    BY <1>f, <1>1, <1>2, <1>3 DEF Apart, GensApart, IdsApart, Answered, RepliesApart
  <1>7. \A u \in Threads \ {t} : SameWork(u)
    BY <1>1, <1>3 DEF SameWork
  <1>8. (\A k \in Ids : SameJob(k)) /\ JobsGoOn /\ OutCalm /\ StoreCalm
    BY <1>1, StoreRests DEF SameJob, JobsGoOn, OutCalm
  <1>9. \A u \in Threads : work[u].at # "Idle" => work[u].id \in Ids
    BY <1>f DEF WorkOK
  <1>10. clock <= clock'
    BY <1>f, <1>1 DEF FailuresType
  <1> QED BY <1>1, <1>4, <1>5, <1>6, <1>7, <1>8, <1>9, <1>10, BackstageKept

\* A download that is refused has no generation.
LEMMA RefuseKept ==
    ASSUME FailuresInv, NEW i \in Ids, ClaimRefused(i)
    PROVE  FailuresInv'
  <1> DEFINE r == Reply(IF job[i].cancelRequested THEN "Cancelled" ELSE "Conflict", 0)
  <1>f. /\ FailuresType /\ Apart
        /\ \A u \in Threads : WorkOK(u) /\ work[u] \in Works /\ work[u].gen \in Nat
        /\ \A k \in Ids : JobOK(k) /\ job[k] \in Jobs
    BY Found
  <1>1. /\ job' = [job EXCEPT ![i].reply = r]
        /\ UNCHANGED <<entries, expired, clock, out, lease, work>>
        /\ UNCHANGED <<wire, snapshot, document, owned, announced, told, heard, page>>
        /\ job[i].at = "Invoked" /\ job[i].reply = None
        /\ \A u \in Threads : work[u].id = i => work[u].document # document
    BY DEF ClaimRefused, Called, Here, receipts, store, vars
  <1>2. r.gen = 0 /\ r \in Replies
    BY DEF Reply, Replies, JobOutcomes
  <1> HIDE DEF r
  <1>3. /\ job'[i].at = job[i].at /\ job'[i].reply = r /\ job'[i].failures = job[i].failures
        /\ job'[i].ticket = job[i].ticket
        /\ \A k \in Ids \ {i} : job'[k] = job[k]
    BY <1>1, <1>f DEF FailuresType, Jobs
  <1>4. job' \in [Ids -> Jobs]
    <2>1. [job[i] EXCEPT !.reply = r] \in Jobs
      BY <1>f, <1>2 DEF Jobs
    <2> QED BY <1>f, <1>1, <2>1 DEF FailuresType
  <1>5. FailuresType'
    BY <1>f, <1>1, <1>4, BackstageType DEF FailuresType
  <1>6. JobOK(i)'
    BY <1>f, <1>1, <1>2, <1>3 DEF JobOK, Started
  <1>7. Apart'
    BY <1>f, <1>1, <1>2, <1>3 DEF Apart, GensApart, IdsApart, Answered, RepliesApart
  <1>8. /\ \A u \in Threads : SameWork(u)
        /\ \A k \in Ids \ {i} : SameJob(k)
        /\ JobsGoOn /\ OutCalm /\ StoreCalm
    BY <1>1, <1>3, StoreRests DEF SameWork, SameJob, JobsGoOn, OutCalm
  <1>9. \A u \in Threads : work[u].at # "Idle" => work[u].id \in Ids
    BY <1>f DEF WorkOK
  <1>10. clock <= clock'
    BY <1>f, <1>1 DEF FailuresType
  <1> QED BY <1>1, <1>5, <1>6, <1>7, <1>8, <1>9, <1>10, BackstageKept

\* begin_progress hands out a generation nobody has seen.
LEMMA StartKept ==
    ASSUME FailuresInv, NEW t \in Threads, StartDownload(t)
    PROVE  FailuresInv'
  <1> DEFINE i == work[t].id
             new == [gen |-> clock + 1, progress |-> 0, state |-> "Running"]
             e == [id |-> i, item |-> new, cleared |-> FALSE]
             l == [id |-> i, gen |-> clock + 1]
             w == [work[t] EXCEPT !.at = "Running", !.gen = clock + 1]
  <1>f. /\ FailuresType /\ Apart /\ ReceiptsOK
        /\ \A u \in Threads : WorkOK(u) /\ work[u] \in Works /\ work[u].gen \in Nat
        /\ \A k \in Ids : JobOK(k) /\ job[k] \in Jobs
        /\ \A k \in Ids : job[k].reply # None => job[k].reply.gen \in Nat
    BY Found
  <1>g. PICK g \in Nat : g = clock + 1
    BY <1>f DEF FailuresType
  <1>1. /\ work[t].at = "Claimed" /\ out[t] = None /\ clock < MaxGen /\ clock' = clock + 1
        /\ work' = [work EXCEPT ![t] = w]
        /\ lease' = [lease EXCEPT ![t] = l] /\ out' = [out EXCEPT ![t] = e]
        /\ Becomes(i, new, RoomForOne(FreshBut(i)))
        /\ UNCHANGED <<wire, snapshot, document, owned, announced, told, heard, page, job>>
    BY <1>f DEF StartDownload, Start, Here, receipts, FailuresType
  <1>2. i \in Ids /\ clock \in Nat /\ g \in Gens
    BY <1>f, <1>g, <1>1, ProgressAssumption DEF WorkOK, FailuresType, Gens
  <1>3. new \in Item /\ ~Failed(new) /\ e \in Told /\ e.item = new /\ l \in Lease
    BY <1>g, <1>2, ProgressAssumption DEF Item, States, Told, Lease, Failed
  <1>w. /\ w.at = "Running" /\ w.gen = g /\ w.id = i /\ w.document = work[t].document /\ w \in Works
    BY <1>f, <1>g DEF Works
  <1> HIDE DEF w
  <1>4. /\ work'[t].at = "Running" /\ work'[t].gen = g /\ work'[t].id = i
        /\ work'[t].document = work[t].document /\ work' \in [Threads -> Works]
        /\ \A u \in Threads \ {t} : work'[u] = work[u]
    BY <1>f, <1>1, <1>w DEF FailuresType
  <1>5. entries' \in [Ids -> Item \cup {None}] /\ DOMAIN expired' = Ids /\ StoreCalm
    <2> HIDE DEF new
    <2> QED BY <1>f, <1>1, <1>3, BecomesCalm
  <1> HIDE DEF new, e
  <1>6. /\ FailuresType' /\ OutCalm /\ lease'[t] = l
        /\ \A u \in Threads \ {t} : lease'[u] = lease[u]
    <2>1. /\ out' \in [Threads -> Told \cup {None}] /\ lease' \in [Threads -> Lease \cup {None}]
          /\ lease'[t] = l /\ \A u \in Threads \ {t} : lease'[u] = lease[u]
      BY <1>f, <1>1, <1>3 DEF FailuresType
    <2>2. OutCalm
      <3>1. out'[t] = e /\ \A u \in Threads \ {t} : out'[u] = out[u]
        BY <1>f, <1>1 DEF FailuresType
      <3>2. e # None
        BY <1>3, Found
      <3> QED BY <1>1, <1>3, <3>1, <3>2 DEF OutCalm
    <2> QED BY <1>f, <1>1, <1>2, <1>4, <1>5, <2>1, <2>2, BackstageType DEF FailuresType
  <1>7. g \notin announced /\ g \notin owned /\ told[g] = 0 /\ ~Seen(g)
    BY <1>f, <1>g, <1>2 DEF ReceiptsOK, FailuresType
  <1>8. NoNews => WorkOK(t)'
    <2> SUFFICES ASSUME NoNews PROVE WorkOK(t)'
      OBVIOUS
    <2>1. Silent(g)' /\ (\A k \in Ids : ~Trace(k, g)')
      BY <1>1, <1>2, <1>7 DEF Silent, NoNews, Seen
    <2>2. ~Seen(g)'
      BY <1>1, <1>7, <2>1 DEF Seen
    <2>3. /\ work[t].document <= document
          /\ work[t].document = document => job[i].at = "Invoked" /\ job[i].reply = None
      BY <1>f, <1>1 DEF WorkOK
    <2> QED BY <1>1, <1>2, <1>4, <1>6, <1>7, <1>g, <2>1, <2>2, <2>3 DEF WorkOK
  <1>9. Apart'
    <2>1. /\ \A u \in Threads : work[u].gen # g
          /\ \A k \in Ids : job[k].reply # None /\ job[k].reply.gen # 0 => job[k].reply.gen # g
      <3>1. \A u \in Threads : work[u].gen <= clock
        BY <1>f DEF WorkOK
      <3>2. \A k \in Ids : job[k].reply # None /\ job[k].reply.gen # 0 => job[k].reply.gen <= clock
        BY <1>f DEF JobOK
      <3> QED BY <1>f, <1>g, <1>2, <3>1, <3>2
    <2> QED BY <1>f, <1>1, <1>4, <2>1 DEF Apart, GensApart, IdsApart, Answered, RepliesApart
  <1>10. (\A u \in Threads \ {t} : SameWork(u)) /\ (\A k \in Ids : SameJob(k)) /\ JobsGoOn
    BY <1>1, <1>4, <1>6 DEF SameWork, SameJob, JobsGoOn
  <1>11. \A u \in Threads : work[u].at # "Idle" => work[u].id \in Ids
    BY <1>f DEF WorkOK
  <1>12. clock <= clock'
    BY <1>1, <1>2
  <1> QED BY <1>1, <1>5, <1>6, <1>8, <1>9, <1>10, <1>11, <1>12, BackstageKept

\* A workflow that reports no failure, or none that the store takes.
LEMMA NativeMoves ==
    ASSUME FailuresInv, NEW t \in Threads, NEW w \in Works,
           work' = [work EXCEPT ![t] = w], w.id = work[t].id, w.document = work[t].document,
           w.gen = work[t].gen, w.at \in {"Claimed", "Running", "Reported"}, work[t].at # "Idle",
           w.at = "Claimed" => work[t].at = "Claimed",
           w.at = "Running" => work[t].at = "Running",
           w.at = "Reported" => w.outcome \in JobOutcomes,
           w.gen # 0 /\ w.document = document /\ Seen(w.gen) => w.at = "Reported" /\ w.outcome = "Failed",
           FailuresType', StoreCalm, OutCalm, lease' = lease, clock' = clock,
           UNCHANGED <<wire, snapshot, document, owned, announced, told, heard, page>>,
           \A i \in Ids : SameJob(i)
    PROVE  FailuresInv'
  <1>f. /\ FailuresType /\ Apart
        /\ \A u \in Threads : WorkOK(u) /\ work[u] \in Works /\ work[u].gen \in Nat
        /\ \A k \in Ids : JobOK(k) /\ job[k] \in Jobs
    BY Found
  <1>3. work'[t] = w /\ \A u \in Threads \ {t} : work'[u] = work[u]
    BY <1>f DEF FailuresType
  <1>4. JobsGoOn /\ clock <= clock'
    BY <1>f DEF JobsGoOn, SameJob, FailuresType
  <1>5. \A u \in Threads \ {t} : SameWork(u)
    BY <1>3 DEF SameWork
  <1>6. \A u \in Threads : work[u].at # "Idle" => work[u].id \in Ids
    BY <1>f DEF WorkOK
  <1>7. Apart'
    BY <1>f, <1>3 DEF Apart, GensApart, IdsApart, Answered, RepliesApart, SameJob
  <1>8. NoNews => WorkOK(t)'
    <2> SUFFICES ASSUME NoNews PROVE WorkOK(t)'
      OBVIOUS
    <2>1. \A g \in Gens : (Seen(g)' => Seen(g)) /\ (Silent(g) => Silent(g)')
      BY DEF NoNews, Seen, Silent
    <2>w. /\ WorkOK(t) /\ work[t].at # "Idle" /\ w.id = work[t].id
          /\ w.document = work[t].document /\ w.gen = work[t].gen
      BY <1>f
    <2>2. w.document = document /\ w.gen # 0 =>
             /\ w.gen \in Gens /\ Silent(w.gen) /\ \A i \in Ids : Trace(i, w.gen) => i = w.id
      BY <2>w DEF WorkOK, Silent
    <2>3. w.id \in Ids /\ w.document <= document /\ w.gen <= clock /\ w.gen \notin owned
      BY <1>f DEF WorkOK
    <2>4. w.document = document => job[w.id].at = "Invoked" /\ job[w.id].reply = None
      BY <2>w DEF WorkOK
    <2>5. /\ w.at = "Claimed" => w.gen = 0
          /\ w.at = "Running" => w.gen \in Gens /\ lease[t] = [id |-> w.id, gen |-> w.gen]
      BY <1>f DEF WorkOK
    <2> QED BY <1>3, <2>1, <2>2, <2>3, <2>4, <2>5 DEF WorkOK, NoNews, SameJob
  <1> QED BY <1>4, <1>5, <1>6, <1>7, <1>8, BackstageKept

\* The setup of a download fails, and no generation with it.
LEMMA SetupKept ==
    ASSUME FailuresInv, NEW t \in Threads, SetupFails(t)
    PROVE  FailuresInv'
  <1> DEFINE o == IF work[t].cancelled THEN "Cancelled" ELSE "Failed"
             w == [work[t] EXCEPT !.at = "Reported", !.outcome = o]
  <1>f. /\ FailuresType /\ WorkOK(t) /\ work[t] \in Works
    BY Found
  <1>1. /\ work' = [work EXCEPT ![t] = w] /\ work[t].at = "Claimed"
        /\ UNCHANGED <<entries, expired, clock, out, lease, job>>
        /\ UNCHANGED <<wire, snapshot, document, owned, announced, told, heard, page>>
    BY <1>f DEF SetupFails, Here, receipts, vars, store, FailuresType
  <1>2. /\ w \in Works /\ w.id = work[t].id /\ w.document = work[t].document /\ w.gen = work[t].gen
        /\ w.at = "Reported" /\ w.outcome \in JobOutcomes
    BY <1>f DEF Works, JobOutcomes
  <1>3. work[t].gen = 0
    BY <1>f, <1>1 DEF WorkOK
  <1> HIDE DEF w
  <1>4. work' \in [Threads -> Works]
    BY <1>f, <1>1, <1>2 DEF FailuresType
  <1>5. FailuresType' /\ StoreCalm /\ OutCalm /\ (\A i \in Ids : SameJob(i))
    BY <1>f, <1>1, <1>4, BackstageType, StoreRests DEF FailuresType, OutCalm, SameJob
  <1> QED BY <1>1, <1>2, <1>3, <1>5, NativeMoves

\* cancel_download sets a flag of a workflow, at most.
LEMMA CancelKept ==
    ASSUME FailuresInv, NEW t \in Threads, CancelNative(t),
           UNCHANGED <<wire, snapshot, document, owned, announced, told, heard, page>>,
           job' \in [Ids -> Jobs], \A i \in Ids : SameJob(i)
    PROVE  FailuresInv'
  <1>f. /\ FailuresType /\ WorkOK(t) /\ work[t] \in Works
    BY Found
  <1>1. UNCHANGED <<entries, expired, clock, out, lease>>
    BY DEF CancelNative, store, vars
  <1>2. PICK c \in BOOLEAN : work' = [work EXCEPT ![t] = [work[t] EXCEPT !.cancelled = c]]
    <2>1. work[t].cancelled \in BOOLEAN /\ work[t] = [work[t] EXCEPT !.cancelled = work[t].cancelled]
      BY <1>f DEF Works
    <2>2. work = [work EXCEPT ![t] = work[t]]
      BY <1>f DEF FailuresType
    <2>3. CASE work' = work
      BY <2>1, <2>2, <2>3
    <2>4. CASE work' = [work EXCEPT ![t].cancelled = TRUE]
      BY <2>4
    <2> QED BY <2>3, <2>4 DEF CancelNative
  <1> DEFINE w == [work[t] EXCEPT !.cancelled = c]
  <1>3. /\ w \in Works /\ w.id = work[t].id /\ w.document = work[t].document /\ w.gen = work[t].gen
        /\ w.at = work[t].at /\ w.outcome = work[t].outcome
    BY <1>f DEF Works
  <1> HIDE DEF w
  <1>4. work' = [work EXCEPT ![t] = w] /\ work' \in [Threads -> Works]
    BY <1>f, <1>2, <1>3 DEF FailuresType, w
  <1>5. FailuresType' /\ StoreCalm /\ OutCalm
    BY <1>f, <1>1, <1>4, BackstageType, StoreRests DEF FailuresType, OutCalm
  <1>6. work'[t] = w /\ \A u \in Threads \ {t} : work'[u] = work[u]
    BY <1>f, <1>4 DEF FailuresType
  <1>7. \A u \in Threads : SameWork(u)
    BY <1>1, <1>3, <1>6 DEF SameWork
  <1>8. Apart /\ (\A u \in Threads : WorkOK(u)) /\ JobsGoOn /\ clock <= clock'
    BY <1>1, <1>f, Found DEF JobsGoOn, SameJob, FailuresType
  <1>9. Apart'
    BY <1>7, <1>8 DEF SameWork, SameJob, Apart, GensApart, IdsApart, Answered, RepliesApart
  <1>10. \A u \in Threads : work[u].at # "Idle" => work[u].id \in Ids
    BY <1>8 DEF WorkOK
  <1> QED BY <1>5, <1>7, <1>8, <1>9, <1>10, BackstageKept

\* Nobody moves but the store, the clears or the time.
LEMMA StoreKept ==
    ASSUME FailuresInv, entries' \in [Ids -> Item \cup {None}], DOMAIN expired' = Ids, StoreCalm,
           clock <= clock', clock' \in Nat, UNCHANGED <<out, lease, work, job>>,
           UNCHANGED <<wire, snapshot, document, owned, announced, told, heard, page>>
    PROVE  FailuresInv'
  <1>f. /\ FailuresType /\ Apart /\ \A u \in Threads : WorkOK(u)
    BY Found
  <1>1. FailuresType' /\ OutCalm /\ JobsGoOn
    BY <1>f, BackstageType DEF FailuresType, OutCalm, JobsGoOn
  <1>2. Apart'
    BY <1>f DEF Apart, GensApart, IdsApart, Answered, RepliesApart
  <1>3. (\A u \in Threads : SameWork(u)) /\ (\A k \in Ids : SameJob(k))
    BY DEF SameWork, SameJob
  <1>4. \A u \in Threads : work[u].at # "Idle" => work[u].id \in Ids
    BY <1>f DEF WorkOK
  <1> QED BY <1>1, <1>2, <1>3, <1>4, BackstageKept

\* clear_progress and the time to live take entries away.
LEMMA ClearKept ==
    ASSUME FailuresInv, RunClear \/ ClearAnswered
                        \/ \E i \in Ids : Expire(i) /\ UNCHANGED <<work, job, requests>> /\ Keep
                                          /\ UNCHANGED receipts
    PROVE  FailuresInv'
  <1>f. FailuresType
    BY Found
  <1>1. UNCHANGED <<wire, snapshot, document, owned, announced, told, heard, page, work, job>>
    BY DEF RunClear, ClearAnswered, Keep, receipts
  <1>2. /\ UNCHANGED <<out, lease>>
        /\ \/ UNCHANGED <<entries, expired, clock>>
           \/ /\ entries' = [entries EXCEPT ![clear.id] = None]
              /\ expired' = [expired EXCEPT ![clear.id] = FALSE] /\ clock' = clock + 1
           \/ \E i \in Ids : expired' = [expired EXCEPT ![i] = TRUE] /\ UNCHANGED <<entries, clock>>
    BY DEF RunClear, ClearAnswered, ClearDecide, ClearStore, ClearEmit, ClearReturn, Expire, vars, store
  <1>3. /\ entries' \in [Ids -> Item \cup {None}] /\ DOMAIN expired' = Ids
        /\ clock \in Nat /\ clock <= clock' /\ clock' \in Nat
    BY <1>f, <1>2 DEF FailuresType
  <1>4. StoreCalm
    <2>1. CASE UNCHANGED <<entries, expired>>
      BY <2>1, StoreRests
    <2>2. CASE /\ entries' = [entries EXCEPT ![clear.id] = None]
               /\ expired' = [expired EXCEPT ![clear.id] = FALSE]
      BY <1>f, <2>2 DEF FailuresType, StoreCalm, Failed, Fresh, Present
    <2>3. CASE \E i \in Ids : expired' = [expired EXCEPT ![i] = TRUE] /\ UNCHANGED entries
      BY <1>f, <2>3 DEF FailuresType, StoreCalm, Fresh, Present
    <2> QED BY <1>2, <2>1, <2>2, <2>3
  <1> QED BY <1>1, <1>2, <1>3, <1>4, StoreKept

\* The workflow returns, and the document that asked has its answer.
LEMMA EndKept ==
    ASSUME FailuresInv, NEW t \in Threads, EndDownload(t)
    PROVE  FailuresInv'
  <1>f. /\ FailuresType /\ Apart /\ WorkOK(t)
        /\ \A u \in Threads : WorkOK(u) /\ work[u] \in Works /\ work[u].gen \in Nat
        /\ \A k \in Ids : JobOK(k) /\ job[k] \in Jobs
        /\ None \notin Replies
    BY Found
  <1>0. work[t].at = "Reported" /\ work[t].id \in Ids /\ work[t].outcome \in JobOutcomes
    BY <1>f DEF EndDownload, WorkOK
  <1>i. PICK i \in Ids : i = work[t].id
    BY <1>0
  <1>r. PICK r \in Replies : r = Reply(work[t].outcome, work[t].gen)
    BY <1>0, <1>f DEF Reply, Replies
  <1>1. /\ work' = [work EXCEPT ![t] = NoWork] /\ work[t].at = "Reported"
        /\ lease' = [lease EXCEPT ![t] = None]
        /\ job' = IF work[t].document = document THEN [job EXCEPT ![i].reply = r] ELSE job
        /\ UNCHANGED <<entries, expired, clock, out>>
        /\ UNCHANGED <<wire, snapshot, document, owned, announced, told, heard, page>>
    BY <1>0, <1>i, <1>r DEF EndDownload, Here, receipts, store
  <1>2. r.gen = work[t].gen /\ r.outcome = work[t].outcome /\ r # None
    BY <1>f, <1>r DEF Reply
  <1>3. /\ work'[t] = NoWork /\ (\A u \in Threads \ {t} : work'[u] = work[u])
        /\ NoWork.at = "Idle" /\ NoWork.gen = 0 /\ NoWork.id = None /\ NoWork \in Works
        /\ \A u \in Threads \ {t} : lease'[u] = lease[u]
        /\ lease' \in [Threads -> Lease \cup {None}]
    BY <1>f, <1>1 DEF FailuresType, NoWork, Works
  <1>4. /\ work' \in [Threads -> Works] /\ job' \in [Ids -> Jobs]
        /\ \A k \in Ids : /\ job'[k].at = job[k].at /\ job'[k].failures = job[k].failures
                          /\ job'[k].ticket = job[k].ticket
        /\ \A k \in Ids \ {i} : job'[k] = job[k]
        /\ job'[i].reply = IF work[t].document = document THEN r ELSE job[i].reply
    <2>1. work' \in [Threads -> Works]
      BY <1>f, <1>1, <1>3 DEF FailuresType
    <2>0. /\ [job[i] EXCEPT !.reply = r] \in Jobs /\ [job[i] EXCEPT !.reply = r].reply = r
          /\ [job[i] EXCEPT !.reply = r].at = job[i].at
          /\ [job[i] EXCEPT !.reply = r].failures = job[i].failures
          /\ [job[i] EXCEPT !.reply = r].ticket = job[i].ticket
      BY <1>f DEF Jobs
    <2>2. CASE work[t].document = document
      BY <1>f, <1>1, <2>0, <2>1, <2>2 DEF FailuresType
    <2>3. CASE work[t].document # document
      BY <1>f, <1>1, <1>2, <2>1, <2>3 DEF FailuresType
    <2> QED BY <2>2, <2>3
  <1>5. FailuresType' /\ StoreCalm /\ OutCalm
    BY <1>f, <1>1, <1>3, <1>4, BackstageType, StoreRests DEF FailuresType, OutCalm
  <1>6. work[t].document = document =>
           /\ job[i].at = "Invoked" /\ job[i].reply = None
           /\ work[t].gen # 0 => /\ Silent(work[t].gen)
                                 /\ \A k \in Ids : Trace(k, work[t].gen) => k = i
                                 /\ Seen(work[t].gen) => work[t].outcome = "Failed"
    BY <1>f, <1>1, <1>i DEF WorkOK
  <1>7. WorkOK(t)'
    BY <1>f, <1>1, <1>3 DEF WorkOK, FailuresType, Gens
  <1>8. NoNews /\ work[t].document = document => JobOK(i)'
    <2> SUFFICES ASSUME NoNews, work[t].document = document PROVE JobOK(i)'
      OBVIOUS
    <2>1. \A g \in Gens : (Seen(g)' => Seen(g)) /\ (Silent(g) => Silent(g)')
      BY <1>1 DEF NoNews, Seen, Silent
    <2>2. work[t].gen # 0 => work[t].gen \in Gens /\ work[t].gen <= clock /\ work[t].gen \notin owned
      BY <1>f, <1>6 DEF WorkOK, Silent
    <2>3. Started' /\ job[i].ticket
      BY <1>1, <1>2, <1>f, <1>6 DEF JobOK, Started
    <2>4. PICK g \in Nat : g = work[t].gen
      BY <1>f
    <2>5. /\ job'[i].at = "Invoked" /\ job'[i].reply = r /\ job'[i].reply.gen = g /\ job'[i].ticket
          /\ job'[i].reply.outcome = work[t].outcome
      BY <1>2, <1>4, <1>6, <2>3, <2>4
    <2>6. g # 0 => /\ Silent(g)' /\ g <= clock' /\ g \notin owned'
                   /\ \A k \in Ids : Trace(k, g)' => k = i
                   /\ Seen(g)' => work[t].outcome = "Failed"
      BY <1>1, <1>6, <2>1, <2>2, <2>4 DEF NoNews
    <2> QED BY <1>1, <2>3, <2>5, <2>6 DEF JobOK
  <1>9. work[t].document # document => SameJob(i)
    BY <1>4 DEF SameJob
  <1>10. (\A u \in Threads \ {t} : SameWork(u)) /\ (\A k \in Ids \ {i} : SameJob(k))
    BY <1>3, <1>4 DEF SameWork, SameJob
  <1>11. ASSUME NEW u \in Threads \ {t}, work[u].at # "Idle", work[u].document = document
         PROVE  SameJob(work[u].id)
    <2>1. work[u].id \in Ids
      BY <1>11, <1>f DEF WorkOK
    <2>2. work[t].document = document => work[u].id # i
      BY <1>11, <1>f, <1>1, <1>i DEF Apart, GensApart, IdsApart, Answered, RepliesApart
    <2> QED BY <1>9, <1>10, <2>1, <2>2
  <1>12. JobsGoOn
    BY <1>4, <1>6 DEF JobsGoOn
  <1>13. Apart'
    <2>1. \A u \in Threads \ {t} : work[t].gen # 0 => work[u].gen # work[t].gen
      BY <1>f DEF Apart, GensApart, IdsApart, Answered, RepliesApart
    <2>2. \A k \in Ids : job[k].reply # None /\ job[k].reply.gen # 0 => work[t].gen # job[k].reply.gen
      BY <1>f DEF Apart, GensApart, IdsApart, Answered, RepliesApart
    <2>3. CASE work[t].document = document
      <3>1. job'[i].reply = r /\ \A k \in Ids \ {i} : job'[k].reply = job[k].reply
        BY <1>4, <2>3
      <3>2. GensApart'
        BY <1>f, <1>3 DEF Apart, GensApart
      <3>3. IdsApart'
        BY <1>f, <1>1, <1>3 DEF Apart, IdsApart
      <3>4. Answered'
        BY <1>f, <1>2, <1>3, <2>1, <3>1 DEF Apart, Answered
      <3>5. RepliesApart'
        <4>1. \A k, j \in Ids \ {i} : /\ k # j /\ job[k].reply # None /\ job[j].reply # None
                                       /\ job[k].reply.gen # 0
                                       => job[k].reply.gen # job[j].reply.gen
          BY <1>f DEF Apart, RepliesApart
        <4> QED BY <1>2, <2>2, <3>1, <4>1 DEF RepliesApart
      <3> QED BY <3>2, <3>3, <3>4, <3>5 DEF Apart
    <2>4. CASE work[t].document # document
      <3>1. job' = job
        BY <1>1, <2>4
      <3>2. GensApart' /\ IdsApart'
        BY <1>f, <1>1, <1>3 DEF Apart, GensApart, IdsApart
      <3>3. Answered'
        BY <1>f, <1>3, <3>1 DEF Apart, Answered
      <3>4. RepliesApart'
        BY <1>f, <3>1 DEF Apart, RepliesApart
      <3> QED BY <3>2, <3>3, <3>4 DEF Apart
    <2> QED BY <2>3, <2>4
  <1>14. clock <= clock'
    BY <1>1, <1>f DEF FailuresType
  <1> QED BY <1>1, <1>5, <1>7, <1>8, <1>9, <1>10, <1>11, <1>12, <1>13, <1>14, BackstageKept

-----------------------------------------------------------------------------
(* The jobs of the document.                                               *)

\* A job starts, gets its ticket or gives up before native work.
LEMMA JobMoves ==
    ASSUME FailuresInv, NEW i \in Ids, NEW j \in Jobs, job' = [job EXCEPT ![i] = j],
           Started, job[i].at \in {"None", "Preparing"}, j.failures = {},
           \/ j.at = "Preparing" /\ j.reply = None /\ ~j.ticket
           \/ j.at = "Invoked" /\ j.reply = None /\ j.ticket
           \/ j.at = "Clearing" /\ j.reply \in Replies /\ j.reply.gen = 0,
           UNCHANGED <<entries, expired, clock, out, lease, work>>,
           UNCHANGED <<wire, snapshot, document, owned, announced, told, heard, page>>
    PROVE  FailuresInv'
  <1>f. /\ FailuresType /\ Apart
        /\ \A u \in Threads : WorkOK(u) /\ work[u] \in Works /\ work[u].gen \in Nat
        /\ \A k \in Ids : JobOK(k) /\ job[k] \in Jobs
        /\ None \notin Replies
    BY Found
  <1>1. /\ job'[i] = j /\ (\A k \in Ids \ {i} : job'[k] = job[k]) /\ job' \in [Ids -> Jobs]
    BY <1>f DEF FailuresType
  <1>2. FailuresType' /\ StoreCalm /\ OutCalm
    BY <1>f, <1>1, BackstageType, StoreRests DEF FailuresType, OutCalm
  <1>3. JobOK(i)
    BY <1>f
  <1>4. job[i].failures = {} /\ job[i].reply = None
    BY <1>3 DEF JobOK
  <1>5. JobOK(i)'
    BY <1>f, <1>1 DEF JobOK, Started
  <1>6. JobsGoOn
    BY <1>1, <1>4 DEF JobsGoOn
  <1>7. (\A u \in Threads : SameWork(u)) /\ (\A k \in Ids \ {i} : SameJob(k))
    BY <1>1 DEF SameWork, SameJob
  <1>8. ASSUME NEW u \in Threads, work[u].at # "Idle", work[u].document = document
        PROVE  SameJob(work[u].id)
    <2>1. work[u].id \in Ids /\ job[work[u].id].at = "Invoked"
      BY <1>8, <1>f DEF WorkOK
    <2> QED BY <1>7, <2>1
  <1>9. Apart'
    <2>1. GensApart' /\ IdsApart'
      BY <1>f DEF Apart, GensApart, IdsApart
    <2>2. Answered'
      BY <1>f, <1>1 DEF Apart, Answered
    <2>3. RepliesApart'
      BY <1>f, <1>1 DEF Apart, RepliesApart
    <2> QED BY <2>1, <2>2, <2>3 DEF Apart
  <1>10. clock <= clock'
    BY <1>f DEF FailuresType
  <1> QED BY <1>2, <1>5, <1>6, <1>7, <1>8, <1>9, <1>10, BackstageKept

\* runDownloadJob, up to the call of download_file.
LEMMA JobStarts ==
    ASSUME FailuresInv, NEW i \in Ids, RunDownloadJob(i) \/ Prepared(i)
    PROVE  FailuresInv'
  <1>f. /\ FailuresType /\ JobOK(i) /\ job[i] \in Jobs
    BY Found
  <1>0. /\ UNCHANGED <<entries, expired, clock, out, lease, work>>
        /\ UNCHANGED <<wire, snapshot, document, owned, announced, told, heard, page>>
    BY DEF RunDownloadJob, Prepared, Keep, receipts, vars, store
  <1>1. CASE RunDownloadJob(i)
    <2> DEFINE j == [job[i] EXCEPT !.at = "Preparing"]
    <2>1. job' = [job EXCEPT ![i] = j] /\ Started /\ job[i].at = "None"
      BY <1>1, <1>f DEF RunDownloadJob, FailuresType
    <2>2. /\ j \in Jobs /\ j.at = "Preparing" /\ j.failures = job[i].failures
          /\ j.reply = job[i].reply /\ j.ticket = job[i].ticket
      BY <1>f DEF Jobs
    <2>3. job[i].failures = {} /\ job[i].reply = None /\ ~job[i].ticket
      BY <1>f, <2>1 DEF JobOK
    <2> HIDE DEF j
    <2> QED BY <1>0, <2>1, <2>2, <2>3, JobMoves
  <1>2. ASSUME job[i].at = "Preparing", job' = [job EXCEPT ![i].at = "Invoked", ![i].ticket = TRUE]
        PROVE  FailuresInv'
    <2> DEFINE j == [job[i] EXCEPT !.at = "Invoked", !.ticket = TRUE]
    <2>1. job' = [job EXCEPT ![i] = j]
      BY <1>2, <1>f DEF FailuresType
    <2>2. /\ j \in Jobs /\ j.at = "Invoked" /\ j.failures = job[i].failures
          /\ j.reply = job[i].reply /\ j.ticket
      BY <1>f DEF Jobs
    <2>3. job[i].failures = {} /\ job[i].reply = None /\ Started
      BY <1>f, <1>2 DEF JobOK
    <2> HIDE DEF j
    <2> QED BY <1>0, <1>2, <2>1, <2>2, <2>3, JobMoves
  <1>3. ASSUME job[i].at = "Preparing", NEW r \in Replies, r.gen = 0,
               job' = [job EXCEPT ![i].at = "Clearing", ![i].reply = r]
        PROVE  FailuresInv'
    <2> DEFINE j == [job[i] EXCEPT !.at = "Clearing", !.reply = r]
    <2>1. job' = [job EXCEPT ![i] = j]
      BY <1>3, <1>f DEF FailuresType
    <2>2. /\ j \in Jobs /\ j.at = "Clearing" /\ j.failures = job[i].failures /\ j.reply = r
      BY <1>f DEF Jobs
    <2>3. job[i].failures = {} /\ job[i].reply = None /\ Started
      BY <1>f, <1>3 DEF JobOK
    <2> HIDE DEF j
    <2> QED BY <1>0, <1>3, <2>1, <2>2, <2>3, JobMoves
  <1>4. ASSUME Prepared(i) PROVE FailuresInv'
    <2> DEFINE r == Reply(IF job[i].cancelRequested THEN "Cancelled" ELSE "Failed", 0)
    <2>1. r \in Replies /\ r.gen = 0
      BY DEF Reply, Replies, JobOutcomes
    <2> HIDE DEF r
    <2>2. /\ job[i].at = "Preparing"
          /\ \/ job' = [job EXCEPT ![i].at = "Invoked", ![i].ticket = TRUE]
             \/ job' = [job EXCEPT ![i].at = "Clearing", ![i].reply = r]
      BY <1>4 DEF Prepared, r
    <2> QED BY <1>2, <1>3, <2>1, <2>2
  <1> QED BY <1>1, <1>4

\* cancelDownloadJob, of a job or of a download that outlived its document.
LEMMA CancelsKept ==
    ASSUME FailuresInv,
           (\E i \in Ids : CancelJob(i)) \/ (\E t \in Threads : CancelSurvivor(t))
    PROVE  FailuresInv'
  <1>f. /\ FailuresType /\ \A u \in Threads : WorkOK(u)
        /\ \A k \in Ids : JobOK(k) /\ job[k] \in Jobs
        /\ None \notin Ids
    BY Found
  <1>0. UNCHANGED <<wire, snapshot, document, owned, announced, told, heard, page>>
    BY DEF CancelJob, CancelSurvivor, Keep, receipts
  <1>1. ASSUME NEW i \in Ids, CancelJob(i) PROVE FailuresInv'
    <2> DEFINE j == [job[i] EXCEPT !.cancelRequested = TRUE]
    <2>1. job' = [job EXCEPT ![i] = j]
      BY <1>1, <1>f DEF CancelJob, FailuresType
    <2>2. /\ j \in Jobs /\ j.at = job[i].at /\ j.failures = job[i].failures
          /\ j.reply = job[i].reply /\ j.ticket = job[i].ticket
      BY <1>f DEF Jobs
    <2> HIDE DEF j
    <2>3. job'[i] = j /\ (\A k \in Ids \ {i} : job'[k] = job[k]) /\ job' \in [Ids -> Jobs]
      BY <1>f, <2>1, <2>2 DEF FailuresType
    <2>4. \A k \in Ids : SameJob(k)
      BY <2>2, <2>3 DEF SameJob
    <2>5. ASSUME NEW t \in Threads, CancelNative(t) PROVE FailuresInv'
      BY <1>0, <2>3, <2>4, <2>5, CancelKept
    <2>6. ASSUME UNCHANGED vars, UNCHANGED work PROVE FailuresInv'
      <3>1. FailuresType' /\ StoreCalm /\ OutCalm /\ JobsGoOn /\ clock <= clock'
        BY <1>f, <1>0, <2>3, <2>4, <2>6, BackstageType, StoreRests
        DEF FailuresType, OutCalm, JobsGoOn, SameJob, vars, store
      <3>2. Apart
        BY Found
      <3>3. Apart'
        BY <1>0, <2>4, <2>6, <3>2
        DEF SameJob, Apart, GensApart, IdsApart, Answered, RepliesApart
      <3>4. \A u \in Threads : SameWork(u)
        BY <2>6 DEF SameWork, vars
      <3>5. \A u \in Threads : work[u].at # "Idle" => work[u].id \in Ids
        BY <1>f DEF WorkOK
      <3> QED BY <1>0, <2>4, <3>1, <3>3, <3>4, <3>5, BackstageKept
    <2>7. \/ UNCHANGED vars /\ UNCHANGED work
          \/ \E t \in Threads : CancelNative(t)
      BY <1>1 DEF CancelJob
    <2> QED BY <2>5, <2>6, <2>7
  <1>2. ASSUME NEW t \in Threads, CancelSurvivor(t) PROVE FailuresInv'
    <2>1. CancelNative(t) /\ UNCHANGED job
      BY <1>2 DEF CancelSurvivor
    <2>2. (\A k \in Ids : SameJob(k)) /\ job' \in [Ids -> Jobs]
      BY <1>f, <2>1 DEF SameJob, FailuresType
    <2> QED BY <1>0, <2>1, <2>2, CancelKept
  <1> QED BY <1>1, <1>2

-----------------------------------------------------------------------------
(* A failure is published.                                                 *)

\* The item of the running generation fails, and its event is to be sent.
LEMMA NewsKept ==
    ASSUME FailuresInv, NEW t \in Threads, NEW i \in Ids, NEW g \in Gens, NEW m \in Item,
           NEW e \in Told, NEW w \in Works, NEW keep,
           work[t].at = "Running", work[t].id = i, work[t].gen = g, out[t] = None,
           Failed(m), m.gen = g, e.id = i, e.item = m,
           Becomes(i, m, keep), out' = [out EXCEPT ![t] = e], work' = [work EXCEPT ![t] = w],
           w.id = i, w.gen = g, w.document = work[t].document, w.at = "Reported", w.outcome = "Failed",
           UNCHANGED <<clock, lease, job>>,
           UNCHANGED <<wire, snapshot, document, owned, announced, told, heard, page>>
    PROVE  FailuresInv'
  <1>f. /\ FailuresType /\ Apart /\ ReceiptsOK /\ StoredOK
        /\ \A u \in Threads : WorkOK(u) /\ work[u] \in Works /\ work[u].gen \in Nat
        /\ \A k \in Ids : JobOK(k) /\ job[k] \in Jobs
        /\ None \notin Told
    BY Found
  <1>1. work'[t] = w /\ \A u \in Threads \ {t} : work'[u] = work[u]
    BY <1>f DEF FailuresType
  <1>2. out'[t] = e /\ e # None /\ \A u \in Threads \ {t} : out'[u] = out[u]
    BY <1>f DEF FailuresType
  <1>3. /\ entries' \in [Ids -> Item \cup {None}] /\ DOMAIN expired' = Ids /\ entries'[i] = m
        /\ \A j \in Ids \ {i} : entries'[j] = None \/ (entries'[j] = entries[j] /\ j \in Fresh)
    BY <1>f, BecomesKeeps
  <1>4. FailuresType'
    <2>1. out' \in [Threads -> Told \cup {None}] /\ work' \in [Threads -> Works]
      BY <1>f DEF FailuresType
    <2> QED BY <1>f, <1>3, <2>1, BackstageType DEF FailuresType
  <1>5. \A k \in Ids, h \in Gens :
           InStore(k, h)' => (k = i /\ h = g) \/ (InStore(k, h) /\ k \in Fresh)
    BY <1>3 DEF InStore, Failed
  <1>6. \A k \in Ids, h \in Gens : InOut(k, h)' <=> InOut(k, h) \/ (k = i /\ h = g)
    <2>1. \A k \in Ids, h \in Gens : /\ IsFailure(e, k, h) <=> (k = i /\ h = g)
                                     /\ ~IsFailure(None, k, h)
      BY <1>2 DEF IsFailure
    <2>2. \A k \in Ids, h \in Gens :
             InOut(k, h) <=> \E u \in Threads \ {t} : IsFailure(out[u], k, h)
      BY <2>1 DEF InOut
    <2>3. \A k \in Ids, h \in Gens :
             InOut(k, h)' <=> IsFailure(e, k, h) \/ \E u \in Threads \ {t} : IsFailure(out[u], k, h)
      BY <1>2 DEF InOut, IsFailure
    <2> QED BY <2>1, <2>2, <2>3
  <1>7. \A k \in Ids, h \in Gens : Trace(k, h)' => Trace(k, h) \/ (k = i /\ h = g)
    BY <1>5, <1>6 DEF Trace, OnWire
  <1>8. NewsOf(g) /\ g \notin owned /\ g <= clock /\ g \in Nat /\ clock \in Nat
    <2>1. WorkOK(t) /\ g \in Nat /\ clock \in Nat
      BY <1>f, ProgressAssumption DEF FailuresType, Gens
    <2>2. g \notin owned /\ g <= clock
      BY <2>1 DEF WorkOK
    <2>3. NewsOf(g)
      BY <1>7 DEF NewsOf
    <2> QED BY <2>1, <2>2, <2>3
  <1>9. ASSUME NEW u \in Threads PROVE WorkOK(u)'
    <2>1. CASE u # t
      <3>1. SameWork(u) /\ work[u].gen # 0 => work[u].gen # g
        BY <1>f, <1>1, <2>1 DEF SameWork, Apart, GensApart
      <3>2. work[u].at # "Idle" => SameJob(work[u].id)
        BY DEF SameJob
      <3>3. SameWork(u)
        BY <1>1, <2>1 DEF SameWork
      <3> QED BY <1>8, <3>1, <3>2, <3>3, WorkKept
    <2>2. CASE u = t
      <3>1. WorkOK(t) /\ g # 0
        BY <1>f DEF Gens
      <3>2. w.document <= document /\ g <= clock /\ g \notin owned
        BY <3>1 DEF WorkOK
      <3>3. w.document = document => /\ job[i].at = "Invoked" /\ job[i].reply = None
                                     /\ Silent(g) /\ \A k \in Ids : Trace(k, g) => k = i
        BY <3>1 DEF WorkOK
      <3>4. w.document = document => Silent(g)' /\ \A k \in Ids : Trace(k, g)' => k = i
        BY <1>7, <3>3 DEF Silent
      <3>5. w.outcome \in JobOutcomes
        BY DEF JobOutcomes
      <3> QED BY <1>1, <2>2, <3>2, <3>3, <3>4, <3>5 DEF WorkOK
    <2> QED BY <2>1, <2>2
  <1>10. ASSUME NEW k \in Ids PROVE JobOK(k)'
    <2>1. SameJob(k) /\ (job[k].reply # None /\ job[k].reply.gen # 0 => job[k].reply.gen # g)
      BY <1>f DEF SameJob, Apart, Answered
    <2> QED BY <1>8, <2>1, JobKept DEF Started
  <1>11. ReceiptsOK'
    <2>1. JobsGoOn
      BY DEF JobsGoOn
    <2> QED BY <1>8, <2>1, ReceiptsKept
  <1>12. StoredOK'
    <2>1. page' = "Ready" => snapshot' = {}
      BY <1>f DEF StoredOK
    <2>2. ASSUME page' \in {"Answered", "Ready"}, NEW k \in Fresh', NEW h \in Gens, InStore(k, h)'
          PROVE  h \in heard' \/ <<k, h>> \in snapshot' \/ InOut(k, h)' \/ OnWire(k, h)'
      <3>1. k \in Ids
        BY <2>2 DEF Fresh, Present
      <3>2. CASE k = i /\ h = g
        BY <1>6, <3>1, <3>2
      <3>3. CASE InStore(k, h) /\ k \in Fresh
        <4>1. h \in heard \/ <<k, h>> \in snapshot \/ InOut(k, h) \/ OnWire(k, h)
          BY <1>f, <2>2, <3>3 DEF StoredOK
        <4> QED BY <1>6, <3>1, <4>1 DEF OnWire
      <3> QED BY <1>5, <2>2, <3>1, <3>2, <3>3
    <2> QED BY <2>1, <2>2 DEF StoredOK
  <1>13. Apart'
    <2>1. GensApart' /\ IdsApart'
      BY <1>f, <1>1 DEF Apart, GensApart, IdsApart
    <2>2. Answered'
      BY <1>f, <1>1 DEF Apart, Answered
    <2>3. RepliesApart'
      BY <1>f DEF Apart, RepliesApart
    <2> QED BY <2>1, <2>2, <2>3 DEF Apart
  <1> QED BY <1>4, <1>9, <1>10, <1>11, <1>12, <1>13 DEF FailuresInv

\* The workflow reports its outcome, whatever the store makes of it.
LEMMA ReportKept ==
    ASSUME FailuresInv, NEW t \in Threads, NEW outcome \in Outcomes, ReportDownload(t, outcome)
    PROVE  FailuresInv'
  <1>f. /\ FailuresType /\ WorkOK(t) /\ work[t] \in Works /\ None \notin Item /\ None \notin Told
    BY Found
  <1>o. outcome \in JobOutcomes /\ outcome \in States /\ outcome # "Running"
    BY ProgressAssumption DEF JobOutcomes, States
  <1> DEFINE w == [work[t] EXCEPT !.at = "Reported", !.outcome = outcome]
             p == IF outcome = "Succeeded" THEN Full ELSE 0
  <1>1. /\ work' = [work EXCEPT ![t] = w] /\ work[t].at = "Running" /\ out[t] = None
        /\ Transition(t, lease[t], p, outcome) /\ lease' = lease /\ clock' = clock /\ job' = job
        /\ UNCHANGED <<wire, snapshot, document, owned, announced, told, heard, page>>
    BY <1>f DEF ReportDownload, Report, Transition, Here, receipts, FailuresType
  <1>2. /\ w \in Works /\ w.id = work[t].id /\ w.document = work[t].document /\ w.gen = work[t].gen
        /\ w.at = "Reported" /\ w.outcome = outcome
    BY <1>f, <1>o DEF Works
  <1> HIDE DEF w
  <1>3. PICK i \in Ids, g \in Gens : /\ work[t].id = i /\ work[t].gen = g
                                     /\ lease[t] = [id |-> i, gen |-> g]
    BY <1>f, <1>1 DEF WorkOK
  <1>4. p \in 0 .. Full /\ Sanitize(p) = p
    BY ProgressAssumption DEF Sanitize
  <1> HIDE DEF p
  <1>5. work' \in [Threads -> Works] /\ \A k \in Ids : SameJob(k)
    BY <1>f, <1>1, <1>2 DEF FailuresType, SameJob
  <1>6. work[t].document = document => ~Seen(g)
    BY <1>f, <1>1, <1>3 DEF WorkOK, Gens
  <1>7. ASSUME StoreCalm, OutCalm, entries' \in [Ids -> Item \cup {None}], DOMAIN expired' = Ids,
               out' \in [Threads -> Told \cup {None}]
        PROVE  FailuresInv'
    <2>1. FailuresType'
      BY <1>f, <1>1, <1>5, <1>7, BackstageType DEF FailuresType
    <2>2. w.gen # 0 /\ w.document = document /\ Seen(w.gen) => w.at = "Reported" /\ w.outcome = "Failed"
      BY <1>2, <1>3, <1>6
    <2> QED BY <1>1, <1>2, <1>5, <1>7, <1>o, <2>1, <2>2, NativeMoves
  <1> DEFINE m == Moved(lease[t], p, outcome)
             e == [id |-> i, item |-> m, cleared |-> FALSE]
  <1>8. CASE ~Current(lease[t])
    <2>1. Becomes(None, None, FreshBut(None)) /\ out' = out
      BY <1>1, <1>8 DEF Transition
    <2>2. ~Failed(None)
      BY DEF Failed
    <2>3. entries' \in [Ids -> Item \cup {None}] /\ DOMAIN expired' = Ids /\ StoreCalm
      BY <1>f, <2>1, <2>2, BecomesCalm
    <2> QED BY <1>7, <1>f, <2>1, <2>3 DEF OutCalm, FailuresType
  <1>9. ASSUME Current(lease[t]) PROVE FailuresInv'
    <2>1. /\ entries[i] \in Item /\ i \in Fresh /\ entries[i].gen = g
          /\ Becomes(i, m, FreshBut(i))
          /\ out' = IF m = entries[i] THEN out ELSE [out EXCEPT ![t] = e]
      BY <1>f, <1>1, <1>3, <1>9 DEF Transition, Current, Fresh, Present, FailuresType
    <2>2. CASE Terminal(entries[i])
      <3>1. m = entries[i]
        BY <1>3, <2>2 DEF Moved
      <3>2. out' = out
        BY <2>1, <3>1
      <3>3. /\ entries' \in [Ids -> Item \cup {None}] /\ DOMAIN expired' = Ids
            /\ \A j \in Ids : IF j = i THEN entries'[j] = entries[i]
                              ELSE entries'[j] = None \/ (entries'[j] = entries[j] /\ j \in Fresh)
        BY <1>f, <2>1, <3>1, BecomesKeeps
      <3>4. StoreCalm
        BY <2>1, <3>3 DEF StoreCalm, Failed
      <3> QED BY <1>7, <1>f, <3>2, <3>3, <3>4 DEF OutCalm, FailuresType
    <2>3. CASE ~Terminal(entries[i])
      <3>1. /\ m.gen = g /\ m.state = outcome /\ m \in Item
        <4>1. m = [gen |-> g, progress |-> IF p > entries[i].progress THEN p ELSE entries[i].progress,
                   state |-> outcome]
          BY <1>3, <1>4, <2>3 DEF Moved
        <4>2. entries[i].progress \in 0 .. Full
          BY <2>1 DEF Item
        <4> QED BY <1>4, <1>o, <4>1, <4>2 DEF Item
      <3> HIDE DEF m
      <3>2. m # entries[i] /\ (Failed(m) <=> outcome = "Failed")
        BY <1>f, <1>o, <2>3, <3>1 DEF Terminal, Failed
      <3>3. e \in Told /\ e.id = i /\ e.item = m /\ e # None
        <4>1. e.id = i /\ e.item = m /\ e \in Told
          BY <3>1 DEF Told
        <4> QED BY <1>f, <4>1
      <3> HIDE DEF e
      <3>4. out' = [out EXCEPT ![t] = e] /\ out' \in [Threads -> Told \cup {None}]
        BY <1>f, <2>1, <3>2, <3>3 DEF FailuresType
      <3>5. CASE outcome = "Failed"
        <4>1. w.id = i /\ w.gen = g /\ w.outcome = "Failed" /\ Failed(m)
          BY <1>2, <1>3, <3>2, <3>5
        <4>2. UNCHANGED <<clock, lease, job>>
          BY <1>1
        <4> QED BY <1>1, <1>2, <1>3, <2>1, <3>1, <3>3, <3>4, <4>1, <4>2, NewsKept
      <3>6. CASE outcome # "Failed"
        <4>1. entries' \in [Ids -> Item \cup {None}] /\ DOMAIN expired' = Ids /\ StoreCalm
          BY <1>f, <2>1, <3>1, <3>2, <3>6, BecomesCalm
        <4>2. OutCalm
          BY <1>f, <1>1, <3>2, <3>3, <3>4, <3>6 DEF OutCalm, FailuresType
        <4> QED BY <1>7, <3>4, <4>1, <4>2
      <3> QED BY <3>5, <3>6
    <2> QED BY <2>2, <2>3
  <1> QED BY <1>8, <1>9

-----------------------------------------------------------------------------
(* Events, the snapshot and what the document does with them.               *)

\* Steps of events and pages that show no failure.
LEMMA QuietKept ==
    ASSUME FailuresInv, FailuresType', NoNews, StoredOK',
           UNCHANGED <<work, lease, job, clock, document, owned, announced, told, heard>>,
           Started => Started'
    PROVE  FailuresInv'
  <1>1. /\ NewsOf(0) /\ 0 \in Nat /\ 0 \notin owned /\ 0 <= clock /\ clock' \in Nat /\ clock <= clock'
        /\ Apart
    BY DEF NoNews, NewsOf, Gens, FailuresInv, FailuresType
  <1>2. (\A t \in Threads : SameWork(t)) /\ (\A i : SameJob(i)) /\ JobsGoOn
    BY DEF SameWork, SameJob, JobsGoOn
  <1>3. \A t \in Threads : WorkOK(t)'
    BY <1>1, <1>2, WorkKept
  <1>4. \A i \in Ids : JobOK(i)'
    BY <1>1, <1>2, JobKept
  <1>5. ReceiptsOK'
    BY <1>1, <1>2, ReceiptsKept
  <1>6. Apart'
    BY <1>1 DEF Apart, GensApart, IdsApart, Answered, RepliesApart
  <1> QED BY <1>3, <1>4, <1>5, <1>6 DEF FailuresInv

\* An event leaves its thread; a document that listens has it coming.
LEMMA SendKept ==
    ASSUME FailuresInv, NEW t \in Threads, SendEvent(t)
    PROVE  FailuresInv'
  <1>f. FailuresType /\ StoredOK /\ None \notin Told
    BY Found
  <1>1. /\ out[t] # None /\ out' = [out EXCEPT ![t] = None]
        /\ wire' = IF Listening THEN Append(wire, out[t]) ELSE wire
        /\ UNCHANGED <<entries, expired, clock, lease, work, document, page, snapshot, job>>
        /\ UNCHANGED <<owned, announced, told, heard>>
    BY DEF SendEvent, Emit, receipts, store
  <1>2. PICK e \in Told : e = out[t]
    BY <1>f, <1>1 DEF FailuresType
  <1>3. out'[t] = None /\ \A u \in Threads \ {t} : out'[u] = out[u]
    BY <1>f, <1>1 DEF FailuresType
  <1>4. \A i \in Ids, g \in Gens : InOut(i, g) <=> InOut(i, g)' \/ IsFailure(e, i, g)
    <2>1. \A i \in Ids, g \in Gens : ~IsFailure(None, i, g)
      BY DEF IsFailure
    <2>2. \A i \in Ids, g \in Gens :
             InOut(i, g)' <=> \E u \in Threads \ {t} : IsFailure(out[u], i, g)
      BY <1>3, <2>1 DEF InOut, IsFailure
    <2>3. \A i \in Ids, g \in Gens :
             InOut(i, g) <=> IsFailure(e, i, g) \/ \E u \in Threads \ {t} : IsFailure(out[u], i, g)
      BY <1>2 DEF InOut
    <2> QED BY <2>2, <2>3
  <1>5. \A i \in Ids, g \in Gens :
           /\ OnWire(i, g)' => OnWire(i, g) \/ IsFailure(e, i, g)
           /\ OnWire(i, g) => OnWire(i, g)'
           /\ Listening /\ IsFailure(e, i, g) => OnWire(i, g)'
    <2>1. CASE ~Listening
      BY <1>1, <2>1 DEF OnWire
    <2>2. CASE Listening
      <3>1. wire' = Append(wire, e) /\ wire \in Seq(Told)
        BY <1>f, <1>1, <1>2, <2>2 DEF FailuresType
      <3>2. \A i \in Ids, g \in Gens :
               Carries(Append(wire, e), i, g) <=> Carries(wire, i, g) \/ IsFailure(e, i, g)
        BY <3>1, CarriesAppend
      <3> QED BY <3>1, <3>2 DEF OnWire
    <2> QED BY <2>1, <2>2
  <1>6. NoNews
    BY <1>1, <1>4, <1>5 DEF NoNews, Trace, InStore
  <1>7. FailuresType'
    <2>1. wire' \in Seq(Told) /\ out' \in [Threads -> Told \cup {None}]
      BY <1>f, <1>1, <1>2 DEF FailuresType
    <2> QED BY <1>f, <1>1, <2>1 DEF FailuresType
  <1>8. StoredOK'
    <2>1. Fresh' = Fresh /\ Fresh \subseteq Ids /\ \A i, g : InStore(i, g)' <=> InStore(i, g)
      BY <1>1 DEF Fresh, Present, InStore
    <2> QED BY <1>f, <1>1, <1>4, <1>5, <2>1 DEF StoredOK, Listening
  <1> QED BY <1>1, <1>6, <1>7, <1>8, QuietKept DEF Started

\* The document subscribes, or cannot.
LEMMA SubscribeKept ==
    ASSUME FailuresInv, Subscribe \/ SubscribeFails
    PROVE  FailuresInv'
  <1>f. FailuresType /\ StoredOK
    BY Found
  <1>1. /\ page = "Loading" /\ page' \in {"Listening", "Deaf"}
        /\ UNCHANGED <<entries, expired, clock, out, lease, work, document, snapshot, wire, job>>
        /\ UNCHANGED <<owned, announced, told, heard>>
    BY DEF Subscribe, SubscribeFails, receipts, vars, store
  <1>2. NoNews
    BY <1>1 DEF NoNews, Trace, InStore, InOut, OnWire
  <1>3. FailuresType'
    BY <1>f, <1>1 DEF FailuresType, Pages
  <1>4. StoredOK'
    BY <1>1 DEF StoredOK
  <1> QED BY <1>1, <1>2, <1>3, <1>4, QuietKept DEF Started

\* The snapshot holds what the store has of failures.
LEMMA AskKept ==
    ASSUME FailuresInv, AskSnapshot
    PROVE  FailuresInv'
  <1>f. FailuresType /\ StoredOK
    BY Found
  <1>1. /\ page = "Listening" /\ Becomes(None, None, FreshBut(None))
        /\ snapshot' = {<<i, entries[i].gen>> : i \in {j \in Fresh : entries[j].state = "Failed"}}
        /\ page' = IF snapshot' = {} THEN "Ready" ELSE "Answered"
        /\ UNCHANGED <<clock, out, lease, work, document, wire, job, owned, announced, told, heard>>
    BY DEF AskSnapshot, FailedSnapshot, receipts
  <1>2. /\ entries' \in [Ids -> Item \cup {None}] /\ DOMAIN expired' = Ids /\ StoreCalm
    BY <1>f, <1>1, BecomesCalm DEF Failed
  <1>3. \A i \in Ids, g \in Gens : <<i, g>> \in snapshot' => InStore(i, g)
    BY <1>1 DEF InStore, Failed, Fresh, Present
  <1>4. \A i \in Ids, g \in Gens : InStore(i, g) /\ i \in Fresh => <<i, g>> \in snapshot'
    BY <1>1 DEF InStore, Failed
  <1>5. \A i \in Ids, g \in Gens : InStore(i, g)' => InStore(i, g) /\ (i \in Fresh' => i \in Fresh)
    BY <1>2 DEF InStore, StoreCalm
  <1>6. NoNews
    BY <1>1, <1>3, <1>5 DEF NoNews, Trace, InOut, OnWire
  <1>7. FailuresType'
    <2>1. snapshot' \subseteq Ids \X Gens
      <3>1. \A i \in Fresh : i \in Ids /\ entries[i].gen \in Gens
        BY <1>f DEF Fresh, Present, FailuresType, Item
      <3> QED BY <1>1, <3>1
    <2>2. page' \in Pages
      BY <1>1 DEF Pages
    <2> QED BY <1>f, <1>1, <1>2, <2>1, <2>2 DEF FailuresType
  <1>8. StoredOK'
    <2>1. page' = "Ready" => snapshot' = {}
      BY <1>1
    <2>2. Fresh' \subseteq Ids
      BY DEF Fresh, Present
    <2> QED BY <1>4, <1>5, <2>1, <2>2 DEF StoredOK
  <1> QED BY <1>1, <1>6, <1>7, <1>8, QuietKept DEF Started

\* A snapshot that is rejected shows nothing.
LEMMA RejectionKept ==
    ASSUME FailuresInv, SnapshotRejected
    PROVE  FailuresInv'
  <1>f. FailuresType
    BY Found
  <1>1. /\ page = "Listening" /\ page' = "Blind"
        /\ FailedSnapshot \/ UNCHANGED <<entries, expired>>
        /\ UNCHANGED <<clock, out, lease, work, document, snapshot, wire, job>>
        /\ UNCHANGED <<owned, announced, told, heard>>
    BY DEF SnapshotRejected, FailedSnapshot, receipts, vars, store
  <1>2. /\ entries' \in [Ids -> Item \cup {None}] /\ DOMAIN expired' = Ids /\ StoreCalm
    <2>1. CASE FailedSnapshot
      BY <1>f, <2>1, BecomesCalm DEF FailedSnapshot, Failed
    <2>2. CASE UNCHANGED <<entries, expired>>
      BY <1>f, <2>2, StoreRests DEF FailuresType
    <2> QED BY <1>1, <2>1, <2>2
  <1>3. \A i \in Ids, g \in Gens : InStore(i, g)' => InStore(i, g)
    BY <1>2 DEF InStore, StoreCalm
  <1>4. NoNews
    BY <1>1, <1>3 DEF NoNews, Trace, InOut, OnWire
  <1>5. FailuresType'
    BY <1>f, <1>1, <1>2 DEF FailuresType, Pages
  <1>6. StoredOK'
    BY <1>1 DEF StoredOK
  <1> QED BY <1>1, <1>4, <1>5, <1>6, QuietKept DEF Started

\* Nothing has failed that had not.
SeenBefore == \A g \in Gens : Seen(g)' => Seen(g)

\* A workflow while the document tells of other generations.
LEMMA TellWork ==
    ASSUME FailuresInv, NEW t \in Threads, NoNews, SeenBefore,
           UNCHANGED <<work, lease, document, clock>>, work[t].gen \notin owned',
           work[t].at # "Idle" /\ work[t].document = document =>
              /\ job'[work[t].id].at = job[work[t].id].at
              /\ job'[work[t].id].reply = job[work[t].id].reply
              /\ work[t].gen # 0 => Silent(work[t].gen)'
    PROVE  WorkOK(t)'
  <1>1. WorkOK(t)
    BY Found
  <1>2. \A g : Silent(g) => g \in Gens
    BY DEF Silent
  <1> QED BY <1>1, <1>2 DEF WorkOK, NoNews, SeenBefore

\* A job while the document tells of other generations.
LEMMA TellJob ==
    ASSUME FailuresInv, NEW i \in Ids, NoNews, SeenBefore, clock' = clock,
           Started => Started',
           job'[i].at = job[i].at, job'[i].ticket = job[i].ticket, job'[i].reply = job[i].reply,
           ~job[i].ticket => job'[i].failures = job[i].failures,
           job[i].reply # None /\ job[i].reply.gen # 0 =>
              Silent(job[i].reply.gen)' /\ (job[i].reply.gen \in owned' <=> job[i].reply.gen \in owned)
    PROVE  JobOK(i)'
  <1>1. JobOK(i)
    BY Found
  <1>2. \A g : Silent(g) => g \in Gens
    BY DEF Silent
  <1> QED BY <1>1, <1>2 DEF JobOK, NoNews, SeenBefore

\* A failure that no rejection will tell of, where nobody waits for it.
LEMMA NotPending ==
    ASSUME FailuresInv, NEW i \in Ids, NEW g \in Gens, Trace(i, g), ~Buffers(i)
    PROVE  /\ \A t \in Threads : work[t].at # "Idle" /\ work[t].document = document => work[t].gen # g
           /\ \A k \in Ids : job[k].reply # None => job[k].reply.gen # g
  <1>0. g # 0
    BY DEF Gens
  <1>1. ASSUME NEW t \in Threads, work[t].at # "Idle", work[t].document = document, work[t].gen = g
        PROVE  FALSE
    <2>1. WorkOK(t)
      BY Found
    <2>2. work[t].id = i /\ job[i].at = "Invoked"
      BY <1>0, <1>1, <2>1 DEF WorkOK
    <2>3. JobOK(i)
      BY Found
    <2> QED BY <2>2, <2>3 DEF JobOK, Buffers
  <1>2. ASSUME NEW k \in Ids, job[k].reply # None, job[k].reply.gen = g
        PROVE  FALSE
    <2>1. JobOK(k) /\ job[k].at \in {"None", "Preparing", "Invoked", "Clearing"}
      BY Found DEF Jobs
    <2>2. k = i
      BY <1>0, <1>2, <2>1 DEF JobOK
    <2> QED BY <1>0, <1>2, <2>1, <2>2 DEF JobOK, Buffers
  <1> QED BY <1>1, <1>2

\* What announcing leaves of the receipts.
LEMMA AnnounceTells ==
    ASSUME FailuresInv, NEW i, NEW G \in SUBSET Gens, NEW own \in SUBSET Gens, Announce(i, G, own)
    PROVE  /\ announced' = announced \cup (G \ (owned \cup announced))
           /\ announced' \subseteq Gens /\ told' \in [Gens -> Nat]
           /\ \A g \in Gens : told[g] \in Nat
           /\ \A g \in Gens \ own : g \in G \ (owned \cup announced) => told'[g] = 1
           /\ \A g \in Gens \ own : g \notin G \ (owned \cup announced) => told'[g] = told[g]
           /\ \A g \in own \cap owned : told'[g] = told[g] + 1
  <1>1. announced \subseteq Gens /\ (\A g \in Gens : told[g] \in Nat) /\ ReceiptsOK
    BY Found DEF FailuresType
  <1>2. /\ announced' = announced \cup (G \ (owned \cup announced))
        /\ told' = [g \in Gens |-> told[g] + (IF g \in G \ (owned \cup announced) THEN 1 ELSE 0)
                                           + (IF g \in own THEN 1 ELSE 0)]
    BY DEF Announce, Unreported
  <1>3. \A g \in Gens : g \notin owned \cup announced => told[g] = 0
    BY <1>1 DEF ReceiptsOK
  <1> QED BY <1>1, <1>2, <1>3

\* A failure reaches the document, by an event or in the snapshot.
LEMMA ObserveKept ==
    ASSUME FailuresInv, NEW i \in Ids, NEW g \in Gens, ObserveFailure(i, g),
           OnWire(i, g) \/ <<i, g>> \in snapshot,
           UNCHANGED <<entries, expired, clock, out, lease, work, document>>,
           wire' \in Seq(Told), snapshot' \subseteq Ids \X Gens, page' \in Pages,
           \A k \in Ids, h \in Gens : /\ OnWire(k, h)' => OnWire(k, h)
                                      /\ OnWire(k, h) => OnWire(k, h)' \/ (k = i /\ h = g)
                                      /\ <<k, h>> \in snapshot' => <<k, h>> \in snapshot
                                      /\ <<k, h>> \in snapshot => <<k, h>> \in snapshot' \/ (k = i /\ h = g),
           page' = "Ready" => snapshot' = {}, Started => Started',
           page' \in {"Answered", "Ready"} => page \in {"Answered", "Ready"}
    PROVE  FailuresInv'
  <1>f. /\ FailuresType /\ Apart /\ ReceiptsOK /\ StoredOK
        /\ \A u \in Threads : WorkOK(u) /\ work[u] \in Works /\ work[u].gen \in Nat
        /\ \A k \in Ids : JobOK(k) /\ job[k] \in Jobs
    BY Found
  <1>1. Trace(i, g) /\ heard' = heard \cup {g} /\ owned' = owned
    BY DEF Trace, ObserveFailure
  <1>2. Seen(g) /\ g <= clock
    BY <1>f, <1>1 DEF Seen, ReceiptsOK
  <1>3. StoredOK'
    <2>1. Fresh' = Fresh /\ Fresh \subseteq Ids
      BY DEF Fresh, Present
    <2>2. \A k, h : /\ InStore(k, h)' <=> InStore(k, h)
                    /\ InOut(k, h)' <=> InOut(k, h)
      BY DEF InStore, InOut
    <2> QED BY <1>f, <1>1, <2>1, <2>2 DEF StoredOK
  <1>4. \A u \in Threads : work[u].gen \notin owned'
    BY <1>f, <1>1 DEF WorkOK
  <1>5. \A u \in Threads : work[u].at # "Idle" /\ work[u].document = document =>
           work[u].id \in Ids /\ (work[u].gen # 0 => Silent(work[u].gen))
    BY <1>f DEF WorkOK
  <1>6. \A k \in Ids : job[k].reply # None /\ job[k].reply.gen # 0 => Silent(job[k].reply.gen)
    BY <1>f DEF JobOK
  <1>7. CASE Buffers(i)
    <2>1. /\ job' = [job EXCEPT ![i].failures = @ \cup {g}]
          /\ UNCHANGED <<announced, told>>
      BY <1>7 DEF ObserveFailure
    <2>2. /\ \A k \in Ids : /\ job'[k].at = job[k].at /\ job'[k].ticket = job[k].ticket
                            /\ job'[k].reply = job[k].reply
                            /\ job'[k].failures = IF k = i THEN job[i].failures \cup {g}
                                                  ELSE job[k].failures
          /\ job' \in [Ids -> Jobs]
      <3> DEFINE j == [job[i] EXCEPT !.failures = @ \cup {g}]
      <3>1. /\ j.at = job[i].at /\ j.ticket = job[i].ticket /\ j.reply = job[i].reply
            /\ j.failures = job[i].failures \cup {g} /\ j \in Jobs
        BY <1>f DEF Jobs
      <3>2. job' = [job EXCEPT ![i] = j]
        BY <2>1
      <3> HIDE DEF j
      <3> QED BY <1>f, <3>1, <3>2 DEF FailuresType
    <2>3. NoNews
      BY <1>1, <2>2 DEF NoNews, Trace, InStore, InOut
    <2>4. SeenBefore
      BY <1>1, <1>2, <2>3 DEF SeenBefore, Seen, NoNews
    <2>5. \A h : Silent(h) => Silent(h)'
      BY <2>1 DEF Silent
    <2>6. \A u \in Threads : WorkOK(u)'
      BY <1>4, <1>5, <2>2, <2>3, <2>4, <2>5, TellWork
    <2>7. \A k \in Ids : ~job[k].ticket => job'[k].failures = job[k].failures
      BY <1>7, <2>2 DEF Buffers
    <2>8. \A k \in Ids : JobOK(k)'
      BY <1>1, <1>6, <2>2, <2>3, <2>4, <2>5, <2>7, TellJob
    <2>9. Apart'
      <3>1. GensApart' /\ IdsApart'
        BY <1>f DEF Apart, GensApart, IdsApart
      <3>2. Answered /\ RepliesApart /\ \A k \in Ids : job'[k].reply = job[k].reply
        BY <1>f, <2>2 DEF Apart
      <3>3. Answered'
        BY <3>2 DEF Answered
      <3>4. RepliesApart'
        BY <3>2 DEF RepliesApart
      <3> QED BY <3>1, <3>3, <3>4 DEF Apart
    <2>10. ReceiptsOK'
      <3>1. \A h \in Gens : Rejecting(h) => Rejecting(h)'
        BY <2>2 DEF Rejecting
      <3>2. \A h \in Gens : (\E k \in Ids : h \in job[k].failures) \/ h = g
               => \E k \in Ids : h \in job'[k].failures
        BY <2>2
      <3> QED BY <1>f, <1>1, <2>1, <2>4, <3>1, <3>2 DEF ReceiptsOK, SeenBefore
    <2>11. FailuresType'
      BY <1>f, <1>1, <2>1, <2>2 DEF FailuresType
    <2> QED BY <1>3, <2>6, <2>8, <2>9, <2>10, <2>11 DEF FailuresInv
  <1>8. CASE ~Buffers(i)
    <2>1. Announce(i, {g}, {}) /\ job' = job
      BY <1>8 DEF ObserveFailure
    <2>2. /\ announced' = announced \cup ({g} \ (owned \cup announced))
          /\ announced' \subseteq Gens /\ told' \in [Gens -> Nat]
          /\ \A h \in Gens : h \in {g} \ (owned \cup announced) => told'[h] = 1
          /\ \A h \in Gens : h \notin {g} \ (owned \cup announced) => told'[h] = told[h]
      <3>1. PICK G \in SUBSET Gens, own \in SUBSET Gens : G = {g} /\ own = {}
        OBVIOUS
      <3>2. Announce(i, G, own)
        BY <2>1, <3>1
      <3>3. /\ announced' = announced \cup (G \ (owned \cup announced))
            /\ announced' \subseteq Gens /\ told' \in [Gens -> Nat]
            /\ \A h \in Gens \ own : h \in G \ (owned \cup announced) => told'[h] = 1
            /\ \A h \in Gens \ own : h \notin G \ (owned \cup announced) => told'[h] = told[h]
        BY <3>2, AnnounceTells
      <3> QED BY <3>1, <3>3
    <2>3. NoNews
      BY <2>1 DEF NoNews, Trace, InStore, InOut
    <2>4. SeenBefore
      BY <1>1, <1>2, <2>3 DEF SeenBefore, Seen, NoNews
    <2>5. \A h : Silent(h) /\ h # g => Silent(h)'
      BY <2>2 DEF Silent
    <2>6. /\ \A u \in Threads : work[u].at # "Idle" /\ work[u].document = document => work[u].gen # g
          /\ \A k \in Ids : job[k].reply # None => job[k].reply.gen # g
      BY <1>1, <1>8, NotPending
    <2>7. \A u \in Threads : WorkOK(u)'
      BY <1>4, <1>5, <2>1, <2>3, <2>4, <2>5, <2>6, TellWork
    <2>8. \A k \in Ids : JobOK(k)'
      BY <1>1, <1>6, <2>1, <2>3, <2>4, <2>5, <2>6, TellJob
    <2>9. Apart'
      BY <1>f, <2>1 DEF Apart, GensApart, IdsApart, Answered, RepliesApart
    <2>10. ReceiptsOK'
      <3>1. \A h \in Gens : Rejecting(h)' <=> Rejecting(h)
        BY <2>1 DEF Rejecting
      <3> QED BY <1>f, <1>1, <1>2, <2>1, <2>2, <2>4, <3>1 DEF ReceiptsOK, SeenBefore
    <2>11. FailuresType'
      BY <1>f, <1>1, <2>1, <2>2 DEF FailuresType
    <2> QED BY <1>3, <2>7, <2>8, <2>9, <2>10, <2>11 DEF FailuresInv
  <1> QED BY <1>7, <1>8

\* An event is delivered.
LEMMA DeliverKept ==
    ASSUME FailuresInv, Deliver
    PROVE  FailuresInv'
  <1>f. FailuresType /\ StoredOK /\ None \notin Told /\ None \notin Item
    BY Found
  <1>1. /\ wire # <<>> /\ wire' = Tail(wire) /\ wire \in Seq(Told)
        /\ UNCHANGED <<entries, expired, clock, out, lease, work, document, page, snapshot>>
    BY <1>f DEF Deliver, vars, store, FailuresType
  <1>2. PICK e \in Told : e = Head(wire)
    BY <1>1
  <1>3. e.id \in Ids /\ e.item \in Item /\ e.item.gen \in Gens /\ ~e.cleared /\ e # None /\ e.item # None
    BY <1>f DEF Told, Item
  <1>4. \A k \in Ids, h \in Gens : OnWire(k, h) <=> IsFailure(e, k, h) \/ OnWire(k, h)'
    <2>1. \A k \in Ids, h \in Gens :
             Carries(wire, k, h) <=> IsFailure(Head(wire), k, h) \/ Carries(Tail(wire), k, h)
      BY <1>1, CarriesTail
    <2> QED BY <1>1, <1>2, <2>1 DEF OnWire
  <1>5. wire' \in Seq(Told)
    BY <1>1
  <1>6. page \in Pages /\ snapshot \subseteq Ids \X Gens /\ (page = "Ready" => snapshot = {})
    BY <1>f DEF FailuresType, StoredOK
  <1>7. CASE e.item.state = "Failed"
    <2>1. ObserveFailure(e.id, e.item.gen)
      BY <1>2, <1>3, <1>7 DEF Deliver
    <2>2. \A k \in Ids, h \in Gens : IsFailure(e, k, h) <=> (k = e.id /\ h = e.item.gen)
      BY <1>3, <1>7 DEF IsFailure, Failed
    <2>3. OnWire(e.id, e.item.gen)
      BY <1>3, <1>4, <2>2
    <2>4. \A k \in Ids, h \in Gens : /\ OnWire(k, h)' => OnWire(k, h)
                                     /\ OnWire(k, h) => OnWire(k, h)' \/ (k = e.id /\ h = e.item.gen)
      BY <1>4, <2>2
    <2> QED BY <1>1, <1>3, <1>5, <1>6, <2>1, <2>3, <2>4, ObserveKept DEF Started
  <1>8. CASE e.item.state # "Failed"
    <2>1. UNCHANGED <<job, owned, announced, told, heard>>
      BY <1>2, <1>8 DEF Deliver, receipts
    <2>2. \A k \in Ids, h \in Gens : OnWire(k, h)' <=> OnWire(k, h)
      BY <1>4, <1>8 DEF IsFailure, Failed
    <2>3. NoNews
      BY <1>1, <2>1, <2>2 DEF NoNews, Trace, InStore, InOut
    <2>4. FailuresType'
      BY <1>f, <1>1, <1>5, <2>1 DEF FailuresType
    <2>5. StoredOK'
      <3>1. Fresh' = Fresh /\ Fresh \subseteq Ids
        BY <1>1 DEF Fresh, Present
      <3>2. \A k, h : /\ InStore(k, h)' <=> InStore(k, h)
                      /\ InOut(k, h)' <=> InOut(k, h)
        BY <1>1 DEF InStore, InOut
      <3> QED BY <1>f, <1>1, <2>1, <2>2, <3>1, <3>2 DEF StoredOK
    <2> QED BY <1>1, <2>1, <2>3, <2>4, <2>5, QuietKept DEF Started
  <1> QED BY <1>7, <1>8

\* A failure of the snapshot is taken.
LEMMA TakeKept ==
    ASSUME FailuresInv, TakeSnapshot
    PROVE  FailuresInv'
  <1>f. FailuresType
    BY Found
  <1>1. /\ page = "Answered" /\ page' = IF snapshot' = {} THEN "Ready" ELSE page
        /\ UNCHANGED <<entries, expired, clock, out, lease, work, document, wire>>
    BY DEF TakeSnapshot, vars, store
  <1>2. PICK s \in snapshot : ObserveFailure(s[1], s[2]) /\ snapshot' = snapshot \ {s}
    BY DEF TakeSnapshot
  <1>3. PICK i \in Ids, g \in Gens : s = <<i, g>> /\ s[1] = i /\ s[2] = g
    BY <1>f, <1>2 DEF FailuresType
  <1>4. ObserveFailure(i, g) /\ <<i, g>> \in snapshot /\ snapshot' \subseteq Ids \X Gens
        /\ wire' \in Seq(Told) /\ page' \in Pages
    BY <1>f, <1>1, <1>2, <1>3 DEF FailuresType, Pages
  <1>5. \A k \in Ids, h \in Gens : OnWire(k, h)' <=> OnWire(k, h)
    BY <1>1 DEF OnWire
  <1>6. \A k \in Ids, h \in Gens :
           /\ <<k, h>> \in snapshot' => <<k, h>> \in snapshot
           /\ <<k, h>> \in snapshot => <<k, h>> \in snapshot' \/ (k = i /\ h = g)
    BY <1>2, <1>3
  <1>7. page' = "Ready" => snapshot' = {}
    BY <1>1
  <1> QED BY <1>1, <1>4, <1>5, <1>6, <1>7, ObserveKept DEF Started

\* The next document knows nothing; downloads of the last one go on.
LEMMA ReloadKept ==
    ASSUME FailuresInv, Reload
    PROVE  FailuresInv'
  <1>f. /\ FailuresType /\ Apart /\ ReceiptsOK
        /\ \A u \in Threads : WorkOK(u) /\ work[u] \in Works /\ work[u].gen \in Nat
    BY Found
  <1>1. /\ document' = document + 1 /\ page' = "Loading" /\ snapshot' = {} /\ wire' = <<>>
        /\ job' = [i \in Ids |-> NoJob] /\ owned' = {} /\ announced' = {} /\ heard' = {}
        /\ told' = [g \in Gens |-> 0]
        /\ UNCHANGED <<entries, expired, clock, out, lease, work>>
    BY DEF Reload, vars, store
  <1>2. /\ NoJob.at = "None" /\ NoJob.reply = None /\ NoJob.failures = {} /\ ~NoJob.ticket
        /\ NoJob \in Jobs
    BY DEF NoJob, Jobs
  <1>3. \A i \in Ids : job'[i] = NoJob
    BY <1>1
  <1>4. FailuresType'
    <2>1. wire' \in Seq(Told) /\ job' \in [Ids -> Jobs] /\ told' \in [Gens -> Nat]
      BY <1>1, <1>2
    <2> QED BY <1>f, <1>1, <2>1 DEF FailuresType, Pages
  <1>5. ASSUME NEW t \in Threads PROVE WorkOK(t)'
    <2>1. WorkOK(t) /\ document \in Nat /\ work[t].document \in Nat
      BY <1>f DEF FailuresType, Works
    <2>2. work[t].at # "Idle" => work[t].document <= document' /\ work[t].document # document'
      BY <1>1, <2>1 DEF WorkOK
    <2> QED BY <1>1, <2>1, <2>2 DEF WorkOK
  <1>6. \A i \in Ids : JobOK(i)'
    BY <1>2, <1>3 DEF JobOK
  <1>7. Apart'
    <2>1. GensApart'
      BY <1>f, <1>1 DEF Apart, GensApart
    <2>2. IdsApart'
      <3>1. \A t \in Threads : work[t].at # "Idle" => work[t].document # document'
        <4>1. ASSUME NEW t \in Threads, work[t].at # "Idle" PROVE work[t].document # document'
          <5>1. WorkOK(t) /\ document \in Nat /\ work[t].document \in Nat
            BY <1>f DEF FailuresType, Works
          <5> QED BY <1>1, <4>1, <5>1 DEF WorkOK
        <4> QED BY <4>1
      <3> QED BY <1>1, <3>1 DEF IdsApart
    <2>3. Answered' /\ RepliesApart'
      BY <1>2, <1>3 DEF Answered, RepliesApart
    <2> QED BY <2>1, <2>2, <2>3 DEF Apart
  <1>8. ReceiptsOK'
    <2>1. \A i \in Ids, g \in Gens : ~OnWire(i, g)'
      BY <1>1 DEF OnWire, Carries
    <2>2. \A g \in Gens : Seen(g)' => Seen(g)
      BY <1>1, <1>2, <1>3, <2>1 DEF Seen, Trace, InStore, InOut
    <2> QED BY <1>f, <1>1, <2>2 DEF ReceiptsOK
  <1>9. StoredOK'
    BY <1>1 DEF StoredOK
  <1> QED BY <1>4, <1>5, <1>6, <1>7, <1>8, <1>9 DEF FailuresInv

-----------------------------------------------------------------------------
(* A job is answered.                                                      *)

\* The generation of an answer is nobody else's.
LEMMA AnswerIsOwn ==
    ASSUME FailuresInv, NEW i \in Ids, job[i].reply # None
    PROVE  /\ \A t \in Threads : work[t].at # "Idle" /\ work[t].document = document => work[t].id # i
           /\ job[i].reply.gen # 0 =>
                 /\ \A t \in Threads : work[t].gen # job[i].reply.gen
                 /\ \A k \in Ids \ {i} : job[k].reply # None => job[k].reply.gen # job[i].reply.gen
  <1>1. /\ Apart
        /\ \A t \in Threads : work[t].at # "Idle" /\ work[t].document = document =>
              job[work[t].id].reply = None
    BY Found DEF WorkOK
  <1> QED BY <1>1 DEF Apart, Answered, RepliesApart

\* A rejection takes its receipt.
LEMMA RejectedKept ==
    ASSUME FailuresInv, NEW i \in Ids, JobRejected(i)
    PROVE  FailuresInv'
  <1>f. /\ FailuresType /\ Apart /\ ReceiptsOK /\ StoredOK
        /\ \A u \in Threads : WorkOK(u) /\ work[u] \in Works /\ work[u].gen \in Nat
        /\ \A k \in Ids : JobOK(k) /\ job[k] \in Jobs
        /\ \A k \in Ids : job[k].reply # None => job[k].reply \in Replies /\ job[k].reply.gen \in Nat
    BY Found
  <1> DEFINE j == [job[i] EXCEPT !.at = "Clearing"]
  <1>1. /\ job[i].at = "Invoked" /\ job[i].reply # None
        /\ owned' = owned \cup ({job[i].reply.gen} \ {0}) /\ job' = [job EXCEPT ![i] = j]
        /\ UNCHANGED <<entries, expired, clock, out, lease, work, announced, told, heard>>
        /\ UNCHANGED <<document, page, snapshot, wire>>
    BY DEF JobRejected, Keep, vars, store
  <1>2. /\ j.at = "Clearing" /\ j.ticket = job[i].ticket /\ j.reply = job[i].reply
        /\ j.failures = job[i].failures /\ j \in Jobs
    BY <1>f DEF Jobs
  <1> HIDE DEF j
  <1>3. job'[i] = j /\ job' \in [Ids -> Jobs] /\ \A k \in Ids \ {i} : job'[k] = job[k]
    BY <1>f, <1>1, <1>2 DEF FailuresType
  <1>4. PICK r \in Nat : r = job[i].reply.gen
    BY <1>f, <1>1
  <1>5. r # 0 => r \in Gens /\ Silent(r) /\ r <= clock
    BY <1>f, <1>1, <1>4 DEF JobOK, Silent
  <1>6. FailuresType'
    BY <1>f, <1>1, <1>3, <1>4, <1>5 DEF FailuresType
  <1>7. NoNews
    BY <1>1, <1>2, <1>3 DEF NoNews, Trace, InStore, InOut, OnWire
  <1>8. SeenBefore
    BY <1>1, <1>7 DEF NoNews, SeenBefore, Seen
  <1>9. \A h : Silent(h) => Silent(h)'
    BY <1>1 DEF Silent
  <1>10. /\ \A t \in Threads : work[t].at # "Idle" /\ work[t].document = document => work[t].id # i
         /\ r # 0 => /\ \A t \in Threads : work[t].gen # r
                     /\ \A k \in Ids \ {i} : job[k].reply # None => job[k].reply.gen # r
    BY <1>1, <1>4, AnswerIsOwn
  <1>11. ASSUME NEW t \in Threads PROVE WorkOK(t)'
    <2>1. WorkOK(t)
      BY <1>f
    <2>2. work[t].gen \notin owned'
      BY <1>1, <1>4, <1>10, <2>1 DEF WorkOK
    <2>3. work[t].at # "Idle" /\ work[t].document = document =>
             work[t].id \in Ids \ {i} /\ (work[t].gen # 0 => Silent(work[t].gen))
      BY <1>10, <2>1 DEF WorkOK
    <2> QED BY <1>1, <1>3, <1>7, <1>8, <1>9, <2>2, <2>3, TellWork
  <1>12. ASSUME NEW k \in Ids \ {i} PROVE JobOK(k)'
    <2>1. JobOK(k)
      BY <1>f
    <2>2. job[k].reply # None /\ job[k].reply.gen # 0 =>
             /\ Silent(job[k].reply.gen)'
             /\ job[k].reply.gen \in owned' <=> job[k].reply.gen \in owned
      BY <1>1, <1>4, <1>9, <1>10, <2>1 DEF JobOK
    <2> QED BY <1>1, <1>3, <1>7, <1>8, <2>2, TellJob DEF Started
  <1>13. JobOK(i)'
    <2>1. JobOK(i)
      BY <1>f
    <2>2. /\ Started' /\ job[i].ticket
          /\ r # 0 => (\A k \in Ids : Trace(k, r) => k = i) /\ (Seen(r) => job[i].reply.outcome = "Failed")
      BY <1>1, <1>4, <2>1 DEF JobOK, Started
    <2>3. r # 0 => /\ Silent(r)' /\ r \in owned' /\ r <= clock'
                   /\ \A k \in Ids : Trace(k, r)' => k = i
                   /\ Seen(r)' => job[i].reply.outcome = "Failed"
      BY <1>1, <1>4, <1>5, <1>7, <1>8, <1>9, <2>2 DEF NoNews, SeenBefore
    <2> QED BY <1>1, <1>2, <1>3, <1>4, <2>2, <2>3 DEF JobOK
  <1>14. Apart'
    <2>1. Answered /\ RepliesApart /\ \A k \in Ids : job'[k].reply = job[k].reply
      BY <1>f, <1>2, <1>3 DEF Apart
    <2>2. GensApart' /\ IdsApart'
      BY <1>f, <1>1 DEF Apart, GensApart, IdsApart
    <2>3. Answered'
      BY <1>1, <2>1 DEF Answered
    <2>4. RepliesApart'
      BY <2>1 DEF RepliesApart
    <2> QED BY <2>2, <2>3, <2>4 DEF Apart
  <1>15. ReceiptsOK'
    <2>1. \A h \in Gens : (Rejecting(h) => Rejecting(h)') /\ (h = r => Rejecting(h)')
      BY <1>1, <1>2, <1>3, <1>4 DEF Rejecting
    <2>2. \A h \in Gens : (\E k \in Ids : h \in job[k].failures) => \E k \in Ids : h \in job'[k].failures
      BY <1>2, <1>3
    <2>3. \A h \in Gens : h \in owned' <=> h \in owned \/ h = r
      BY <1>1, <1>4 DEF Gens
    <2>4. r \in Gens => r \notin announced /\ told[r] = 0 /\ r <= clock
      BY <1>5 DEF Silent, Gens
    <2> QED BY <1>f, <1>1, <1>8, <2>1, <2>2, <2>3, <2>4 DEF ReceiptsOK, SeenBefore
  <1>16. StoredOK'
    <2>1. Fresh' = Fresh /\ Fresh \subseteq Ids
      BY <1>1 DEF Fresh, Present
    <2>2. \A k, h : /\ InStore(k, h)' <=> InStore(k, h)
                    /\ InOut(k, h)' <=> InOut(k, h)
                    /\ OnWire(k, h)' <=> OnWire(k, h)
      BY <1>1 DEF InStore, InOut, OnWire
    <2> QED BY <1>f, <1>1, <2>1, <2>2 DEF StoredOK
  <1> QED BY <1>6, <1>11, <1>12, <1>13, <1>14, <1>15, <1>16 DEF FailuresInv

\* The entry is released: what waited for it is announced, and the rejection
\* tells of its own failure.
LEMMA SettleKept ==
    ASSUME FailuresInv, NEW i \in Ids, NEW own \in SUBSET Gens, Settle(i, own),
           job[i].reply # None,
           own # {} => job[i].at = "Clearing",
           \A g \in Gens : g \in own => g = job[i].reply.gen,
           job[i].at = "Clearing" /\ job[i].reply.outcome = "Failed" /\ job[i].reply.gen # 0
              => job[i].reply.gen \in own,
           UNCHANGED <<entries, expired, clock, out, lease, work>>,
           UNCHANGED <<document, page, snapshot, wire>>
    PROVE  FailuresInv'
  <1>f. /\ FailuresType /\ Apart /\ ReceiptsOK /\ StoredOK
        /\ \A u \in Threads : WorkOK(u) /\ work[u] \in Works /\ work[u].gen \in Nat
        /\ \A k \in Ids : JobOK(k) /\ job[k] \in Jobs
        /\ \A k \in Ids : job[k].reply # None => job[k].reply \in Replies /\ job[k].reply.gen \in Nat
    BY Found
  <1>1. PICK F \in SUBSET Gens : F = job[i].failures
    BY <1>f DEF Jobs
  <1>2. /\ job' = [job EXCEPT ![i] = NoJob] /\ Announce(i, F, own)
        /\ owned' = owned /\ heard' = heard
    BY <1>1 DEF Settle, Flush
  <1>3. PICK N \in SUBSET Gens : N = F \ (owned \cup announced)
    BY <1>1
  <1>4. /\ announced' = announced \cup N
        /\ announced' \subseteq Gens /\ told' \in [Gens -> Nat]
        /\ \A g \in Gens : told[g] \in Nat
        /\ \A g \in Gens \ own : g \in N => told'[g] = 1
        /\ \A g \in Gens \ own : g \notin N => told'[g] = told[g]
        /\ \A g \in own \cap owned : told'[g] = told[g] + 1
    BY <1>2, <1>3, AnnounceTells
  <1>5. /\ NoJob.at = "None" /\ NoJob.reply = None /\ NoJob.failures = {} /\ ~NoJob.ticket
        /\ NoJob \in Jobs
    BY DEF NoJob, Jobs
  <1>6. job'[i] = NoJob /\ job' \in [Ids -> Jobs] /\ \A k \in Ids \ {i} : job'[k] = job[k]
    BY <1>f, <1>2, <1>5 DEF FailuresType
  <1>7. FailuresType'
    BY <1>f, <1>2, <1>4, <1>6 DEF FailuresType
  <1>8. NoNews
    BY <1>5, <1>6 DEF NoNews, Trace, InStore, InOut, OnWire
  <1>9. SeenBefore
    BY <1>2, <1>8 DEF NoNews, SeenBefore, Seen
  <1>10. PICK r \in Nat : r = job[i].reply.gen
    BY <1>f
  <1>11. /\ \A t \in Threads : work[t].at # "Idle" /\ work[t].document = document => work[t].id # i
         /\ r # 0 => /\ \A t \in Threads : work[t].gen # r
                     /\ \A k \in Ids \ {i} : job[k].reply # None => job[k].reply.gen # r
    BY <1>10, AnswerIsOwn
  <1>12. \A g \in own : g = r /\ r # 0 /\ g \in owned /\ told[g] = 0 /\ g \notin announced
    <2>1. ASSUME NEW g \in own PROVE g = r /\ r # 0 /\ g \in owned /\ told[g] = 0 /\ g \notin announced
      <3>1. g \in Gens /\ g = r /\ g # 0 /\ job[i].at = "Clearing" /\ JobOK(i)
        BY <1>f, <1>10 DEF Gens
      <3>2. Silent(g) /\ g \in owned
        BY <1>10, <3>1 DEF JobOK
      <3> QED BY <3>1, <3>2 DEF Silent
    <2> QED BY <2>1
  <1>13. \A h : Silent(h) /\ h \notin F /\ h \notin own => Silent(h)'
    BY <1>3, <1>4 DEF Silent
  <1>14. \A h \in F : Trace(i, h)
    BY <1>1 DEF Trace
  <1>15. ASSUME NEW t \in Threads PROVE WorkOK(t)'
    <2>1. WorkOK(t)
      BY <1>f
    <2>2. work[t].gen \notin owned'
      BY <1>2, <2>1 DEF WorkOK
    <2>3. work[t].at # "Idle" /\ work[t].document = document =>
             work[t].id \in Ids \ {i} /\ (work[t].gen # 0 => Silent(work[t].gen) /\ work[t].gen \notin F)
      BY <1>11, <1>14, <2>1 DEF WorkOK
    <2>4. work[t].gen # 0 => work[t].gen \notin own
      BY <1>11, <1>12
    <2> QED BY <1>6, <1>8, <1>9, <1>13, <2>2, <2>3, <2>4, TellWork
  <1>16. ASSUME NEW k \in Ids \ {i} PROVE JobOK(k)'
    <2>1. JobOK(k)
      BY <1>f
    <2>2. job[k].reply # None /\ job[k].reply.gen # 0 =>
             Silent(job[k].reply.gen) /\ job[k].reply.gen \notin F /\ job[k].reply.gen \notin own
      BY <1>11, <1>12, <1>14, <2>1 DEF JobOK
    <2> QED BY <1>2, <1>6, <1>8, <1>9, <1>13, <2>2, TellJob DEF Started
  <1>17. JobOK(i)'
    BY <1>5, <1>6 DEF JobOK
  <1>18. Apart'
    <2>1. Answered /\ RepliesApart
          /\ \A k \in Ids : job'[k].reply # None => job'[k].reply = job[k].reply
      BY <1>f, <1>5, <1>6 DEF Apart
    <2>2. GensApart' /\ IdsApart'
      BY <1>f DEF Apart, GensApart, IdsApart
    <2>3. Answered'
      BY <2>1 DEF Answered
    <2>4. RepliesApart'
      BY <2>1 DEF RepliesApart
    <2> QED BY <2>2, <2>3, <2>4 DEF Apart
  <1>19. ReceiptsOK'
    <2> SUFFICES ASSUME NEW g \in Gens
                 PROVE  /\ told'[g] # 0 => told'[g] = 1 /\ g \in announced' \cup owned'
                        /\ g \in announced' => told'[g] = 1 /\ g \notin owned'
                        /\ g \in owned' => told'[g] = 1 \/ Rejecting(g)' \/ ~Seen(g)'
                        /\ g \in heard' => g \in announced' \cup owned' \/ \E k \in Ids : g \in job'[k].failures
                        /\ g \in announced' \cup owned' \/ Seen(g)' => g <= clock'
      BY DEF ReceiptsOK
    <2>1. /\ told[g] # 0 => told[g] = 1 /\ g \in announced \cup owned
          /\ g \in announced => told[g] = 1 /\ g \notin owned
          /\ g \in owned => told[g] = 1 \/ Rejecting(g) \/ ~Seen(g)
          /\ g \in heard => g \in announced \cup owned \/ \E k \in Ids : g \in job[k].failures
          /\ g \in announced \cup owned \/ Seen(g) => g <= clock
      BY <1>f DEF ReceiptsOK
    <2>2. g \in F => Seen(g)
      BY <1>14 DEF Seen
    <2>3. told'[g] # 0 => told'[g] = 1 /\ g \in announced' \cup owned'
      BY <1>2, <1>3, <1>4, <1>12, <2>1
    <2>4. g \in announced' => told'[g] = 1 /\ g \notin owned'
      BY <1>2, <1>3, <1>4, <1>12, <2>1
    <2>5. g \in owned' => told'[g] = 1 \/ Rejecting(g)' \/ ~Seen(g)'
      <3>1. SUFFICES ASSUME g \in owned, g \notin own, told[g] # 1, Seen(g) PROVE Rejecting(g)'
        BY <1>2, <1>3, <1>4, <1>9, <1>12 DEF SeenBefore
      <3>2. PICK k \in Ids : job[k].at = "Clearing" /\ job[k].reply # None /\ job[k].reply.gen = g
        BY <2>1, <3>1 DEF Rejecting
      <3>3. JobOK(i) /\ g # 0
        BY <1>f DEF Gens
      <3>4. k # i
        BY <3>1, <3>2, <3>3 DEF JobOK
      <3> QED BY <1>6, <3>2, <3>4 DEF Rejecting
    <2>6. g \in heard' => g \in announced' \cup owned' \/ \E k \in Ids : g \in job'[k].failures
      BY <1>1, <1>2, <1>3, <1>4, <1>6, <2>1
    <2>7. g \in announced' \cup owned' \/ Seen(g)' => g <= clock'
      BY <1>2, <1>3, <1>4, <1>9, <2>1, <2>2 DEF SeenBefore
    <2> QED BY <2>3, <2>4, <2>5, <2>6, <2>7
  <1>20. StoredOK'
    <2>1. Fresh' = Fresh /\ Fresh \subseteq Ids
      BY DEF Fresh, Present
    <2>2. \A k, h : /\ InStore(k, h)' <=> InStore(k, h)
                    /\ InOut(k, h)' <=> InOut(k, h)
                    /\ OnWire(k, h)' <=> OnWire(k, h)
      BY DEF InStore, InOut, OnWire
    <2> QED BY <1>f, <1>2, <2>1, <2>2 DEF StoredOK
  <1> QED BY <1>7, <1>15, <1>16, <1>17, <1>18, <1>19, <1>20 DEF FailuresInv

\* A job succeeds, or its rejection is settled.
LEMMA SettlesKept ==
    ASSUME FailuresInv, NEW i \in Ids, JobSucceeded(i) \/ JobSettles(i)
    PROVE  FailuresInv'
  <1>f. JobOK(i) /\ FailuresType /\ (job[i].reply # None => job[i].reply.gen \in Nat)
    BY Found
  <1>1. CASE JobSucceeded(i)
    <2>1. PICK own \in SUBSET Gens : own = {}
      OBVIOUS
    <2>2. /\ Settle(i, own) /\ job[i].reply # None /\ job[i].at = "Invoked"
          /\ UNCHANGED <<entries, expired, clock, out, lease, work>>
          /\ UNCHANGED <<document, page, snapshot, wire>>
      BY <1>1, <2>1 DEF JobSucceeded, Keep, vars, store
    <2> QED BY <2>1, <2>2, SettleKept
  <1>2. CASE JobSettles(i)
    <2>1. job[i].at = "Clearing" /\ job[i].reply # None
      BY <1>f, <1>2 DEF JobSettles, JobOK
    <2>2. job[i].reply.gen # 0 => job[i].reply.gen \in Gens
      BY <1>f, <2>1 DEF JobOK, Silent
    <2>3. PICK own \in SUBSET Gens :
             own = IF job[i].reply.outcome = "Failed" THEN {job[i].reply.gen} \ {0} ELSE {}
      BY <2>2
    <2>4. /\ Settle(i, own)
          /\ UNCHANGED <<entries, expired, clock, out, lease, work>>
          /\ UNCHANGED <<document, page, snapshot, wire>>
      BY <1>2, <2>3 DEF JobSettles, Keep, vars, store
    <2>5. \A g \in Gens : g \in own => g = job[i].reply.gen
      BY <2>3
    <2>6. job[i].reply.outcome = "Failed" /\ job[i].reply.gen # 0 => job[i].reply.gen \in own
      BY <2>3
    <2> QED BY <2>1, <2>4, <2>5, <2>6, SettleKept
  <1> QED BY <1>1, <1>2

-----------------------------------------------------------------------------
(* The specification.                                                      *)

\* No generation has been handed out at the start.
LEMMA FailuresStart ==
    ASSUME FailuresInit
    PROVE  FailuresInv
  <1>1. /\ entries = [i \in Ids |-> None] /\ expired = [i \in Ids |-> FALSE] /\ clock = 0
        /\ lease = [t \in Threads |-> None] /\ out = [t \in Threads |-> None]
        /\ work = [t \in Threads |-> NoWork] /\ document = 1 /\ page = "Loading"
        /\ snapshot = {} /\ wire = <<>> /\ job = [i \in Ids |-> NoJob]
        /\ owned = {} /\ announced = {} /\ told = [g \in Gens |-> 0] /\ heard = {}
    BY DEF FailuresInit, Init
  <1>2. /\ NoJob.at = "None" /\ NoJob.reply = None /\ NoJob.failures = {} /\ ~NoJob.ticket
        /\ NoJob \in Jobs
    BY DEF NoJob, Jobs
  <1>3. /\ NoWork.at = "Idle" /\ NoWork.gen = 0 /\ NoWork.id = None /\ NoWork \in Works
    BY DEF NoWork, Works
  <1>4. FailuresType
    <2>1. wire \in Seq(Told) /\ job \in [Ids -> Jobs] /\ told \in [Gens -> Nat] /\ work \in [Threads -> Works]
      BY <1>1, <1>2, <1>3
    <2> QED BY <1>1, <2>1 DEF FailuresType, Pages
  <1>5. \A t \in Threads : WorkOK(t)
    BY <1>1, <1>3 DEF WorkOK
  <1>6. \A i \in Ids : JobOK(i)
    BY <1>1, <1>2 DEF JobOK
  <1>7. Apart
    BY <1>1, <1>2, <1>3 DEF Apart, GensApart, IdsApart, Answered, RepliesApart
  <1>8. \A i \in Ids, g \in Gens : ~Trace(i, g)
    BY <1>1, <1>2 DEF Trace, InStore, Failed, InOut, OnWire, Carries, IsFailure
  <1>9. ReceiptsOK
    BY <1>1, <1>8 DEF ReceiptsOK, Seen
  <1>10. StoredOK
    BY <1>1 DEF StoredOK
  <1> QED BY <1>4, <1>5, <1>6, <1>7, <1>9, <1>10 DEF FailuresInv

\* Every step keeps the invariant.
LEMMA FailuresStep ==
    ASSUME FailuresInv, [FailuresNext]_failureVars
    PROVE  FailuresInv'
  <1>1. ASSUME NEW t \in Threads, NEW i \in Ids, ClaimDownload(t, i) PROVE FailuresInv'
    BY <1>1, ClaimKept
  <1>2. ASSUME NEW t \in Threads, StartDownload(t) PROVE FailuresInv'
    BY <1>2, StartKept
  <1>3. ASSUME NEW t \in Threads, SetupFails(t) PROVE FailuresInv'
    BY <1>3, SetupKept
  <1>4. ASSUME NEW t \in Threads, SendEvent(t) PROVE FailuresInv'
    BY <1>4, SendKept
  <1>5. ASSUME NEW t \in Threads, EndDownload(t) PROVE FailuresInv'
    BY <1>5, EndKept
  <1>6. ASSUME NEW t \in Threads, NEW outcome \in Outcomes, ReportDownload(t, outcome) PROVE FailuresInv'
    BY <1>6, ReportKept
  <1>7. ASSUME NEW t \in Threads, CancelSurvivor(t) PROVE FailuresInv'
    BY <1>7, CancelsKept
  <1>8. ASSUME NEW i \in Ids, ClaimRefused(i) PROVE FailuresInv'
    BY <1>8, RefuseKept
  <1>9. ASSUME NEW i \in Ids, RunDownloadJob(i) \/ Prepared(i) PROVE FailuresInv'
    BY <1>9, JobStarts
  <1>10. ASSUME NEW i \in Ids, JobSucceeded(i) \/ JobSettles(i) PROVE FailuresInv'
    BY <1>10, SettlesKept
  <1>11. ASSUME NEW i \in Ids, JobRejected(i) PROVE FailuresInv'
    BY <1>11, RejectedKept
  <1>12. ASSUME NEW i \in Ids, CancelJob(i) PROVE FailuresInv'
    BY <1>12, CancelsKept
  <1>13. CASE Deliver
    BY <1>13, DeliverKept
  <1>14. CASE Subscribe \/ SubscribeFails
    BY <1>14, SubscribeKept
  <1>15. CASE AskSnapshot
    BY <1>15, AskKept
  <1>16. CASE SnapshotRejected
    BY <1>16, RejectionKept
  <1>17. CASE TakeSnapshot
    BY <1>17, TakeKept
  <1>18. CASE Reload
    BY <1>18, ReloadKept
  <1>19. ASSUME RunClear \/ ClearAnswered
                \/ \E i \in Ids : Expire(i) /\ UNCHANGED <<work, job, requests>> /\ Keep
                                  /\ UNCHANGED receipts
         PROVE  FailuresInv'
    BY <1>19, ClearKept
  <1>20. CASE UNCHANGED failureVars
    <2>1. /\ UNCHANGED <<entries, expired, clock, out, lease, work, job>>
          /\ UNCHANGED <<wire, snapshot, document, owned, announced, told, heard, page>>
      BY <1>20 DEF failureVars, vars, store
    <2>2. FailuresType /\ StoreCalm
      BY <2>1, Found, StoreRests
    <2> QED BY <2>1, <2>2, StoreKept DEF FailuresType
  <1> QED BY <1>1, <1>2, <1>3, <1>4, <1>5, <1>6, <1>7, <1>8, <1>9, <1>10, <1>11, <1>12, <1>13,
             <1>14, <1>15, <1>16, <1>17, <1>18, <1>19, <1>20 DEF FailuresNext

\* The inductive invariant holds of every behaviour: receipts, buffered
\* failures and pending rejections account for each failed generation.
THEOREM FailuresInvariance == FailuresSpec => []FailuresInv
  <1>1. FailuresInit => FailuresInv
    BY FailuresStart
  <1>2. FailuresInv /\ [FailuresNext]_failureVars => FailuresInv'
    BY FailuresStep
  <1> QED BY <1>1, <1>2, PTL DEF FailuresSpec

\* A document tells of a failed generation once at most, although event,
\* snapshot and rejection each report it and in any order.
THEOREM FailuresAreToldOnce == FailuresSpec => []ToldOnce
  <1>1. FailuresInv => ToldOnce
    <2>1. SUFFICES ASSUME FailuresInv, NEW g \in Gens PROVE told[g] <= 1
      BY DEF ToldOnce
    <2>2. ReceiptsOK /\ told[g] \in Nat
      BY <2>1, Found DEF FailuresType
    <2> QED BY <2>2 DEF ReceiptsOK
  <1> QED BY <1>1, FailuresInvariance, PTL

\* Without jobs nothing is buffered and no rejection is pending.
LEMMA HeardTold ==
    ASSUME FailuresInv
    PROVE  HeardIsTold
  <1>1. SUFFICES ASSUME Quiet, NEW g \in heard PROVE told[g] = 1
    BY DEF HeardIsTold
  <1>2. ReceiptsOK /\ g \in Gens /\ \A i \in Ids : JobOK(i) /\ job[i].at = "None"
    BY <1>1, Found DEF FailuresType, Quiet
  <1>3. ~Rejecting(g) /\ Seen(g) /\ \A i \in Ids : job[i].failures = {}
    BY <1>1, <1>2 DEF Rejecting, Seen, JobOK
  <1> QED BY <1>1, <1>2, <1>3 DEF ReceiptsOK

\* A failure the document received has been told once everything is quiet:
\* no buffer of a job and no receipt of a rejection swallows it.
THEOREM HeardFailuresAreTold == FailuresSpec => []HeardIsTold
  BY HeardTold, FailuresInvariance, PTL

\* A document that started with its snapshot has, once quiet, told of every
\* failure the store still holds: subscribing first leaves no gap.
THEOREM StoredFailuresAreTold == FailuresSpec => []StoredIsTold
  <1>1. FailuresInv => StoredIsTold
    <2>1. SUFFICES ASSUME FailuresInv, Quiet, page = "Ready", NEW i \in Fresh,
                          entries[i].state = "Failed"
                   PROVE  told[entries[i].gen] = 1
      BY DEF StoredIsTold
    <2>2. PICK g \in Gens : g = entries[i].gen
      BY <2>1, Found DEF FailuresType, Fresh, Present, Item
    <2>3. InStore(i, g) /\ i \in Ids
      BY <2>1, <2>2 DEF InStore, Failed, Fresh, Present
    <2>4. ~InOut(i, g) /\ ~OnWire(i, g) /\ snapshot = {}
      BY <2>1, Found DEF Quiet, InOut, OnWire, Carries, IsFailure, StoredOK
    <2>5. g \in heard
      BY <2>1, <2>3, <2>4, Found DEF StoredOK, Quiet
    <2>6. HeardIsTold
      BY <2>1, HeardTold
    <2> QED BY <2>1, <2>2, <2>5, <2>6 DEF HeardIsTold
  <1> QED BY <1>1, FailuresInvariance, PTL
=============================================================================
