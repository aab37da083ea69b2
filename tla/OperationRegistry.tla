------------------------- MODULE OperationRegistry -------------------------
(***************************************************************************)
(* The native authority for renderer requests and application-owned work:  *)
(* src-tauri/src/infra/operations.rs.  One mutex guards the whole state,    *)
(* so every method is one action.  What interleaves is the methods: calls  *)
(* of several webviews, of the workflows that hold leases, of the window    *)
(* and shutdown handlers, and the time to live of a reservation.            *)
(*                                                                         *)
(* A ticket is minted once (a version 4 UUID) and never again.  Analysis   *)
(* work is bound to a tab; its reservation kind is that tab.  A download    *)
(* claims an admission key: the key of a file or engine download is its     *)
(* progress id and excludes the same owner only, the key of an account      *)
(* download names the provider account and excludes every owner.            *)
(***************************************************************************)
EXTENDS Integers, FiniteSets

CONSTANTS
    Owners,       \* webview labels
    Tickets,      \* identities the registry mints
    Installs,     \* engine completion identities chosen by the renderer
    Tabs,         \* analysis tabs
    Files,        \* progress ids of file and engine downloads
    Accounts,     \* admission keys of provider account downloads
    Engines,      \* engine identities an install is for
    MaxReads,     \* MAX_NATIVE_READS
    MaxAccepted,  \* MAX_ACCEPTED_OPERATIONS
    DownloadCap,  \* MAX_ACTIVE_DOWNLOADS
    Absent        \* a key without an entry, an optional field that is None

Ids == Tickets \cup Installs
Keys == Files \cup Accounts
ReadKinds == {"read"} \cup Tabs
Kinds == {"download", "conversion"} \cup ReadKinds

ReadEntry ==
    [owner: Owners, kind: Kinds,
     state: {"Reserved", "CancelledReserved", "Active"},
     expired: BOOLEAN,      \* created_at is at least the time to live ago
     cancelled: BOOLEAN]    \* the token of the active lease

AcceptedEntry ==
    [owner: Owners \cup {Absent}, kind: {"download", "conversion", "other"},
     key: Keys \cup {Absent}, committing: BOOLEAN, cancelled: BOOLEAN]

Request == [engine: Engines, upgrade: BOOLEAN, progress: Files]
Jobs == {"None", "Unresolved", "Resolved"}

CompletionEntry ==
    [owner: Owners, operation: Tickets, request: Request,
     outcome: {"Running", "Succeeded", "Failed"}, retired: BOOLEAN,
     retirementJob: Jobs, acknowledgementJob: Jobs]

ASSUME RegistryAssumption ==
    /\ MaxReads \in Nat /\ MaxAccepted \in Nat /\ DownloadCap \in Nat
    /\ Tickets \cap Installs = {}
    /\ Files \cap Accounts = {}
    /\ Tabs \cap {"read", "download", "conversion"} = {}
    /\ Absent \notin Owners \cup Keys \cup ReadEntry \cup AcceptedEntry
                     \cup CompletionEntry

VARIABLES
    reads,        \* RegistryState.reads
    accepted,     \* RegistryState.accepted
    completions,  \* RegistryState.completions
    sealed,       \* RegistryState.sealed
    minted,       \* the tickets handed out so far
    readLeases,   \* live OperationLease values of kind Read or Analysis
    leases,       \* live OperationLease values of kind Accepted
    tail,         \* what the workflow under an install's own lease is doing
    drain,        \* where the shutdown thread is inside wait_for_drain
    answered,     \* history: downloads whose cancellation was answered true
    committed     \* history: downloads whose begin_commit succeeded

vars == <<reads, accepted, completions, sealed, minted, readLeases, leases,
          tail, drain, answered, committed>>

-----------------------------------------------------------------------------
(* Derived state.                                                          *)

Present(m) == {k \in DOMAIN m : m[k] # Absent}

IsDownload(i) == accepted[i] # Absent /\ accepted[i].kind = "download"

Downloads == {i \in Ids : IsDownload(i)}

LiveDownloads == {i \in Downloads : ~accepted[i].cancelled}

\* The progress id an accepted download reports under: a provider account
\* download reports under its own ticket.
ProgressOf(i) == IF accepted[i].key \in Accounts THEN i ELSE accepted[i].key

\* A completion whose install and application leases are both gone still
\* occupies the place it was admitted into.
OccupiedByLeases == Cardinality(Present(accepted))

Occupied ==
    Cardinality(Present(accepted))
      + Cardinality({c \in Present(completions) :
                        /\ accepted[c] = Absent
                        /\ accepted[completions[c].operation] = Absent})

\* Lazy expiry: every reservation method but the sweeps begins with it.
Purged ==
    [t \in Tickets |->
        IF reads[t] # Absent /\ reads[t].state # "Active" /\ reads[t].expired
        THEN Absent ELSE reads[t]]

\* cancel_entry on each ticket of T: a reservation is dropped, an active
\* lease keeps its entry and sees its token cancelled.
CancelEntriesEvicting(r, T) == [t \in Tickets |-> IF t \in T THEN Absent ELSE r[t]]

CancelEntries(r, T) ==
    [t \in Tickets |->
        IF t \notin T \/ r[t] = Absent THEN r[t]
        ELSE IF r[t].state = "Active" THEN [r[t] EXCEPT !.cancelled = TRUE]
        ELSE Absent]

CancelTokens(I) ==
    [i \in Ids |-> IF i \in I /\ accepted[i] # Absent
                   THEN [accepted[i] EXCEPT !.cancelled = TRUE]
                   ELSE accepted[i]]

Init ==
    /\ reads = [t \in Tickets |-> Absent]
    /\ accepted = [i \in Ids |-> Absent]
    /\ completions = [c \in Installs |-> Absent]
    /\ sealed = FALSE
    /\ minted = {}
    /\ readLeases = [t \in Tickets |-> 0]
    /\ leases = [i \in Ids |-> 0]
    /\ tail = [c \in Installs |-> "None"]
    /\ drain = "Idle"
    /\ answered = {}
    /\ committed = {}

-----------------------------------------------------------------------------
(* Reservations.                                                           *)

unchangedOps == <<accepted, completions, leases, tail, committed>>

\* prepare_read, prepare_analysis, prepare_download, prepare_conversion.
Prepare(t, o, k) ==
    /\ t \notin minted
    /\ ~sealed
    /\ Cardinality(Present(Purged)) < MaxReads
    /\ reads' = [Purged EXCEPT ![t] =
                    [owner |-> o, kind |-> k, state |-> "Reserved",
                     expired |-> FALSE, cancelled |-> FALSE]]
    /\ minted' = minted \cup {t}
    /\ UNCHANGED <<sealed, readLeases, drain, answered, unchangedOps>>

\* claim_read and claim_analysis: the reservation becomes an active lease.
ClaimRead(t, o, k) ==
    /\ ~sealed
    /\ k \in ReadKinds
    /\ Purged[t] # Absent
    /\ Purged[t].owner = o /\ Purged[t].kind = k
    /\ Purged[t].state = "Reserved"
    /\ reads' = [Purged EXCEPT ![t].state = "Active"]
    /\ readLeases' = [readLeases EXCEPT ![t] = @ + 1]
    /\ UNCHANGED <<sealed, minted, drain, answered, unchangedOps>>

\* A reservation of another owner or kind is refused by every method.
Holds(t, o, k) == Purged[t] # Absent /\ Purged[t].owner = o /\ Purged[t].kind = k

\* The download policy of a claim.  A cancelled download does not block a
\* retry under its key, but it counts against the cap until its lease ends.
AdmitsDownloadUnkeyed(o, key) == Cardinality(Downloads) < DownloadCap

AdmitsDownload(o, key) ==
    /\ ~\E i \in LiveDownloads :
          /\ accepted[i].key = key
          /\ key \in Accounts \/ accepted[i].owner = o
    /\ Cardinality(Downloads) < DownloadCap

\* claim_prepared_in_state once owner, kind and state are accepted: the
\* ticket moves from the reservations to the accepted operations.
MoveToAccepted(t, o, k, key) ==
    /\ Occupied < MaxAccepted
    /\ accepted[t] = Absent
    /\ reads' = [Purged EXCEPT ![t] = Absent]
    /\ accepted' = [accepted EXCEPT ![t] =
                       [owner |-> o, kind |-> k, key |-> key,
                        committing |-> FALSE, cancelled |-> FALSE]]
    /\ leases' = [leases EXCEPT ![t] = @ + 1]

\* claim_download and claim_conversion.
ClaimPreparedIgnoringCancel(t, o, k, key) ==
    /\ ~sealed
    /\ Holds(t, o, k)
    /\ k = "download" => AdmitsDownload(o, key)
    /\ MoveToAccepted(t, o, k, key)
    /\ UNCHANGED <<completions, sealed, minted, readLeases, tail, drain,
                   answered, committed>>

ClaimPrepared(t, o, k, key) ==
    /\ ~sealed
    /\ Holds(t, o, k)
    /\ Purged[t].state = "Reserved"
    /\ k = "download" => AdmitsDownload(o, key)
    /\ MoveToAccepted(t, o, k, key)
    /\ UNCHANGED <<completions, sealed, minted, readLeases, tail, drain,
                   answered, committed>>

\* The same methods on a reservation cancelled before its claim: the claim
\* consumes the ticket and returns Cancellation.
ClaimCancelled(t, o, k) ==
    /\ ~sealed
    /\ k \in {"download", "conversion"}
    /\ Holds(t, o, k)
    /\ Purged[t].state = "CancelledReserved"
    /\ reads' = [Purged EXCEPT ![t] = Absent]
    /\ UNCHANGED <<sealed, minted, readLeases, drain, answered, unchangedOps>>

\* accept: application-owned work that no renderer reserved.
AcceptUnsealed(t) ==
    /\ t \notin minted
    /\ Occupied < MaxAccepted
    /\ accepted[t] = Absent
    /\ accepted' = [accepted EXCEPT ![t] =
                       [owner |-> Absent, kind |-> "other", key |-> Absent,
                        committing |-> FALSE, cancelled |-> FALSE]]
    /\ leases' = [leases EXCEPT ![t] = @ + 1]
    /\ minted' = minted \cup {t}
    /\ UNCHANGED <<reads, completions, sealed, readLeases, tail, drain,
                   answered, committed>>

Accept(t) ==
    /\ t \notin minted
    /\ ~sealed
    /\ Occupied < MaxAccepted
    /\ accepted[t] = Absent
    /\ accepted' = [accepted EXCEPT ![t] =
                       [owner |-> Absent, kind |-> "other", key |-> Absent,
                        committing |-> FALSE, cancelled |-> FALSE]]
    /\ leases' = [leases EXCEPT ![t] = @ + 1]
    /\ minted' = minted \cup {t}
    /\ UNCHANGED <<reads, completions, sealed, readLeases, tail, drain,
                   answered, committed>>

\* Any reservation method that returns an error has already purged.
Refused ==
    /\ reads' = Purged
    /\ UNCHANGED <<sealed, minted, readLeases, drain, answered, unchangedOps>>

\* The time to live passes, whatever has become of the reservation.
Expire(t) ==
    /\ reads[t] # Absent /\ ~reads[t].expired
    /\ reads' = [reads EXCEPT ![t].expired = TRUE]
    /\ UNCHANGED <<sealed, minted, readLeases, drain, answered, unchangedOps>>

-----------------------------------------------------------------------------
(* Cancellation.                                                           *)

\* cancel_read and cancel_analysis.
CancelRead(t, o, k) ==
    /\ k \in ReadKinds
    /\ Holds(t, o, k)
    /\ reads' = CancelEntries(Purged, {t})
    /\ UNCHANGED <<sealed, minted, readLeases, drain, answered, unchangedOps>>

\* cancel_download and cancel_conversion before the claim.  The tombstone
\* is what a later claim finds; its time to live starts again.
CancelReserved(t, o, k) ==
    /\ k \in {"download", "conversion"}
    /\ Holds(t, o, k)
    /\ Purged[t].state = "Reserved"
    /\ reads' = [Purged EXCEPT ![t].state = "CancelledReserved",
                               ![t].expired = FALSE]
    /\ answered' = IF k = "download" THEN answered \cup {t} ELSE answered
    /\ UNCHANGED <<sealed, minted, readLeases, drain, unchangedOps>>

\* cancel_download and cancel_conversion after the claim.  A download past
\* its commit gate is not cancelled and the answer is false.
CancelAccepted(t, o, k) ==
    /\ Purged[t] = Absent
    /\ accepted[t] # Absent
    /\ accepted[t].kind = k /\ k \in {"download", "conversion"}
    /\ accepted[t].owner = o
    /\ k = "download" => ~accepted[t].committing
    /\ accepted' = CancelTokens({t})
    /\ answered' = IF k = "download" THEN answered \cup {t} ELSE answered
    /\ reads' = Purged
    /\ UNCHANGED <<completions, sealed, minted, readLeases, leases, tail,
                   drain, committed>>

\* cancel_download_for_progress.  The scan stops at the first uncancelled
\* match; with none left uncancelled the answer reports the cancelled ones.
CancelForProgress(p, o) ==
    LET matches == {i \in Downloads : accepted[i].owner = o /\ ProgressOf(i) = p}
        live == matches \cap LiveDownloads
    IN  /\ \/ \E i \in live :
                 /\ ~accepted[i].committing
                 /\ accepted' = CancelTokens({i})
                 /\ answered' = answered \cup {i}
           \/ /\ live = {} /\ matches # {}
              /\ answered' = answered \cup matches
              /\ UNCHANGED accepted
        /\ UNCHANGED <<reads, completions, sealed, minted, readLeases, leases,
                       tail, drain, committed>>

\* release_download and release_conversion: only a reservation is dropped,
\* a claimed ticket stays with its worker.
ReleasePrepared(t, o, k) ==
    /\ k \in {"download", "conversion"}
    /\ Holds(t, o, k)
    /\ reads' = [Purged EXCEPT ![t] = Absent]
    /\ UNCHANGED <<sealed, minted, readLeases, drain, answered, unchangedOps>>

\* cancel_analyses_for_tab: a sweep, without a purge.
CancelTab(o, tab) ==
    /\ reads' = CancelEntries(reads,
                   {t \in Present(reads) : reads[t].owner = o /\ reads[t].kind = tab})
    /\ UNCHANGED <<sealed, minted, readLeases, drain, answered, unchangedOps>>

OwnedReads(o) == {t \in Present(reads) : reads[t].owner = o}

\* cancel_owner_reservations: the document of a webview was reloaded.
CancelOwnerReservations(o) ==
    /\ reads' = CancelEntries(reads, OwnedReads(o))
    /\ UNCHANGED <<sealed, minted, readLeases, drain, answered, unchangedOps>>

\* cancel_owner: the webview was destroyed.
CancelOwnerUngated(o) ==
    /\ reads' = CancelEntries(reads, OwnedReads(o))
    /\ accepted' = CancelTokens({i \in Downloads : accepted[i].owner = o})
    /\ UNCHANGED <<completions, sealed, minted, readLeases, leases, tail,
                   drain, answered, committed>>

CancelOwner(o) ==
    /\ reads' = CancelEntries(reads, OwnedReads(o))
    /\ accepted' = CancelTokens({i \in Downloads :
                        accepted[i].owner = o /\ ~accepted[i].committing})
    /\ UNCHANGED <<completions, sealed, minted, readLeases, leases, tail,
                   drain, answered, committed>>

\* run_native_operation's awaiter guard: dropping the command future of a
\* transient read cancels the token of that exact lease.
DropAwaiter(t) ==
    /\ readLeases[t] > 0
    /\ reads[t] # Absent /\ reads[t].kind = "read"
    /\ reads' = CancelEntries(reads, {t})
    /\ UNCHANGED <<sealed, minted, readLeases, drain, answered, unchangedOps>>

-----------------------------------------------------------------------------
(* The engine install mailbox.                                             *)

\* admit_engine_completion for a new identity.  A known identity joins its
\* record, which changes nothing.
AdmitInstallBesideUpgrade(c, o, t, req) ==
    /\ completions[c] = Absent
    /\ Cardinality(Present(completions)) < MaxAccepted
    /\ ~sealed
    /\ Holds(t, o, "download") /\ Purged[t].state = "Reserved"
    /\ AdmitsDownload(o, req.progress)
    /\ MoveToAccepted(t, o, "download", req.progress)
    /\ completions' = [completions EXCEPT ![c] =
            [owner |-> o, operation |-> t, request |-> req, outcome |-> "Running",
             retired |-> FALSE, retirementJob |-> "None",
             acknowledgementJob |-> "None"]]
    /\ UNCHANGED <<sealed, minted, readLeases, tail, drain, answered, committed>>

AdmitInstall(c, o, t, req) ==
    /\ completions[c] = Absent
    /\ Cardinality(Present(completions)) < MaxAccepted
    /\ ~\E d \in Present(completions) :
          /\ completions[d].request.upgrade
          /\ completions[d].request.engine = req.engine
    /\ ~sealed
    /\ Holds(t, o, "download") /\ Purged[t].state = "Reserved"
    /\ AdmitsDownload(o, req.progress)
    /\ MoveToAccepted(t, o, "download", req.progress)
    /\ completions' = [completions EXCEPT ![c] =
            [owner |-> o, operation |-> t, request |-> req, outcome |-> "Running",
             retired |-> FALSE, retirementJob |-> "None",
             acknowledgementJob |-> "None"]]
    /\ UNCHANGED <<sealed, minted, readLeases, tail, drain, answered, committed>>

\* finish_engine_completion, inside the workflow and before its lease ends.
\* An install succeeds only through its commit gate; it may fail anywhere.
FinishInstall(c, result) ==
    /\ completions[c] # Absent
    /\ completions[c].outcome = "Running"
    /\ leases[completions[c].operation] > 0
    /\ result = "Succeeded" => completions[c].operation \in committed
    /\ completions' = [completions EXCEPT ![c].outcome = result]
    /\ UNCHANGED <<reads, accepted, sealed, minted, readLeases, leases, tail,
                   drain, answered, committed>>

\* What begin_engine_application and acknowledge_engine_completion both ask
\* of a record before it may leave the mailbox.
AcknowledgeableEarly(e) == e.outcome # "Running"

Acknowledgeable(e) ==
    /\ e.outcome # "Running"
    /\ e.outcome = "Succeeded" /\ e.request.upgrade => e.retired

JobOf(e, step) == IF step = "Retirement" THEN e.retirementJob ELSE e.acknowledgementJob

SetJob(e, step, job) ==
    IF step = "Retirement" THEN [e EXCEPT !.retirementJob = job]
                           ELSE [e EXCEPT !.acknowledgementJob = job]

\* begin_engine_application when it starts an attempt: otherwise it joins
\* the attempt already there.  The application lease is a tail of admitted
\* work: it asks for no free place.
BeginApplication(c, o, step) ==
    LET e == completions[c] IN
    /\ e # Absent
    /\ e.owner = o
    /\ IF step = "Retirement" THEN e.outcome = "Succeeded" ELSE Acknowledgeable(e)
    /\ JobOf(e, step) # "None" =>
          JobOf(e, step) = "Resolved" /\ accepted[c] = Absent
    /\ ~(step = "Retirement" /\ e.retired)
    /\ ~sealed
    /\ accepted[c] = Absent
    /\ accepted' = [accepted EXCEPT ![c] =
            [owner |-> o, kind |-> "other", key |-> Absent,
             committing |-> TRUE, cancelled |-> FALSE]]
    /\ leases' = [leases EXCEPT ![c] = @ + 1]
    /\ tail' = [tail EXCEPT ![c] = step]
    /\ completions' = [completions EXCEPT ![c] = SetJob(e, step, "Unresolved")]
    /\ UNCHANGED <<reads, sealed, minted, readLeases, drain, answered, committed>>

\* The retirement attempt reaches finish_engine_retirement; an install that
\* is no upgrade fails before it.
FinishRetirement(c) ==
    /\ tail[c] = "Retirement"
    /\ completions[c] # Absent
    /\ completions[c].request.upgrade
    /\ completions' = [completions EXCEPT ![c].retired = TRUE]
    /\ tail' = [tail EXCEPT ![c] = "Ending"]
    /\ UNCHANGED <<reads, accepted, sealed, minted, readLeases, leases, drain,
                   answered, committed>>

\* The acknowledgement attempt reaches acknowledge_engine_completion.
Acknowledge(c) ==
    /\ tail[c] = "Acknowledgement"
    /\ completions[c] # Absent => Acknowledgeable(completions[c])
    /\ completions' = [completions EXCEPT ![c] = Absent]
    /\ tail' = [tail EXCEPT ![c] = "Ending"]
    /\ UNCHANGED <<reads, accepted, sealed, minted, readLeases, leases, drain,
                   answered, committed>>

\* run_completion_application delivers the outcome of an attempt once its
\* lease is gone, and a joined caller polls it.
ResolveJob(c, step) ==
    /\ completions[c] # Absent
    /\ JobOf(completions[c], step) = "Unresolved"
    /\ tail[c] \notin {step, "Ending"}
    /\ completions' = [completions EXCEPT ![c] = SetJob(@, step, "Resolved")]
    /\ UNCHANGED <<reads, accepted, sealed, minted, readLeases, leases, tail,
                   drain, answered, committed>>

-----------------------------------------------------------------------------
(* Leases, the commit gate, sealing and the drain.                         *)

\* begin_commit, from the worker of a download still under its lease.
BeginCommit(i) ==
    /\ leases[i] > 0
    /\ IsDownload(i)
    /\ ~accepted[i].cancelled
    /\ \A c \in Present(completions) :
          completions[c].operation = i => completions[c].outcome = "Running"
    /\ accepted' = [accepted EXCEPT ![i].committing = TRUE]
    /\ committed' = committed \cup {i}
    /\ UNCHANGED <<reads, completions, sealed, minted, readLeases, leases,
                   tail, drain, answered>>

\* notify_all, under the registry lock.
WakeNobody == UNCHANGED drain

Wake == drain' = IF drain = "Asleep" THEN "Checking" ELSE drain

\* Drop of an OperationLease of kind Read or Analysis.
DropReadLease(t) ==
    /\ readLeases[t] > 0
    /\ reads' = [reads EXCEPT ![t] = Absent]
    /\ readLeases' = [readLeases EXCEPT ![t] = @ - 1]
    /\ Wake
    /\ UNCHANGED <<sealed, minted, answered, unchangedOps>>

\* Drop of an OperationLease of kind Accepted, when its workflow is over:
\* an install has recorded its outcome by then, an attempt may have failed.
DropLeaseUnfinished(i) ==
    /\ leases[i] > 0
    /\ accepted' = [accepted EXCEPT ![i] = Absent]
    /\ leases' = [leases EXCEPT ![i] = @ - 1]
    /\ tail' = IF i \in Installs THEN [tail EXCEPT ![i] = "None"] ELSE tail
    /\ Wake
    /\ UNCHANGED <<reads, completions, sealed, minted, readLeases, answered,
                   committed>>

DropLease(i) ==
    /\ leases[i] > 0
    /\ \A c \in Present(completions) :
          completions[c].operation = i => completions[c].outcome # "Running"
    /\ accepted' = [accepted EXCEPT ![i] = Absent]
    /\ leases' = [leases EXCEPT ![i] = @ - 1]
    /\ tail' = IF i \in Installs THEN [tail EXCEPT ![i] = "None"] ELSE tail
    /\ Wake
    /\ UNCHANGED <<reads, completions, sealed, minted, readLeases, answered,
                   committed>>

\* seal_and_request_cancellation.
Seal ==
    /\ sealed' = TRUE
    /\ reads' = CancelEntries(reads, Tickets)
    /\ accepted' = CancelTokens(Ids)
    /\ UNCHANGED <<completions, minted, readLeases, leases, tail, drain,
                   answered, committed>>

WorkingAccepted == Present(accepted) # {}

Working ==
    \/ \E t \in Present(reads) : reads[t].state = "Active"
    \/ Present(accepted) # {}

\* wait_for_drain: called once the registry is sealed, it looks under the
\* lock and sleeps on the condition variable while something is working.
StartDrain ==
    /\ drain = "Idle" /\ sealed
    /\ drain' = "Checking"
    /\ UNCHANGED <<reads, sealed, minted, readLeases, answered, unchangedOps>>

CheckDrain ==
    /\ drain = "Checking"
    /\ drain' = IF Working THEN "Asleep" ELSE "Drained"
    /\ UNCHANGED <<reads, sealed, minted, readLeases, answered, unchangedOps>>

\* The budget is used up: the wait times out, or the look finds it spent.
TimeoutDrain ==
    /\ drain = "Asleep" \/ (drain = "Checking" /\ Working)
    /\ drain' = "TimedOut"
    /\ UNCHANGED <<reads, sealed, minted, readLeases, answered, unchangedOps>>

-----------------------------------------------------------------------------

RenderReservation ==
    \E t \in Tickets, o \in Owners :
       \/ \E k \in Kinds : Prepare(t, o, k)
       \/ \E k \in ReadKinds : ClaimRead(t, o, k) \/ CancelRead(t, o, k)
       \/ \E key \in Keys : ClaimPrepared(t, o, "download", key)
       \/ ClaimPrepared(t, o, "conversion", Absent)
       \/ \E k \in {"download", "conversion"} :
             \/ ClaimCancelled(t, o, k)
             \/ CancelReserved(t, o, k)
             \/ CancelAccepted(t, o, k)
             \/ ReleasePrepared(t, o, k)

RenderSweep ==
    \E o \in Owners :
       \/ \E p \in Files \cup Tickets : CancelForProgress(p, o)
       \/ \E tab \in Tabs : CancelTab(o, tab)
       \/ CancelOwnerReservations(o)
       \/ CancelOwner(o)

Mailbox ==
    \E c \in Installs :
       \/ \E o \in Owners, t \in Tickets, req \in Request : AdmitInstall(c, o, t, req)
       \/ \E result \in {"Succeeded", "Failed"} : FinishInstall(c, result)
       \/ \E step \in {"Retirement", "Acknowledgement"} :
             \/ \E o \in Owners : BeginApplication(c, o, step)
             \/ ResolveJob(c, step)
       \/ FinishRetirement(c)
       \/ Acknowledge(c)

Native ==
    \/ \E t \in Tickets : Accept(t) \/ Expire(t) \/ DropAwaiter(t) \/ DropReadLease(t)
    \/ \E i \in Ids : BeginCommit(i) \/ DropLease(i)
    \/ Refused
    \/ Seal \/ StartDrain \/ CheckDrain \/ TimeoutDrain

Next == RenderReservation \/ RenderSweep \/ Mailbox \/ Native

\* Every workflow ends, after which its lease is dropped, and the shutdown
\* thread that was woken runs.  The wait's timer is not relied upon.
Fairness ==
    /\ \A t \in Tickets : WF_vars(DropReadLease(t))
    /\ \A i \in Ids : WF_vars(DropLease(i))
    /\ \A c \in Installs :
          WF_vars(\E result \in {"Succeeded", "Failed"} : FinishInstall(c, result))
    /\ WF_vars(CheckDrain)

Spec == Init /\ [][Next]_vars

FairSpec == Spec /\ Fairness

-----------------------------------------------------------------------------
(* Correctness.                                                            *)

\* The tables of the registry and the leases given out keep their types; in
\* particular no lease is ever dropped twice (leases are natural numbers).
TypeOK ==
    /\ reads \in [Tickets -> ReadEntry \cup {Absent}]
    /\ accepted \in [Ids -> AcceptedEntry \cup {Absent}]
    /\ completions \in [Installs -> CompletionEntry \cup {Absent}]
    /\ sealed \in BOOLEAN
    /\ minted \subseteq Tickets
    /\ readLeases \in [Tickets -> Nat]
    /\ leases \in [Ids -> Nat]
    /\ tail \in [Installs -> {"None", "Retirement", "Acknowledgement", "Ending"}]
    /\ drain \in {"Idle", "Checking", "Asleep", "Drained", "TimedOut"}
    /\ answered \subseteq Ids
    /\ committed \subseteq Ids

\* "Active leases are never evicted or reused" (operations.rs:206-207): a
\* live lease always finds its entry, an entry always has exactly one lease,
\* whatever expiry, sweeps, releases and joined completions do meanwhile.
LeaseBacked ==
    /\ \A t \in Tickets :
          readLeases[t] = IF reads[t] # Absent /\ reads[t].state = "Active" THEN 1 ELSE 0
    /\ \A i \in Ids : leases[i] = IF accepted[i] # Absent THEN 1 ELSE 0

\* A renderer told that its download was cancelled never sees it published:
\* the answer of cancel_download and cancel_download_for_progress binds
\* claim_prepared_in_state and begin_commit, until the registry is sealed.
CancelHonoured == answered \cap committed # {} => sealed

\* Past the commit gate only the shutdown seal may cancel a download: the
\* renderer, a reload and a destroyed webview cannot tear a publication.
CommitProtected ==
    \A i \in Downloads : accepted[i].committing /\ accepted[i].cancelled => sealed

\* Two downloads under one admission key are never past their commit gates
\* together: for an account key across all owners, for a file within one.
OneWriter ==
    \A i, j \in Downloads :
       (/\ accepted[i].committing /\ accepted[j].committing
        /\ accepted[i].key = accepted[j].key
        /\ accepted[i].key \in Accounts \/ accepted[i].owner = accepted[j].owner)
       => i = j

\* Once sealed, everything still in the registry has been told to stop, and
\* no reservation is left that a late claim could turn into work.
SealedIsCancelled ==
    sealed =>
       /\ \A t \in Present(reads) : reads[t].state = "Active" /\ reads[t].cancelled
       /\ \A i \in Present(accepted) : accepted[i].cancelled

\* wait_for_drain answered true: no lease is left, and none appears later.
DrainedIsEmpty ==
    drain = "Drained" =>
       /\ \A t \in Tickets : readLeases[t] = 0
       /\ \A i \in Ids : leases[i] = 0

\* Every claimed operation and every unacknowledged record whose install is
\* over has a place of its own within MAX_ACCEPTED_OPERATIONS: records are
\* neither evicted nor over-admitted, although application leases are let in
\* without asking for a place and hide the records they work for.
PlacesKept ==
    Cardinality(Present(accepted) \cap Tickets)
      + Cardinality({c \in Present(completions) :
                        accepted[completions[c].operation] = Absent})
    <= MaxAccepted

\* "An unfinished upgrade excludes every later upgrade of its UUID"
\* (operations.rs:285-286), until its record is acknowledged.
OneUpgradePerEngine ==
    \A c, d \in Present(completions) :
       (/\ completions[c].request.upgrade /\ completions[d].request.upgrade
        /\ completions[c].request.engine = completions[d].request.engine)
       => c = d

\* A record is Running exactly as long as some native lease will finish it:
\* a running install is never left without its owner, and the install it
\* reports as succeeded was past the commit gate.
MailboxOwned ==
    \A c \in Present(completions) :
       /\ completions[c].outcome = "Running" =>
             /\ IsDownload(completions[c].operation)
             /\ leases[completions[c].operation] = 1
       /\ completions[c].outcome = "Succeeded" =>
             completions[c].operation \in committed

\* The application steps of one record never overlap, and acknowledgement of
\* an upgrade never precedes its retirement: what leaves the mailbox is
\* finished, and it leaves under its own application lease.
AcknowledgedIsFinished ==
    [][\A c \in Installs :
          completions[c] # Absent /\ completions'[c] = Absent =>
             /\ completions[c].outcome # "Running"
             /\ completions[c].request.upgrade =>
                   completions[c].outcome = "Failed" \/ completions[c].retired
             /\ leases[c] = 1]_vars

\* After the seal the live leases only shrink.
SealedOnlyShrinks ==
    [][sealed =>
          /\ \A t \in Tickets : readLeases'[t] <= readLeases[t]
          /\ \A i \in Ids : leases'[i] <= leases[i]]_vars

\* No wakeup is lost: a shutdown thread asleep in wait_for_drain is woken by
\* the leases it waits for and answers without help from its timer.
DrainCompletes == drain = "Asleep" ~> drain \in {"Drained", "TimedOut"}

=============================================================================
