-------------------------- MODULE DownloadFailures --------------------------
(***************************************************************************)
(* Who tells the user that a download failed: src/hooks/downloadJobs.ts    *)
(* over ProgressStore, with the native side of download_file (src-tauri/   *)
(* src/fs.rs).                                                             *)
(*                                                                         *)
(* One failure reaches the document as an event, in the snapshot taken at  *)
(* startup and as the rejection of the job's own promise, in any order; the *)
(* document may be reloaded while downloads go on, and clears remove the    *)
(* item the next document would find.  A generation names one download, so  *)
(* an identity [id, generation] is a generation here.                       *)
(***************************************************************************)
EXTENDS ProgressStore

CONSTANT MaxDocuments    \* bound: how often the page is loaded

ASSUME DocumentsAssumption ==
    /\ MaxDocuments \in Nat
    /\ None \notin [outcome : {"Succeeded", "Failed", "Cancelled", "Conflict"}, gen : Nat]

VARIABLES
    work,        \* the native workflow of a thread
    document,    \* which document the webview shows
    page,        \* how far initializeDownloadFailures is, or how it ended: "Ready",
                 \* "Blind" without a snapshot, "Deaf" without a listener
    snapshot,    \* what failed_progress_snapshot answered
    wire,        \* events on their way to the document
    job,         \* jobs: the DownloadJobEntry of an id
    owned,       \* receipts of failures that a job's rejection reports
    announced,   \* receipts of failures that were announced
    requests,    \* clear_progress calls that have not been answered
    told,        \* history: how often this document told of a generation
    heard        \* history: failures this document has received

receipts == <<owned, announced, told, heard>>
failureVars == <<vars, work, document, page, snapshot, wire, job, owned,
                 announced, requests, told, heard>>

NoWork == [at |-> "Idle", id |-> None, document |-> 0, cancelled |-> FALSE,
           gen |-> 0, outcome |-> None]

NoJob == [at |-> "None", cancelRequested |-> FALSE, ticket |-> FALSE,
          failures |-> {}, reply |-> None]

FailuresInit ==
    /\ Init
    /\ work = [t \in Threads |-> NoWork]
    /\ document = 1 /\ page = "Loading"
    /\ snapshot = {} /\ wire = <<>>
    /\ job = [i \in Ids |-> NoJob]
    /\ owned = {} /\ announced = {}
    /\ requests = <<>>
    /\ told = [g \in Gens |-> 0] /\ heard = {}

\* bootstrap has awaited initializeDownloadFailures and renders.
Started == page \in {"Ready", "Blind", "Deaf"}

-----------------------------------------------------------------------------
(* download_file and the workflow it leaves behind.                        *)

Here == UNCHANGED <<document, page, snapshot, wire, requests>> /\ UNCHANGED receipts

Reply(outcome, gen) == [outcome |-> outcome, gen |-> gen]

\* claim_download for the job of this document; a live download of the id,
\* or a ticket cancelled before, refuses it and no generation is handed out.
Called(i) ==
    job[i].at = "Invoked" /\ job[i].reply = None
      /\ \A t \in Threads : work[t].id = i => work[t].document # document

ClaimDownload(t, i) ==
    /\ Called(i) /\ ~job[i].cancelRequested
    /\ work[t] = NoWork
    /\ Claim(i)
    /\ work' = [work EXCEPT ![t] = [NoWork EXCEPT !.at = "Claimed", !.id = i,
                                                  !.document = document]]
    /\ UNCHANGED job /\ Here

ClaimRefused(i) ==
    /\ Called(i)
    /\ i \in live \/ job[i].cancelRequested
    /\ job' = [job EXCEPT ![i].reply =
                  Reply(IF job[i].cancelRequested THEN "Cancelled" ELSE "Conflict", 0)]
    /\ UNCHANGED <<vars, work>> /\ Here

\* begin_progress, once everything that can fail in the setup is done.
StartDownload(t) ==
    /\ work[t].at = "Claimed"
    /\ Start(t, work[t].id)
    /\ work' = [work EXCEPT ![t].at = "Running", ![t].gen = clock + 1]
    /\ UNCHANGED job /\ Here

SetupFails(t) ==
    /\ work[t].at = "Claimed"
    /\ work' = [work EXCEPT ![t].at = "Reported",
                   ![t].outcome = IF work[t].cancelled THEN "Cancelled" ELSE "Failed"]
    /\ UNCHANGED <<vars, job>> /\ Here

\* report_file_or_provider_download_error or report_download_success: the
\* item gets its failure and the event is sent before the workflow returns.
ReportDownload(t, outcome) ==
    /\ work[t].at = "Running"
    /\ Report(t, IF outcome = "Succeeded" THEN Full ELSE 0, outcome)
    /\ work' = [work EXCEPT ![t].at = "Reported", ![t].outcome = outcome]
    /\ UNCHANGED job /\ Here

\* An event reaches a document that has subscribed.
ListeningLate == page = "Ready"

Listening == page \notin {"Loading", "Deaf"}

SendEvent(t) ==
    /\ Emit(t)
    /\ wire' = IF Listening THEN Append(wire, out[t]) ELSE wire
    /\ UNCHANGED <<work, document, page, snapshot, job, requests>> /\ UNCHANGED receipts

\* run_native_operation: the lease is dropped, then the result is sent; the
\* document that asked may be gone.
EndDownload(t) ==
    LET w == work[t] IN
    /\ w.at = "Reported" /\ out[t] = None /\ RegistryFree
    /\ lease' = [lease EXCEPT ![t] = None]
    /\ owner' = [owner EXCEPT ![t] = FALSE]
    /\ live' = IF w.cancelled THEN live ELSE live \ {w.id}
    /\ job' = IF w.document = document
              THEN [job EXCEPT ![w.id].reply = Reply(w.outcome, w.gen)] ELSE job
    /\ work' = [work EXCEPT ![t] = NoWork]
    /\ UNCHANGED <<store, out, clear>> /\ Here

\* cancel_download by ticket, or by progress id without a local job: the
\* download stops counting as live, unless it is past its commit gate.
CancelNative(t) ==
    \/ /\ live' = live \ {work[t].id}
       /\ work' = [work EXCEPT ![t].cancelled = TRUE]
       /\ UNCHANGED <<store, lease, owner, out, clear>>
    \/ work[t].at # "Claimed" /\ UNCHANGED <<vars, work>>

-----------------------------------------------------------------------------
(* The document tells of a failure.                                        *)

\* Which of the failures G announceFailure announces.
UnreportedUnowned(G) == G \ announced

Unreported(G) == G \ (owned \cup announced)

\* announceFailure for failures of one id, besides the `own` ones that a
\* rejection has just reported: each is told once, and its bar is cleared.
Announce(i, G, own) ==
    LET N == Unreported(G)
    IN  /\ announced' = announced \cup N
        /\ told' = [g \in Gens |-> told[g] + (IF g \in N THEN 1 ELSE 0)
                                           + (IF g \in own THEN 1 ELSE 0)]
        /\ requests' = requests \o [n \in 1 .. Cardinality(N) |-> [id |-> i, from |-> "Void"]]

\* observeFailure: while a job of the id is under way, failures wait for it.
Buffers(i) == job[i].at # "None" /\ job[i].ticket

ObserveFailure(i, g) ==
    /\ heard' = heard \cup {g}
    /\ IF Buffers(i)
       THEN /\ job' = [job EXCEPT ![i].failures = @ \cup {g}]
            /\ UNCHANGED <<announced, told, requests>>
       ELSE Announce(i, {g}, {}) /\ UNCHANGED job
    /\ UNCHANGED owned

Deliver ==
    /\ wire # <<>>
    /\ wire' = Tail(wire)
    /\ LET e == Head(wire)
       IN  IF e.item.state = "Failed" /\ ~e.cleared THEN ObserveFailure(e.id, e.item.gen)
           ELSE UNCHANGED <<job, requests>> /\ UNCHANGED receipts
    /\ UNCHANGED <<vars, work, document, page, snapshot>>

\* initializeDownloadFailures subscribes, then asks for the snapshot, then
\* observes what is in it.  Without a listener it fails, which bootstrap logs.
Subscribe ==
    /\ page = "Loading"
    /\ page' = "Listening"
    /\ UNCHANGED <<vars, work, document, snapshot, wire, job, requests>> /\ UNCHANGED receipts

SubscribeFails ==
    /\ page = "Loading"
    /\ page' = "Deaf"
    /\ UNCHANGED <<vars, work, document, snapshot, wire, job, requests>> /\ UNCHANGED receipts

\* failed_progress_snapshot in the store: what has expired goes.
FailedSnapshot ==
    /\ Becomes(None, None, FreshBut(None))
    /\ UNCHANGED <<clock, lease, owner, out, live, clear>>

AskSnapshot ==
    /\ page = "Listening"
    /\ FailedSnapshot
    /\ snapshot' = {<<i, entries[i].gen>> :
                      i \in {j \in Fresh : entries[j].state = "Failed"}}
    /\ page' = IF snapshot' = {} THEN "Ready" ELSE "Answered"
    /\ UNCHANGED <<work, document, wire, job, requests>> /\ UNCHANGED receipts

\* The request is rejected, before or after it ran: the catch warns and the
\* page goes on with its listener alone.
SnapshotRejected ==
    /\ page = "Listening"
    /\ FailedSnapshot \/ UNCHANGED vars
    /\ page' = "Blind"
    /\ UNCHANGED <<work, document, snapshot, wire, job, requests>> /\ UNCHANGED receipts

TakeSnapshot ==
    /\ page = "Answered"
    /\ \E s \in snapshot :
          /\ ObserveFailure(s[1], s[2])
          /\ snapshot' = snapshot \ {s}
    /\ page' = IF snapshot' = {} THEN "Ready" ELSE page
    /\ UNCHANGED <<vars, work, document, wire>>

\* disposeDownloadFailures at pagehide, and the next document.  Downloads go
\* on; calls that were sent are still run, or not.
Reload ==
    /\ document < MaxDocuments
    /\ document' = document + 1
    /\ page' = "Loading" /\ snapshot' = {} /\ wire' = <<>>
    /\ job' = [i \in Ids |-> NoJob]
    /\ owned' = {} /\ announced' = {}
    /\ told' = [g \in Gens |-> 0] /\ heard' = {}
    /\ \E n \in {IF clear = Idle \/ requests = <<>> THEN 0 ELSE 1, Len(requests)} :
          requests' = [m \in 1 .. n |-> [requests[m] EXCEPT !.from = "Void"]]
    /\ UNCHANGED <<vars, work>>

-----------------------------------------------------------------------------
(* runDownloadJob and cancelDownloadJob.                                   *)

Keep == UNCHANGED <<document, page, snapshot, wire>>

RunDownloadJob(i) ==
    /\ Started /\ job[i].at = "None"
    /\ job' = [job EXCEPT ![i].at = "Preparing"]
    /\ UNCHANGED <<vars, work, requests>> /\ Keep /\ UNCHANGED receipts

ClearFor(i) == Append(requests, [id |-> i, from |-> "Job"])

\* withDownloadTicket has its ticket, or not; a cancellation asked for in the
\* meantime never reaches native work.
Prepared(i) ==
    /\ job[i].at = "Preparing"
    /\ \/ /\ ~job[i].cancelRequested
          /\ job' = [job EXCEPT ![i].at = "Invoked", ![i].ticket = TRUE]
          /\ UNCHANGED requests
       \/ /\ job' = [job EXCEPT ![i].at = "Clearing",
                        ![i].reply = Reply(IF job[i].cancelRequested THEN "Cancelled"
                                           ELSE "Failed", 0)]
          /\ requests' = ClearFor(i)
    /\ UNCHANGED <<vars, work>> /\ Keep /\ UNCHANGED receipts

\* The entry is released: the failures that waited for it are announced, and
\* the caller tells of its own.
FlushNothing(i) == {}

Flush(i) == job[i].failures

Settle(i, own) ==
    /\ job' = [job EXCEPT ![i] = NoJob]
    /\ Announce(i, Flush(i), own)
    /\ UNCHANGED <<owned, heard>>

\* download_file has answered.  A rejection that names its generation takes
\* the receipt for it before the clear is awaited.
JobSucceeded(i) ==
    /\ job[i].at = "Invoked" /\ job[i].reply # None
    /\ job[i].reply.outcome = "Succeeded"
    /\ Settle(i, {})
    /\ UNCHANGED <<vars, work>> /\ Keep

JobRejected(i) ==
    /\ job[i].at = "Invoked" /\ job[i].reply # None
    /\ job[i].reply.outcome # "Succeeded"
    /\ owned' = owned \cup ({job[i].reply.gen} \ {0})
    /\ job' = [job EXCEPT ![i].at = "Clearing"]
    /\ requests' = ClearFor(i)
    /\ UNCHANGED <<vars, work, announced, told, heard>> /\ Keep

JobSettles(i) ==
    /\ job[i].at = "Clearing"
    /\ \A n \in DOMAIN requests : requests[n] # [id |-> i, from |-> "Job"]
    /\ Settle(i, IF job[i].reply.outcome = "Failed" THEN {job[i].reply.gen} \ {0} ELSE {})
    /\ UNCHANGED <<vars, work>> /\ Keep

\* cancelDownloadJob, with a local job or for a download that survived its
\* document.
CancelJob(i) ==
    /\ RegistryFree
    /\ job[i].at \in {"Preparing", "Invoked"} /\ ~job[i].cancelRequested
    /\ job' = [job EXCEPT ![i].cancelRequested = TRUE]
    /\ LET T == {t \in Threads : work[t].id = i /\ work[t].document = document}
       IN  IF T = {} THEN UNCHANGED <<vars, work>> ELSE \E t \in T : CancelNative(t)
    /\ UNCHANGED requests /\ Keep /\ UNCHANGED receipts

CancelSurvivor(t) ==
    /\ RegistryFree
    /\ Started /\ work[t].id \in live /\ ~work[t].cancelled
    /\ job[work[t].id].at = "None"
    /\ CancelNative(t)
    /\ UNCHANGED <<job, requests>> /\ Keep /\ UNCHANGED receipts

-----------------------------------------------------------------------------
(* clear_progress, in the order of the calls.  Its event is no failure.    *)

RunClear ==
    /\ requests # <<>>
    /\ \/ ClearDecide(Head(requests).id) \/ ClearStore \/ ClearEmit
    /\ UNCHANGED <<work, job, requests>> /\ Keep /\ UNCHANGED receipts

\* The call is answered, or fails.
ClearAnswered ==
    /\ requests # <<>>
    /\ ClearReturn \/ (clear = Idle /\ UNCHANGED vars)
    /\ requests' = Tail(requests)
    /\ UNCHANGED <<work, job>> /\ Keep /\ UNCHANGED receipts

FailuresNext ==
    \/ \E t \in Threads :
          \/ \E i \in Ids : ClaimDownload(t, i)
          \/ StartDownload(t) \/ SetupFails(t) \/ SendEvent(t) \/ EndDownload(t)
          \/ \E outcome \in Outcomes : ReportDownload(t, outcome)
          \/ CancelSurvivor(t)
    \/ \E i \in Ids :
          \/ ClaimRefused(i) \/ RunDownloadJob(i) \/ Prepared(i)
          \/ JobSucceeded(i) \/ JobRejected(i) \/ JobSettles(i) \/ CancelJob(i)
          \/ Expire(i) /\ UNCHANGED <<work, job, requests>> /\ Keep /\ UNCHANGED receipts
    \/ Deliver \/ Subscribe \/ SubscribeFails
    \/ AskSnapshot \/ SnapshotRejected \/ TakeSnapshot \/ Reload
    \/ RunClear \/ ClearAnswered

FailuresSpec == FailuresInit /\ [][FailuresNext]_failureVars

-----------------------------------------------------------------------------

\* The user hears of a failure at most once per document: from the caller of
\* the job or from the observer, whichever of event, snapshot and rejection
\* comes first ("Receipts belong to this document and survive job
\* settlement", downloadJobs.ts:41).
ToldOnce == \A g \in Gens : told[g] <= 1

\* Nothing is on its way to a document that has started.
Quiet ==
    /\ Started /\ wire = <<>>
    /\ \A t \in Threads : out[t] = None /\ work[t].at # "Reported"
    /\ \A i \in Ids : job[i].at = "None"

\* A failure that has reached the document is told in the end: neither a job
\* of the same id that held it back nor a receipt swallows it.
HeardIsTold == Quiet => \A g \in heard : told[g] = 1

\* "Subscribe before taking the snapshot so failures on either side of
\* startup are observed" (downloadJobs.ts:74): a document that started with
\* its snapshot has told of every failure the store still holds, although the
\* download belongs to an earlier document.  One whose snapshot was rejected
\* has only told of what it heard.
StoredIsTold ==
    Quiet /\ page = "Ready" =>
       \A i \in Fresh : entries[i].state = "Failed" => told[entries[i].gen] = 1

=============================================================================
