---------------------- MODULE OperationRegistry_proofs ----------------------
(***************************************************************************)
(* Proofs about the operation registry, for any number of webviews,        *)
(* tickets, installs and any limits.                                        *)
(***************************************************************************)
EXTENDS OperationRegistry, FiniteSetTheorems, TLAPS

\* Expiry maps reservation tables to reservation tables.
LEMMA PurgedType ==
    ASSUME reads \in [Tickets -> ReadEntry \cup {Absent}]
    PROVE  Purged \in [Tickets -> ReadEntry \cup {Absent}]
  BY DEF Purged

\* So does cancel_entry on any set of tickets.
LEMMA CancelEntriesType ==
    ASSUME NEW r \in [Tickets -> ReadEntry \cup {Absent}], NEW T
    PROVE  CancelEntries(r, T) \in [Tickets -> ReadEntry \cup {Absent}]
  <1> SUFFICES ASSUME NEW t \in Tickets, r[t] # Absent
               PROVE  [r[t] EXCEPT !.cancelled = TRUE] \in ReadEntry
    BY DEF CancelEntries
  <1> r[t] \in ReadEntry
    OBVIOUS
  <1> QED BY DEF ReadEntry

\* Cancelling the tokens of any set of operations keeps the accepted table.
LEMMA CancelTokensType ==
    ASSUME accepted \in [Ids -> AcceptedEntry \cup {Absent}], NEW I
    PROVE  CancelTokens(I) \in [Ids -> AcceptedEntry \cup {Absent}]
  <1> SUFFICES ASSUME NEW i \in Ids, accepted[i] # Absent
               PROVE  [accepted[i] EXCEPT !.cancelled = TRUE] \in AcceptedEntry
    BY DEF CancelTokens
  <1> accepted[i] \in AcceptedEntry
    OBVIOUS
  <1> QED BY DEF AcceptedEntry

\* A new reservation, a new accepted operation and a new record have their types.
LEMMA NewEntries ==
    /\ \A o \in Owners, k \in Kinds :
          [owner |-> o, kind |-> k, state |-> "Reserved",
           expired |-> FALSE, cancelled |-> FALSE] \in ReadEntry
    /\ \A o \in Owners \cup {Absent}, key \in Keys \cup {Absent}, b \in BOOLEAN,
          k \in {"download", "conversion", "other"} :
          [owner |-> o, kind |-> k, key |-> key, committing |-> b,
           cancelled |-> FALSE] \in AcceptedEntry
    /\ \A o \in Owners, t \in Tickets, req \in Request :
          [owner |-> o, operation |-> t, request |-> req, outcome |-> "Running",
           retired |-> FALSE, retirementJob |-> "None",
           acknowledgementJob |-> "None"] \in CompletionEntry
  BY DEF ReadEntry, AcceptedEntry, CompletionEntry, Jobs

\* Recording a job on a record keeps its type.
LEMMA SetJobType ==
    ASSUME NEW e \in CompletionEntry, NEW step, NEW job \in Jobs
    PROVE  SetJob(e, step, job) \in CompletionEntry
  BY DEF SetJob, CompletionEntry

\* Every registry method keeps the tables well typed.
LEMMA TypeStep == TypeOK /\ [Next]_vars => TypeOK'
  <1> SUFFICES ASSUME TypeOK, [Next]_vars PROVE TypeOK'
    OBVIOUS
  <1> USE DEF TypeOK
  <1>p. Purged \in [Tickets -> ReadEntry \cup {Absent}]
    BY PurgedType
  <1>c. \A r \in [Tickets -> ReadEntry \cup {Absent}] : \A T :
           CancelEntries(r, T) \in [Tickets -> ReadEntry \cup {Absent}]
    BY CancelEntriesType
  <1>t. \A I : CancelTokens(I) \in [Ids -> AcceptedEntry \cup {Absent}]
    BY CancelTokensType
  <1>i. Tickets \subseteq Ids /\ Installs \subseteq Ids
    BY DEF Ids
  <1>1. ASSUME NEW t \in Tickets, NEW o \in Owners, NEW k \in Kinds, Prepare(t, o, k)
        PROVE  TypeOK'
    BY <1>1, <1>p, NewEntries DEF Prepare, unchangedOps
  <1>2. ASSUME NEW t \in Tickets, NEW o \in Owners, NEW k \in ReadKinds, ClaimRead(t, o, k)
        PROVE  TypeOK'
    <2>1. Purged[t] \in ReadEntry
      BY <1>2, <1>p DEF ClaimRead
    <2>2. [Purged[t] EXCEPT !.state = "Active"] \in ReadEntry
      BY <2>1 DEF ReadEntry
    <2>3. reads' = [Purged EXCEPT ![t] = [Purged[t] EXCEPT !.state = "Active"]]
      BY <1>2, <1>p DEF ClaimRead
    <2>4. reads' \in [Tickets -> ReadEntry \cup {Absent}]
      BY <2>2, <2>3, <1>p
    <2>5. readLeases' \in [Tickets -> Nat]
      BY <1>2 DEF ClaimRead
    <2> QED BY <1>2, <2>4, <2>5 DEF ClaimRead, unchangedOps
  <1>3. ASSUME NEW t \in Tickets, NEW o \in Owners, NEW k \in ReadKinds, CancelRead(t, o, k)
        PROVE  TypeOK'
    BY <1>3, <1>p, <1>c DEF CancelRead, unchangedOps
  <1>m. ASSUME NEW t \in Tickets, NEW o \in Owners, NEW k \in {"download", "conversion"},
               NEW key \in Keys \cup {Absent}, MoveToAccepted(t, o, k, key)
        PROVE  /\ reads' \in [Tickets -> ReadEntry \cup {Absent}]
               /\ accepted' \in [Ids -> AcceptedEntry \cup {Absent}]
               /\ leases' \in [Ids -> Nat]
    <2>1. [owner |-> o, kind |-> k, key |-> key, committing |-> FALSE,
           cancelled |-> FALSE] \in AcceptedEntry
      BY NewEntries
    <2>2. accepted' \in [Ids -> AcceptedEntry \cup {Absent}]
      BY <1>m, <2>1 DEF MoveToAccepted
    <2>3. leases' \in [Ids -> Nat]
      BY <1>m, <1>i DEF MoveToAccepted
    <2> QED BY <1>m, <1>p, <2>2, <2>3 DEF MoveToAccepted
  <1>4. ASSUME NEW t \in Tickets, NEW o \in Owners, NEW k \in {"download", "conversion"},
               NEW key \in Keys \cup {Absent}, ClaimPrepared(t, o, k, key)
        PROVE  TypeOK'
    BY <1>4, <1>m DEF ClaimPrepared
  <1>5. ASSUME NEW t \in Tickets, NEW o \in Owners, NEW k \in {"download", "conversion"},
               ClaimCancelled(t, o, k) \/ ReleasePrepared(t, o, k)
        PROVE  TypeOK'
    BY <1>5, <1>p DEF ClaimCancelled, ReleasePrepared, unchangedOps
  <1>6. ASSUME NEW t \in Tickets, NEW o \in Owners, NEW k \in {"download", "conversion"},
               CancelReserved(t, o, k)
        PROVE  TypeOK'
    <2>1. Purged[t] \in ReadEntry
      BY <1>6, <1>p DEF CancelReserved, Holds
    <2> DEFINE e == [Purged[t] EXCEPT !.state = "CancelledReserved", !.expired = FALSE]
    <2>2. e \in ReadEntry
      BY <2>1 DEF ReadEntry
    <2>3. reads' = [Purged EXCEPT ![t] = e]
      BY <1>6, <1>p, <2>1 DEF CancelReserved, ReadEntry
    <2>4. reads' \in [Tickets -> ReadEntry \cup {Absent}]
      BY <2>2, <2>3, <1>p
    <2>5. answered' \subseteq Ids
      BY <1>6, <1>i DEF CancelReserved
    <2> QED BY <1>6, <2>4, <2>5 DEF CancelReserved, unchangedOps
  <1>7. ASSUME NEW t \in Tickets, NEW o \in Owners, NEW k \in {"download", "conversion"},
               CancelAccepted(t, o, k)
        PROVE  TypeOK'
    BY <1>7, <1>p, <1>t, <1>i DEF CancelAccepted
  <1>8. ASSUME NEW p, NEW o \in Owners, CancelForProgress(p, o)
        PROVE  TypeOK'
    <2>1. answered' \subseteq Ids
      BY <1>8 DEF CancelForProgress, Downloads, LiveDownloads
    <2>2. accepted' \in [Ids -> AcceptedEntry \cup {Absent}]
      BY <1>8, <1>t DEF CancelForProgress
    <2> QED BY <1>8, <2>1, <2>2 DEF CancelForProgress
  <1>9. ASSUME NEW o \in Owners, NEW tab \in Tabs,
               CancelTab(o, tab) \/ CancelOwnerReservations(o)
        PROVE  TypeOK'
    BY <1>9, <1>c DEF CancelTab, CancelOwnerReservations, unchangedOps
  <1>10. ASSUME NEW o \in Owners, CancelOwner(o)
         PROVE  TypeOK'
    BY <1>10, <1>c, <1>t DEF CancelOwner
  <1>10a. ASSUME NEW o \in Owners, CancelOwnerReservations(o)
         PROVE  TypeOK'
    BY <1>10a, <1>c DEF CancelOwnerReservations, unchangedOps
  <1>11. ASSUME NEW c \in Installs, NEW o \in Owners, NEW t \in Tickets, NEW req \in Request,
                AdmitInstall(c, o, t, req)
         PROVE  TypeOK'
    <2>1. req.progress \in Keys
      BY DEF Request, Keys
    <2>2. /\ reads' \in [Tickets -> ReadEntry \cup {Absent}]
          /\ accepted' \in [Ids -> AcceptedEntry \cup {Absent}]
          /\ leases' \in [Ids -> Nat]
      BY <1>11, <2>1, <1>m DEF AdmitInstall
    <2>3. completions' \in [Installs -> CompletionEntry \cup {Absent}]
      BY <1>11, NewEntries DEF AdmitInstall
    <2> QED BY <1>11, <2>2, <2>3 DEF AdmitInstall
  <1>12. ASSUME NEW c \in Installs, NEW result \in {"Succeeded", "Failed"},
                FinishInstall(c, result)
         PROVE  TypeOK'
    <2>1. [completions[c] EXCEPT !.outcome = result] \in CompletionEntry
      BY <1>12 DEF FinishInstall, CompletionEntry
    <2>2. completions' \in [Installs -> CompletionEntry \cup {Absent}]
      BY <1>12, <2>1 DEF FinishInstall
    <2> QED BY <1>12, <2>2 DEF FinishInstall
  <1>13. ASSUME NEW c \in Installs, NEW o \in Owners,
                NEW step \in {"Retirement", "Acknowledgement"}, BeginApplication(c, o, step)
         PROVE  TypeOK'
    <2>1. completions[c] \in CompletionEntry
      BY <1>13 DEF BeginApplication
    <2>2. SetJob(completions[c], step, "Unresolved") \in CompletionEntry
      BY <2>1, SetJobType DEF Jobs
    <2>3. accepted' \in [Ids -> AcceptedEntry \cup {Absent}]
      BY <1>13, <1>i, NewEntries DEF BeginApplication
    <2>4. completions' \in [Installs -> CompletionEntry \cup {Absent}]
      BY <1>13, <2>2 DEF BeginApplication
    <2>5. leases' \in [Ids -> Nat] /\ tail' \in [Installs -> {"None", "Retirement", "Acknowledgement", "Ending"}]
      BY <1>13, <1>i DEF BeginApplication
    <2> QED BY <1>13, <2>3, <2>4, <2>5 DEF BeginApplication
  <1>14. ASSUME NEW c \in Installs, NEW step \in {"Retirement", "Acknowledgement"},
                ResolveJob(c, step)
         PROVE  TypeOK'
    <2>1. completions[c] \in CompletionEntry
      BY <1>14 DEF ResolveJob
    <2>2. SetJob(completions[c], step, "Resolved") \in CompletionEntry
      BY <2>1, SetJobType DEF Jobs
    <2> QED BY <1>14, <2>2 DEF ResolveJob
  <1>15. ASSUME NEW c \in Installs, FinishRetirement(c)
         PROVE  TypeOK'
    <2>1. [completions[c] EXCEPT !.retired = TRUE] \in CompletionEntry
      BY <1>15 DEF FinishRetirement, CompletionEntry
    <2> QED BY <1>15, <2>1 DEF FinishRetirement
  <1>16. ASSUME NEW c \in Installs, Acknowledge(c)
         PROVE  TypeOK'
    BY <1>16 DEF Acknowledge
  <1>17. ASSUME NEW t \in Tickets, Accept(t)
         PROVE  TypeOK'
    <2>1. [owner |-> Absent, kind |-> "other", key |-> Absent, committing |-> FALSE,
           cancelled |-> FALSE] \in AcceptedEntry
      BY NewEntries
    <2>2. accepted' \in [Ids -> AcceptedEntry \cup {Absent}]
      BY <1>17, <2>1 DEF Accept
    <2> QED BY <1>17, <1>i, <2>2 DEF Accept
  <1>18. ASSUME NEW t \in Tickets, Expire(t)
         PROVE  TypeOK'
    <2>1. [reads[t] EXCEPT !.expired = TRUE] \in ReadEntry
      BY <1>18 DEF Expire, ReadEntry
    <2> QED BY <1>18, <2>1 DEF Expire, unchangedOps
  <1>19. ASSUME NEW t \in Tickets, DropAwaiter(t)
         PROVE  TypeOK'
    BY <1>19, <1>c DEF DropAwaiter, unchangedOps
  <1>20. ASSUME NEW t \in Tickets, DropReadLease(t)
         PROVE  TypeOK'
    BY <1>20 DEF DropReadLease, Wake, unchangedOps
  <1>21. ASSUME NEW i \in Ids, BeginCommit(i)
         PROVE  TypeOK'
    <2>1. [accepted[i] EXCEPT !.committing = TRUE] \in AcceptedEntry
      BY <1>21 DEF BeginCommit, IsDownload, AcceptedEntry
    <2>2. accepted' \in [Ids -> AcceptedEntry \cup {Absent}]
      BY <1>21, <2>1 DEF BeginCommit
    <2> QED BY <1>21, <2>2 DEF BeginCommit
  <1>22. ASSUME NEW i \in Ids, DropLease(i)
         PROVE  TypeOK'
    BY <1>22 DEF DropLease, Wake
  <1>23. CASE Refused
    BY <1>23, <1>p DEF Refused, unchangedOps
  <1>24. CASE Seal
    BY <1>24, <1>c, <1>t DEF Seal
  <1>25. CASE StartDrain \/ CheckDrain \/ TimeoutDrain
    BY <1>25 DEF StartDrain, CheckDrain, TimeoutDrain, unchangedOps
  <1>26. CASE UNCHANGED vars
    BY <1>26 DEF vars
  <1>k. ReadKinds \subseteq Kinds
    BY DEF Kinds
  <1>27. CASE RenderReservation
    BY <1>27, <1>1, <1>2, <1>3, <1>4, <1>5, <1>6, <1>7 DEF RenderReservation
  <1>28. CASE RenderSweep
    BY <1>28, <1>8, <1>9, <1>10, <1>10a DEF RenderSweep
  <1>29. CASE Mailbox
    BY <1>29, <1>11, <1>12, <1>13, <1>14, <1>15, <1>16 DEF Mailbox
  <1>30. CASE Native
    BY <1>30, <1>17, <1>18, <1>19, <1>20, <1>21, <1>22, <1>23, <1>24, <1>25 DEF Native
  <1> QED BY <1>26, <1>27, <1>28, <1>29, <1>30 DEF Next

-----------------------------------------------------------------------------
(* The inductive invariant.                                                *)

\* A ticket is in one table at most, every entry was minted, only reads and
\* analyses are claimed in place, and an install's own entry is no download.
TablesOK ==
    /\ \A t \in Tickets :
          /\ reads[t] # Absent => t \in minted /\ accepted[t] = Absent
          /\ accepted[t] # Absent => t \in minted
          /\ reads[t] # Absent /\ reads[t].state = "Active" => reads[t].kind \in ReadKinds
    /\ \A c \in Installs : accepted[c] # Absent => accepted[c].kind = "other"

\* Only a sealed registry is drained, and it stays empty.
DrainOK ==
    /\ drain # "Idle" => sealed
    /\ drain = "Drained" => ~Working

\* Two downloads that exclude each other are not both able to commit.
Rivals(i, j) ==
    /\ accepted[i].key = accepted[j].key
    /\ accepted[i].key \in Accounts \/ accepted[i].owner = accepted[j].owner

MayPublish(i) == ~accepted[i].cancelled \/ accepted[i].committing

KeyExclusive ==
    \A i, j \in Downloads : Rivals(i, j) /\ MayPublish(i) /\ MayPublish(j) => i = j

\* What an answered cancellation and a passed commit gate leave behind.
HistoryOK ==
    /\ \A i \in answered :
          /\ i \in Tickets /\ i \in minted
          /\ reads[i] # Absent => reads[i].state = "CancelledReserved"
          /\ accepted[i] # Absent => accepted[i].cancelled
    /\ \A i \in committed :
          /\ i \in Tickets /\ i \in minted
          /\ reads[i] = Absent
          /\ accepted[i] # Absent => accepted[i].committing

Inv == /\ TypeOK /\ TablesOK /\ LeaseBacked /\ SealedIsCancelled /\ DrainOK
       /\ CommitProtected /\ KeyExclusive /\ HistoryOK /\ CancelHonoured

\* A step that admits nothing: reservations may go, active reads stay, and
\* the accepted table changes at most by tokens being cancelled.
ReadsQuiet ==
    \A t \in Tickets :
       \/ reads'[t] = Absent /\ (reads[t] = Absent \/ reads[t].state # "Active")
       \/ /\ reads[t] # Absent /\ reads'[t] # Absent
          /\ reads'[t].kind = reads[t].kind /\ reads'[t].state = reads[t].state
          /\ reads[t].cancelled => reads'[t].cancelled

AcceptedQuiet ==
    \A i \in Ids :
       \/ accepted'[i] = accepted[i]
       \/ /\ accepted[i] # Absent /\ accepted'[i] # Absent
          /\ accepted'[i].owner = accepted[i].owner
          /\ accepted'[i].kind = accepted[i].kind
          /\ accepted'[i].key = accepted[i].key
          /\ accepted'[i].committing = accepted[i].committing
          /\ accepted'[i].cancelled
          /\ accepted[i].kind = "download" => ~accepted[i].committing

QuietStep ==
    /\ ReadsQuiet /\ AcceptedQuiet
    /\ UNCHANGED <<sealed, minted, readLeases, leases, drain, committed>>
    /\ answered \subseteq answered'
    /\ \A i \in answered' \ answered :
          /\ i \in Ids /\ IsDownload(i) /\ accepted'[i].cancelled
          /\ ~accepted[i].committing \/ sealed

\* A quiet step keeps the inductive invariant.
LEMMA QuietKeeps == Inv /\ TypeOK' /\ QuietStep => Inv'
  <1> SUFFICES ASSUME Inv, TypeOK', QuietStep PROVE Inv'
    OBVIOUS
  <1>i. Tickets \subseteq Ids /\ Installs \subseteq Ids /\ Ids = Tickets \cup Installs
    BY DEF Ids
  <1>a. \A i \in Ids : accepted'[i] = Absent <=> accepted[i] = Absent
    BY DEF QuietStep, AcceptedQuiet
  <1>d. Downloads' = Downloads
    BY <1>a DEF QuietStep, AcceptedQuiet, Downloads, IsDownload
  <1>1. TablesOK'
    BY <1>i, <1>a DEF QuietStep, ReadsQuiet, AcceptedQuiet, Inv, TablesOK
  <1>2. LeaseBacked'
    BY <1>a DEF QuietStep, ReadsQuiet, Inv, LeaseBacked
  <1>3. SealedIsCancelled'
    <2> SUFFICES ASSUME sealed
                 PROVE  /\ \A t \in Tickets : reads'[t] # Absent =>
                               reads'[t].state = "Active" /\ reads'[t].cancelled
                        /\ \A i \in Ids : accepted'[i] # Absent => accepted'[i].cancelled
      BY DEF QuietStep, SealedIsCancelled, Present, TypeOK
    <2>1. /\ \A t \in Tickets : reads[t] # Absent => reads[t].state = "Active" /\ reads[t].cancelled
          /\ \A i \in Ids : accepted[i] # Absent => accepted[i].cancelled
      BY DEF Inv, SealedIsCancelled, Present, TypeOK
    <2> QED BY <2>1, <1>a DEF QuietStep, ReadsQuiet, AcceptedQuiet
  <1>4. DrainOK'
    <2>1. Working' => Working
      <3>1. \A t \in Tickets : reads'[t] # Absent /\ reads'[t].state = "Active" =>
                reads[t] # Absent /\ reads[t].state = "Active"
        BY DEF QuietStep, ReadsQuiet
      <3> QED BY <3>1, <1>a DEF Working, Present, Inv, TypeOK
    <2> QED BY <2>1 DEF QuietStep, Inv, DrainOK
  <1>5. CommitProtected'
    BY <1>d DEF QuietStep, AcceptedQuiet, Inv, CommitProtected, Downloads, IsDownload
  <1>6. KeyExclusive'
    <2> SUFFICES ASSUME NEW i \in Downloads, NEW j \in Downloads,
                        Rivals(i, j)', MayPublish(i)', MayPublish(j)'
                 PROVE  i = j
      BY <1>d DEF KeyExclusive
    <2>1. i \in Ids /\ j \in Ids
      BY DEF Downloads
    <2>2. Rivals(i, j) /\ MayPublish(i) /\ MayPublish(j)
      BY <2>1 DEF QuietStep, AcceptedQuiet, Rivals, MayPublish
    <2> QED BY <2>2 DEF Inv, KeyExclusive
  <1>7. HistoryOK' /\ CancelHonoured'
    <2>1. \A i \in answered' \ answered :
             i \in Tickets /\ i \in minted /\ reads[i] = Absent /\ accepted'[i].cancelled
             /\ (i \in committed => sealed)
      BY <1>i DEF QuietStep, Inv, TablesOK, IsDownload, HistoryOK
    <2>2. \A i \in Tickets : reads[i] = Absent => reads'[i] = Absent
      BY DEF QuietStep, ReadsQuiet
    <2>3. HistoryOK'
      <3>1. ASSUME NEW i \in answered'
            PROVE  /\ i \in Tickets /\ i \in minted'
                   /\ reads'[i] # Absent => reads'[i].state = "CancelledReserved"
                   /\ accepted'[i] # Absent => accepted'[i].cancelled
        <4>1. CASE i \in answered
          BY <4>1, <1>i, <1>a DEF QuietStep, ReadsQuiet, AcceptedQuiet, Inv, HistoryOK
        <4>2. CASE i \notin answered
          BY <4>2, <2>1, <2>2 DEF QuietStep
        <4> QED BY <4>1, <4>2
      <3>2. ASSUME NEW i \in committed'
            PROVE  /\ i \in Tickets /\ i \in minted'
                   /\ reads'[i] = Absent
                   /\ accepted'[i] # Absent => accepted'[i].committing
        BY <1>i, <1>a, <2>2 DEF QuietStep, AcceptedQuiet, Inv, HistoryOK
      <3> QED BY <3>1, <3>2 DEF HistoryOK
    <2>4. CancelHonoured'
      BY <2>1 DEF QuietStep, Inv, CancelHonoured
    <2> QED BY <2>3, <2>4
  <1> QED BY <1>1, <1>2, <1>3, <1>4, <1>5, <1>6, <1>7 DEF Inv

\* The tables an admission may grow, told apart from everything else: one
\* new entry under i, which no lease and no history names yet.
AcceptOne(i, e) ==
    /\ ~sealed
    /\ e \in AcceptedEntry /\ ~e.cancelled
    /\ accepted[i] = Absent
    /\ accepted' = [accepted EXCEPT ![i] = e]
    /\ leases' = [leases EXCEPT ![i] = @ + 1]
    /\ UNCHANGED <<sealed, readLeases, drain, answered, committed>>

\* Accepting one operation keeps the invariant, when its ticket leaves the
\* reservations and its download has no rival that may still publish.
LEMMA AcceptKeeps ==
    ASSUME Inv, TypeOK', NEW i \in Ids, NEW e, AcceptOne(i, e),
           ReadsQuiet,
           minted \subseteq minted',
           i \in Tickets => /\ i \in minted' /\ reads'[i] = Absent
                            /\ i \notin answered /\ i \notin committed
                            /\ ~e.committing,
           i \in Installs => e.kind = "other",
           e.kind = "download" =>
              \A j \in LiveDownloads :
                 ~(accepted[j].key = e.key /\ (e.key \in Accounts \/ accepted[j].owner = e.owner))
    PROVE  Inv'
  <1>i. Tickets \subseteq Ids /\ Installs \subseteq Ids /\ Ids = Tickets \cup Installs
        /\ Tickets \cap Installs = {}
    BY RegistryAssumption DEF Ids
  <1>e. e # Absent
    BY RegistryAssumption DEF AcceptOne
  <1>f. /\ accepted'[i] = e
        /\ \A j \in Ids : j # i => accepted'[j] = accepted[j]
        /\ \A j \in Ids : j # i => leases'[j] = leases[j]
        /\ leases'[i] = leases[i] + 1
        /\ ~sealed /\ ~sealed'
    BY DEF AcceptOne, Inv, TypeOK
  <1>1. TablesOK'
    <2>1. ASSUME NEW t \in Tickets
          PROVE  /\ reads'[t] # Absent => t \in minted' /\ accepted'[t] = Absent
                 /\ accepted'[t] # Absent => t \in minted'
                 /\ reads'[t] # Absent /\ reads'[t].state = "Active" => reads'[t].kind \in ReadKinds
      BY <1>i, <1>f DEF ReadsQuiet, Inv, TablesOK
    <2>2. ASSUME NEW c \in Installs
          PROVE  accepted'[c] # Absent => accepted'[c].kind = "other"
      BY <1>i, <1>f DEF Inv, TablesOK
    <2> QED BY <2>1, <2>2 DEF TablesOK
  <1>2. LeaseBacked'
    <2>1. leases[i] = 0
      BY DEF Inv, LeaseBacked, AcceptOne
    <2>2. \A j \in Ids : leases'[j] = IF accepted'[j] # Absent THEN 1 ELSE 0
      BY <2>1, <1>f, <1>e DEF Inv, LeaseBacked
    <2>3. readLeases' = readLeases
      BY DEF AcceptOne
    <2> QED BY <2>2, <2>3 DEF ReadsQuiet, Inv, LeaseBacked
  <1>3. SealedIsCancelled'
    BY <1>f DEF SealedIsCancelled
  <1>4. DrainOK'
    BY <1>f DEF AcceptOne, Inv, DrainOK
  <1>d. \A j \in Downloads' : j \in Ids /\ (j # i => j \in Downloads) /\ (j = i => e.kind = "download")
    BY <1>f DEF Downloads, IsDownload
  <1>5. CommitProtected'
    BY <1>f, <1>d DEF AcceptOne, Inv, CommitProtected
  <1>6. KeyExclusive'
    <2> SUFFICES ASSUME NEW j \in Downloads', NEW k \in Downloads', j # k,
                        Rivals(j, k)', MayPublish(j)', MayPublish(k)'
                 PROVE  FALSE
      BY DEF KeyExclusive
    <2>0. \A n \in Downloads : MayPublish(n) => n \in LiveDownloads
      BY <1>f DEF MayPublish, Inv, CommitProtected, LiveDownloads
    <2>1. CASE j # i /\ k # i
      <3>1. j \in Downloads /\ k \in Downloads /\ Rivals(j, k) /\ MayPublish(j) /\ MayPublish(k)
        BY <2>1, <1>d, <1>f DEF Rivals, MayPublish
      <3> QED BY <3>1 DEF Inv, KeyExclusive
    <2>2. CASE j = i
      <3>1. k \in Downloads /\ MayPublish(k) /\ accepted'[k] = accepted[k] /\ e.kind = "download"
        BY <2>2, <1>d, <1>f DEF MayPublish
      <3>2. accepted[k].key = e.key /\ (e.key \in Accounts \/ accepted[k].owner = e.owner)
        BY <2>2, <3>1, <1>f DEF Rivals
      <3> QED BY <3>1, <3>2, <2>0
    <2>3. CASE k = i
      <3>1. j \in Downloads /\ MayPublish(j) /\ accepted'[j] = accepted[j] /\ e.kind = "download"
        BY <2>3, <1>d, <1>f DEF MayPublish
      <3>2. accepted[j].key = e.key /\ (e.key \in Accounts \/ accepted[j].owner = e.owner)
        BY <2>3, <3>1, <1>f DEF Rivals
      <3> QED BY <3>1, <3>2, <2>0
    <2> QED BY <2>1, <2>2, <2>3
  <1>7. HistoryOK'
    <2>1. answered' = answered /\ committed' = committed
      BY DEF AcceptOne
    <2>2. \A j \in answered \cup committed : j \in Tickets /\ j \in minted' /\ j # i
      BY <1>i DEF Inv, HistoryOK
    <2>3. \A j \in answered :
             /\ reads'[j] # Absent => reads'[j].state = "CancelledReserved"
             /\ accepted'[j] # Absent => accepted'[j].cancelled
      BY <1>i, <1>f, <2>2 DEF ReadsQuiet, Inv, HistoryOK
    <2>4. \A j \in committed :
             /\ reads'[j] = Absent
             /\ accepted'[j] # Absent => accepted'[j].committing
      BY <1>i, <1>f, <2>2 DEF ReadsQuiet, Inv, HistoryOK
    <2> QED BY <2>1, <2>2, <2>3, <2>4 DEF HistoryOK
  <1>8. CancelHonoured'
    BY DEF AcceptOne, Inv, CancelHonoured
  <1> QED BY <1>1, <1>2, <1>3, <1>4, <1>5, <1>6, <1>7, <1>8 DEF Inv

\* Expiry, cancel_entry and the sweeps are quiet on the reservations.
LEMMA ReadsQuietFacts ==
    ASSUME TypeOK
    PROVE  /\ \A t \in Tickets : Purged[t] = reads[t] \/
                 (Purged[t] = Absent /\ reads[t] # Absent /\ reads[t].state # "Active")
           /\ reads' = reads => ReadsQuiet
           /\ reads' = Purged => ReadsQuiet
           /\ \A t \in Tickets : reads' = [Purged EXCEPT ![t] = Absent]
                 /\ (Purged[t] = Absent \/ Purged[t].state # "Active") => ReadsQuiet
           /\ \A T : reads' = CancelEntries(reads, T) => ReadsQuiet
           /\ \A T : reads' = CancelEntries(Purged, T) => ReadsQuiet
  <1>t. reads \in [Tickets -> ReadEntry \cup {Absent}]
    BY DEF TypeOK
  <1>1. \A t \in Tickets : Purged[t] = reads[t] \/
                 (Purged[t] = Absent /\ reads[t] # Absent /\ reads[t].state # "Active")
    BY DEF Purged
  <1>2. Purged \in [Tickets -> ReadEntry \cup {Absent}]
    BY <1>t, PurgedType
  <1>3. \A r \in [Tickets -> ReadEntry \cup {Absent}] : \A T :
           \A t \in Tickets :
              \/ CancelEntries(r, T)[t] = r[t]
              \/ r[t] # Absent /\ r[t].state # "Active" /\ CancelEntries(r, T)[t] = Absent
              \/ /\ r[t] # Absent /\ CancelEntries(r, T)[t] # Absent
                 /\ CancelEntries(r, T)[t].kind = r[t].kind
                 /\ CancelEntries(r, T)[t].state = r[t].state
                 /\ CancelEntries(r, T)[t].cancelled
    <2> SUFFICES ASSUME NEW r \in [Tickets -> ReadEntry \cup {Absent}], NEW T, NEW t \in Tickets,
                        t \in T, r[t] # Absent, r[t].state = "Active"
                 PROVE  /\ CancelEntries(r, T)[t] # Absent
                        /\ CancelEntries(r, T)[t].kind = r[t].kind
                        /\ CancelEntries(r, T)[t].state = r[t].state
                        /\ CancelEntries(r, T)[t].cancelled
      BY DEF CancelEntries
    <2>1. r[t] \in ReadEntry
      OBVIOUS
    <2>2. CancelEntries(r, T)[t] = [r[t] EXCEPT !.cancelled = TRUE]
      BY DEF CancelEntries
    <2>3. [r[t] EXCEPT !.cancelled = TRUE] \in ReadEntry
      BY <2>1 DEF ReadEntry
    <2> QED BY <2>1, <2>2, <2>3, RegistryAssumption DEF ReadEntry
  <1>4. reads' = reads => ReadsQuiet
    BY DEF ReadsQuiet
  <1>5. reads' = Purged => ReadsQuiet
    BY <1>1 DEF ReadsQuiet
  <1>6. ASSUME NEW t \in Tickets, reads' = [Purged EXCEPT ![t] = Absent],
               Purged[t] = Absent \/ Purged[t].state # "Active"
        PROVE  ReadsQuiet
    BY <1>1, <1>2, <1>6 DEF ReadsQuiet
  <1>7. ASSUME NEW T, reads' = CancelEntries(reads, T)
        PROVE  ReadsQuiet
    BY <1>t, <1>3, <1>7 DEF ReadsQuiet
  <1>8. ASSUME NEW T, reads' = CancelEntries(Purged, T)
        PROVE  ReadsQuiet
    <2> SUFFICES ASSUME NEW t \in Tickets
                 PROVE
       \/ reads'[t] = Absent /\ (reads[t] = Absent \/ reads[t].state # "Active")
       \/ /\ reads[t] # Absent /\ reads'[t] # Absent
          /\ reads'[t].kind = reads[t].kind /\ reads'[t].state = reads[t].state
          /\ reads[t].cancelled => reads'[t].cancelled
      BY DEF ReadsQuiet
    <2>1. CASE Purged[t] = reads[t]
      BY <1>2, <1>3, <1>8, <2>1
    <2>2. CASE Purged[t] = Absent /\ reads[t] # Absent /\ reads[t].state # "Active"
      BY <1>2, <1>3, <1>8, <2>2
    <2> QED BY <1>1, <2>1, <2>2
  <1> QED BY <1>1, <1>4, <1>5, <1>6, <1>7, <1>8

\* Cancelling tokens of operations that are no committing downloads is quiet.
LEMMA TokensQuiet ==
    ASSUME TypeOK, NEW I, accepted' = CancelTokens(I),
           \A i \in I \cap Downloads : ~accepted[i].committing
    PROVE  /\ AcceptedQuiet
           /\ \A i \in Ids : i \in I /\ accepted[i] # Absent => accepted'[i].cancelled
  <1> SUFFICES ASSUME NEW i \in Ids, i \in I, accepted[i] # Absent
               PROVE  /\ accepted'[i] # Absent
                      /\ accepted'[i].owner = accepted[i].owner
                      /\ accepted'[i].kind = accepted[i].kind
                      /\ accepted'[i].key = accepted[i].key
                      /\ accepted'[i].committing = accepted[i].committing
                      /\ accepted'[i].cancelled
                      /\ accepted[i].kind = "download" => ~accepted[i].committing
    BY DEF AcceptedQuiet, CancelTokens
  <1>1. accepted[i] \in AcceptedEntry
    BY DEF TypeOK
  <1>2. accepted'[i] = [accepted[i] EXCEPT !.cancelled = TRUE]
    BY DEF CancelTokens
  <1>3. accepted'[i] \in AcceptedEntry
    BY <1>1, <1>2 DEF AcceptedEntry
  <1>4. accepted[i].kind = "download" => i \in Downloads
    BY DEF Downloads, IsDownload
  <1> QED BY <1>1, <1>2, <1>3, <1>4, RegistryAssumption DEF AcceptedEntry

\* Every registry method, workflow step and clock step keeps the invariant.
LEMMA InvStep == Inv /\ [Next]_vars => Inv'
  <1> SUFFICES ASSUME Inv, [Next]_vars PROVE Inv'
    OBVIOUS
  <1>ty. TypeOK /\ TypeOK'
    BY TypeStep DEF Inv
  <1>i. Tickets \subseteq Ids /\ Installs \subseteq Ids /\ Ids = Tickets \cup Installs
        /\ Tickets \cap Installs = {}
    BY RegistryAssumption DEF Ids
  <1>rq. /\ \A t \in Tickets : Purged[t] = reads[t] \/
                 (Purged[t] = Absent /\ reads[t] # Absent /\ reads[t].state # "Active")
         /\ reads' = reads => ReadsQuiet
         /\ reads' = Purged => ReadsQuiet
         /\ \A t \in Tickets : reads' = [Purged EXCEPT ![t] = Absent]
                 /\ (Purged[t] = Absent \/ Purged[t].state # "Active") => ReadsQuiet
         /\ \A T : reads' = CancelEntries(reads, T) => ReadsQuiet
         /\ \A T : reads' = CancelEntries(Purged, T) => ReadsQuiet
    BY <1>ty, ReadsQuietFacts
  <1>pu. \A t \in Tickets : Purged[t] = reads[t] \/
            (Purged[t] = Absent /\ reads[t] # Absent /\ reads[t].state # "Active")
    BY <1>rq
  <1>aq. accepted' = accepted => AcceptedQuiet
    BY DEF AcceptedQuiet
  <1>q. ASSUME ReadsQuiet, AcceptedQuiet, answered' = answered,
               UNCHANGED <<sealed, minted, readLeases, leases, drain, committed>>
        PROVE  Inv'
    BY <1>q, <1>ty, QuietKeeps DEF QuietStep
  \* A reservation of a download or conversion is never active.
  <1>na. \A t \in Tickets : \A o, k : k \in {"download", "conversion"} /\ Holds(t, o, k)
            => Purged[t].state # "Active"
    BY <1>rq, RegistryAssumption DEF Holds, Inv, TablesOK, ReadKinds
  <1>1. ASSUME NEW t \in Tickets, NEW o \in Owners, NEW k \in Kinds, Prepare(t, o, k)
        PROVE  Inv'
    <2> DEFINE e == [owner |-> o, kind |-> k, state |-> "Reserved",
                     expired |-> FALSE, cancelled |-> FALSE]
    <2>1. Purged \in [Tickets -> ReadEntry \cup {Absent}]
      BY <1>ty, PurgedType DEF TypeOK
    <2>2. e \in ReadEntry /\ e # Absent
      BY NewEntries, RegistryAssumption
    <2>3. reads'[t] = e /\ \A u \in Tickets : u # t => reads'[u] = Purged[u]
      BY <1>1, <2>1 DEF Prepare
    <2>4. /\ t \notin minted /\ minted' = minted \cup {t} /\ ~sealed /\ sealed' = sealed
          /\ UNCHANGED <<accepted, leases, readLeases, drain, answered, committed>>
      BY <1>1 DEF Prepare, unchangedOps
    <2>5. reads[t] = Absent /\ accepted[t] = Absent /\ t \notin answered /\ t \notin committed
      BY <2>4 DEF Inv, TablesOK, HistoryOK
    <2>6. TablesOK'
      BY <2>2, <2>3, <2>4, <2>5, <1>rq DEF Inv, TablesOK
    <2>7. LeaseBacked'
      BY <2>2, <2>3, <2>4, <2>5, <1>rq DEF Inv, LeaseBacked
    <2>8. SealedIsCancelled' /\ DrainOK'
      BY <2>4 DEF Inv, SealedIsCancelled, DrainOK
    <2>9. CommitProtected' /\ KeyExclusive' /\ CancelHonoured'
      BY <2>4 DEF Inv, CommitProtected, KeyExclusive, CancelHonoured, Downloads, IsDownload,
                  Rivals, MayPublish
    <2>10. HistoryOK'
      BY <2>3, <2>4, <2>5, <1>rq DEF Inv, HistoryOK
    <2> QED BY <1>ty, <2>6, <2>7, <2>8, <2>9, <2>10 DEF Inv
  <1>2. ASSUME NEW t \in Tickets, NEW o \in Owners, NEW k \in ReadKinds, ClaimRead(t, o, k)
        PROVE  Inv'
    <2>1. Purged \in [Tickets -> ReadEntry \cup {Absent}]
      BY <1>ty, PurgedType DEF TypeOK
    <2>2. Purged[t] = reads[t] /\ reads[t] # Absent /\ reads[t] \in ReadEntry
          /\ reads[t].kind = k /\ reads[t].state = "Reserved"
      BY <1>2, <1>rq, <1>ty DEF ClaimRead, TypeOK
    <2>3. /\ reads'[t] = [reads[t] EXCEPT !.state = "Active"]
          /\ \A u \in Tickets : u # t => reads'[u] = Purged[u]
      BY <1>2, <2>1, <2>2 DEF ClaimRead
    <2>4. reads'[t] \in ReadEntry /\ reads'[t].state = "Active" /\ reads'[t].kind = k
      BY <2>2, <2>3 DEF ReadEntry
    <2>5. reads'[t] # Absent
      BY <2>4, RegistryAssumption
    <2>6. /\ ~sealed /\ sealed' = sealed /\ readLeases' = [readLeases EXCEPT ![t] = @ + 1]
          /\ UNCHANGED <<accepted, leases, minted, drain, answered, committed>>
      BY <1>2 DEF ClaimRead, unchangedOps
    <2>7. accepted[t] = Absent /\ t \in minted /\ t \notin answered /\ t \notin committed
      BY <2>2 DEF Inv, TablesOK, HistoryOK
    <2>8. TablesOK'
      BY <2>3, <2>4, <2>6, <2>7, <1>rq DEF Inv, TablesOK
    <2>9. LeaseBacked'
      <3>1. readLeases[t] = 0
        BY <2>2 DEF Inv, LeaseBacked
      <3>2. \A u \in Tickets : readLeases'[u] = IF reads'[u] # Absent /\ reads'[u].state = "Active" THEN 1 ELSE 0
        <4> SUFFICES ASSUME NEW u \in Tickets
                     PROVE  readLeases'[u] = IF reads'[u] # Absent /\ reads'[u].state = "Active" THEN 1 ELSE 0
          OBVIOUS
        <4>1. CASE u = t
          BY <4>1, <3>1, <2>4, <2>5, <2>6, <1>ty DEF TypeOK
        <4>2. CASE u # t
          <5>1. readLeases'[u] = readLeases[u]
            BY <4>2, <2>6, <1>ty DEF TypeOK
          <5>2. (reads'[u] # Absent /\ reads'[u].state = "Active")
                <=> (reads[u] # Absent /\ reads[u].state = "Active")
            BY <4>2, <2>3, <1>pu
          <5> QED BY <5>1, <5>2 DEF Inv, LeaseBacked
        <4> QED BY <4>1, <4>2
      <3> QED BY <3>2, <2>6 DEF Inv, LeaseBacked
    <2>10. SealedIsCancelled' /\ DrainOK'
      BY <2>6 DEF Inv, SealedIsCancelled, DrainOK
    <2>11. CommitProtected' /\ KeyExclusive' /\ CancelHonoured'
      BY <2>6 DEF Inv, CommitProtected, KeyExclusive, CancelHonoured, Downloads, IsDownload,
                  Rivals, MayPublish
    <2>12. HistoryOK'
      BY <2>3, <2>6, <2>7, <1>rq DEF Inv, HistoryOK
    <2> QED BY <1>ty, <2>8, <2>9, <2>10, <2>11, <2>12 DEF Inv
  <1>3. ASSUME NEW t \in Tickets, NEW o \in Owners, NEW k \in ReadKinds, CancelRead(t, o, k)
        PROVE  Inv'
    BY <1>3, <1>rq, <1>aq, <1>q DEF CancelRead, unchangedOps
  <1>m. ASSUME NEW t \in Tickets, NEW o \in Owners, NEW k \in {"download", "conversion"},
               NEW key \in Keys \cup {Absent}, ~sealed,
               Holds(t, o, k), Purged[t].state = "Reserved",
               k = "download" => AdmitsDownload(o, key),
               MoveToAccepted(t, o, k, key),
               UNCHANGED <<sealed, minted, readLeases, drain, answered, committed>>
        PROVE  Inv'
    <2> DEFINE e == [owner |-> o, kind |-> k, key |-> key, committing |-> FALSE,
                     cancelled |-> FALSE]
    <2>1. e \in AcceptedEntry
      BY NewEntries
    <2>2. AcceptOne(t, e)
      BY <1>m, <2>1 DEF AcceptOne, MoveToAccepted
    <2>3. ReadsQuiet
      BY <1>m, <1>rq DEF MoveToAccepted
    <2>4. reads[t] = Purged[t] /\ reads[t] # Absent
      BY <1>m, <1>rq DEF Holds
    <2>5. t \in minted' /\ reads'[t] = Absent /\ t \notin answered /\ t \notin committed
      <3>1. Purged \in [Tickets -> ReadEntry \cup {Absent}]
        BY <1>ty, PurgedType DEF TypeOK
      <3> QED BY <1>m, <2>4, <3>1 DEF MoveToAccepted, Inv, TablesOK, HistoryOK
    <2>6. e.kind = "download" =>
             \A j \in LiveDownloads :
                ~(accepted[j].key = e.key /\ (e.key \in Accounts \/ accepted[j].owner = e.owner))
      BY <1>m DEF AdmitsDownload
    <2>7. ~e.committing /\ t \notin Installs /\ t \in Ids /\ minted \subseteq minted'
      BY <1>i, <1>m
    <2> HIDE DEF e
    <2> QED BY <1>ty, <2>2, <2>3, <2>5, <2>6, <2>7, AcceptKeeps
  <1>4. ASSUME NEW t \in Tickets, NEW o \in Owners, NEW k \in {"download", "conversion"},
               NEW key \in Keys \cup {Absent}, ClaimPrepared(t, o, k, key)
        PROVE  Inv'
    BY <1>4, <1>m DEF ClaimPrepared
  <1>5. ASSUME NEW t \in Tickets, NEW o \in Owners, NEW k \in {"download", "conversion"},
               ClaimCancelled(t, o, k) \/ ReleasePrepared(t, o, k)
        PROVE  Inv'
    BY <1>5, <1>na, <1>rq, <1>aq, <1>q DEF ClaimCancelled, ReleasePrepared, unchangedOps
  <1>6. ASSUME NEW t \in Tickets, NEW o \in Owners, NEW k \in {"download", "conversion"},
               CancelReserved(t, o, k)
        PROVE  Inv'
    <2>1. Purged \in [Tickets -> ReadEntry \cup {Absent}]
      BY <1>ty, PurgedType DEF TypeOK
    <2>2. Purged[t] = reads[t] /\ reads[t] # Absent /\ reads[t] \in ReadEntry
          /\ reads[t].state = "Reserved"
      BY <1>6, <1>rq, <1>ty DEF CancelReserved, Holds, TypeOK
    <2>3. /\ reads'[t] = [reads[t] EXCEPT !.state = "CancelledReserved", !.expired = FALSE]
          /\ \A u \in Tickets : u # t => reads'[u] = Purged[u]
      BY <1>6, <2>1, <2>2 DEF CancelReserved, ReadEntry
    <2>4. reads'[t] \in ReadEntry /\ reads'[t].state = "CancelledReserved"
      BY <2>2, <2>3 DEF ReadEntry
    <2>6. /\ sealed' = sealed /\ readLeases' = readLeases
          /\ UNCHANGED <<accepted, leases, minted, drain, committed>>
          /\ answered' = answered \/ answered' = answered \cup {t}
      BY <1>6 DEF CancelReserved, unchangedOps
    <2>s. ~sealed
      BY <2>2, <1>ty DEF Inv, SealedIsCancelled, Present, TypeOK
    <2>7. accepted[t] = Absent /\ t \in minted /\ t \notin committed
      BY <2>2 DEF Inv, TablesOK, HistoryOK
    <2>8. TablesOK'
      BY <2>3, <2>4, <2>6, <2>7, <1>rq DEF Inv, TablesOK
    <2>9. LeaseBacked'
      <3>1. \A u \in Tickets : (reads'[u] # Absent /\ reads'[u].state = "Active")
               <=> (reads[u] # Absent /\ reads[u].state = "Active")
        BY <2>2, <2>3, <2>4, <1>pu
      <3> QED BY <2>6, <3>1 DEF Inv, LeaseBacked
    <2>10. SealedIsCancelled' /\ DrainOK'
      BY <2>6, <2>s DEF Inv, SealedIsCancelled, DrainOK
    <2>11. CommitProtected' /\ KeyExclusive' /\ CancelHonoured'
      BY <2>6, <2>7 DEF Inv, CommitProtected, KeyExclusive, CancelHonoured, Downloads, IsDownload,
                  Rivals, MayPublish
    <2>12. HistoryOK'
      <3>1. \A i \in answered' :
               /\ i \in Tickets /\ i \in minted
               /\ reads'[i] # Absent => reads'[i].state = "CancelledReserved"
               /\ accepted[i] # Absent => accepted[i].cancelled
        <4> SUFFICES ASSUME NEW i \in answered'
                     PROVE  /\ i \in Tickets /\ i \in minted
                            /\ reads'[i] # Absent => reads'[i].state = "CancelledReserved"
                            /\ accepted[i] # Absent => accepted[i].cancelled
          OBVIOUS
        <4>1. CASE i = t
          BY <4>1, <2>4, <2>7
        <4>2. CASE i # t
          <5>1. i \in answered
            BY <4>2, <2>6
          <5> QED BY <4>2, <5>1, <2>3, <1>pu DEF Inv, HistoryOK
        <4> QED BY <4>1, <4>2
      <3>2. \A i \in committed : i \in Tickets /\ reads'[i] = Absent
        BY <2>3, <2>7, <1>pu DEF Inv, HistoryOK
      <3> QED BY <2>6, <3>1, <3>2 DEF Inv, HistoryOK
    <2> QED BY <1>ty, <2>8, <2>9, <2>10, <2>11, <2>12 DEF Inv
  <1>7. ASSUME NEW t \in Tickets, NEW o \in Owners, NEW k \in {"download", "conversion"},
               CancelAccepted(t, o, k)
        PROVE  Inv'
    <2>1. AcceptedQuiet /\ accepted'[t].cancelled
      <3>1. \A i \in {t} \cap Downloads : ~accepted[i].committing
        BY <1>7 DEF CancelAccepted, Downloads, IsDownload
      <3> QED BY <1>7, <1>ty, <1>i, <3>1, TokensQuiet DEF CancelAccepted
    <2>2. \A i \in answered' \ answered : i = t /\ IsDownload(t) /\ ~accepted[t].committing
      BY <1>7 DEF CancelAccepted, IsDownload
    <2>3. QuietStep
      BY <1>7, <1>rq, <1>i, <2>1, <2>2 DEF QuietStep, CancelAccepted
    <2> QED BY <2>3, <1>ty, QuietKeeps
  <1>8. ASSUME NEW p, NEW o \in Owners, CancelForProgress(p, o)
        PROVE  Inv'
    <2> DEFINE matches == {i \in Downloads : accepted[i].owner = o /\ ProgressOf(i) = p}
               live == matches \cap LiveDownloads
    <2>0. UNCHANGED <<reads, sealed, minted, readLeases, leases, drain, committed>>
      BY <1>8 DEF CancelForProgress
    <2>1. ASSUME NEW i \in live, ~accepted[i].committing, accepted' = CancelTokens({i}),
                 answered' = answered \cup {i}
          PROVE  Inv'
      <3>1. i \in Ids /\ IsDownload(i) /\ accepted[i] # Absent
        BY DEF Downloads, IsDownload
      <3>2. AcceptedQuiet /\ accepted'[i].cancelled
        BY <2>1, <1>ty, <3>1, TokensQuiet
      <3>3. QuietStep
        BY <2>0, <2>1, <3>1, <3>2, <1>rq DEF QuietStep
      <3> QED BY <3>3, <1>ty, QuietKeeps
    <2>2. ASSUME live = {}, answered' = answered \cup matches, accepted' = accepted
          PROVE  Inv'
      <3>1. \A i \in matches : i \in Ids /\ IsDownload(i) /\ accepted[i].cancelled
        BY <2>2 DEF Downloads, LiveDownloads
      <3>2. \A i \in matches : ~accepted[i].committing \/ sealed
        BY <3>1 DEF Inv, CommitProtected
      <3>3. QuietStep
        BY <2>0, <2>2, <3>1, <3>2, <1>rq, <1>aq DEF QuietStep
      <3> QED BY <3>3, <1>ty, QuietKeeps
    <2> QED BY <1>8, <2>1, <2>2 DEF CancelForProgress
  <1>9. ASSUME NEW o \in Owners, NEW tab \in Tabs, CancelTab(o, tab)
        PROVE  Inv'
    BY <1>9, <1>rq, <1>aq, <1>q DEF CancelTab, unchangedOps
  <1>10. ASSUME NEW o \in Owners, CancelOwner(o)
         PROVE  Inv'
    <2> DEFINE I == {i \in Downloads : accepted[i].owner = o /\ ~accepted[i].committing}
    <2>1. AcceptedQuiet
      BY <1>10, <1>ty, TokensQuiet DEF CancelOwner
    <2> QED BY <1>10, <2>1, <1>rq, <1>q DEF CancelOwner
  <1>10a. ASSUME NEW o \in Owners, CancelOwnerReservations(o)
         PROVE  Inv'
    BY <1>10a, <1>rq, <1>aq, <1>q DEF CancelOwnerReservations, unchangedOps
  <1>11. ASSUME NEW c \in Installs, NEW o \in Owners, NEW t \in Tickets, NEW req \in Request,
                AdmitInstall(c, o, t, req)
         PROVE  Inv'
    <2>1. req.progress \in Keys \cup {Absent}
      BY DEF Request, Keys
    <2> QED BY <1>11, <2>1, <1>m DEF AdmitInstall
  <1>12. ASSUME NEW c \in Installs, NEW x,
                FinishInstall(c, x) \/ ResolveJob(c, x) \/ FinishRetirement(c) \/ Acknowledge(c)
         PROVE  Inv'
    BY <1>12, <1>rq, <1>aq, <1>q DEF FinishInstall, ResolveJob, FinishRetirement, Acknowledge
  <1>13. ASSUME NEW c \in Installs, NEW o \in Owners,
                NEW step \in {"Retirement", "Acknowledgement"}, BeginApplication(c, o, step)
         PROVE  Inv'
    <2> DEFINE e == [owner |-> o, kind |-> "other", key |-> Absent, committing |-> TRUE,
                     cancelled |-> FALSE]
    <2>1. e \in AcceptedEntry
      BY NewEntries
    <2>2. AcceptOne(c, e)
      BY <1>13, <2>1 DEF AcceptOne, BeginApplication
    <2>3. ReadsQuiet /\ minted' = minted
      BY <1>13, <1>rq DEF BeginApplication
    <2>4. e.kind = "other" /\ c \notin Tickets /\ c \in Ids
      BY <1>i
    <2> HIDE DEF e
    <2> QED BY <1>ty, <2>2, <2>3, <2>4, AcceptKeeps
  <1>17. ASSUME NEW t \in Tickets, Accept(t)
         PROVE  Inv'
    <2> DEFINE e == [owner |-> Absent, kind |-> "other", key |-> Absent, committing |-> FALSE,
                     cancelled |-> FALSE]
    <2>1. e \in AcceptedEntry
      BY NewEntries
    <2>2. AcceptOne(t, e)
      BY <1>17, <2>1 DEF AcceptOne, Accept
    <2>3. ReadsQuiet /\ minted \subseteq minted' /\ t \in minted' /\ reads' = reads
      BY <1>17, <1>rq DEF Accept
    <2>4. reads[t] = Absent /\ t \notin answered /\ t \notin committed
      BY <1>17 DEF Accept, Inv, TablesOK, HistoryOK
    <2>5. e.kind = "other" /\ ~e.committing /\ t \in Ids /\ t \notin Installs
      BY <1>i
    <2> HIDE DEF e
    <2> QED BY <1>ty, <2>2, <2>3, <2>4, <2>5, AcceptKeeps
  <1>18. ASSUME NEW t \in Tickets, Expire(t)
         PROVE  Inv'
    <2>1. reads[t] \in ReadEntry /\ reads[t] # Absent
      BY <1>18, <1>ty DEF Expire, TypeOK
    <2>2. reads'[t] = [reads[t] EXCEPT !.expired = TRUE]
          /\ \A u \in Tickets : u # t => reads'[u] = reads[u]
      BY <1>18, <1>ty DEF Expire, TypeOK
    <2>3. reads'[t] \in ReadEntry /\ reads'[t].kind = reads[t].kind
          /\ reads'[t].state = reads[t].state /\ reads'[t].cancelled = reads[t].cancelled
      BY <2>1, <2>2 DEF ReadEntry
    <2>4. ReadsQuiet
      BY <2>1, <2>2, <2>3, RegistryAssumption DEF ReadsQuiet
    <2> QED BY <1>18, <2>4, <1>aq, <1>q DEF Expire, unchangedOps
  <1>19. ASSUME NEW t \in Tickets, DropAwaiter(t)
         PROVE  Inv'
    BY <1>19, <1>rq, <1>aq, <1>q DEF DropAwaiter, unchangedOps
  <1>23. CASE Refused
    BY <1>23, <1>rq, <1>aq, <1>q DEF Refused, unchangedOps
  <1>20. ASSUME NEW t \in Tickets, DropReadLease(t)
         PROVE  Inv'
    <2>1. /\ reads'[t] = Absent /\ readLeases'[t] = readLeases[t] - 1
          /\ \A u \in Tickets : u # t => reads'[u] = reads[u] /\ readLeases'[u] = readLeases[u]
          /\ UNCHANGED <<accepted, sealed, minted, leases, answered, committed>>
          /\ drain' = drain \/ (drain' = "Checking" /\ drain = "Asleep")
      BY <1>20, <1>ty DEF DropReadLease, TypeOK, Wake, unchangedOps
    <2>2. readLeases[t] = 1 /\ reads[t] # Absent /\ reads[t].state = "Active"
      BY <1>20 DEF DropReadLease, Inv, LeaseBacked
    <2>3. TablesOK'
      BY <2>1 DEF Inv, TablesOK
    <2>4. LeaseBacked'
      BY <2>1, <2>2 DEF Inv, LeaseBacked
    <2>5. SealedIsCancelled'
      BY <2>1, <1>ty DEF Inv, SealedIsCancelled, Present, TypeOK
    <2>6. DrainOK'
      BY <2>1, <1>ty DEF Inv, DrainOK, Working, Present, TypeOK
    <2>7. CommitProtected' /\ KeyExclusive' /\ CancelHonoured'
      BY <2>1 DEF Inv, CommitProtected, KeyExclusive, CancelHonoured, Downloads, IsDownload,
                  Rivals, MayPublish
    <2>8. HistoryOK'
      BY <2>1 DEF Inv, HistoryOK
    <2> QED BY <1>ty, <2>3, <2>4, <2>5, <2>6, <2>7, <2>8 DEF Inv
  <1>21. ASSUME NEW i \in Ids, BeginCommit(i)
         PROVE  Inv'
    <2>1. accepted[i] \in AcceptedEntry /\ accepted[i] # Absent /\ accepted[i].kind = "download"
          /\ ~accepted[i].cancelled /\ i \in Downloads
      BY <1>21, <1>ty DEF BeginCommit, IsDownload, TypeOK, Downloads
    <2>2. accepted'[i] = [accepted[i] EXCEPT !.committing = TRUE]
          /\ \A j \in Ids : j # i => accepted'[j] = accepted[j]
      BY <1>21, <1>ty DEF BeginCommit, TypeOK
    <2>3. /\ accepted'[i] \in AcceptedEntry
          /\ accepted'[i].owner = accepted[i].owner /\ accepted'[i].kind = "download"
          /\ accepted'[i].key = accepted[i].key /\ ~accepted'[i].cancelled
          /\ accepted'[i].committing
      BY <2>1, <2>2 DEF AcceptedEntry
    <2>4. accepted'[i] # Absent
      BY <2>3, RegistryAssumption
    <2>5. /\ committed' = committed \cup {i}
          /\ UNCHANGED <<reads, sealed, minted, readLeases, leases, drain, answered>>
      BY <1>21 DEF BeginCommit
    <2>6. ~sealed
      BY <2>1, <1>ty DEF Inv, SealedIsCancelled, Present, TypeOK
    <2>7. i \in Tickets /\ i \in minted /\ reads[i] = Absent /\ i \notin answered
      BY <2>1, <1>i DEF Inv, TablesOK, HistoryOK
    <2>8. TablesOK'
      BY <2>2, <2>3, <2>4, <2>5, <2>1, <2>7, <1>i DEF Inv, TablesOK
    <2>9. LeaseBacked'
      BY <2>2, <2>4, <2>5, <2>1 DEF Inv, LeaseBacked
    <2>10. SealedIsCancelled' /\ DrainOK'
      BY <2>5, <2>6 DEF Inv, SealedIsCancelled, DrainOK
    <2>11. Downloads' = Downloads
      BY <2>1, <2>2, <2>3, <2>4 DEF Downloads, IsDownload
    <2>12. CommitProtected'
      BY <2>2, <2>3, <2>11, <2>5 DEF Inv, CommitProtected, Downloads
    <2>13. KeyExclusive'
      <3> SUFFICES ASSUME NEW j \in Downloads, NEW k \in Downloads,
                          Rivals(j, k)', MayPublish(j)', MayPublish(k)'
                   PROVE  j = k
        BY <2>11 DEF KeyExclusive
      <3>1. Rivals(j, k)
        BY <2>1, <2>2, <2>3 DEF Rivals, Downloads
      <3>2. MayPublish(j) /\ MayPublish(k)
        BY <2>1, <2>2, <2>3 DEF MayPublish, Downloads
      <3> QED BY <3>1, <3>2 DEF Inv, KeyExclusive
    <2>14. HistoryOK'
      BY <2>2, <2>3, <2>5, <2>7, <1>i DEF Inv, HistoryOK
    <2>15. CancelHonoured'
      BY <2>5, <2>7 DEF Inv, CancelHonoured
    <2> QED BY <1>ty, <2>8, <2>9, <2>10, <2>12, <2>13, <2>14, <2>15 DEF Inv
  <1>22. ASSUME NEW i \in Ids, DropLease(i)
         PROVE  Inv'
    <2>1. /\ accepted'[i] = Absent /\ leases'[i] = leases[i] - 1
          /\ \A j \in Ids : j # i => accepted'[j] = accepted[j] /\ leases'[j] = leases[j]
          /\ UNCHANGED <<reads, sealed, minted, readLeases, answered, committed>>
          /\ drain' = drain \/ (drain' = "Checking" /\ drain = "Asleep")
      BY <1>22, <1>ty DEF DropLease, TypeOK, Wake
    <2>2. leases[i] = 1 /\ accepted[i] # Absent
      BY <1>22 DEF DropLease, Inv, LeaseBacked
    <2>3. TablesOK'
      BY <2>1, <1>i DEF Inv, TablesOK
    <2>4. LeaseBacked'
      BY <2>1, <2>2 DEF Inv, LeaseBacked
    <2>5. SealedIsCancelled'
      BY <2>1, <1>ty DEF Inv, SealedIsCancelled, Present, TypeOK
    <2>6. DrainOK'
      <3>1. Working' => Working
        BY <2>1, <1>ty DEF Working, Present, TypeOK
      <3> QED BY <2>1, <3>1 DEF Inv, DrainOK
    <2>d. \A j \in Downloads' : j \in Downloads /\ j \in Ids /\ accepted'[j] = accepted[j]
      BY <2>1 DEF Downloads, IsDownload
    <2>7. CommitProtected' /\ CancelHonoured'
      BY <2>1, <2>d DEF Inv, CommitProtected, CancelHonoured
    <2>8. KeyExclusive'
      BY <2>d DEF Inv, KeyExclusive, Rivals, MayPublish
    <2>9. HistoryOK'
      BY <2>1, <1>i DEF Inv, HistoryOK
    <2> QED BY <1>ty, <2>3, <2>4, <2>5, <2>6, <2>7, <2>8, <2>9 DEF Inv
  <1>24. CASE Seal
    <2>1. /\ sealed' /\ reads' = CancelEntries(reads, Tickets) /\ accepted' = CancelTokens(Ids)
          /\ UNCHANGED <<minted, readLeases, leases, drain, answered, committed>>
      BY <1>24 DEF Seal
    <2>2. ReadsQuiet
      BY <2>1, <1>rq
    <2>3. \A i \in Ids :
             IF accepted[i] = Absent THEN accepted'[i] = Absent
             ELSE /\ accepted[i] \in AcceptedEntry
                  /\ accepted'[i] = [accepted[i] EXCEPT !.cancelled = TRUE]
      BY <2>1, <1>ty DEF CancelTokens, TypeOK
    <2>4. \A i \in Ids : accepted[i] # Absent =>
             /\ accepted'[i] # Absent /\ accepted'[i].kind = accepted[i].kind
             /\ accepted'[i].owner = accepted[i].owner /\ accepted'[i].key = accepted[i].key
             /\ accepted'[i].committing = accepted[i].committing /\ accepted'[i].cancelled
      <3> SUFFICES ASSUME NEW i \in Ids, accepted[i] # Absent
                   PROVE  /\ accepted'[i] # Absent /\ accepted'[i].kind = accepted[i].kind
             /\ accepted'[i].owner = accepted[i].owner /\ accepted'[i].key = accepted[i].key
             /\ accepted'[i].committing = accepted[i].committing /\ accepted'[i].cancelled
        OBVIOUS
      <3>1. accepted'[i] \in AcceptedEntry
        BY <2>3 DEF AcceptedEntry
      <3>2. accepted'[i] # Absent
        BY <3>1, RegistryAssumption
      <3> QED BY <2>3, <3>2 DEF AcceptedEntry
    <2>5. \A t \in Tickets : reads'[t] # Absent => reads'[t].state = "Active" /\ reads'[t].cancelled
      <3> SUFFICES ASSUME NEW t \in Tickets, reads'[t] # Absent
                   PROVE  reads'[t].state = "Active" /\ reads'[t].cancelled
        OBVIOUS
      <3>1. /\ reads[t] \in ReadEntry /\ reads[t].state = "Active"
            /\ reads'[t] = [reads[t] EXCEPT !.cancelled = TRUE]
        BY <2>1, <1>ty DEF CancelEntries, TypeOK
      <3> QED BY <3>1 DEF ReadEntry
    <2>6. TablesOK'
      <3>1. \A t \in Tickets :
               /\ reads'[t] # Absent => t \in minted /\ accepted'[t] = Absent
               /\ accepted'[t] # Absent => t \in minted
        BY <2>2, <2>3, <1>i DEF ReadsQuiet, Inv, TablesOK
      <3>2. \A t \in Tickets : reads'[t] # Absent /\ reads'[t].state = "Active"
               => reads'[t].kind \in ReadKinds
        BY <2>2 DEF ReadsQuiet, Inv, TablesOK
      <3>3. \A c \in Installs : accepted'[c] # Absent => accepted'[c].kind = "other"
        BY <2>3, <2>4, <1>i DEF Inv, TablesOK
      <3> QED BY <2>1, <3>1, <3>2, <3>3 DEF TablesOK
    <2>7. LeaseBacked'
      BY <2>1, <2>2, <2>3, <2>4 DEF ReadsQuiet, Inv, LeaseBacked
    <2>8. SealedIsCancelled'
      BY <2>3, <2>4, <2>5, <1>ty DEF SealedIsCancelled, Present, TypeOK
    <2>9. DrainOK'
      <3>1. Working' => Working
        BY <2>2, <2>3, <1>ty DEF Working, Present, TypeOK, ReadsQuiet
      <3> QED BY <2>1, <3>1 DEF Inv, DrainOK
    <2>d. Downloads' = Downloads
      BY <2>3, <2>4 DEF Downloads, IsDownload
    <2>10. CommitProtected' /\ CancelHonoured'
      BY <2>1 DEF CommitProtected, CancelHonoured
    <2>11. KeyExclusive'
      <3> SUFFICES ASSUME NEW j \in Downloads, NEW k \in Downloads,
                          Rivals(j, k)', MayPublish(j)', MayPublish(k)'
                   PROVE  j = k
        BY <2>d DEF KeyExclusive
      <3>1. Rivals(j, k)
        BY <2>4 DEF Rivals, Downloads, IsDownload
      <3>2. MayPublish(j) /\ MayPublish(k)
        BY <2>4 DEF MayPublish, Downloads, IsDownload
      <3> QED BY <3>1, <3>2 DEF Inv, KeyExclusive
    <2>12. HistoryOK'
      <3>1. \A i \in answered : i \in Tickets /\ i \in minted
               /\ (reads'[i] # Absent => reads'[i].state = "CancelledReserved")
               /\ (accepted'[i] # Absent => accepted'[i].cancelled)
        BY <2>2, <2>3, <2>4, <1>i DEF ReadsQuiet, Inv, HistoryOK
      <3>2. \A i \in committed : i \in Tickets /\ i \in minted /\ reads'[i] = Absent
               /\ (accepted'[i] # Absent => accepted'[i].committing)
        BY <2>2, <2>3, <2>4, <1>i DEF ReadsQuiet, Inv, HistoryOK
      <3> QED BY <2>1, <3>1, <3>2 DEF HistoryOK
    <2> QED BY <1>ty, <2>6, <2>7, <2>8, <2>9, <2>10, <2>11, <2>12 DEF Inv
  <1>25. CASE StartDrain \/ CheckDrain \/ TimeoutDrain
    <2>1. UNCHANGED <<reads, accepted, sealed, minted, readLeases, leases, answered, committed>>
      BY <1>25 DEF StartDrain, CheckDrain, TimeoutDrain, unchangedOps
    <2>2. Working' = Working
      BY <2>1 DEF Working, Present
    <2>3. DrainOK'
      BY <1>25, <2>1, <2>2 DEF StartDrain, CheckDrain, TimeoutDrain, Inv, DrainOK
    <2>4. TablesOK' /\ LeaseBacked' /\ SealedIsCancelled'
      BY <2>1 DEF Inv, TablesOK, LeaseBacked, SealedIsCancelled, Present
    <2>5. CommitProtected' /\ KeyExclusive' /\ CancelHonoured' /\ HistoryOK'
      BY <2>1 DEF Inv, CommitProtected, KeyExclusive, CancelHonoured, HistoryOK, Downloads,
                  IsDownload, Rivals, MayPublish
    <2> QED BY <1>ty, <2>3, <2>4, <2>5 DEF Inv
  <1>26. CASE UNCHANGED vars
    BY <1>26, <1>rq, <1>aq, <1>q DEF vars
  <1>27. CASE RenderReservation
    BY <1>27, <1>1, <1>2, <1>3, <1>4, <1>5, <1>6, <1>7 DEF RenderReservation
  <1>28. CASE RenderSweep
    BY <1>28, <1>8, <1>9, <1>10, <1>10a DEF RenderSweep
  <1>29. CASE Mailbox
    BY <1>29, <1>11, <1>12, <1>13 DEF Mailbox
  <1>30. CASE Native
    BY <1>30, <1>17, <1>18, <1>19, <1>20, <1>21, <1>22, <1>23, <1>24, <1>25 DEF Native
  <1> QED BY <1>26, <1>27, <1>28, <1>29, <1>30 DEF Next

-----------------------------------------------------------------------------
(* The theorems.                                                           *)

\* The empty registry satisfies the inductive invariant.
LEMMA InitInv == Init => Inv
  <1> SUFFICES ASSUME Init PROVE Inv
    OBVIOUS
  <1> USE DEF Init
  <1>1. TypeOK
    BY DEF TypeOK
  <1>i. Tickets \subseteq Ids /\ Installs \subseteq Ids
    BY DEF Ids
  <1>2. TablesOK /\ LeaseBacked
    BY <1>i DEF TablesOK, LeaseBacked
  <1>3. SealedIsCancelled /\ DrainOK /\ CancelHonoured /\ HistoryOK
    BY DEF SealedIsCancelled, DrainOK, CancelHonoured, HistoryOK
  <1>4. Downloads = {}
    BY DEF Downloads, IsDownload
  <1>5. CommitProtected /\ KeyExclusive
    BY <1>4 DEF CommitProtected, KeyExclusive
  <1> QED BY <1>1, <1>2, <1>3, <1>5 DEF Inv

\* Every table of RegistryState keeps its type, whatever the methods of
\* operations.rs are called with and in whatever order.
THEOREM TypeCorrect == Spec => []TypeOK
  <1>1. Init => TypeOK
    BY InitInv DEF Inv
  <1>2. TypeOK /\ [Next]_vars => TypeOK'
    BY TypeStep
  <1> QED BY <1>1, <1>2, PTL DEF Spec

\* The inductive invariant holds in every reachable state of the registry.
THEOREM Invariance == Spec => []Inv
  BY InitInv, InvStep, PTL DEF Spec

\* Active leases are never evicted or reused: Drop of an OperationLease
\* always removes its own entry, and every entry has exactly one lease.
THEOREM LeasesAreBacked == Spec => []LeaseBacked
  <1>1. Inv => LeaseBacked
    BY DEF Inv
  <1> QED BY <1>1, Invariance, PTL

\* An answered cancellation binds the commit gate: begin_commit never
\* succeeds for a download whose cancellation was answered true.
THEOREM CancellationIsHonoured == Spec => []CancelHonoured
  <1>1. Inv => CancelHonoured
    BY DEF Inv
  <1> QED BY <1>1, Invariance, PTL

\* No sweep of a window or of a renderer cancels a committing download.
THEOREM CommitIsProtected == Spec => []CommitProtected
  <1>1. Inv => CommitProtected
    BY DEF Inv
  <1> QED BY <1>1, Invariance, PTL

\* The admission policy of claim_prepared_in_state and the commit gate
\* together let one download at a time publish under an admission key.
THEOREM OneWriterPerKey == Spec => []OneWriter
  <1>1. Inv => OneWriter
    BY DEF Inv, KeyExclusive, OneWriter, Rivals, MayPublish
  <1> QED BY <1>1, Invariance, PTL

\* After seal_and_request_cancellation everything left was told to stop.
THEOREM SealCancelsAll == Spec => []SealedIsCancelled
  <1>1. Inv => SealedIsCancelled
    BY DEF Inv
  <1> QED BY <1>1, Invariance, PTL

\* A true answer of wait_for_drain means that no lease is alive.
THEOREM DrainIsComplete == Spec => []DrainedIsEmpty
  <1>1. Inv => DrainedIsEmpty
    <2> SUFFICES ASSUME Inv, drain = "Drained" PROVE DrainedIsEmpty
      BY DEF DrainedIsEmpty
    <2>1. ~Working
      BY DEF Inv, DrainOK
    <2>2. \A t \in Tickets : ~(reads[t] # Absent /\ reads[t].state = "Active")
      BY <2>1 DEF Working, Present, Inv, TypeOK
    <2>3. \A i \in Ids : accepted[i] = Absent
      BY <2>1 DEF Working, Present, Inv, TypeOK
    <2> QED BY <2>2, <2>3 DEF Inv, LeaseBacked, DrainedIsEmpty
  <1> QED BY <1>1, Invariance, PTL

\* Once the registry is sealed no method lets a lease in: the population
\* that wait_for_drain waits for only shrinks.
THEOREM SealStopsAdmission == Spec => SealedOnlyShrinks
  <1> DEFINE Shrinks == /\ \A t \in Tickets : readLeases'[t] <= readLeases[t]
                        /\ \A i \in Ids : leases'[i] <= leases[i]
  <1>1. TypeOK /\ [Next]_vars => [sealed => Shrinks]_vars
    <2> SUFFICES ASSUME TypeOK, Next, sealed PROVE Shrinks
      OBVIOUS
    <2>u. UNCHANGED <<readLeases, leases>> => Shrinks
      BY DEF TypeOK
    <2>1. CASE RenderReservation
      <3>1. ASSUME NEW t, NEW o, NEW k, Prepare(t, o, k) \/ ClaimRead(t, o, k)
            PROVE  Shrinks
        BY <3>1 DEF Prepare, ClaimRead
      <3>2. ASSUME NEW t, NEW o, NEW k, NEW key, ClaimPrepared(t, o, k, key) PROVE Shrinks
        BY <3>2 DEF ClaimPrepared
      <3>3. ASSUME NEW t, NEW o, NEW k,
                   \/ CancelRead(t, o, k) \/ ClaimCancelled(t, o, k) \/ CancelReserved(t, o, k)
                   \/ CancelAccepted(t, o, k) \/ ReleasePrepared(t, o, k)
            PROVE  Shrinks
        BY <3>3, <2>u DEF CancelRead, ClaimCancelled, CancelReserved, CancelAccepted,
                          ReleasePrepared, unchangedOps
      <3> QED BY <2>1, <3>1, <3>2, <3>3 DEF RenderReservation
    <2>2. CASE RenderSweep
      BY <2>2, <2>u DEF RenderSweep, CancelForProgress, CancelTab, CancelOwnerReservations,
         CancelOwner, unchangedOps
    <2>3. CASE Mailbox
      BY <2>3, <2>u DEF Mailbox, AdmitInstall, FinishInstall, BeginApplication, ResolveJob,
         FinishRetirement, Acknowledge
    <2>4. ASSUME NEW t \in Tickets, DropReadLease(t) PROVE Shrinks
      BY <2>4 DEF DropReadLease, unchangedOps, TypeOK
    <2>5. ASSUME NEW i \in Ids, DropLease(i) PROVE Shrinks
      BY <2>5 DEF DropLease, TypeOK
    <2>6. CASE Native
      <3>1. ASSUME NEW t \in Tickets, Accept(t) \/ Expire(t) \/ DropAwaiter(t) PROVE Shrinks
        BY <3>1, <2>u DEF Accept, Expire, DropAwaiter, unchangedOps
      <3>2. ASSUME NEW i \in Ids, BeginCommit(i) PROVE Shrinks
        BY <3>2, <2>u DEF BeginCommit
      <3>3. CASE Refused \/ Seal \/ StartDrain \/ CheckDrain \/ TimeoutDrain
        BY <3>3, <2>u DEF Refused, Seal, StartDrain, CheckDrain, TimeoutDrain, unchangedOps
      <3> QED BY <2>6, <2>4, <2>5, <3>1, <3>2, <3>3 DEF Native
    <2> QED BY <2>1, <2>2, <2>3, <2>6 DEF Next
  <1> QED BY <1>1, TypeCorrect, PTL DEF Spec, SealedOnlyShrinks

-----------------------------------------------------------------------------
(* The engine install mailbox.                                             *)

\* A record names a ticket that left the reservations for good, and no two
\* records name the same one.
RecordsOK ==
    /\ \A c \in Installs : completions[c] # Absent =>
          /\ completions[c].operation \in minted
          /\ reads[completions[c].operation] = Absent
    /\ \A c, d \in Installs :
          /\ completions[c] # Absent /\ completions[d] # Absent
          /\ completions[c].operation = completions[d].operation
          => c = d

\* An attempt is under way exactly as long as it holds its lease.
TailOK == \A c \in Installs : tail[c] # "None" => accepted[c] # Absent

FinitePlaces == IsFiniteSet(Present(accepted)) /\ IsFiniteSet(Present(completions))

\* The tickets that hold a place, and the records that keep one.
Claimed == Present(accepted) \cap Tickets

Kept == {c \in Present(completions) : accepted[completions[c].operation] = Absent}

MailInv ==
    /\ RecordsOK /\ TailOK /\ FinitePlaces
    /\ OneUpgradePerEngine /\ MailboxOwned /\ PlacesKept

\* A step that leaves the records alone and neither admits nor ends anything.
MailQuiet ==
    /\ UNCHANGED <<completions, tail, leases>>
    /\ minted \subseteq minted' /\ committed \subseteq committed'
    /\ \A t \in Tickets : t \in minted /\ reads[t] = Absent => reads'[t] = Absent
    /\ \A i \in Ids : /\ accepted'[i] = Absent <=> accepted[i] = Absent
                      /\ accepted[i] # Absent => accepted'[i].kind = accepted[i].kind

\* A record names its operation among the tickets.
LEMMA RecordType ==
    ASSUME TypeOK, NEW c \in Installs, completions[c] # Absent
    PROVE  /\ completions[c] \in CompletionEntry
           /\ completions[c].operation \in Tickets
           /\ completions[c].operation \in Ids
  <1>1. completions[c] \in CompletionEntry
    BY DEF TypeOK
  <1> QED BY <1>1 DEF CompletionEntry, Ids

\* The places of a state with finite tables can be counted.
LEMMA PlacesFinite ==
    ASSUME TypeOK, FinitePlaces
    PROVE  /\ IsFiniteSet(Claimed) /\ IsFiniteSet(Kept)
           /\ Cardinality(Claimed) \in Nat /\ Cardinality(Kept) \in Nat
  <1>1. Claimed \subseteq Present(accepted) /\ Kept \subseteq Present(completions)
    BY DEF Claimed, Kept
  <1>2. IsFiniteSet(Claimed) /\ IsFiniteSet(Kept)
    BY <1>1, FS_Subset DEF FinitePlaces
  <1> QED BY <1>2, FS_CardinalityType

\* Where the registry finds a free place there is one: a record whose
\* application holds a lease is counted once, by that lease.
LEMMA RoomIsRoom ==
    ASSUME TypeOK, FinitePlaces, Occupied < MaxAccepted
    PROVE  Cardinality(Claimed) + Cardinality(Kept) < MaxAccepted
  <1> DEFINE A == Present(accepted)
             Own == A \cap Installs
             Free == {c \in Present(completions) :
                        /\ accepted[c] = Absent
                        /\ accepted[completions[c].operation] = Absent}
  <1>i. Tickets \cap Installs = {} /\ Ids = Tickets \cup Installs
    BY RegistryAssumption DEF Ids
  <1>1. A = Claimed \cup Own /\ Claimed \cap Own = {}
    BY <1>i DEF Claimed, Present, TypeOK
  <1>2. Kept \subseteq Own \cup Free
    <2> SUFFICES ASSUME NEW c \in Kept, accepted[c] # Absent PROVE c \in Own
      BY DEF Kept
    <2>1. c \in Installs
      BY DEF Kept, Present, TypeOK
    <2> QED BY <2>1, <1>i DEF Present, TypeOK
  <1>3. IsFiniteSet(Own) /\ IsFiniteSet(Free) /\ IsFiniteSet(Claimed) /\ IsFiniteSet(Kept)
    <2>1. Own \subseteq A /\ Free \subseteq Present(completions)
      OBVIOUS
    <2> QED BY <2>1, FS_Subset, PlacesFinite DEF FinitePlaces
  <1>4. Cardinality(A) = Cardinality(Claimed) + Cardinality(Own)
    <2>1. Cardinality(A) = Cardinality(Claimed) + Cardinality(Own) - Cardinality({})
      BY <1>1, <1>3, FS_Union
    <2> QED BY <2>1, <1>3, FS_EmptySet, FS_CardinalityType
  <1>5. Cardinality(Kept) <= Cardinality(Own) + Cardinality(Free)
    <2>1. IsFiniteSet(Own \cup Free)
          /\ Cardinality(Own \cup Free)
               = Cardinality(Own) + Cardinality(Free) - Cardinality(Own \cap Free)
      BY <1>3, FS_Union
    <2>2. IsFiniteSet(Own \cap Free)
      BY <1>3, FS_Intersection
    <2>3. Cardinality(Kept) <= Cardinality(Own \cup Free)
      BY <1>2, <2>1, FS_Subset
    <2>4. /\ Cardinality(Own) \in Nat /\ Cardinality(Free) \in Nat
          /\ Cardinality(Own \cap Free) \in Nat /\ Cardinality(Kept) \in Nat
      BY <1>3, <2>2, FS_CardinalityType
    <2> QED BY <2>1, <2>3, <2>4
  <1>6. Occupied = Cardinality(A) + Cardinality(Free)
    BY DEF Occupied
  <1>7. /\ Cardinality(Own) \in Nat /\ Cardinality(Free) \in Nat
        /\ Cardinality(Claimed) \in Nat /\ Cardinality(Kept) \in Nat
    BY <1>3, FS_CardinalityType
  <1> HIDE DEF A, Own, Free
  <1> QED BY <1>4, <1>5, <1>6, <1>7, RegistryAssumption

\* The three ways in which a step changes the places.
LEMMA PlacesStep ==
    ASSUME TypeOK, MailInv, TypeOK', FinitePlaces',
           \/ Claimed' = Claimed /\ Kept' \subseteq Kept
           \/ /\ Kept' \subseteq Kept /\ Occupied < MaxAccepted
              /\ \E t : Claimed' = Claimed \cup {t}
           \/ \E t \in Claimed : \E c : Claimed' = Claimed \ {t} /\ Kept' \subseteq Kept \cup {c}
    PROVE  PlacesKept'
  <1>f. /\ IsFiniteSet(Claimed) /\ IsFiniteSet(Kept)
        /\ Cardinality(Claimed) \in Nat /\ Cardinality(Kept) \in Nat
        /\ Cardinality(Claimed') \in Nat /\ Cardinality(Kept') \in Nat
    <2>1. /\ IsFiniteSet(Present(accepted)') /\ Claimed' \subseteq Present(accepted)'
          /\ IsFiniteSet(Present(completions)') /\ Kept' \subseteq Present(completions)'
      BY DEF FinitePlaces, Claimed, Kept
    <2>2. IsFiniteSet(Claimed') /\ IsFiniteSet(Kept')
      BY <2>1, FS_Subset
    <2> QED BY <2>2, PlacesFinite, FS_CardinalityType DEF MailInv
  <1>k. Cardinality(Claimed) + Cardinality(Kept) <= MaxAccepted
    BY DEF MailInv, PlacesKept, Claimed, Kept
  <1> SUFFICES Cardinality(Claimed') + Cardinality(Kept') <= MaxAccepted
    BY DEF PlacesKept, Claimed, Kept
  <1>n. MaxAccepted \in Nat
    BY RegistryAssumption
  <1>1. CASE Claimed' = Claimed /\ Kept' \subseteq Kept
    <2>1. Cardinality(Kept') <= Cardinality(Kept)
      BY <1>1, <1>f, FS_Subset
    <2> QED BY <1>1, <2>1, <1>f, <1>k, <1>n
  <1>2. ASSUME Kept' \subseteq Kept, Occupied < MaxAccepted, NEW t, Claimed' = Claimed \cup {t}
        PROVE  Cardinality(Claimed') + Cardinality(Kept') <= MaxAccepted
    <2>1. Cardinality(Kept') <= Cardinality(Kept)
      BY <1>2, <1>f, FS_Subset
    <2>2. Cardinality(Claimed \cup {t}) = IF t \in Claimed THEN Cardinality(Claimed)
                                          ELSE Cardinality(Claimed) + 1
      BY <1>f, FS_AddElement
    <2>3. Cardinality(Claimed) + Cardinality(Kept) < MaxAccepted
      BY <1>2, RoomIsRoom DEF MailInv
    <2> QED BY <1>2, <2>1, <2>2, <2>3, <1>f, <1>n
  <1>3. ASSUME NEW t \in Claimed, NEW c, Claimed' = Claimed \ {t}, Kept' \subseteq Kept \cup {c}
        PROVE  Cardinality(Claimed') + Cardinality(Kept') <= MaxAccepted
    <2>1. /\ IsFiniteSet(Kept \cup {c})
          /\ Cardinality(Kept \cup {c}) = IF c \in Kept THEN Cardinality(Kept)
                                           ELSE Cardinality(Kept) + 1
      BY <1>f, FS_AddElement
    <2>2. Cardinality(Kept') <= Cardinality(Kept \cup {c}) /\ Cardinality(Kept \cup {c}) \in Nat
      BY <1>3, <2>1, FS_Subset, FS_CardinalityType
    <2>3. Cardinality(Claimed') = Cardinality(Claimed) - 1
      BY <1>3, <1>f, FS_RemoveElement
    <2> QED BY <2>1, <2>2, <2>3, <1>f, <1>k, <1>n
  <1> QED BY <1>1, <1>2, <1>3

\* Which entries a table has.
LEMMA PresentIs ==
    ASSUME TypeOK
    PROVE  /\ Present(accepted) = {i \in Ids : accepted[i] # Absent}
           /\ Present(completions) = {c \in Installs : completions[c] # Absent}
           /\ Claimed = {t \in Tickets : accepted[t] # Absent}
  BY DEF Present, TypeOK, Claimed, Ids

\* A quiet step keeps the mailbox invariant.
LEMMA MailQuietKeeps ==
    ASSUME TypeOK, TypeOK', MailInv, MailQuiet
    PROVE  MailInv'
  <1>r. \A c \in Installs : completions[c] # Absent =>
           completions[c].operation \in Tickets /\ completions[c].operation \in Ids
    BY RecordType
  <1>p. Present(accepted)' = Present(accepted) /\ Present(completions)' = Present(completions)
    BY DEF MailQuiet, TypeOK, Present
  <1>1. RecordsOK'
    BY <1>r DEF MailQuiet, MailInv, RecordsOK
  <1>2. TailOK' /\ FinitePlaces'
    BY <1>p DEF MailQuiet, MailInv, TailOK, FinitePlaces, Ids
  <1>3. OneUpgradePerEngine'
    BY <1>p DEF MailQuiet, MailInv, OneUpgradePerEngine
  <1>4. MailboxOwned'
    <2> SUFFICES ASSUME NEW c \in Installs, completions[c] # Absent
                 PROVE  /\ completions[c].outcome = "Running" =>
                              /\ IsDownload(completions[c].operation)'
                              /\ leases[completions[c].operation] = 1
                        /\ completions[c].outcome = "Succeeded" =>
                              completions[c].operation \in committed'
      BY PresentIs, <1>p DEF MailQuiet, MailboxOwned
    <2>1. c \in Present(completions)
      BY PresentIs
    <2> QED BY <2>1, <1>r DEF MailQuiet, MailInv, MailboxOwned, IsDownload
  <1>5. Claimed' = Claimed /\ Kept' \subseteq Kept
    <2>1. Claimed' = Claimed
      BY <1>p DEF Claimed
    <2>2. \A c \in Present(completions) : completions[c].operation \in Ids
      BY PresentIs, <1>r
    <2>3. Kept' \subseteq Kept
      BY <1>p, <2>2 DEF MailQuiet, Kept
    <2> QED BY <2>1, <2>3
  <1>6. PlacesKept'
    BY <1>2, <1>5, PlacesStep
  <1> QED BY <1>1, <1>2, <1>3, <1>4, <1>6 DEF MailInv

\* Admitting one operation under a ticket that no record names: the records
\* are the same, or one is added for it.
LEMMA MailAdmits ==
    ASSUME TypeOK, TypeOK', MailInv, NEW t \in Tickets, NEW e \in AcceptedEntry,
           Occupied < MaxAccepted, accepted[t] = Absent,
           accepted' = [accepted EXCEPT ![t] = e],
           leases' = [leases EXCEPT ![t] = @ + 1], leases[t] = 0,
           tail' = tail, committed' = committed,
           minted \subseteq minted', t \in minted',
           \A u \in Tickets : u \in minted /\ reads[u] = Absent => reads'[u] = Absent,
           t \notin minted \/ reads[t] # Absent, reads'[t] = Absent,
           \/ completions' = completions
           \/ \E c \in Installs, r \in CompletionEntry :
                 /\ completions[c] = Absent
                 /\ completions' = [completions EXCEPT ![c] = r]
                 /\ r.operation = t /\ r.outcome = "Running" /\ e.kind = "download"
                 /\ ~\E d \in Present(completions) :
                       /\ completions[d].request.upgrade
                       /\ completions[d].request.engine = r.request.engine
    PROVE  MailInv'
  <1>r. \A c \in Installs : completions[c] # Absent =>
           /\ completions[c].operation \in Tickets /\ completions[c].operation \in Ids
           /\ completions[c].operation # t
    BY RecordType DEF MailInv, RecordsOK
  <1>i. Tickets \subseteq Ids /\ Tickets \cap Installs = {} /\ Installs \subseteq Ids
    BY RegistryAssumption DEF Ids
  <1>e. e # Absent /\ \A r \in CompletionEntry : r # Absent
    BY RegistryAssumption
  <1>a. /\ accepted'[t] = e /\ \A i \in Ids : i # t => accepted'[i] = accepted[i]
        /\ leases'[t] = 1 /\ \A i \in Ids : i # t => leases'[i] = leases[i]
    BY <1>i DEF TypeOK
  <1>pa. Present(accepted)' = Present(accepted) \cup {t}
    BY <1>a, <1>i, <1>e DEF Present, TypeOK
  <1>2. TailOK'
    BY <1>a, <1>i DEF MailInv, TailOK
  <1>cl. Claimed' = Claimed \cup {t}
    BY <1>pa DEF Claimed
  <1>fa. IsFiniteSet(Present(accepted)')
    <2>1. IsFiniteSet(Present(accepted))
      BY DEF MailInv, FinitePlaces
    <2>2. IsFiniteSet(Present(accepted) \cup {t})
      BY <2>1, FS_AddElement
    <2> QED BY <2>2, <1>pa
  <1>pc. \A d \in Present(completions) : d \in Installs /\ completions[d] # Absent
    BY PresentIs
  <1>cd. \A i \in Ids : IsDownload(i) => IsDownload(i)' /\ i # t
    BY <1>a, <1>e DEF IsDownload
  <1>ko. \A d \in Present(completions) : accepted'[completions[d].operation] = accepted[completions[d].operation]
    BY <1>r, <1>a, <1>pc
  <1>A. CASE completions' = completions
    <2>1. RecordsOK'
      BY <1>A, <1>r DEF MailInv, RecordsOK
    <2>2. FinitePlaces'
      BY <1>A, <1>fa DEF MailInv, FinitePlaces, Present
    <2>3. OneUpgradePerEngine'
      BY <1>A DEF MailInv, OneUpgradePerEngine, Present
    <2>4. MailboxOwned'
      BY <1>A, <1>r, <1>pc, <1>cd, <1>a DEF MailInv, MailboxOwned, Present
    <2>5. Kept' \subseteq Kept
      BY <1>A, <1>ko DEF Kept, Present
    <2>6. PlacesKept'
      BY <2>2, <2>5, <1>cl, PlacesStep
    <2> QED BY <2>1, <1>2, <2>2, <2>3, <2>4, <2>6 DEF MailInv
  <1>B. ASSUME NEW c \in Installs, NEW r \in CompletionEntry, completions[c] = Absent,
               completions' = [completions EXCEPT ![c] = r],
               r.operation = t, r.outcome = "Running", e.kind = "download",
               ~\E d \in Present(completions) :
                       /\ completions[d].request.upgrade
                       /\ completions[d].request.engine = r.request.engine
        PROVE  MailInv'
    <2>c. completions'[c] = r /\ \A d \in Installs : d # c => completions'[d] = completions[d]
      BY <1>B DEF TypeOK
    <2>p. Present(completions)' = Present(completions) \cup {c}
      BY <2>c, <1>e DEF Present, TypeOK
    <2>n. c \notin Present(completions)
      BY <1>B, PresentIs
    <2>1. RecordsOK'
      <3>1. \A d \in Installs : completions'[d] # Absent =>
               /\ completions'[d].operation \in minted'
               /\ reads'[completions'[d].operation] = Absent
        BY <2>c, <1>r, <1>B DEF MailInv, RecordsOK
      <3>2. \A a, b \in Installs :
              /\ completions'[a] # Absent /\ completions'[b] # Absent
              /\ completions'[a].operation = completions'[b].operation
              => a = b
        BY <2>c, <1>r, <1>B DEF MailInv, RecordsOK
      <3> QED BY <3>1, <3>2 DEF RecordsOK
    <2>2. FinitePlaces'
      BY <2>p, <1>fa, FS_AddElement DEF MailInv, FinitePlaces
    <2>3. OneUpgradePerEngine'
      BY <2>p, <2>c, <2>n, <1>pc, <1>B DEF MailInv, OneUpgradePerEngine
    <2>4. MailboxOwned'
      <3>1. IsDownload(t)'
        BY <1>a, <1>e, <1>B DEF IsDownload
      <3> QED BY <2>p, <2>c, <2>n, <1>r, <1>pc, <1>cd, <1>a, <3>1, <1>B
             DEF MailInv, MailboxOwned
    <2>5. Kept' \subseteq Kept
      <3>1. accepted'[completions'[c].operation] # Absent
        BY <2>c, <1>B, <1>a, <1>e
      <3>2. \A d \in Present(completions) : completions'[d] = completions[d]
        BY <2>c, <2>n, <1>pc
      <3> QED BY <2>p, <3>1, <3>2, <1>ko DEF Kept
    <2>6. PlacesKept'
      <3>1. \E u : Claimed' = Claimed \cup {u}
        BY <1>cl
      <3> QED BY <2>2, <2>5, <3>1, PlacesStep
    <2> QED BY <2>1, <1>2, <2>2, <2>3, <2>4, <2>6 DEF MailInv
  <1> QED BY <1>A, <1>B

\* Writing one record anew keeps its operation, and whether it is there.
LEMMA MailRewrites ==
    ASSUME TypeOK, TypeOK', MailInv, NEW c \in Installs, NEW r \in CompletionEntry,
           completions[c] # Absent, completions' = [completions EXCEPT ![c] = r],
           r.operation = completions[c].operation, r.request = completions[c].request,
           r.outcome = "Running" => completions[c].outcome = "Running",
           r.outcome = "Succeeded" => r.operation \in committed,
           UNCHANGED <<reads, minted, committed>>,
           \/ UNCHANGED <<accepted, leases>>
           \/ \E e \in AcceptedEntry : /\ accepted[c] = Absent
                                       /\ accepted' = [accepted EXCEPT ![c] = e]
                                       /\ leases' = [leases EXCEPT ![c] = @ + 1],
           \A d \in Installs : tail'[d] # "None" => accepted'[d] # Absent
    PROVE  MailInv'
  <1>i. Tickets \subseteq Ids /\ Tickets \cap Installs = {} /\ Installs \subseteq Ids
    BY RegistryAssumption DEF Ids
  <1>e. r # Absent /\ \A e \in AcceptedEntry : e # Absent
    BY RegistryAssumption
  <1>r. \A d \in Installs : completions[d] # Absent =>
           completions[d].operation \in Tickets /\ completions[d].operation \in Ids
    BY RecordType
  <1>c. completions'[c] = r /\ \A d \in Installs : d # c => completions'[d] = completions[d]
    BY DEF TypeOK
  <1>p. Present(completions)' = Present(completions)
    BY <1>c, <1>e DEF Present, TypeOK
  <1>o. \A d \in Installs : completions[d] # Absent =>
           /\ completions'[d].operation = completions[d].operation
           /\ completions'[d].request = completions[d].request
           /\ completions'[d] # Absent
    BY <1>c, <1>e
  <1>a. \A t \in Tickets : accepted'[t] = accepted[t] /\ leases'[t] = leases[t]
    BY <1>i DEF TypeOK
  <1>q. \/ Present(accepted)' = Present(accepted)
        \/ Present(accepted)' = Present(accepted) \cup {c}
    BY <1>i, <1>e DEF Present, TypeOK
  <1>d. \A d \in Present(completions) : d \in Installs /\ completions[d] # Absent
    BY PresentIs
  <1>1. RecordsOK'
    BY <1>c, <1>o DEF MailInv, RecordsOK
  <1>2. TailOK'
    BY DEF TailOK
  <1>3. FinitePlaces'
    <2>1. IsFiniteSet(Present(accepted)) /\ IsFiniteSet(Present(completions))
      BY DEF MailInv, FinitePlaces
    <2>2. IsFiniteSet(Present(accepted) \cup {c})
      BY <2>1, FS_AddElement
    <2> QED BY <2>1, <2>2, <1>p, <1>q DEF FinitePlaces
  <1>4. OneUpgradePerEngine'
    BY <1>p, <1>o, <1>d DEF MailInv, OneUpgradePerEngine
  <1>5. MailboxOwned'
    <2> SUFFICES ASSUME NEW d \in Present(completions)
                 PROVE  LET o == completions'[d].operation
                        IN  /\ completions'[d].outcome = "Running" =>
                                  /\ accepted'[o] # Absent /\ accepted'[o].kind = "download"
                                  /\ leases'[o] = 1
                            /\ completions'[d].outcome = "Succeeded" => o \in committed'
      BY <1>p DEF MailboxOwned, IsDownload
    <2>1. completions'[d].operation = completions[d].operation
          /\ completions[d].operation \in Tickets
      BY <1>o, <1>d, <1>r
    <2>3. completions'[d].outcome = "Running" => completions[d].outcome = "Running"
      BY <1>c, <1>d
    <2>4. completions'[d].outcome = "Succeeded" => completions[d].operation \in committed
      BY <1>c, <1>d DEF MailInv, MailboxOwned
    <2> QED BY <2>1, <2>3, <2>4, <1>a DEF MailInv, MailboxOwned, IsDownload
  <1>6. Claimed' = Claimed /\ Kept' \subseteq Kept
    <2>1. Claimed' = Claimed
      BY <1>q, <1>i DEF Claimed
    <2>2. \A d \in Present(completions) : accepted'[completions'[d].operation]
             = accepted[completions[d].operation]
      BY <1>o, <1>d, <1>r, <1>a
    <2> QED BY <2>1, <2>2, <1>p DEF Kept
  <1>7. PlacesKept'
    BY <1>3, <1>6, PlacesStep
  <1> QED BY <1>1, <1>2, <1>3, <1>4, <1>5, <1>7 DEF MailInv

\* An acknowledged record frees its place.
LEMMA MailForgets ==
    ASSUME TypeOK, TypeOK', MailInv, NEW c \in Installs,
           completions' = [completions EXCEPT ![c] = Absent],
           UNCHANGED <<reads, accepted, minted, leases, committed>>,
           \A d \in Installs : tail'[d] # "None" => accepted[d] # Absent
    PROVE  MailInv'
  <1>c. completions'[c] = Absent /\ \A d \in Installs : d # c => completions'[d] = completions[d]
    BY DEF TypeOK
  <1>p. Present(completions)' = Present(completions) \ {c}
    BY <1>c DEF Present, TypeOK
  <1>d. \A d \in Present(completions) : d \in Installs /\ completions[d] # Absent
    BY PresentIs
  <1>e. \A d \in Present(completions)' : d \in Present(completions) /\ completions'[d] = completions[d]
    BY <1>p, <1>c, <1>d
  <1>1. RecordsOK' /\ TailOK'
    BY <1>c DEF MailInv, RecordsOK, TailOK
  <1>3. FinitePlaces'
    <2>1. IsFiniteSet(Present(completions) \ {c}) /\ IsFiniteSet(Present(accepted))
      BY FS_RemoveElement DEF MailInv, FinitePlaces
    <2> QED BY <2>1, <1>p DEF FinitePlaces, Present
  <1>4. OneUpgradePerEngine'
    BY <1>e DEF MailInv, OneUpgradePerEngine
  <1>5. MailboxOwned'
    BY <1>e DEF MailInv, MailboxOwned, IsDownload
  <1>6. Claimed' = Claimed /\ Kept' \subseteq Kept
    BY <1>e DEF Claimed, Kept, Present
  <1>7. PlacesKept'
    BY <1>3, <1>6, PlacesStep
  <1> QED BY <1>1, <1>3, <1>4, <1>5, <1>7 DEF MailInv

\* Dropping the lease of a ticket hands its place to the record it was for.
LEMMA MailDrops ==
    ASSUME Inv, TypeOK', MailInv, NEW i \in Ids, DropLease(i)
    PROVE  MailInv'
  <1>ty. TypeOK /\ accepted[i] # Absent
    BY DEF Inv, DropLease, LeaseBacked
  <1>i. Tickets \subseteq Ids /\ Tickets \cap Installs = {} /\ Ids = Tickets \cup Installs
    BY RegistryAssumption DEF Ids
  <1>a. /\ accepted'[i] = Absent /\ \A j \in Ids : j # i => accepted'[j] = accepted[j]
        /\ \A j \in Ids : j # i => leases'[j] = leases[j]
        /\ UNCHANGED <<reads, completions, minted, committed>>
    BY <1>ty DEF DropLease, TypeOK
  <1>r. \A c \in Installs : completions[c] # Absent =>
           completions[c].operation \in Tickets /\ completions[c].operation \in Ids
    BY <1>ty, RecordType
  <1>p. Present(accepted)' = Present(accepted) \ {i} /\ Present(completions)' = Present(completions)
    BY <1>a, <1>ty DEF Present, TypeOK
  <1>d. \A d \in Present(completions) : d \in Installs /\ completions[d] # Absent
    BY <1>ty, PresentIs
  <1>1. RecordsOK'
    BY <1>a DEF MailInv, RecordsOK
  <1>2. TailOK'
    <2> SUFFICES ASSUME NEW c \in Installs, tail'[c] # "None" PROVE accepted'[c] # Absent
      BY DEF TailOK
    <2>1. c # i /\ tail'[c] = tail[c]
      BY <1>ty DEF DropLease, TypeOK
    <2> QED BY <2>1, <1>a, <1>i DEF MailInv, TailOK
  <1>3. FinitePlaces'
    <2>1. IsFiniteSet(Present(accepted) \ {i}) /\ IsFiniteSet(Present(completions))
      BY FS_RemoveElement DEF MailInv, FinitePlaces
    <2> QED BY <2>1, <1>p DEF FinitePlaces
  <1>4. OneUpgradePerEngine'
    BY <1>a, <1>p DEF MailInv, OneUpgradePerEngine
  <1>5. MailboxOwned'
    <2> SUFFICES ASSUME NEW d \in Present(completions)
                 PROVE  /\ completions[d].outcome = "Running" =>
                              /\ IsDownload(completions[d].operation)'
                              /\ leases'[completions[d].operation] = 1
                        /\ completions[d].outcome = "Succeeded" =>
                              completions[d].operation \in committed
      BY <1>p, <1>a DEF MailboxOwned
    <2>1. completions[d].outcome = "Running" => completions[d].operation # i
      BY DEF DropLease
    <2> QED BY <2>1, <1>a, <1>d, <1>r DEF MailInv, MailboxOwned, IsDownload
  <1>6. CASE i \in Tickets
    <2>1. Claimed' = Claimed \ {i} /\ i \in Claimed
      BY <1>p, <1>6, <1>ty DEF Claimed, Present, TypeOK
    <2>2. \A d \in Kept' : d \in Present(completions) /\ (d \in Kept \/ completions[d].operation = i)
      BY <1>p, <1>a, <1>d, <1>r DEF Kept
    <2>3. \E c : Kept' \subseteq Kept \cup {c}
      <3>1. CASE \E c \in Installs : completions[c] # Absent /\ completions[c].operation = i
        <4> PICK c \in Installs : completions[c] # Absent /\ completions[c].operation = i
          BY <3>1
        <4>1. Kept' \subseteq Kept \cup {c}
          BY <2>2, <1>d DEF MailInv, RecordsOK
        <4> QED BY <4>1
      <3>2. CASE ~\E c \in Installs : completions[c] # Absent /\ completions[c].operation = i
        BY <3>2, <2>2, <1>d
      <3> QED BY <3>1, <3>2
    <2>4. PlacesKept'
      BY <1>ty, <2>1, <2>3, <1>3, PlacesStep
    <2> QED BY <2>4, <1>1, <1>2, <1>3, <1>4, <1>5 DEF MailInv
  <1>7. CASE i \in Installs
    <2>1. Claimed' = Claimed
      BY <1>p, <1>7, <1>i DEF Claimed
    <2>2. Kept' \subseteq Kept
      BY <1>p, <1>a, <1>d, <1>r, <1>i, <1>7 DEF Kept
    <2>3. PlacesKept'
      BY <1>ty, <2>1, <2>2, <1>3, PlacesStep
    <2> QED BY <2>3, <1>1, <1>2, <1>3, <1>4, <1>5 DEF MailInv
  <1> QED BY <1>6, <1>7, <1>i

\* Every registry method keeps the mailbox invariant.
LEMMA MailStep == Inv /\ MailInv /\ [Next]_vars => MailInv'
  <1> SUFFICES ASSUME Inv, MailInv, [Next]_vars PROVE MailInv'
    OBVIOUS
  <1>ty. TypeOK /\ TypeOK'
    BY TypeStep DEF Inv
  <1>i. Tickets \subseteq Ids /\ Installs \subseteq Ids /\ Tickets \cap Installs = {}
    BY RegistryAssumption DEF Ids
  <1>p. Purged \in [Tickets -> ReadEntry \cup {Absent}]
        /\ \A t \in Tickets : reads[t] = Absent => Purged[t] = Absent
    BY <1>ty, PurgedType DEF TypeOK, Purged
  \* What the methods about reservations do to them.
  <1>rd. /\ \A T : \A t \in Tickets : reads[t] = Absent =>
               CancelEntries(reads, T)[t] = Absent /\ CancelEntries(Purged, T)[t] = Absent
         /\ \A u, t \in Tickets : reads[t] = Absent => [Purged EXCEPT ![u] = Absent][t] = Absent
    BY <1>p DEF CancelEntries
  <1>q. ASSUME UNCHANGED <<completions, tail, leases>>,
               minted \subseteq minted', committed \subseteq committed',
               \A t \in Tickets : t \in minted /\ reads[t] = Absent => reads'[t] = Absent,
               accepted' = accepted \/ \E I : accepted' = CancelTokens(I)
        PROVE  MailInv'
    <2>1. \A i \in Ids : /\ accepted'[i] = Absent <=> accepted[i] = Absent
                         /\ accepted[i] # Absent => accepted'[i].kind = accepted[i].kind
      <3>1. CASE accepted' = accepted
        BY <3>1
      <3>2. ASSUME NEW I, accepted' = CancelTokens(I)
            PROVE  \A i \in Ids : /\ accepted'[i] = Absent <=> accepted[i] = Absent
                                  /\ accepted[i] # Absent => accepted'[i].kind = accepted[i].kind
        <4> SUFFICES ASSUME NEW i \in Ids
                     PROVE  /\ CancelTokens(I)[i] = Absent <=> accepted[i] = Absent
                            /\ accepted[i] # Absent => CancelTokens(I)[i].kind = accepted[i].kind
          BY <3>2
        <4>1. CASE accepted[i] = Absent
          BY <4>1 DEF CancelTokens
        <4>2. CASE accepted[i] # Absent
          <5>1. accepted[i] \in AcceptedEntry
            BY <4>2, <1>ty DEF TypeOK
          <5>2. [accepted[i] EXCEPT !.cancelled = TRUE] \in AcceptedEntry
                /\ [accepted[i] EXCEPT !.cancelled = TRUE].kind = accepted[i].kind
            BY <5>1 DEF AcceptedEntry
          <5> QED BY <4>2, <5>2, RegistryAssumption DEF CancelTokens
        <4> QED BY <4>1, <4>2
      <3> QED BY <1>q, <3>1, <3>2
    <2>2. MailQuiet
      BY <1>q, <2>1 DEF MailQuiet
    <2> QED BY <2>2, <1>ty, MailQuietKeeps
  <1>1. ASSUME NEW t \in Tickets, NEW o \in Owners, NEW k,
               \/ Prepare(t, o, k) \/ ClaimRead(t, o, k) \/ CancelRead(t, o, k)
               \/ ClaimCancelled(t, o, k) \/ CancelReserved(t, o, k)
               \/ CancelAccepted(t, o, k) \/ ReleasePrepared(t, o, k)
        PROVE  MailInv'
    <2>1. \A u \in Tickets : u \in minted /\ reads[u] = Absent => reads'[u] = Absent
      <3> SUFFICES ASSUME NEW u \in Tickets, u \in minted, reads[u] = Absent
                   PROVE  reads'[u] = Absent
        OBVIOUS
      <3>1. CASE Prepare(t, o, k)
        BY <3>1, <1>p DEF Prepare
      <3>2. CASE ClaimRead(t, o, k)
        BY <3>2, <1>p DEF ClaimRead
      <3>3. CASE CancelRead(t, o, k)
        BY <3>3, <1>rd DEF CancelRead
      <3>4. CASE ClaimCancelled(t, o, k) \/ ReleasePrepared(t, o, k)
        <4>1. reads' = [Purged EXCEPT ![t] = Absent]
          BY <3>4 DEF ClaimCancelled, ReleasePrepared
        <4> QED BY <4>1, <1>rd
      <3>5. CASE CancelReserved(t, o, k)
        BY <3>5, <1>p DEF CancelReserved, Holds
      <3>6. CASE CancelAccepted(t, o, k)
        BY <3>6, <1>p DEF CancelAccepted
      <3> QED BY <1>1, <3>1, <3>2, <3>3, <3>4, <3>5, <3>6
    <2>2. /\ UNCHANGED <<completions, tail, leases, committed>>
          /\ minted \subseteq minted'
          /\ accepted' = accepted \/ \E I : accepted' = CancelTokens(I)
      BY <1>1 DEF Prepare, ClaimRead, CancelRead, ClaimCancelled, CancelReserved,
                  CancelAccepted, ReleasePrepared, unchangedOps
    <2> QED BY <2>1, <2>2, <1>q
  <1>2. ASSUME NEW t \in Tickets, NEW o \in Owners, NEW k \in {"download", "conversion"},
               NEW key \in Keys \cup {Absent}, ClaimPrepared(t, o, k, key)
        PROVE  MailInv'
    <2> DEFINE e == [owner |-> o, kind |-> k, key |-> key, committing |-> FALSE,
                     cancelled |-> FALSE]
    <2>1. e \in AcceptedEntry
      BY NewEntries
    <2>2. /\ Occupied < MaxAccepted /\ accepted[t] = Absent
          /\ accepted' = [accepted EXCEPT ![t] = e]
          /\ leases' = [leases EXCEPT ![t] = @ + 1]
          /\ reads' = [Purged EXCEPT ![t] = Absent]
          /\ reads[t] # Absent
          /\ UNCHANGED <<completions, tail, committed, minted>>
      BY <1>2, <1>p DEF ClaimPrepared, MoveToAccepted, Holds
    <2>3. leases[t] = 0 /\ t \in minted
      BY <2>2, <1>i DEF Inv, LeaseBacked, TablesOK
    <2>4. reads'[t] = Absent /\ \A u \in Tickets : reads[u] = Absent => reads'[u] = Absent
      BY <2>2, <1>rd, <1>p
    <2> HIDE DEF e
    <2> QED BY <1>ty, <2>1, <2>2, <2>3, <2>4, MailAdmits
  <1>3. ASSUME NEW t \in Tickets, Accept(t)
        PROVE  MailInv'
    <2> DEFINE e == [owner |-> Absent, kind |-> "other", key |-> Absent, committing |-> FALSE,
                     cancelled |-> FALSE]
    <2>1. e \in AcceptedEntry
      BY NewEntries
    <2>2. /\ Occupied < MaxAccepted /\ accepted[t] = Absent /\ t \notin minted
          /\ accepted' = [accepted EXCEPT ![t] = e]
          /\ leases' = [leases EXCEPT ![t] = @ + 1]
          /\ minted' = minted \cup {t}
          /\ UNCHANGED <<reads, completions, tail, committed>>
      BY <1>3 DEF Accept
    <2>3. leases[t] = 0 /\ reads[t] = Absent
      BY <2>2, <1>i DEF Inv, LeaseBacked, TablesOK
    <2> HIDE DEF e
    <2> QED BY <1>ty, <2>1, <2>2, <2>3, MailAdmits
  <1>4. ASSUME NEW c \in Installs, NEW o \in Owners, NEW t \in Tickets, NEW req \in Request,
               AdmitInstall(c, o, t, req)
        PROVE  MailInv'
    <2> DEFINE e == [owner |-> o, kind |-> "download", key |-> req.progress,
                     committing |-> FALSE, cancelled |-> FALSE]
               r == [owner |-> o, operation |-> t, request |-> req, outcome |-> "Running",
                     retired |-> FALSE, retirementJob |-> "None",
                     acknowledgementJob |-> "None"]
    <2>1. e \in AcceptedEntry /\ r \in CompletionEntry
      BY NewEntries DEF Request, Keys
    <2>2. /\ Occupied < MaxAccepted /\ accepted[t] = Absent
          /\ accepted' = [accepted EXCEPT ![t] = e]
          /\ leases' = [leases EXCEPT ![t] = @ + 1]
          /\ reads' = [Purged EXCEPT ![t] = Absent]
          /\ reads[t] # Absent
          /\ UNCHANGED <<tail, committed, minted>>
      BY <1>4, <1>p DEF AdmitInstall, MoveToAccepted, Holds
    <2>3. leases[t] = 0 /\ t \in minted
      BY <2>2, <1>i DEF Inv, LeaseBacked, TablesOK
    <2>4. reads'[t] = Absent /\ \A u \in Tickets : reads[u] = Absent => reads'[u] = Absent
      BY <2>2, <1>rd, <1>p
    <2>5. /\ completions[c] = Absent
          /\ completions' = [completions EXCEPT ![c] = r]
          /\ r.operation = t /\ r.outcome = "Running" /\ e.kind = "download"
          /\ ~\E d \in Present(completions) :
                /\ completions[d].request.upgrade
                /\ completions[d].request.engine = r.request.engine
      BY <1>4 DEF AdmitInstall
    <2> HIDE DEF e, r
    <2> QED BY <1>ty, <2>1, <2>2, <2>3, <2>4, <2>5, MailAdmits
  <1>tl. \A d \in Installs : tail[d] # "None" => accepted[d] # Absent
    BY DEF MailInv, TailOK
  <1>5. ASSUME NEW c \in Installs, NEW result \in {"Succeeded", "Failed"},
               FinishInstall(c, result)
        PROVE  MailInv'
    <2> DEFINE r == [completions[c] EXCEPT !.outcome = result]
    <2>1. completions[c] \in CompletionEntry /\ completions[c] # Absent
      BY <1>5, <1>ty DEF FinishInstall, TypeOK
    <2>2. /\ r \in CompletionEntry /\ r.operation = completions[c].operation
          /\ r.request = completions[c].request /\ r.outcome = result
      BY <2>1 DEF CompletionEntry
    <2>3. /\ completions' = [completions EXCEPT ![c] = r]
          /\ result = "Succeeded" => completions[c].operation \in committed
          /\ UNCHANGED <<reads, accepted, minted, leases, tail, committed>>
      BY <1>5, <1>ty DEF FinishInstall, TypeOK
    <2> HIDE DEF r
    <2> QED BY <1>ty, <1>tl, <2>1, <2>2, <2>3, MailRewrites
  <1>6. ASSUME NEW c \in Installs, NEW o \in Owners,
               NEW step \in {"Retirement", "Acknowledgement"}, BeginApplication(c, o, step)
        PROVE  MailInv'
    <2> DEFINE r == SetJob(completions[c], step, "Unresolved")
               e == [owner |-> o, kind |-> "other", key |-> Absent,
                     committing |-> TRUE, cancelled |-> FALSE]
    <2>1. completions[c] \in CompletionEntry /\ completions[c] # Absent
      BY <1>6, <1>ty DEF BeginApplication, TypeOK
    <2>2. /\ r \in CompletionEntry /\ r.operation = completions[c].operation
          /\ r.request = completions[c].request /\ r.outcome = completions[c].outcome
      BY <2>1 DEF CompletionEntry, SetJob, Jobs
    <2>3. e \in AcceptedEntry /\ e # Absent
      BY NewEntries, RegistryAssumption
    <2>4. /\ completions' = [completions EXCEPT ![c] = r]
          /\ accepted[c] = Absent /\ accepted' = [accepted EXCEPT ![c] = e]
          /\ leases' = [leases EXCEPT ![c] = @ + 1]
          /\ tail' = [tail EXCEPT ![c] = step]
          /\ UNCHANGED <<reads, minted, committed>>
      BY <1>6 DEF BeginApplication
    <2>5. \A d \in Installs : tail'[d] # "None" => accepted'[d] # Absent
      BY <2>3, <2>4, <1>tl, <1>ty, <1>i DEF TypeOK
    <2>6. r.outcome = "Succeeded" => r.operation \in committed
      <3>1. c \in Present(completions)
        BY <2>1, <1>ty, PresentIs
      <3> QED BY <3>1, <2>2 DEF MailInv, MailboxOwned
    <2> HIDE DEF r, e
    <2> QED BY <1>ty, <2>1, <2>2, <2>3, <2>4, <2>5, <2>6, MailRewrites
  <1>7. ASSUME NEW c \in Installs, NEW step \in {"Retirement", "Acknowledgement"},
               ResolveJob(c, step)
        PROVE  MailInv'
    <2> DEFINE r == SetJob(completions[c], step, "Resolved")
    <2>1. completions[c] \in CompletionEntry /\ completions[c] # Absent
      BY <1>7, <1>ty DEF ResolveJob, TypeOK
    <2>2. /\ r \in CompletionEntry /\ r.operation = completions[c].operation
          /\ r.request = completions[c].request /\ r.outcome = completions[c].outcome
      BY <2>1 DEF CompletionEntry, SetJob, Jobs
    <2>3. /\ completions' = [completions EXCEPT ![c] = r]
          /\ UNCHANGED <<reads, accepted, minted, leases, tail, committed>>
      BY <1>7, <1>ty DEF ResolveJob, TypeOK
    <2>6. r.outcome = "Succeeded" => r.operation \in committed
      <3>1. c \in Present(completions)
        BY <2>1, <1>ty, PresentIs
      <3> QED BY <3>1, <2>2 DEF MailInv, MailboxOwned
    <2> HIDE DEF r
    <2> QED BY <1>ty, <1>tl, <2>1, <2>2, <2>3, <2>6, MailRewrites
  <1>8. ASSUME NEW c \in Installs, FinishRetirement(c)
        PROVE  MailInv'
    <2> DEFINE r == [completions[c] EXCEPT !.retired = TRUE]
    <2>1. completions[c] \in CompletionEntry /\ completions[c] # Absent
      BY <1>8, <1>ty DEF FinishRetirement, TypeOK
    <2>2. /\ r \in CompletionEntry /\ r.operation = completions[c].operation
          /\ r.request = completions[c].request /\ r.outcome = completions[c].outcome
      BY <2>1 DEF CompletionEntry
    <2>3. /\ completions' = [completions EXCEPT ![c] = r]
          /\ UNCHANGED <<reads, accepted, minted, leases, committed>>
          /\ \A d \in Installs : tail'[d] # "None" => accepted'[d] # Absent
      BY <1>8, <1>ty, <1>tl DEF FinishRetirement, TypeOK
    <2>6. r.outcome = "Succeeded" => r.operation \in committed
      <3>1. c \in Present(completions)
        BY <2>1, <1>ty, PresentIs
      <3> QED BY <3>1, <2>2 DEF MailInv, MailboxOwned
    <2> HIDE DEF r
    <2> QED BY <1>ty, <2>1, <2>2, <2>3, <2>6, MailRewrites
  <1>9. ASSUME NEW c \in Installs, Acknowledge(c)
        PROVE  MailInv'
    <2>1. /\ completions' = [completions EXCEPT ![c] = Absent]
          /\ UNCHANGED <<reads, accepted, minted, leases, committed>>
          /\ \A d \in Installs : tail'[d] # "None" => accepted[d] # Absent
      BY <1>9, <1>ty, <1>tl DEF Acknowledge, TypeOK
    <2> QED BY <1>ty, <2>1, MailForgets
  <1>10. ASSUME NEW i \in Ids, DropLease(i)
         PROVE  MailInv'
    BY <1>10, <1>ty, MailDrops
  <1>11. ASSUME NEW i \in Ids, BeginCommit(i)
         PROVE  MailInv'
    <2>1. accepted[i] \in AcceptedEntry /\ accepted[i] # Absent
      BY <1>11, <1>ty DEF BeginCommit, IsDownload, TypeOK
    <2>2. accepted'[i] = [accepted[i] EXCEPT !.committing = TRUE]
          /\ \A j \in Ids : j # i => accepted'[j] = accepted[j]
      BY <1>11, <1>ty DEF BeginCommit, TypeOK
    <2>3. accepted'[i] \in AcceptedEntry /\ accepted'[i].kind = accepted[i].kind
      BY <2>1, <2>2 DEF AcceptedEntry
    <2>4. accepted'[i] # Absent
      BY <2>3, RegistryAssumption
    <2>5. MailQuiet
      BY <1>11, <2>1, <2>2, <2>3, <2>4 DEF MailQuiet, BeginCommit
    <2> QED BY <2>5, <1>ty, MailQuietKeeps
  <1>12. CASE RenderSweep
    <2>1. \A t \in Tickets : t \in minted /\ reads[t] = Absent => reads'[t] = Absent
      BY <1>12, <1>rd DEF RenderSweep, CancelForProgress, CancelTab, CancelOwnerReservations,
                          CancelOwner
    <2>2. UNCHANGED <<completions, tail, leases, minted, committed>>
      BY <1>12 DEF RenderSweep, CancelForProgress, CancelTab, CancelOwnerReservations,
                   CancelOwner, unchangedOps
    <2>3. accepted' = accepted \/ \E I : accepted' = CancelTokens(I)
      BY <1>12 DEF RenderSweep, CancelForProgress, CancelTab, CancelOwnerReservations,
                   CancelOwner, unchangedOps
    <2> QED BY <2>1, <2>2, <2>3, <1>q
  <1>13. ASSUME NEW t \in Tickets, Expire(t) \/ DropAwaiter(t) \/ DropReadLease(t)
         PROVE  MailInv'
    <2>1. \A u \in Tickets : u \in minted /\ reads[u] = Absent => reads'[u] = Absent
      BY <1>13, <1>rd, <1>ty DEF Expire, DropAwaiter, DropReadLease, TypeOK
    <2> QED BY <1>13, <2>1, <1>q DEF Expire, DropAwaiter, DropReadLease, unchangedOps
  <1>14. CASE Refused \/ Seal \/ StartDrain \/ CheckDrain \/ TimeoutDrain
    <2>1. \A u \in Tickets : u \in minted /\ reads[u] = Absent => reads'[u] = Absent
      BY <1>14, <1>rd, <1>p DEF Refused, Seal, StartDrain, CheckDrain, TimeoutDrain
    <2> QED BY <1>14, <2>1, <1>q
          DEF Refused, Seal, StartDrain, CheckDrain, TimeoutDrain, unchangedOps
  <1>15. CASE UNCHANGED vars
    BY <1>15, <1>q DEF vars
  <1>16. CASE RenderReservation
    BY <1>16, <1>1, <1>2 DEF RenderReservation
  <1>17. CASE Mailbox
    BY <1>17, <1>4, <1>5, <1>6, <1>7, <1>8, <1>9 DEF Mailbox
  <1>18. CASE Native
    BY <1>18, <1>3, <1>10, <1>11, <1>13, <1>14 DEF Native
  <1> QED BY <1>12, <1>15, <1>16, <1>17, <1>18 DEF Next

\* An empty mailbox satisfies the invariant.
LEMMA MailInit == Init => MailInv
  <1> SUFFICES ASSUME Init PROVE MailInv
    OBVIOUS
  <1>1. Present(accepted) = {} /\ Present(completions) = {}
    BY DEF Init, Present
  <1>2. RecordsOK /\ TailOK
    BY DEF Init, RecordsOK, TailOK
  <1>3. FinitePlaces
    BY <1>1, FS_EmptySet DEF FinitePlaces
  <1>4. OneUpgradePerEngine /\ MailboxOwned
    BY <1>1 DEF OneUpgradePerEngine, MailboxOwned
  <1>5. Claimed = {} /\ Kept = {}
    BY <1>1 DEF Claimed, Kept
  <1>6. PlacesKept
    <2>1. Cardinality(Claimed) + Cardinality(Kept) <= MaxAccepted
      BY <1>5, FS_EmptySet, RegistryAssumption
    <2> QED BY <2>1 DEF PlacesKept, Claimed, Kept
  <1> QED BY <1>2, <1>3, <1>4, <1>6 DEF MailInv

\* The mailbox invariant holds in every reachable state.
THEOREM MailInvariance == Spec => []MailInv
  BY Invariance, MailInit, MailStep, PTL DEF Spec

\* admit_engine_completion lets no second upgrade of an engine in before the
\* record of the first one is acknowledged.
THEOREM UpgradesExclude == Spec => []OneUpgradePerEngine
  <1>1. MailInv => OneUpgradePerEngine
    BY DEF MailInv
  <1> QED BY <1>1, MailInvariance, PTL

\* A running record has a workflow that will finish it, and a succeeded one
\* went through its commit gate.
THEOREM RecordsAreOwned == Spec => []MailboxOwned
  <1>1. MailInv => MailboxOwned
    BY DEF MailInv
  <1> QED BY <1>1, MailInvariance, PTL

\* Claimed operations and unacknowledged records stay within
\* MAX_ACCEPTED_OPERATIONS, although application leases ask for no place.
THEOREM PlacesAreKept == Spec => []PlacesKept
  <1>1. MailInv => PlacesKept
    BY DEF MailInv
  <1> QED BY <1>1, MailInvariance, PTL

\* acknowledge_engine_completion removes only finished records, an upgrade
\* only after its retirement, and under the record's own application lease.
THEOREM OnlyFinishedRecordsLeave == Spec => AcknowledgedIsFinished
  <1> DEFINE Finished(c) ==
        completions[c] # Absent /\ completions'[c] = Absent =>
             /\ completions[c].outcome # "Running"
             /\ completions[c].request.upgrade =>
                   completions[c].outcome = "Failed" \/ completions[c].retired
             /\ leases[c] = 1
  <1>1. Inv /\ MailInv /\ [Next]_vars => [\A c \in Installs : Finished(c)]_vars
    <2> SUFFICES ASSUME Inv, MailInv, Next, NEW c \in Installs,
                        completions[c] # Absent, completions'[c] = Absent
                 PROVE  /\ completions[c].outcome # "Running"
                        /\ completions[c].request.upgrade =>
                              completions[c].outcome = "Failed" \/ completions[c].retired
                        /\ leases[c] = 1
      OBVIOUS
    <2>ty. /\ completions \in [Installs -> CompletionEntry \cup {Absent}]
           /\ completions[c] \in CompletionEntry
           /\ completions[c].outcome \in {"Running", "Succeeded", "Failed"}
           /\ \A r \in CompletionEntry : r # Absent
           /\ Installs \subseteq Ids
      BY RegistryAssumption DEF Inv, TypeOK, CompletionEntry, Ids
    <2>1. \E d \in Installs : Acknowledge(d)
      <3>1. CASE RenderReservation
        BY <3>1 DEF RenderReservation, Prepare, ClaimRead, CancelRead, ClaimPrepared,
           ClaimCancelled, CancelReserved, CancelAccepted, ReleasePrepared, unchangedOps
      <3>2. CASE RenderSweep
        BY <3>2 DEF RenderSweep, CancelForProgress, CancelTab, CancelOwnerReservations,
           CancelOwner, unchangedOps
      <3>3. CASE Native
        BY <3>3 DEF Native, Accept, Expire, DropAwaiter, DropReadLease, BeginCommit, DropLease,
           Refused, Seal, StartDrain, CheckDrain, TimeoutDrain, unchangedOps
      <3>4. CASE Mailbox
        <4>1. ASSUME NEW d \in Installs, NEW o \in Owners, NEW t \in Tickets, NEW req \in Request,
                     AdmitInstall(d, o, t, req) PROVE FALSE
          <5>1. completions'[d] \in CompletionEntry
            BY <4>1, <2>ty, NewEntries DEF AdmitInstall
          <5> QED BY <4>1, <5>1, <2>ty DEF AdmitInstall
        <4>2. ASSUME NEW d \in Installs, NEW x \in {"Succeeded", "Failed"},
                     FinishInstall(d, x) \/ FinishRetirement(d)
              PROVE FALSE
          <5>1. completions[d] \in CompletionEntry
            BY <4>2, <2>ty DEF FinishInstall, FinishRetirement
          <5>2. \/ completions' = [completions EXCEPT ![d] = [completions[d] EXCEPT !.outcome = x]]
                \/ completions' = [completions EXCEPT ![d] = [completions[d] EXCEPT !.retired = TRUE]]
            BY <4>2, <2>ty DEF FinishInstall, FinishRetirement
          <5>3. c = d
            BY <5>2, <2>ty
          <5>4. /\ [completions[d] EXCEPT !.outcome = x] \in CompletionEntry
                /\ [completions[d] EXCEPT !.retired = TRUE] \in CompletionEntry
            BY <5>1 DEF CompletionEntry
          <5> QED BY <5>2, <5>3, <5>4, <2>ty
        <4>3. ASSUME NEW d \in Installs, NEW o, NEW step,
                     BeginApplication(d, o, step) \/ ResolveJob(d, step) PROVE FALSE
          <5>1. completions[d] \in CompletionEntry
            BY <4>3, <2>ty DEF BeginApplication, ResolveJob
          <5>2. \E job \in Jobs : completions' = [completions EXCEPT ![d] = SetJob(completions[d], step, job)]
            BY <4>3, <2>ty DEF BeginApplication, ResolveJob, Jobs
          <5>3. \A job \in Jobs : SetJob(completions[d], step, job) \in CompletionEntry
            BY <5>1, SetJobType
          <5> QED BY <5>2, <5>3, <2>ty
        <4> QED BY <3>4, <4>1, <4>2, <4>3 DEF Mailbox
      <3> QED BY <3>1, <3>2, <3>3, <3>4 DEF Next
    <2>2. Acknowledge(c)
      BY <2>1, <2>ty DEF Acknowledge
    <2>3. accepted[c] # Absent
      BY <2>2 DEF Acknowledge, MailInv, TailOK
    <2>4. leases[c] = 1
      BY <2>3, <2>ty DEF Inv, LeaseBacked
    <2> QED BY <2>2, <2>4, <2>ty DEF Acknowledge, Acknowledgeable
  <1> QED BY <1>1, Invariance, MailInvariance, PTL DEF Spec, AcknowledgedIsFinished
=============================================================================
