---------------------------- MODULE GameSession ----------------------------
(***************************************************************************)
(* The sessions of one game id: src-tauri/src/game.rs.                     *)
(*                                                                         *)
(* A session is a controller (the game) with a loop, at most one engine     *)
(* task, and engine processes.  Commands hold the game's lifecycle lock;    *)
(* the task takes it only to apply its move, the loop never takes it.  The  *)
(* controller's lock is held for one action at a time.  Retiring a session  *)
(* takes several steps, on behalf of the command that replaced or aborted   *)
(* it, or of nobody when that command's future was dropped, or of           *)
(* shutdown_all, which does not take the lifecycle lock.                    *)
(*                                                                         *)
(* A position is the sequence of moves from the initial one.  What the      *)
(* clock shows is left out: a flag falls or it does not.                    *)
(***************************************************************************)
EXTENDS Integers, Sequences, FiniteSets

CONSTANTS
    White, Black,    \* "Human" or "Engine"
    Moves,           \* moves tried in a position
    MaxPly,          \* bound: positions this far in are drawn
    BookPly,         \* polyglot_max_ply
    MaxSessions,     \* bound: sessions started
    MaxRevision,     \* bound: revisions that ticks and human commands reach
    Slots,           \* MAX_SESSIONS_AWAITING_CLEANUP_OBSERVATION
    Incidents,       \* what may happen besides a game and its end
    None

ASSUME GameAssumption ==
    /\ {White, Black} \subseteq {"Human", "Engine"}
    /\ MaxPly \in Nat \ {0} /\ BookPly \in Nat /\ MaxSessions \in Nat
    /\ MaxRevision \in Nat /\ Slots \in Nat
    /\ None \notin 1 .. MaxSessions
    /\ Incidents \subseteq {"Panic",      \* an engine task panics
                           "DropStart",  \* the future of start_game is dropped
                           "DropAbort",  \* the future of abort_game is dropped
                           "Timeout",    \* a loop outlasts the join budget
                           "Survivor",   \* an engine cannot be terminated
                           "Quit"}       \* the application shuts down

Terminations == IF "Survivor" \in Incidents THEN BOOLEAN ELSE {TRUE}

Sessions == 1 .. MaxSessions
Shutdown == 0                  \* shutdown_all, among those who retire
Retirers == Sessions \cup {Shutdown}

VARIABLES
    ctl,        \* GameController of each session
    task,       \* the engine task: request_engine_move
    loop,       \* where run_published_loop and game_loop are
    shut,       \* LiveSession.shutdown
    notify,     \* whether move_notify holds its one message
    engines,    \* the engine processes of the session: "Alive" with an owner,
                \* "Dropped" when only a spawned termination knows them
    view,       \* the state complete_exact has read
    games,      \* GameManager.games: the live session of the game id
    latest,     \* SessionMetadata.latest
    snapshots,  \* SessionMetadata.snapshots
    slots,      \* sessions that own a cleanup observation slot
    joinFailed, \* SessionCleanup.join_failure
    loopFailed, \* SessionCleanup.loop_outcome is an error
    next,       \* GameManager.next_session
    queued,     \* start_game calls that wait for the lifecycle lock
    sealed,     \* GameManager.sealed
    holder,     \* the command that holds the lifecycle lock
    retire,     \* finish_retired, by who runs it
    sent        \* the events of the last step that emitted any

session == <<ctl, task, loop, shut, notify, engines, view>>
manager == <<games, latest, snapshots, slots, joinFailed, loopFailed, next, queued, sealed>>
vars == <<session, manager, holder, retire, sent>>

-----------------------------------------------------------------------------
(* GameController.                                                         *)

Turn(c) == IF Len(c.moves) % 2 = 0 THEN White ELSE Black
Playing(c) == c.status = "Playing"
IsEngineTurn(c) == Turn(c) = "Engine"
State(c) == [moves |-> c.moves, status |-> c.status, revision |-> c.revision]

\* cancel_engine_request.  token is the latest request's, held by the task
\* and the loop as well.
CancelRequest(c) ==
    [c EXCEPT !.token = @ \/ c.active # None, !.active = None, !.thinking = FALSE]

AdvanceGeneration(c) == CancelRequest([c EXCEPT !.gen = @ + 1])

EndGameAgain(c, result) ==
    AdvanceGeneration([c EXCEPT !.status = result, !.claimed = FALSE, !.revision = @ + 1])

EndGame(c, result) ==
    IF ~Playing(c) THEN c
    ELSE AdvanceGeneration([c EXCEPT !.status = result, !.claimed = FALSE,
                                     !.revision = @ + 1])

\* check_game_end: checkmate, stalemate and the draws.
CheckGameEnd(c) == IF Len(c.moves) >= MaxPly THEN EndGame(c, "Board") ELSE c

\* apply_move, when the flag has not fallen and the move is legal.
ApplyMove(c, m) ==
    CheckGameEnd([AdvanceGeneration([c EXCEPT !.moves = Append(@, m)])
                     EXCEPT !.revision = @ + 1])

TakeBackMoves(c, count) ==
    LET left == IF count < Len(c.moves) THEN Len(c.moves) - count ELSE 0
    IN  CheckGameEnd([AdvanceGeneration([CancelRequest(c) EXCEPT
                            !.moves = SubSeq(@, 1, left), !.status = "Playing"])
                         EXCEPT !.revision = @ + 1])

\* begin_engine_request.
Begins(c) == Playing(c) /\ IsEngineTurn(c) /\ ~c.thinking

BeginRequest(c) ==
    [c EXCEPT !.nonce = @ + 1, !.thinking = TRUE, !.token = FALSE,
              !.active = [gen |-> c.gen, nonce |-> c.nonce + 1, registered |-> FALSE]]

\* accepts_engine_context.
AcceptsAtTurn(c, t) == Playing(c) /\ IsEngineTurn(c)

AcceptsContext(c, t) ==
    /\ Playing(c)
    /\ c.gen = t.gen
    /\ c.active # None
    /\ c.active.nonce = t.nonce /\ c.active.gen = t.gen
    /\ ~c.token

\* accepts_engine_result: the search was registered too.
AcceptsResult(c, t) == AcceptsContext(c, t) /\ c.active.registered

NewController(terminal) ==
    LET c == [moves |-> <<>>, status |-> "Playing", gen |-> 0, revision |-> 0,
              nonce |-> 0, active |-> None, thinking |-> FALSE, token |-> FALSE,
              claimed |-> FALSE]
    IN  IF terminal THEN EndGame(c, "Board") ELSE c

-----------------------------------------------------------------------------
(* Events, emitted while the controller's lock is held.                    *)

\* attempt_terminal_event_emission.
Claims(c) == ~Playing(c) /\ ~c.claimed

\* move_event_revision: a terminal move comes before its GameOver.
MoveRevisionCurrent(c) == c.revision

MoveRevision(c) == IF Playing(c) THEN c.revision ELSE c.revision - 1

MoveEvent(c) == <<[kind |-> "Move", revision |-> MoveRevision(c)]>>
ClockEvent(c) == <<[kind |-> "Clock", revision |-> c.revision]>>

\* The session's controller becomes c: the events, then a GameOver if the
\* game has ended and nobody has announced it.
Becomes(s, c, events) ==
    LET all == events \o IF Claims(c) THEN <<[kind |-> "Over", revision |-> c.revision]>>
                         ELSE <<>>
    IN  /\ ctl' = [ctl EXCEPT ![s] = IF Claims(c) THEN [c EXCEPT !.claimed = TRUE] ELSE c]
        /\ sent' = IF all = <<>> THEN sent
                   ELSE [sent EXCEPT ![s] = [count |-> @.count + 1, events |-> all]]

-----------------------------------------------------------------------------
(* SessionMetadata.                                                        *)

\* prune, for one game id: what is not live and has no snapshot is forgotten.
Pruned(l, live, snaps) ==
    IF l = None THEN None
    ELSE IF \/ l.disposition = "Active" /\ live = l.session
            \/ l.disposition = "Completed" /\ l.session \in DOMAIN snaps
            \/ l.disposition = "Tombstoned" /\ DOMAIN snaps # {}
         THEN l ELSE None

\* retire_live_locked.
RetireLive(s) ==
    IF games = s
    THEN /\ games' = None
         /\ latest' = Pruned([session |-> s, disposition |-> "Tombstoned"], None, snapshots)
    ELSE /\ games' = games
         /\ latest' = Pruned(latest, games, snapshots)

-----------------------------------------------------------------------------

NoRetirement == [at |-> "None", session |-> None]

Init ==
    /\ ctl = [s \in Sessions |-> NewController(FALSE)]
    /\ task = [s \in Sessions |-> None]
    /\ loop = [s \in Sessions |-> "None"]
    /\ shut = [s \in Sessions |-> FALSE]
    /\ notify = [s \in Sessions |-> FALSE]
    /\ engines = [s \in Sessions |-> "None"]
    /\ view = [s \in Sessions |-> None]
    /\ games = None
    /\ latest = None
    /\ snapshots = << >>
    /\ slots = {}
    /\ joinFailed = {}
    /\ loopFailed = {}
    /\ next = 0
    /\ queued = 0
    /\ sealed = FALSE
    /\ holder = None
    /\ retire = [r \in Retirers |-> NoRetirement]
    /\ sent = [s \in Sessions |-> [count |-> 0, events |-> << >>]]

(* Commands of the renderer.  A command for another session than the live   *)
(* one, or at another ply, is refused and changes nothing.                  *)

Commanded(s) == holder = None /\ games = s
Room(s) == ctl[s].revision < MaxRevision

\* make_move.  The flag may have fallen before the move arrives; on a game
\* that has ended only the announcement is tried.
MakeMove(s, m, flag) ==
    LET c == ctl[s]
        moved == Playing(c) /\ ~flag
        d == IF moved THEN ApplyMove(c, m) ELSE EndGame(c, "Flag")
    IN  /\ Commanded(s) /\ Room(s)
        /\ ~IsEngineTurn(c)
        /\ Becomes(s, d, IF moved THEN MoveEvent(d) ELSE << >>)
        /\ notify' = [notify EXCEPT ![s] = @ \/ (moved /\ ~Claims(d))]
        /\ shut' = [shut EXCEPT ![s] = @ \/ Claims(d)]
        /\ UNCHANGED <<task, loop, engines, view, manager, holder, retire>>

\* take_back_move: the human's last move, and the engine's answer to it.
TakeBack(s) ==
    LET c == ctl[s]
        two == White # Black /\ ~IsEngineTurn(c)
        d == TakeBackMoves(c, IF two THEN 2 ELSE 1)
    IN  /\ Commanded(s) /\ Room(s)
        /\ Playing(c) /\ c.moves # << >>
        /\ Becomes(s, d, MoveEvent(d))
        /\ notify' = [notify EXCEPT ![s] = @ \/ (~Claims(d) /\ IsEngineTurn(d))]
        /\ shut' = [shut EXCEPT ![s] = @ \/ Claims(d)]
        /\ UNCHANGED <<task, loop, engines, view, manager, holder, retire>>

Resign(s) ==
    /\ Commanded(s)
    /\ Playing(ctl[s])
    /\ Becomes(s, EndGame(ctl[s], "Resigned"), << >>)
    /\ shut' = [shut EXCEPT ![s] = TRUE]
    /\ UNCHANGED <<task, loop, notify, engines, view, manager, holder, retire>>

-----------------------------------------------------------------------------
(* start_game.                                                             *)

\* The seal is checked before the lock is waited for.
CallStart ==
    /\ ~sealed
    /\ next + queued < MaxSessions
    /\ queued' = queued + 1
    /\ UNCHANGED <<session, games, latest, snapshots, slots, joinFailed, loopFailed, next, sealed,
                   holder, retire, sent>>

\* No observation slot is free, or the call is dropped while it waits.
StartRefused ==
    /\ queued > 0
    /\ \/ holder = None /\ Cardinality(slots) >= Slots
       \/ "DropStart" \in Incidents
    /\ queued' = queued - 1
    /\ UNCHANGED <<session, games, latest, snapshots, slots, joinFailed, loopFailed, next, sealed,
                   holder, retire, sent>>

\* Up to the constructed replacement: its controller, maybe at a terminal
\* position, and its engines.
StartGame(terminal) ==
    LET s == next + 1 IN
    /\ queued > 0 /\ holder = None
    /\ Cardinality(slots) < Slots
    /\ s \in Sessions
    /\ next' = s
    /\ queued' = queued - 1
    /\ slots' = slots \cup {s}
    /\ ctl' = [ctl EXCEPT ![s] = NewController(terminal)]
    /\ engines' = [engines EXCEPT ![s] = "Alive"]
    /\ holder' = [op |-> "Start", session |-> s, at |-> "Built"]
    /\ UNCHANGED <<task, loop, shut, notify, view, games, latest, snapshots, joinFailed, loopFailed,
                   sealed, retire, sent>>

Starting(at) == holder # None /\ holder.op = "Start" /\ holder.at = at

\* GameEngineConstruction::abandon awaits the end of the engines; then the
\* call returns, and its slot and the lock with it.
Abandon ==
    /\ holder' = [op |-> "Start", session |-> holder.session, at |-> "Abandoning"]
    /\ UNCHANGED <<session, manager, sent>>

Abandoned(ok) ==
    LET s == holder.session IN
    /\ Starting("Abandoning")
    /\ engines' = [engines EXCEPT ![s] = IF ok THEN "Terminated" ELSE "Failed"]
    /\ slots' = slots \ {s}
    /\ holder' = None
    /\ UNCHANGED <<ctl, task, loop, shut, notify, view, games, latest, snapshots,
                   joinFailed, loopFailed, next, queued, sealed, retire, sent>>

ConstructionFails ==
    /\ Starting("Built")
    /\ Abandon
    /\ UNCHANGED retire

\* retire_replaced_session begins: the old session leaves the table before
\* it is told to stop.
ReplaceOld ==
    /\ Starting("Built")
    /\ IF games = None
       THEN /\ holder' = [holder EXCEPT !.at = "Publish"]
            /\ UNCHANGED <<games, latest, retire>>
       ELSE /\ RetireLive(games)
            /\ retire' = [retire EXCEPT ![games] = [at |-> "Cancel", session |-> games]]
            /\ holder' = [op |-> "Start", session |-> holder.session, at |-> "Retiring",
                          old |-> games]
    /\ UNCHANGED <<session, snapshots, slots, joinFailed, loopFailed, next, queued, sealed, sent>>

OldRetired ==
    /\ Starting("Retiring")
    /\ \/ /\ retire[holder.old].at = "Ok"
          /\ holder' = [op |-> "Start", session |-> holder.session, at |-> "Publish"]
          /\ UNCHANGED <<session, manager, sent>>
       \/ /\ retire[holder.old].at = "Failed"
          /\ Abandon
    /\ UNCHANGED retire

\* The future is dropped before it has published: the slot and the lock are
\* free at once, while the guards of the engines only spawn their
\* termination (RegistrationGuard::drop); an armed retirement starts over.
StartDropped ==
    LET s == holder.session IN
    /\ "DropStart" \in Incidents
    /\ \E x \in {"Built", "Retiring", "Publish", "Abandoning"} : Starting(x)
    /\ IF Starting("Retiring")
       THEN /\ retire[holder.old].at \notin {"Ok", "Failed"}
            /\ retire' = [retire EXCEPT ![holder.old].at = "Cancel"]
       ELSE UNCHANGED retire
    /\ engines' = [engines EXCEPT ![s] = "Dropped"]
    /\ slots' = slots \ {s}
    /\ holder' = None
    /\ UNCHANGED <<ctl, task, loop, shut, notify, view, games, latest, snapshots,
                   joinFailed, loopFailed, next, queued, sealed, sent>>

\* The termination that the dropped guards have spawned.
GuardTerminates(s, ok) ==
    /\ engines[s] = "Dropped"
    /\ engines' = [engines EXCEPT ![s] = IF ok THEN "Terminated" ELSE "Failed"]
    /\ UNCHANGED <<ctl, task, loop, shut, notify, view, manager, holder, retire, sent>>

\* publish_live, under the registration lock that shutdown_all passes after
\* it has sealed the manager.
PublishUnsealed ==
    LET s == holder.session IN
    /\ Starting("Publish")
    /\ games' = s
    /\ latest' = Pruned([session |-> s, disposition |-> "Active"], s, snapshots)
    /\ loop' = [loop EXCEPT ![s] = "Waiting"]
    /\ holder' = [holder EXCEPT !.at = "Handoff"]
    /\ UNCHANGED <<ctl, task, shut, notify, engines, view, snapshots, slots,
                   joinFailed, loopFailed, next, queued, sealed, retire, sent>>

Publish ==
    LET s == holder.session IN
    /\ Starting("Publish")
    /\ IF sealed
       THEN Abandon
       ELSE /\ games' = s
            /\ latest' = Pruned([session |-> s, disposition |-> "Active"], s, snapshots)
            /\ loop' = [loop EXCEPT ![s] = "Waiting"]
            /\ holder' = [holder EXCEPT !.at = "Handoff"]
            /\ UNCHANGED <<ctl, task, shut, notify, engines, view, snapshots, slots,
                           joinFailed, loopFailed, next, queued, sealed, sent>>
    /\ UNCHANGED retire

\* A position that was terminal from the start is announced, and the loop
\* is let go.
Handoff ==
    LET s == holder.session IN
    /\ Starting("Handoff")
    /\ Becomes(s, ctl[s], << >>)
    /\ shut' = [shut EXCEPT ![s] = @ \/ Claims(ctl[s])]
    /\ loop' = [loop EXCEPT ![s] = IF @ = "Waiting" THEN "Start" ELSE @]
    /\ holder' = None
    /\ UNCHANGED <<task, notify, engines, view, manager, retire>>

HandoffDropped ==
    LET s == holder.session IN
    /\ "DropStart" \in Incidents
    /\ Starting("Handoff")
    /\ loop' = [loop EXCEPT ![s] = IF @ = "Waiting" THEN "NeverStarted" ELSE @]
    /\ holder' = None
    /\ UNCHANGED <<ctl, task, shut, notify, engines, view, manager, retire, sent>>

-----------------------------------------------------------------------------
(* abort_game.                                                             *)

AbortGame(s) ==
    /\ Commanded(s)
    /\ RetireLive(s)
    /\ retire' = [retire EXCEPT ![s] = [at |-> "Cancel", session |-> s]]
    /\ holder' = [op |-> "Abort", session |-> s, at |-> "Retiring"]
    /\ UNCHANGED <<session, snapshots, slots, joinFailed, loopFailed, next, queued, sealed, sent>>

Aborting == holder # None /\ holder.op = "Abort"

AbortReturns ==
    /\ Aborting
    /\ retire[holder.session].at \in {"Ok", "Failed"}
    /\ holder' = None
    /\ UNCHANGED <<session, manager, retire, sent>>

AbortDroppedUnarmed ==
    /\ "DropAbort" \in Incidents
    /\ Aborting
    /\ retire[holder.session].at \notin {"Ok", "Failed"}
    /\ retire' = [retire EXCEPT ![holder.session].at = "None"]
    /\ holder' = None
    /\ UNCHANGED <<session, manager, sent>>

AbortDropped ==
    /\ "DropAbort" \in Incidents
    /\ Aborting
    /\ retire[holder.session].at \notin {"Ok", "Failed"}
    /\ retire' = [retire EXCEPT ![holder.session].at = "Cancel"]
    /\ holder' = None
    /\ UNCHANGED <<session, manager, sent>>

-----------------------------------------------------------------------------
(* finish_retired.                                                         *)

Gone == {"Done", "Aborted"}
Retiring(r, at) == retire[r].at = at
Goes(r, at) == retire' = [retire EXCEPT ![r].at = at]
Retires(r, s) == retire[r].session = s /\ retire[r].at \in {"Cancel", "Signal", "Join", "Terminate"}

\* shutdown_and_join: the request is cancelled, the loop is told, and joined.
RetireCancel(r) ==
    /\ Retiring(r, "Cancel")
    /\ ctl' = [ctl EXCEPT ![retire[r].session] = CancelRequest(@)]
    /\ Goes(r, "Signal")
    /\ UNCHANGED <<task, loop, shut, notify, engines, view, manager, holder, sent>>

RetireSignal(r) ==
    /\ Retiring(r, "Signal")
    /\ shut' = [shut EXCEPT ![retire[r].session] = TRUE]
    /\ Goes(r, "Join")
    /\ UNCHANGED <<ctl, task, loop, notify, engines, view, manager, holder, sent>>

RetireJoin(r) ==
    /\ Retiring(r, "Join")
    /\ loop[retire[r].session] \in Gone
    /\ Goes(r, "Terminate")
    /\ UNCHANGED <<session, manager, holder, sent>>

\* The join budget runs out: the loop is aborted, its engine task detached.
JoinTimeoutReleases(r) ==
    LET s == retire[r].session IN
    /\ "Timeout" \in Incidents
    /\ Retiring(r, "Join")
    /\ loop[s] \notin Gone
    /\ loop' = [loop EXCEPT ![s] = "Aborted"]
    /\ joinFailed' = joinFailed \cup {s}
    /\ slots' = slots \ {s}
    /\ Goes(r, "Terminate")
    /\ UNCHANGED <<ctl, task, shut, notify, engines, view, games, latest, snapshots, loopFailed,
                   next, queued, sealed, holder, sent>>

JoinTimeout(r) ==
    LET s == retire[r].session IN
    /\ "Timeout" \in Incidents
    /\ Retiring(r, "Join")
    /\ loop[s] \notin Gone
    /\ loop' = [loop EXCEPT ![s] = "Aborted"]
    /\ joinFailed' = joinFailed \cup {s}
    /\ Goes(r, "Terminate")
    /\ UNCHANGED <<ctl, task, shut, notify, engines, view, games, latest, snapshots, slots, loopFailed,
                   next, queued, sealed, holder, sent>>

\* terminate_registered_engines; the outcome of the loop's own cleanup and
\* of the join are part of the result.
RetireTerminate(r, ok) ==
    LET s == retire[r].session IN
    /\ Retiring(r, "Terminate")
    /\ engines' = [engines EXCEPT ![s] = IF ok THEN "Terminated" ELSE "Failed"]
    /\ slots' = slots \ {s}
    /\ Goes(r, IF ok /\ s \notin joinFailed /\ s \notin loopFailed THEN "Ok"
               ELSE "Failed")
    /\ UNCHANGED <<ctl, task, loop, shut, notify, view, games, latest, snapshots,
                   joinFailed, loopFailed, next, queued, sealed, holder, sent>>

-----------------------------------------------------------------------------
(* shutdown_all.                                                           *)

ShutdownAll ==
    /\ "Quit" \in Incidents
    /\ ~sealed
    /\ sealed' = TRUE
    /\ Goes(Shutdown, "Collect")
    /\ UNCHANGED <<session, games, latest, snapshots, slots, joinFailed, loopFailed, next, queued, holder, sent>>

Collect ==
    /\ Retiring(Shutdown, "Collect")
    /\ retire' = [retire EXCEPT ![Shutdown] =
                     IF games = None THEN [at |-> "Done", session |-> None]
                     ELSE [at |-> "Cancel", session |-> games]]
    /\ UNCHANGED <<session, manager, holder, sent>>

ShutdownRetire ==
    /\ retire[Shutdown].at \in {"Ok", "Failed"}
    /\ RetireLive(retire[Shutdown].session)
    /\ Goes(Shutdown, "Collect")
    /\ UNCHANGED <<session, snapshots, slots, joinFailed, loopFailed, next, queued, sealed, holder, sent>>

-----------------------------------------------------------------------------
(* run_published_loop and game_loop.                                       *)

TaskDone(s) == task[s] # None /\ task[s].at \in {"Ok", "Err", "Panic"}
LoopGoes(s, at) == loop' = [loop EXCEPT ![s] = at]

\* The loop takes its task and aborts it.  (AwaitTask: without the abort.)
AwaitTask(s) ==
    /\ task[s] # None => TaskDone(s)
    /\ task' = [task EXCEPT ![s] = None]

StopTask(s) == task' = [task EXCEPT ![s] = None]

\* Where the loop goes when its task has ended.
AfterTaskIdle(outcome) == IF outcome = "Ok" THEN "Select" ELSE outcome

AfterTask(outcome) == IF outcome = "Ok" THEN "Start" ELSE outcome

\* One round of the biased select: shutdown, then the task, then a
\* notification, then the clock.
Select(s) ==
    /\ loop[s] = "Select"
    /\ \/ /\ shut[s]
          /\ LoopGoes(s, "Ended")
          /\ UNCHANGED <<task, notify>>
       \/ /\ ~shut[s] /\ TaskDone(s)
          /\ LoopGoes(s, AfterTask(task[s].at))
          /\ task' = [task EXCEPT ![s] = None]
          /\ UNCHANGED notify
       \/ /\ ~shut[s] /\ ~TaskDone(s) /\ notify[s]
          /\ LoopGoes(s, "Start")
          /\ notify' = [notify EXCEPT ![s] = FALSE]
          /\ UNCHANGED task
       \/ /\ ~shut[s] /\ ~TaskDone(s) /\ ~notify[s]
          /\ Playing(ctl[s]) => Room(s)
          /\ LoopGoes(s, "Tick")
          /\ UNCHANGED <<task, notify>>
    /\ UNCHANGED <<ctl, shut, engines, view, manager, holder, retire, sent>>

\* maybe_start_engine and spawn_engine_task.
StartEngine(s) ==
    /\ loop[s] = "Start"
    /\ LoopGoes(s, "Select")
    /\ IF task[s] = None /\ Begins(ctl[s])
       THEN LET c == BeginRequest(ctl[s])
            IN  /\ ctl' = [ctl EXCEPT ![s] = c]
                /\ task' = [task EXCEPT ![s] = [at |-> "Begin", gen |-> c.gen,
                                                nonce |-> c.nonce]]
       ELSE UNCHANGED <<ctl, task>>
    /\ UNCHANGED <<shut, notify, engines, view, manager, holder, retire, sent>>

\* The task failed or panicked.  If its request was cancelled the game goes
\* on; after a panic without trying the engine again.
TaskFailed(s) ==
    /\ loop[s] \in {"Err", "Panic"}
    /\ IF ctl[s].token
       THEN /\ LoopGoes(s, IF loop[s] = "Err" THEN "Start" ELSE "Select")
            /\ UNCHANGED <<ctl, sent>>
       ELSE /\ Becomes(s, EndGame([ctl[s] EXCEPT !.thinking = FALSE], "Interrupted"), << >>)
            /\ LoopGoes(s, "Ended")
    /\ UNCHANGED <<task, shut, notify, engines, view, manager, holder, retire>>

Tick(s, flag) ==
    LET c == ctl[s] IN
    /\ loop[s] = "Tick"
    /\ IF Playing(c) /\ ~flag
       THEN LET d == [c EXCEPT !.revision = @ + 1]
            IN  Becomes(s, d, ClockEvent(d)) /\ LoopGoes(s, "Select")
       ELSE /\ IF Playing(c) THEN Becomes(s, EndGame(c, "Flag"), << >>)
                             ELSE UNCHANGED <<ctl, sent>>
            /\ LoopGoes(s, "Ended")
    /\ UNCHANGED <<task, shut, notify, engines, view, manager, holder, retire>>

\* After the loop, or when it was never let go: the task is aborted, the
\* engines are terminated and the outcome is recorded.
CleanUp(s, ok) ==
    /\ loop[s] \in {"Ended", "NeverStarted"}
    /\ StopTask(s)
    /\ engines' = [engines EXCEPT ![s] = IF ok THEN "Terminated" ELSE "Failed"]
    /\ slots' = IF ok THEN slots \ {s} ELSE slots
    /\ loopFailed' = IF ok THEN loopFailed ELSE loopFailed \cup {s}
    /\ LoopGoes(s, IF loop[s] = "Ended" THEN "Read" ELSE "Unpublish")
    /\ UNCHANGED <<ctl, shut, notify, view, games, latest, snapshots, joinFailed, next, queued,
                   sealed, holder, retire, sent>>

\* Its last reference frees the slot, also when the engines did not end.
Unpublish(s) ==
    /\ loop[s] = "Unpublish"
    /\ RetireLive(s)
    /\ slots' = IF \E r \in Retirers : Retires(r, s) THEN slots ELSE slots \ {s}
    /\ LoopGoes(s, "Done")
    /\ UNCHANGED <<ctl, task, shut, notify, engines, view, snapshots, joinFailed, loopFailed,
                   next, queued, sealed, holder, retire, sent>>

\* complete_exact reads the state, and later has the metadata's lock.
ReadState(s) ==
    /\ loop[s] = "Read"
    /\ view' = [view EXCEPT ![s] = State(ctl[s])]
    /\ LoopGoes(s, "Complete")
    /\ UNCHANGED <<ctl, task, shut, notify, engines, manager, holder, retire, sent>>

\* A session whose cleanup failed stays in the table until it is retired.
IsAnyone(s) == TRUE

IsExact(s) == games = s /\ latest = [session |-> s, disposition |-> "Active"]

CompleteExact(s) ==
    LET snaps == [t \in DOMAIN snapshots \cup {s} |-> IF t = s THEN view[s] ELSE snapshots[t]]
        live == IF games = s /\ s \notin loopFailed THEN None ELSE games
    IN  /\ loop[s] = "Complete"
        /\ IF IsExact(s)
           THEN /\ snapshots' = snaps
                /\ games' = live
                /\ latest' = Pruned([session |-> s, disposition |-> "Completed"], live, snaps)
           ELSE UNCHANGED <<snapshots, games, latest>>
        /\ LoopGoes(s, "Done")
        /\ UNCHANGED <<ctl, task, shut, notify, engines, view, slots, joinFailed, loopFailed, next, queued,
                       sealed, holder, retire, sent>>

\* Another game completes: the oldest snapshot makes room for its own.
EvictSnapshot ==
    \E s \in DOMAIN snapshots :
       LET snaps == [t \in DOMAIN snapshots \ {s} |-> snapshots[t]]
       IN  /\ \A t \in DOMAIN snapshots : s <= t
           /\ snapshots' = snaps
           /\ latest' = Pruned(latest, games, snaps)
           /\ UNCHANGED <<session, games, slots, joinFailed, loopFailed, next, queued, sealed,
                          holder, retire, sent>>

LoopStep(s) ==
    \/ Select(s) \/ StartEngine(s) \/ TaskFailed(s)
    \/ \E flag \in BOOLEAN : Tick(s, flag)
    \/ \E ok \in Terminations : CleanUp(s, ok)
    \/ Unpublish(s) \/ ReadState(s) \/ CompleteExact(s)

-----------------------------------------------------------------------------
(* request_engine_move.  A task whose loop is gone goes on by itself.      *)

TaskAt(s, at) == task[s] # None /\ task[s].at = at
TaskGoes(s, at) == task' = [task EXCEPT ![s].at = at]

\* The position is read: for a book move, or for the engine.
TaskReads(s) ==
    LET c == ctl[s]
        reading(at) == [at |-> at, gen |-> task[s].gen, nonce |-> task[s].nonce,
                        asked |-> c.moves]
    IN  /\ TaskAt(s, "Begin")
        /\ \/ /\ Len(c.moves) < BookPly
              /\ task' = [task EXCEPT ![s] = reading("Book")]
           \/ /\ ~Playing(c)
              /\ TaskGoes(s, "Ok")
           \/ /\ Playing(c)
              /\ task' = [task EXCEPT ![s] = reading(IF IsEngineTurn(c) THEN "Prepared"
                                                                       ELSE "Err")]
        /\ UNCHANGED <<ctl, loop, shut, notify, engines, view, manager, holder, retire, sent>>

\* A call to the engine: it succeeds, it fails, or the request was cancelled.
Called(s, at) ==
    \/ TaskGoes(s, at)
    \/ TaskGoes(s, IF ctl[s].token THEN "Ok" ELSE "Err")

\* set_position and start_search.
TaskSearches(s) ==
    /\ TaskAt(s, "Prepared")
    /\ IF ctl[s].token THEN TaskGoes(s, "Ok") ELSE Called(s, "Started")
    /\ UNCHANGED <<ctl, loop, shut, notify, engines, view, manager, holder, retire, sent>>

\* register_engine_request_id.
TaskRegisters(s) ==
    LET c == ctl[s]
        active == /\ c.active # None /\ c.active.gen = task[s].gen
                  /\ c.active.nonce = task[s].nonce /\ ~c.token
    IN  /\ TaskAt(s, "Started")
        /\ TaskGoes(s, IF active THEN "Waiting" ELSE "Ok")
        /\ ctl' = IF active THEN [ctl EXCEPT ![s].active.registered = TRUE] ELSE ctl
        /\ UNCHANGED <<loop, shut, notify, engines, view, manager, holder, retire, sent>>

\* wait_bestmove_cancellable.
TaskWaits(s) ==
    /\ TaskAt(s, "Waiting")
    /\ Called(s, "Answered")
    /\ UNCHANGED <<ctl, loop, shut, notify, engines, view, manager, holder, retire, sent>>

AnySession(s) == TRUE

SessionIsCurrent(s) == games = s

\* The book's or the engine's move m is applied, under the lifecycle lock.
\* None is a move that is not legal.
TaskApplies(s, m, flag) ==
    LET c == ctl[s]
        d == IF flag THEN EndGame(c, "Flag") ELSE ApplyMove(c, m)
    IN  /\ TaskAt(s, "Book") \/ TaskAt(s, "Answered")
        /\ holder = None
        /\ IF SessionIsCurrent(s) /\ (IF TaskAt(s, "Book") THEN AcceptsContext(c, task[s])
                                                           ELSE AcceptsResult(c, task[s]))
           THEN IF m = None /\ ~flag
                THEN TaskAt(s, "Answered") /\ TaskGoes(s, "Err") /\ UNCHANGED <<ctl, sent>>
                ELSE /\ Becomes(s, d, IF flag THEN << >> ELSE MoveEvent(d))
                     /\ TaskGoes(s, "Ok")
           ELSE TaskGoes(s, "Ok") /\ UNCHANGED <<ctl, sent>>
        /\ UNCHANGED <<loop, shut, notify, engines, view, manager, holder, retire>>

TaskPanics(s) ==
    /\ "Panic" \in Incidents
    /\ task[s] # None /\ ~TaskDone(s)
    /\ TaskGoes(s, "Panic")
    /\ UNCHANGED <<ctl, loop, shut, notify, engines, view, manager, holder, retire, sent>>

TaskApply(s) ==
    \E m \in Moves \cup {None}, flag \in BOOLEAN : TaskApplies(s, m, flag)

TaskStep(s) == TaskReads(s) \/ TaskSearches(s) \/ TaskRegisters(s) \/ TaskWaits(s)

-----------------------------------------------------------------------------

Command(s) ==
    \/ \E m \in Moves, flag \in BOOLEAN : MakeMove(s, m, flag)
    \/ TakeBack(s) \/ Resign(s) \/ AbortGame(s)

\* What a command that has begun does on its own.
Continue ==
    \/ ReplaceOld \/ OldRetired \/ Publish \/ Handoff \/ AbortReturns
    \/ \E ok \in Terminations : Abandoned(ok)

Guard(s) == \E ok \in Terminations : GuardTerminates(s, ok)

RetireStep(r) ==
    \/ RetireCancel(r) \/ RetireSignal(r) \/ RetireJoin(r)
    \/ \E ok \in Terminations : RetireTerminate(r, ok)

Next ==
    \/ CallStart \/ StartRefused \/ \E terminal \in BOOLEAN : StartGame(terminal)
    \/ \E s \in Sessions :
          Command(s) \/ LoopStep(s) \/ TaskStep(s) \/ TaskApply(s) \/ TaskPanics(s)
          \/ Guard(s)
    \/ \E r \in Retirers : RetireStep(r) \/ JoinTimeout(r)
    \/ Continue \/ ConstructionFails \/ StartDropped \/ HandoffDropped \/ AbortDropped
    \/ ShutdownAll \/ Collect \/ ShutdownRetire \/ EvictSnapshot

Spec == Init /\ [][Next]_vars

\* What the runtime schedules.  The lifecycle lock is a fair queue, so a task
\* that waits for it gets it; an engine that was asked answers, fails or is
\* cancelled.  No timer and no dropped future is relied on.
Fairness ==
    /\ WF_vars(Continue) /\ WF_vars(Collect) /\ WF_vars(ShutdownRetire)
    /\ \A s \in Sessions :
          WF_vars(LoopStep(s)) /\ WF_vars(TaskStep(s)) /\ SF_vars(TaskApply(s))
          /\ WF_vars(Guard(s))
    /\ \A r \in Retirers : WF_vars(RetireStep(r))

FairSpec == Spec /\ Fairness

-----------------------------------------------------------------------------

\* An engine's or book's move is only ever played in the position it was
\* computed for, whatever was taken back and played while it was computed.
EngineMoveIsFresh ==
    [][\A s \in Sessions : TaskApply(s) /\ ctl'[s].moves # ctl[s].moves =>
          ctl[s].moves = task[s].asked]_vars

\* The renderer orders a session's events by revision: each has a greater
\* one than all before it, a terminal move and its GameOver included.
RevisionsIncrease ==
    [][\A s \in Sessions : sent'[s] # sent[s] =>
          LET all == (IF sent[s].events = << >> THEN << >>
                      ELSE <<sent[s].events[Len(sent[s].events)]>>) \o sent'[s].events
          IN  \A n \in 2 .. Len(all) : all[n - 1].revision < all[n].revision]_vars

\* "Attempts terminal event emission exactly once for the state transition
\* that produced it" (game.rs:902-903): the first end of a game stands, and
\* after its GameOver nothing is emitted.
GameOverIsFinal ==
    [][\A s \in Sessions :
          /\ ~Playing(ctl[s]) /\ next' = next => ctl'[s].status = ctl[s].status
          /\ (\E n \in 1 .. Len(sent[s].events) : sent[s].events[n].kind = "Over")
             => sent'[s] = sent[s]]_vars

\* A game that has left the table, aborted, replaced or completed, is never
\* played on, although its task and its loop may still run.
RetiredIsNotPlayed ==
    [][\A s \in Sessions : games # s /\ s <= next => ctl'[s].moves = ctl[s].moves]_vars

\* "an aborted replacement cannot become a completed snapshot"
\* (game.rs:1838-1839): as long as the application runs, a completed session
\* is a finished game, and its snapshot is what the game ended as.
SnapshotIsFinal ==
    ~sealed => \A s \in DOMAIN snapshots :
                  ~Playing(ctl[s]) /\ snapshots[s] = State(ctl[s])

\* Live engines are accounted for: their session holds one of the bounded
\* observation slots until their end has been observed.  The exception are
\* the engines of a start_game that was dropped before it published: their
\* guards' termination is on its way, the session was never in the table,
\* has no loop and is nobody's to retire.
Running(s) == engines[s] \in {"Alive", "Dropped"}

EnginesHoldSlots ==
    \A s \in Sessions : Running(s) /\ s \notin slots =>
       /\ engines[s] = "Dropped"
       /\ loop[s] = "None" /\ games # s
       /\ \A r \in Retirers : retire[r].session # s

\* When shutdown_all has returned no session is live, and none will be.
ShutdownLeavesNone == retire[Shutdown].at = "Done" => games = None

\* An engine to move is asked, also when its request was cancelled and its
\* notification consumed while the last task was still ending.
EngineIsAsked ==
    \A s \in Sessions :
       (games = s /\ Playing(ctl[s]) /\ IsEngineTurn(ctl[s]))
       ~> \/ games # s \/ ~Playing(ctl[s]) \/ ~IsEngineTurn(ctl[s])
          \/ ctl[s].active # None

\* abort_game and start_game return without the join budget: the loop they
\* wait for does not wait for a task that waits for their lock.
LifecycleIsReleased == holder # None ~> holder = None

\* The engines of a session that has left the table are terminated, also when
\* the command that retired it was dropped, and those of a session that a
\* dropped start_game never put there.
EnginesAreReaped ==
    \A s \in Sessions :
       (Running(s) /\ games # s) ~> (~Running(s) \/ games = s)

=============================================================================
