------------------------- MODULE GameSession_proofs -------------------------
(***************************************************************************)
(* The sessions of a game id, for any number of sessions, any game length, *)
(* any number of observation slots and any incidents.                      *)
(***************************************************************************)
EXTENDS GameSession, SequenceTheorems, TLAPS

-----------------------------------------------------------------------------
(* The inductive invariant.                                                *)

Statuses == {"Playing", "Board", "Flag", "Resigned", "Interrupted"}
Requests == [gen : Nat, nonce : Nat, registered : BOOLEAN]
Controller ==
    [moves : Seq(Moves), status : Statuses, gen : Nat, revision : Nat, nonce : Nat,
     active : Requests \cup {None}, thinking : BOOLEAN, token : BOOLEAN, claimed : BOOLEAN]

TaskPlaces ==
    {"Begin", "Book", "Prepared", "Started", "Waiting", "Answered", "Ok", "Err", "Panic"}
AskedTask == [at : TaskPlaces, gen : Nat, nonce : Nat, asked : Seq(Moves)]
Task == [at : TaskPlaces, gen : Nat, nonce : Nat] \cup AskedTask
WithMove == {"Book", "Prepared", "Started", "Waiting", "Answered"}

LoopPlaces ==
    {"None", "Waiting", "Start", "Select", "Tick", "Err", "Panic", "Ended",
     "NeverStarted", "Read", "Unpublish", "Complete", "Done", "Aborted"}

Emission == [kind : {"Move", "Clock", "Over"}, revision : Int]
Batch == [count : Nat, events : Seq(Emission)]

EngineStates == {"None", "Alive", "Dropped", "Terminated", "Failed"}

StartHolder ==
    [op : {"Start"}, session : Sessions, at : {"Built", "Publish", "Abandoning", "Handoff"}]
RetiringHolder == [op : {"Start"}, session : Sessions, at : {"Retiring"}, old : Sessions]
AbortHolder == [op : {"Abort"}, session : Sessions, at : {"Retiring"}]
Holder == StartHolder \cup RetiringHolder \cup AbortHolder

Underway == {"Cancel", "Signal", "Join", "Terminate", "Ok", "Failed"}
Retirement == [at : Underway \cup {"None", "Collect", "Done"}, session : Sessions \cup {None}]

TypeInv ==
    /\ ctl \in [Sessions -> Controller]
    /\ task \in [Sessions -> Task \cup {None}]
    /\ loop \in [Sessions -> LoopPlaces]
    /\ shut \in [Sessions -> BOOLEAN]
    /\ engines \in [Sessions -> EngineStates]
    /\ DOMAIN view = Sessions
    /\ games \in Sessions \cup {None}
    /\ DOMAIN snapshots \subseteq Sessions
    /\ next \in 0 .. MaxSessions
    /\ sealed \in BOOLEAN
    /\ holder \in Holder \cup {None}
    /\ retire \in [Retirers -> Retirement]
    /\ sent \in [Sessions -> Batch]

\* A session that has no controller yet, or has not been published, or never
\* will be.
Unborn(s) ==
    \/ s > next
    \/ engines[s] = "Dropped"
    \/ /\ holder # None /\ holder.op = "Start" /\ holder.at # "Handoff"
       /\ holder.session = s

UnbornOK ==
    \A s \in Sessions : Unborn(s) =>
       /\ task[s] = None /\ loop[s] = "None" /\ ~shut[s]
       /\ games # s /\ s \notin DOMAIN snapshots
       /\ sent[s].events = << >>
       /\ \A r \in Retirers : retire[r].session # s

\* Whoever retires a session retires the one that left the table for it; only
\* shutdown_all retires one that is still there, and it has sealed the manager.
RetireOK ==
    /\ \A s \in Sessions : retire[s].at # "None" =>
          retire[s].at \in Underway /\ retire[s].session = s /\ games # s
    /\ retire[Shutdown].at # "None" => sealed
    /\ retire[Shutdown].at \in Underway => retire[Shutdown].session \in Sessions

HolderOK ==
    /\ Starting("Retiring") => holder.old \in Sessions /\ retire[holder.old].at # "None"
    /\ Aborting => retire[holder.session].at # "None"
    /\ holder # None => holder.session <= next
    /\ holder # None /\ holder.op = "Start" => engines[holder.session] # "Dropped"

\* Engines that have an owner hold their slot, and a loop that gives it up
\* has ended them.
SlotsOK ==
    \A s \in Sessions : engines[s] = "Alive" => s \in slots /\ loop[s] # "Unpublish"

\* The move a task works on is of the generation the task was asked in.
TaskOK(s) ==
    task[s] # None =>
       /\ task[s].gen <= ctl[s].gen
       /\ task[s].at \in WithMove =>
             /\ task[s] \in AskedTask
             /\ task[s].gen = ctl[s].gen => task[s].asked = ctl[s].moves

Over(e) == e.kind = "Over"

\* What was last emitted is not ahead of the controller, and a GameOver is
\* only emitted, at once, for a game that has ended.
EmittedOK(s) ==
    LET es == sent[s].events
    IN  /\ es # << >> => es[Len(es)].revision <= ctl[s].revision
        /\ (\E n \in 1 .. Len(es) : Over(es[n])) => ~Playing(ctl[s]) /\ ctl[s].claimed
        /\ ~Playing(ctl[s]) /\ ~ctl[s].claimed => es = << >>

\* A live session is told to stop, or stops by itself, only when its game has
\* ended, and what it is about to complete with is its state.
EndsOK(s) ==
    ~sealed /\ games = s =>
       /\ shut[s] \/ loop[s] \in {"Ended", "Read", "Complete"} => ~Playing(ctl[s])
       /\ loop[s] = "Complete" => view[s] = State(ctl[s])

Inv ==
    /\ TypeInv /\ UnbornOK /\ RetireOK /\ HolderOK
    /\ \A s \in Sessions : TaskOK(s) /\ EmittedOK(s) /\ EndsOK(s)
    /\ SlotsOK /\ ShutdownLeavesNone /\ SnapshotIsFinal

-----------------------------------------------------------------------------
(* The functions of the controller.                                        *)

\* What the renderer sees of a controller, and what orders it.
SameGame(c, d) ==
    /\ d.moves = c.moves /\ d.status = c.status /\ d.gen = c.gen
    /\ d.revision = c.revision /\ d.claimed = c.claimed

\* cancel_engine_request leaves the game alone.
LEMMA CancelType ==
    ASSUME NEW c \in Controller
    PROVE  CancelRequest(c) \in Controller /\ SameGame(c, CancelRequest(c))
  <1> DEFINE b == c.token \/ c.active # None
             d == [c EXCEPT !.token = b, !.active = None, !.thinking = FALSE]
  <1>1. b \in BOOLEAN
    BY DEF Controller
  <1>2. CancelRequest(c) = d
    BY DEF CancelRequest, Controller
  <1> HIDE DEF b
  <1>3. d \in Controller /\ SameGame(c, d)
    BY <1>1 DEF Controller, SameGame
  <1> QED BY <1>2, <1>3

\* The generation advances and the request is cancelled.
LEMMA AdvanceType ==
    ASSUME NEW c \in Controller
    PROVE  LET d == AdvanceGeneration(c)
           IN  /\ d \in Controller /\ d.gen = c.gen + 1 /\ d.moves = c.moves
               /\ d.status = c.status /\ d.revision = c.revision /\ d.claimed = c.claimed
  <1> DEFINE e == [c EXCEPT !.gen = @ + 1]
  <1>1. e \in Controller /\ e.gen = c.gen + 1 /\ e.moves = c.moves
        /\ e.status = c.status /\ e.revision = c.revision /\ e.claimed = c.claimed
    BY DEF Controller
  <1>2. AdvanceGeneration(c) = CancelRequest(e)
    BY DEF AdvanceGeneration
  <1> HIDE DEF e
  <1> QED BY <1>1, <1>2, CancelType DEF SameGame

\* A game that is played ends once, and nobody has announced it.
LEMMA EndGameType ==
    ASSUME NEW c \in Controller, NEW result \in Statuses \ {"Playing"}
    PROVE  LET d == EndGame(c, result)
           IN  /\ d \in Controller /\ d.moves = c.moves /\ ~Playing(d)
               /\ ~Playing(c) => d = c
               /\ Playing(c) => /\ d.gen = c.gen + 1 /\ d.revision = c.revision + 1
                                /\ ~d.claimed
  <1>1. CASE ~Playing(c)
    BY <1>1 DEF EndGame
  <1>2. CASE Playing(c)
    <2> DEFINE e == [c EXCEPT !.status = result, !.claimed = FALSE, !.revision = @ + 1]
    <2>1. e \in Controller /\ e.gen = c.gen /\ e.moves = c.moves
          /\ e.status = result /\ e.revision = c.revision + 1 /\ ~e.claimed
      <3> DEFINE n == c.revision + 1
      <3>1. n \in Nat
        BY DEF Controller
      <3>2. e = [c EXCEPT !.status = result, !.claimed = FALSE, !.revision = n]
        OBVIOUS
      <3> HIDE DEF n, e
      <3>3. e \in Controller
        BY <3>1, <3>2 DEF Controller
      <3>4. /\ e.gen = c.gen /\ e.moves = c.moves
            /\ e.status = result /\ e.revision = n /\ ~e.claimed
        BY <3>2 DEF Controller
      <3> QED BY <3>3, <3>4 DEF n
    <2>2. EndGame(c, result) = AdvanceGeneration(e)
      BY <1>2 DEF EndGame
    <2> HIDE DEF e
    <2> QED BY <1>2, <2>1, <2>2, AdvanceType DEF Playing
  <1> QED BY <1>1, <1>2

\* What a move, a move taken back or a tick leaves of a game that was played:
\* it is played on, or it has ended and nobody has announced it.
Plays(c, d) ==
    /\ Playing(c) /\ d \in Controller
    /\ d.gen >= c.gen /\ (d.moves # c.moves => d.gen > c.gen)
    /\ \/ Playing(d) /\ d.revision = c.revision + 1
       \/ ~Playing(d) /\ ~d.claimed /\ d.revision = c.revision + 2

\* check_game_end after a change that counts as one revision.
LEMMA CheckPlays ==
    ASSUME NEW c \in Controller, NEW e \in Controller, Playing(c), Playing(e),
           e.gen > c.gen, e.revision = c.revision + 1
    PROVE  Plays(c, CheckGameEnd(e))
  <1>1. CASE CheckGameEnd(e) = e
    BY <1>1 DEF Plays, Controller
  <1>2. CASE CheckGameEnd(e) = EndGame(e, "Board")
    <2>1. "Board" \in Statuses \ {"Playing"}
      BY DEF Statuses
    <2> DEFINE d == EndGame(e, "Board")
    <2>2. d \in Controller /\ ~Playing(d) /\ d.gen = e.gen + 1 /\ d.revision = e.revision + 1 /\ ~d.claimed
      BY <2>1, EndGameType
    <2> HIDE DEF d
    <2>3. c.gen \in Nat /\ c.revision \in Nat /\ e.gen \in Nat /\ e.revision \in Nat
      BY DEF Controller
    <2>4. Plays(c, d)
      BY <2>2, <2>3 DEF Plays
    <2> QED BY <1>2, <2>4 DEF d
  <1> QED BY <1>1, <1>2 DEF CheckGameEnd

\* apply_move.
LEMMA ApplyType ==
    ASSUME NEW c \in Controller, Playing(c), NEW m \in Moves
    PROVE  Plays(c, ApplyMove(c, m))
  <1> DEFINE e == [c EXCEPT !.moves = Append(@, m)]
             f == AdvanceGeneration(e)
             g == [f EXCEPT !.revision = @ + 1]
  <1>1. e \in Controller /\ e.gen = c.gen /\ e.status = c.status /\ e.revision = c.revision
    BY DEF Controller
  <1>2. ApplyMove(c, m) = CheckGameEnd(g)
    BY DEF ApplyMove
  <1> HIDE DEF e
  <1>3. f \in Controller /\ f.gen = c.gen + 1 /\ f.status = c.status /\ f.revision = c.revision
    BY <1>1, AdvanceType
  <1> HIDE DEF f
  <1>4. g \in Controller /\ g.gen = c.gen + 1 /\ g.status = c.status /\ g.revision = c.revision + 1
    <2> DEFINE n == f.revision + 1
    <2>1. n \in Nat /\ g = [f EXCEPT !.revision = n]
      BY <1>3 DEF Controller
    <2> HIDE DEF n, g
    <2>2. g \in Controller /\ g.gen = f.gen /\ g.status = f.status /\ g.revision = n
      BY <1>3, <2>1 DEF Controller
    <2> QED BY <1>3, <2>2 DEF n
  <1> HIDE DEF g
  <1>5. Playing(g) /\ g.gen > c.gen
    BY <1>4 DEF Playing, Controller
  <1>6. Plays(c, CheckGameEnd(g))
    BY <1>4, <1>5, CheckPlays
  <1> QED BY <1>2, <1>6

\* take_back_move.
LEMMA TakeBackType ==
    ASSUME NEW c \in Controller, Playing(c), NEW count \in Nat
    PROVE  Plays(c, TakeBackMoves(c, count))
  <1> DEFINE left == IF count < Len(c.moves) THEN Len(c.moves) - count ELSE 0
             x == CancelRequest(c)
             e == [x EXCEPT !.moves = SubSeq(@, 1, left), !.status = "Playing"]
             f == AdvanceGeneration(e)
             g == [f EXCEPT !.revision = @ + 1]
  <1>0. x \in Controller /\ x.gen = c.gen /\ x.revision = c.revision /\ x.moves = c.moves
    BY CancelType DEF SameGame
  <1>1. SubSeq(c.moves, 1, left) \in Seq(Moves)
    <2>1. c.moves \in Seq(Moves)
      BY DEF Controller
    <2>2. left \in Nat /\ left <= Len(c.moves)
      BY <2>1
    <2> HIDE DEF left
    <2>3. \A i \in 1 .. left : c.moves[i] \in Moves
      BY <2>1, <2>2
    <2> QED BY <2>1, <2>2, <2>3, SubSeqProperties
  <1>2. TakeBackMoves(c, count) = CheckGameEnd(g)
    BY DEF TakeBackMoves
  <1> HIDE DEF left, x
  <1>3. e \in Controller /\ e.gen = c.gen /\ e.status = "Playing" /\ e.revision = c.revision
    <2>1. "Playing" \in Statuses
      BY DEF Statuses
    <2>2. e = [x EXCEPT !.moves = SubSeq(c.moves, 1, left), !.status = "Playing"]
      BY <1>0
    <2> HIDE DEF e
    <2> QED BY <1>0, <1>1, <2>1, <2>2 DEF Controller
  <1> HIDE DEF e
  <1>4. f \in Controller /\ f.gen = c.gen + 1 /\ f.status = "Playing" /\ f.revision = c.revision
    BY <1>3, AdvanceType
  <1> HIDE DEF f
  <1>5. g \in Controller /\ g.gen = c.gen + 1 /\ g.status = "Playing" /\ g.revision = c.revision + 1
    BY <1>4 DEF Controller
  <1> HIDE DEF g
  <1>6. Playing(g) /\ g.gen > c.gen
    BY <1>5 DEF Playing, Controller
  <1>7. Plays(c, CheckGameEnd(g))
    BY <1>5, <1>6, CheckPlays
  <1> QED BY <1>2, <1>7

-----------------------------------------------------------------------------
(* What is emitted.                                                        *)

OverAt(n) == [kind |-> "Over", revision |-> n]

\* An event and the GameOver after it are two events.
LEMMA TwoEvents ==
    ASSUME NEW S, NEW a \in S, NEW b \in S
    PROVE  <<a>> \o <<b>> = <<a, b>>
  <1>1. <<a>> \in Seq(S) /\ <<b>> \in Seq(S) /\ <<a, b>> \in Seq(S)
    OBVIOUS
  <1>2. Len(<<a>> \o <<b>>) = 2
    OBVIOUS
  <1>3. (<<a>> \o <<b>>)[1] = a /\ (<<a>> \o <<b>>)[2] = b
    OBVIOUS
  <1>4. <<a>> \o <<b>> \in Seq(S)
    BY <1>1
  <1>5. \A i \in 1 .. 2 : (<<a>> \o <<b>>)[i] = <<a, b>>[i]
    BY <1>3
  <1> QED BY <1>1, <1>2, <1>4, <1>5, SeqEqual

\* Three events are the last one and the two that follow it.
LEMMA ThreeEvents ==
    ASSUME NEW S, NEW a \in S, NEW b \in S, NEW c \in S
    PROVE  <<a>> \o <<b, c>> = <<a, b, c>>
  <1>1. <<a>> \in Seq(S) /\ <<b, c>> \in Seq(S) /\ <<a, b, c>> \in Seq(S)
    OBVIOUS
  <1>2. Len(<<a>> \o <<b, c>>) = 3
    OBVIOUS
  <1>3. /\ (<<a>> \o <<b, c>>)[1] = a /\ (<<a>> \o <<b, c>>)[2] = b
        /\ (<<a>> \o <<b, c>>)[3] = c
    OBVIOUS
  <1>4. <<a>> \o <<b, c>> \in Seq(S)
    BY <1>1
  <1>5. \A i \in 1 .. 3 : (<<a>> \o <<b, c>>)[i] = <<a, b, c>>[i]
    BY <1>3
  <1> QED BY <1>1, <1>2, <1>4, <1>5, SeqEqual

\* The session s emits the batch es, or nothing.
Emits(s, es) ==
    sent' = IF es = << >> THEN sent
            ELSE [sent EXCEPT ![s] = [count |-> @.count + 1, events |-> es]]

\* A batch of one or two events.
LEMMA EmitsType ==
    ASSUME sent \in [Sessions -> Batch], NEW s \in Sessions, NEW es \in Seq(Emission), Emits(s, es)
    PROVE  /\ sent' \in [Sessions -> Batch]
           /\ \A t \in Sessions \ {s} : sent'[t] = sent[t]
           /\ es = << >> => sent'[s] = sent[s]
           /\ es # << >> => sent'[s].events = es
  <1>1. CASE es = << >>
    BY <1>1 DEF Emits
  <1>2. CASE es # << >>
    <2> DEFINE n == sent[s].count + 1
               b == [count |-> n, events |-> es]
    <2>1. n \in Nat
      BY DEF Batch
    <2>2. sent' = [sent EXCEPT ![s] = b]
      BY <1>2 DEF Emits
    <2> HIDE DEF n
    <2>3. b \in Batch /\ b.events = es
      BY <2>1 DEF Batch
    <2> HIDE DEF b
    <2> QED BY <1>2, <2>2, <2>3
  <1> QED BY <1>1, <1>2

\* The controller becomes d, and events come before its GameOver.
Told(s, d, e, events) ==
    /\ ctl' \in [Sessions -> Controller] /\ sent' \in [Sessions -> Batch]
    /\ \A t \in Sessions \ {s} : ctl'[t] = ctl[t] /\ sent'[t] = sent[t]
    /\ ctl'[s].moves = d.moves /\ ctl'[s].status = d.status
    /\ ctl'[s].gen = d.gen /\ ctl'[s].revision = d.revision
    /\ Claims(d) =>
          /\ ctl'[s].claimed
          /\ sent'[s].events = IF events = << >> THEN <<OverAt(d.revision)>>
                               ELSE <<e, OverAt(d.revision)>>
    /\ ~Claims(d) =>
          /\ ctl'[s] = d
          /\ events = << >> => sent'[s] = sent[s]
          /\ events # << >> => sent'[s].events = <<e>>

\* At most one event comes before a GameOver.
LEMMA BecomesType ==
    ASSUME TypeInv, NEW s \in Sessions, NEW d \in Controller, NEW e \in Emission, NEW events,
           events = << >> \/ events = <<e>>, Becomes(s, d, events)
    PROVE  Told(s, d, e, events)
  <1> DEFINE o == OverAt(d.revision)
             all == events \o (IF Claims(d) THEN <<o>> ELSE << >>)
             x == IF Claims(d) THEN [d EXCEPT !.claimed = TRUE] ELSE d
  <1>1. o \in Emission
    BY DEF OverAt, Emission, Controller
  <1>2. ctl' = [ctl EXCEPT ![s] = x] /\ Emits(s, all)
    BY DEF Becomes, Emits, OverAt
  <1> HIDE DEF o
  <1>3. /\ all = IF Claims(d) THEN (IF events = << >> THEN <<o>> ELSE <<e, o>>) ELSE events
        /\ all \in Seq(Emission)
    <2>1. << >> \o <<o>> = <<o>> /\ <<e>> \o <<o>> = <<e, o>>
      BY <1>1, TwoEvents
    <2>2. events \o << >> = events
      OBVIOUS
    <2>3. <<e>> # << >>
      OBVIOUS
    <2>4. all = IF Claims(d) THEN (IF events = << >> THEN <<o>> ELSE <<e, o>>) ELSE events
      <3>1. CASE ~Claims(d)
        BY <2>2, <3>1
      <3>2. CASE Claims(d) /\ events = << >>
        BY <2>1, <3>2
      <3>3. CASE Claims(d) /\ events = <<e>>
        BY <2>1, <2>3, <3>3
      <3> QED BY <3>1, <3>2, <3>3
    <2>5. <<o>> \in Seq(Emission) /\ <<e>> \in Seq(Emission) /\ <<e, o>> \in Seq(Emission)
          /\ << >> \in Seq(Emission)
      BY <1>1
    <2> HIDE DEF all
    <2>6. all \in Seq(Emission)
      BY <2>4, <2>5
    <2> QED BY <2>4, <2>6
  <1> HIDE DEF all
  <1>4. x \in Controller /\ x.moves = d.moves /\ x.status = d.status
        /\ x.gen = d.gen /\ x.revision = d.revision
        /\ (Claims(d) => x.claimed) /\ (~Claims(d) => x = d)
    <2> DEFINE y == [d EXCEPT !.claimed = TRUE]
    <2>1. y \in Controller
      BY DEF Controller
    <2>2. y.moves = d.moves /\ y.status = d.status /\ y.gen = d.gen /\ y.revision = d.revision /\ y.claimed
      BY DEF Controller
    <2>3. x = IF Claims(d) THEN y ELSE d
      OBVIOUS
    <2> HIDE DEF y, x
    <2> QED BY <2>1, <2>2, <2>3
  <1> HIDE DEF x
  <1>5. ctl' \in [Sessions -> Controller] /\ ctl'[s] = x /\ \A t \in Sessions \ {s} : ctl'[t] = ctl[t]
    BY <1>2, <1>4 DEF TypeInv
  <1>7. /\ sent' \in [Sessions -> Batch]
        /\ \A t \in Sessions \ {s} : sent'[t] = sent[t]
        /\ all = << >> => sent'[s] = sent[s]
        /\ all # << >> => sent'[s].events = all
    BY <1>2, <1>3, EmitsType DEF TypeInv
  <1>8. Claims(d) => sent'[s].events = IF events = << >> THEN <<o>> ELSE <<e, o>>
    BY <1>3, <1>7
  <1>9. ~Claims(d) => /\ events = << >> => sent'[s] = sent[s]
                      /\ events # << >> => sent'[s].events = <<e>>
    BY <1>3, <1>7
  <1> QED BY <1>4, <1>5, <1>7, <1>8, <1>9 DEF o, Told

-----------------------------------------------------------------------------
(* What a step does to the game of a session.                              *)

Stays(s) == SameGame(ctl[s], ctl'[s]) /\ sent'[s] = sent[s]

\* The game that was played moves on, maybe to its end, and says so.
Advances(s) ==
    LET c == ctl[s]
        d == ctl'[s]
        es == sent'[s].events
    IN  /\ Playing(c)
        /\ d.gen >= c.gen /\ (d.moves # c.moves => d.gen > c.gen)
        /\ d.revision > c.revision
        /\ \/ /\ Playing(d)
              /\ \E e \in Emission : ~Over(e) /\ e.revision = d.revision /\ es = <<e>>
           \/ /\ ~Playing(d) /\ d.claimed
              /\ es = <<OverAt(d.revision)>>
           \/ /\ ~Playing(d) /\ d.claimed
              /\ \E e \in Emission : /\ ~Over(e) /\ es = <<e, OverAt(d.revision)>>
                                     /\ c.revision < e.revision /\ e.revision < d.revision

\* A game that had ended before anybody could announce it is announced.
Announces(s) ==
    /\ ~Playing(ctl[s]) /\ ~ctl[s].claimed
    /\ ctl'[s].moves = ctl[s].moves /\ ctl'[s].status = ctl[s].status
    /\ ctl'[s].gen = ctl[s].gen /\ ctl'[s].revision = ctl[s].revision
    /\ ctl'[s].claimed
    /\ sent'[s].events = <<OverAt(ctl[s].revision)>>

GameStep(s) ==
    /\ ctl' \in [Sessions -> Controller] /\ sent' \in [Sessions -> Batch]
    /\ \A t \in Sessions \ {s} : ctl'[t] = ctl[t] /\ sent'[t] = sent[t]
    /\ Stays(s) \/ Advances(s) \/ Announces(s)

\* A step that is not about the game.
LEMMA NoGame ==
    ASSUME TypeInv, NEW s \in Sessions, UNCHANGED <<ctl, sent>>
    PROVE  GameStep(s)
  BY DEF TypeInv, GameStep, Stays, SameGame

\* A step that only concerns the engine's request.
LEMMA RequestStep ==
    ASSUME TypeInv, NEW s \in Sessions, NEW d \in Controller, SameGame(ctl[s], d),
           ctl' = [ctl EXCEPT ![s] = d], sent' = sent
    PROVE  GameStep(s)
  <1>1. ctl' \in [Sessions -> Controller] /\ ctl'[s] = d /\ \A t \in Sessions \ {s} : ctl'[t] = ctl[t]
    BY DEF TypeInv
  <1> QED BY <1>1 DEF TypeInv, GameStep, Stays

\* A move, a move taken back or a tick, with its event.
LEMMA PlaysStep ==
    ASSUME TypeInv, NEW s \in Sessions, NEW d, Plays(ctl[s], d), NEW e \in Emission,
           ~Over(e), e.revision = MoveRevision(d), Becomes(s, d, <<e>>)
    PROVE  GameStep(s) /\ (Playing(d) <=> Playing(ctl'[s]))
  <1>1. d \in Controller /\ ctl[s] \in Controller /\ <<e>> # << >>
    BY DEF Plays, TypeInv
  <1>2. /\ ctl' \in [Sessions -> Controller] /\ sent' \in [Sessions -> Batch]
        /\ \A t \in Sessions \ {s} : ctl'[t] = ctl[t] /\ sent'[t] = sent[t]
        /\ ctl'[s].moves = d.moves /\ ctl'[s].status = d.status
        /\ ctl'[s].gen = d.gen /\ ctl'[s].revision = d.revision
        /\ Claims(d) => /\ ctl'[s].claimed
                        /\ sent'[s].events = <<e, OverAt(d.revision)>>
        /\ ~Claims(d) => /\ ctl'[s] = d
                         /\ sent'[s].events = <<e>>
    <2> DEFINE events == <<e>>
    <2>1. events = <<e>> /\ events # << >> /\ Becomes(s, d, events)
      BY <1>1
    <2> HIDE DEF events
    <2>2. Told(s, d, e, events)
      BY <1>1, <2>1, BecomesType
    <2> QED BY <2>1, <2>2 DEF Told
  <1>3. ctl[s].gen \in Nat /\ ctl[s].revision \in Nat /\ d.gen \in Nat /\ d.revision \in Nat
    BY <1>1 DEF Controller
  <1>4. CASE Playing(d)
    <2>1. ~Claims(d) /\ e.revision = d.revision /\ d.revision = ctl[s].revision + 1
      BY <1>4 DEF Claims, MoveRevision, Plays
    <2>2. Advances(s)
      BY <1>2, <1>3, <1>4, <2>1 DEF Advances, Plays
    <2> QED BY <1>2, <1>4, <2>1, <2>2 DEF GameStep
  <1>5. CASE ~Playing(d)
    <2>1. Claims(d) /\ e.revision = d.revision - 1 /\ d.revision = ctl[s].revision + 2
      BY <1>5 DEF Claims, MoveRevision, Plays
    <2>2. ~Playing(ctl'[s])
      BY <1>2, <1>5 DEF Playing
    <2>3. Advances(s)
      BY <1>2, <1>3, <2>1, <2>2 DEF Advances, Plays
    <2> QED BY <1>2, <1>5, <2>2, <2>3 DEF GameStep
  <1> QED BY <1>4, <1>5

\* The move is played with its event, whoever plays it.
LEMMA MoveStep ==
    ASSUME TypeInv, NEW s \in Sessions, NEW d, Plays(ctl[s], d), Becomes(s, d, MoveEvent(d))
    PROVE  GameStep(s) /\ (Playing(d) <=> Playing(ctl'[s]))
  <1> DEFINE e == [kind |-> "Move", revision |-> MoveRevision(d)]
  <1>1. d \in Controller /\ d.revision \in Nat
    BY DEF Plays, Controller
  <1>2. e \in Emission /\ ~Over(e) /\ e.revision = MoveRevision(d)
    BY <1>1 DEF Emission, Over, MoveRevision
  <1>3. Becomes(s, d, <<e>>)
    BY DEF MoveEvent
  <1> HIDE DEF e
  <1> QED BY <1>2, <1>3, PlaysStep

\* The game ends without a move, or had ended.
LEMMA EndsStep ==
    ASSUME TypeInv, NEW s \in Sessions, NEW c \in Controller, SameGame(ctl[s], c),
           NEW result \in Statuses \ {"Playing"}, Becomes(s, EndGame(c, result), << >>)
    PROVE  GameStep(s) /\ ~Playing(ctl'[s])
  <1> DEFINE d == EndGame(c, result)
             e == OverAt(0)
  <1>1. /\ d \in Controller /\ d.moves = c.moves /\ ~Playing(d)
        /\ ~Playing(c) => d = c
        /\ Playing(c) => d.gen = c.gen + 1 /\ d.revision = c.revision + 1 /\ ~d.claimed
    BY EndGameType
  <1>2. e \in Emission
    BY DEF OverAt, Emission
  <1>3. Becomes(s, d, << >>)
    OBVIOUS
  <1> HIDE DEF d, e
  <1>4. /\ ctl' \in [Sessions -> Controller] /\ sent' \in [Sessions -> Batch]
        /\ \A t \in Sessions \ {s} : ctl'[t] = ctl[t] /\ sent'[t] = sent[t]
        /\ ctl'[s].moves = d.moves /\ ctl'[s].status = d.status
        /\ ctl'[s].gen = d.gen /\ ctl'[s].revision = d.revision
        /\ Claims(d) => /\ ctl'[s].claimed
                        /\ sent'[s].events = <<OverAt(d.revision)>>
        /\ ~Claims(d) => /\ ctl'[s] = d
                         /\ sent'[s] = sent[s]
    <2> DEFINE events == << >>
    <2>1. events = << >> /\ Becomes(s, d, events)
      BY <1>3
    <2> HIDE DEF events
    <2>2. Told(s, d, e, events)
      BY <1>1, <1>2, <2>1, BecomesType
    <2> QED BY <2>1, <2>2 DEF Told
  <1>5. ~Playing(ctl'[s]) /\ (Playing(c) <=> Playing(ctl[s]))
    BY <1>1, <1>4 DEF Playing, SameGame
  <1>6. c.gen \in Nat /\ c.revision \in Nat
    BY DEF Controller
  <1>7. CASE Playing(c)
    <2>1. Claims(d)
      BY <1>1, <1>7 DEF Claims
    <2>2. Advances(s)
      BY <1>1, <1>4, <1>5, <1>6, <1>7, <2>1 DEF Advances, SameGame
    <2> QED BY <1>4, <1>5, <2>2 DEF GameStep
  <1>8. CASE ~Playing(c) /\ ~c.claimed
    <2>1. Claims(d) /\ d = c
      BY <1>1, <1>8 DEF Claims
    <2>2. Announces(s)
      BY <1>4, <1>5, <1>8, <2>1 DEF Announces, SameGame
    <2> QED BY <1>4, <1>5, <2>2 DEF GameStep
  <1>9. CASE ~Playing(c) /\ c.claimed
    <2>1. ~Claims(d) /\ d = c
      BY <1>1, <1>9 DEF Claims
    <2>2. Stays(s)
      BY <1>4, <2>1 DEF Stays
    <2> QED BY <1>4, <1>5, <2>2 DEF GameStep
  <1> QED BY <1>7, <1>8, <1>9

\* A game step keeps what was emitted in order and a finished game as it is.
LEMMA GameKept ==
    ASSUME TypeInv, NEW s \in Sessions, GameStep(s), \A t \in Sessions : EmittedOK(t)
    PROVE  /\ \A t \in Sessions : EmittedOK(t)'
           /\ \A t \in Sessions : /\ ctl'[t].gen >= ctl[t].gen
                                  /\ ctl'[t].moves # ctl[t].moves => ctl'[t].gen > ctl[t].gen
           /\ \A t \in Sessions : ~Playing(ctl[t]) =>
                 ~Playing(ctl'[t]) /\ State(ctl'[t]) = State(ctl[t]) /\ ctl'[t].status = ctl[t].status
  <1>0. \A t \in Sessions : ctl[t] \in Controller /\ ctl'[t] \in Controller
    BY DEF TypeInv, GameStep
  <1>1. \A t \in Sessions : /\ ctl[t].gen \in Nat /\ ctl[t].revision \in Nat
                            /\ ctl'[t].gen \in Nat /\ ctl'[t].revision \in Nat
    BY <1>0 DEF Controller
  <1>2. ASSUME NEW t \in Sessions, t # s PROVE EmittedOK(t)'
    BY <1>2 DEF GameStep, EmittedOK
  <1>3. EmittedOK(s)'
    <2>1. CASE Stays(s)
      BY <2>1 DEF Stays, SameGame, EmittedOK, Playing
    <2>2. ASSUME NEW e, sent'[s].events = <<e>>, e.revision = ctl'[s].revision,
                 Over(e) => ~Playing(ctl'[s]), ~Playing(ctl'[s]) => ctl'[s].claimed
          PROVE  EmittedOK(s)'
      <3>1. Len(<<e>>) = 1 /\ <<e>>[1] = e /\ <<e>> # << >>
        OBVIOUS
      <3>2. \A n \in 1 .. 1 : <<e>>[n] = e
        OBVIOUS
      <3> QED BY <1>1, <2>2, <3>1, <3>2 DEF EmittedOK
    <2>3. ASSUME NEW e, NEW o, sent'[s].events = <<e, o>>, o.revision = ctl'[s].revision,
                 ~Playing(ctl'[s]), ctl'[s].claimed
          PROVE  EmittedOK(s)'
      <3>1. Len(<<e, o>>) = 2 /\ <<e, o>>[2] = o /\ <<e, o>> # << >>
        OBVIOUS
      <3> QED BY <1>1, <2>3, <3>1 DEF EmittedOK
    <2>4. \A n : Over(OverAt(n)) /\ OverAt(n).revision = n
      BY DEF Over, OverAt
    <2>5. CASE Advances(s)
      BY <2>2, <2>3, <2>4, <2>5 DEF Advances
    <2>6. CASE Announces(s)
      <3>1. ~Playing(ctl'[s])
        BY <2>6 DEF Announces, Playing
      <3> QED BY <2>2, <2>4, <2>6, <3>1 DEF Announces
    <2> QED BY <2>1, <2>5, <2>6 DEF GameStep
  <1>4. ASSUME NEW t \in Sessions
        PROVE  /\ ctl'[t].gen >= ctl[t].gen
               /\ ctl'[t].moves # ctl[t].moves => ctl'[t].gen > ctl[t].gen
    BY <1>1 DEF GameStep, Stays, SameGame, Advances, Announces
  <1>5. ASSUME NEW t \in Sessions, ~Playing(ctl[t])
        PROVE  ~Playing(ctl'[t]) /\ State(ctl'[t]) = State(ctl[t]) /\ ctl'[t].status = ctl[t].status
    BY <1>5 DEF GameStep, Stays, SameGame, Advances, Announces, Playing, State
  <1> QED BY <1>2, <1>3, <1>4, <1>5

-----------------------------------------------------------------------------
(* Steps of a session.                                                     *)

\* A session that is there has been published.
LEMMA LiveIsBorn ==
    ASSUME Inv, NEW s \in Sessions,
           \/ games = s \/ task[s] # None \/ loop[s] # "None"
           \/ \E r \in Retirers : retire[r].session = s
    PROVE  ~Unborn(s)
  BY DEF Inv, UnbornOK

\* The task keeps what it has, or is gone.
LEMMA TaskStays ==
    ASSUME Inv, NEW s \in Sessions, GameStep(s), NEW t \in Sessions,
           task'[t] = task[t] \/ task'[t] = None
    PROVE  TaskOK(t)'
  <1>1. ctl'[t].gen >= ctl[t].gen /\ (ctl'[t].moves # ctl[t].moves => ctl'[t].gen > ctl[t].gen)
    BY GameKept DEF Inv
  <1>2. ctl[t].gen \in Nat /\ ctl'[t].gen \in Nat /\ (task[t] # None => task[t].gen \in Nat)
    <2>1. ctl[t] \in Controller /\ ctl'[t] \in Controller /\ (task[t] # None => task[t] \in Task)
      BY DEF Inv, TypeInv, GameStep
    <2> QED BY <2>1 DEF Controller, Task, AskedTask
  <1> QED BY <1>1, <1>2 DEF Inv, TaskOK

\* The task goes on with what it has.
LEMMA TaskGoesOn ==
    ASSUME Inv, NEW s \in Sessions, GameStep(s), task[s] # None, NEW x \in TaskPlaces,
           x \in WithMove => task[s].at \in WithMove, TaskGoes(s, x)
    PROVE  /\ task' \in [Sessions -> Task \cup {None}]
           /\ \A t \in Sessions \ {s} : task'[t] = task[t]
           /\ TaskOK(s)'
  <1> DEFINE k == task[s]
             n == [k EXCEPT !.at = x]
  <1>1. k \in Task /\ task' = [task EXCEPT ![s] = n]
    BY DEF Inv, TypeInv, TaskGoes
  <1>2. /\ n \in Task /\ n.at = x /\ n.gen = k.gen /\ k.gen \in Nat
        /\ k \in AskedTask => n \in AskedTask /\ n.asked = k.asked
    <2>1. CASE k \in AskedTask
      BY <2>1 DEF AskedTask, Task
    <2>2. CASE k \notin AskedTask
      <3>1. k \in [at : TaskPlaces, gen : Nat, nonce : Nat]
        BY <1>1, <2>2 DEF Task
      <3>2. n \in [at : TaskPlaces, gen : Nat, nonce : Nat] /\ n.at = x /\ n.gen = k.gen
        BY <3>1
      <3> QED BY <2>2, <3>1, <3>2 DEF Task
    <2> QED BY <2>1, <2>2
  <1>3. /\ task' \in [Sessions -> Task \cup {None}] /\ task'[s] = n
        /\ \A t \in Sessions \ {s} : task'[t] = task[t]
    BY <1>1, <1>2 DEF Inv, TypeInv
  <1> HIDE DEF n
  <1>4. ctl'[s].gen >= ctl[s].gen /\ (ctl'[s].moves # ctl[s].moves => ctl'[s].gen > ctl[s].gen)
    BY GameKept DEF Inv
  <1>5. ctl[s].gen \in Nat /\ ctl'[s].gen \in Nat
    <2>1. ctl[s] \in Controller /\ ctl'[s] \in Controller
      BY DEF Inv, TypeInv, GameStep
    <2> QED BY <2>1 DEF Controller
  <1>6. k.gen <= ctl[s].gen
        /\ (k.at \in WithMove => k \in AskedTask /\ (k.gen = ctl[s].gen => k.asked = ctl[s].moves))
    BY DEF Inv, TaskOK
  <1>7. TaskOK(s)'
    BY <1>2, <1>3, <1>4, <1>5, <1>6 DEF TaskOK
  <1> QED BY <1>3, <1>7

Finished == {"Ended", "Read", "Complete"}
Leaving == Finished \cup {"Unpublish"}

\* What a step of a session's game, task, loop or command must not do.
LEMMA SessionKept ==
    ASSUME Inv, NEW s \in Sessions, GameStep(s), ~Unborn(s),
           UNCHANGED <<engines, view, manager, holder, retire>>,
           task' \in [Sessions -> Task \cup {None}], TaskOK(s)',
           loop' \in [Sessions -> LoopPlaces], shut' \in [Sessions -> BOOLEAN],
           \A t \in Sessions \ {s} : task'[t] = task[t] /\ loop'[t] = loop[t] /\ shut'[t] = shut[t],
           shut'[s] => shut[s] \/ ~Playing(ctl'[s]),
           \/ loop'[s] = loop[s]
           \/ loop'[s] \notin Leaving
           \/ loop'[s] = "Ended" /\ (shut[s] \/ ~Playing(ctl'[s]))
    PROVE  Inv'
  <1>1. UNCHANGED <<games, latest, snapshots, slots, next, sealed>>
    BY DEF manager
  <1>2. TypeInv'
    BY <1>1 DEF Inv, TypeInv, GameStep
  <1>3. \A t \in Sessions : Unborn(t)' <=> Unborn(t)
    BY <1>1 DEF Unborn
  <1>4. UnbornOK'
    <2> SUFFICES ASSUME NEW t \in Sessions, Unborn(t)
                 PROVE  /\ task'[t] = None /\ loop'[t] = "None" /\ ~shut'[t]
                        /\ games' # t /\ t \notin DOMAIN snapshots'
                        /\ sent'[t].events = << >>
                        /\ \A r \in Retirers : retire'[r].session # t
      BY <1>3 DEF UnbornOK
    <2>1. t # s
      OBVIOUS
    <2> QED BY <1>1, <2>1 DEF Inv, UnbornOK, GameStep
  <1>5. RetireOK' /\ HolderOK' /\ ShutdownLeavesNone' /\ SlotsOK'
    BY <1>1 DEF Inv, RetireOK, HolderOK, ShutdownLeavesNone, SlotsOK, Starting, Aborting, Leaving
  <1>6. \A t \in Sessions : EmittedOK(t)'
    BY GameKept DEF Inv
  <1>7. \A t \in Sessions : TaskOK(t)'
    BY TaskStays
  <1>8. \A t \in Sessions : ~Playing(ctl[t]) => ~Playing(ctl'[t]) /\ State(ctl'[t]) = State(ctl[t])
    BY GameKept DEF Inv
  <1>9. \A t \in Sessions : EndsOK(t)'
    BY <1>1, <1>8 DEF Inv, EndsOK, Finished, Leaving
  <1>10. SnapshotIsFinal'
    BY <1>1, <1>8 DEF Inv, TypeInv, SnapshotIsFinal
  <1> QED BY <1>2, <1>4, <1>5, <1>6, <1>7, <1>9, <1>10 DEF Inv

\* make_move, take_back_move and resign_game.
LEMMA CommandStep ==
    ASSUME Inv, NEW s \in Sessions,
           \/ \E m \in Moves, flag \in BOOLEAN : MakeMove(s, m, flag)
           \/ TakeBack(s) \/ Resign(s)
    PROVE  Inv' /\ GameStep(s) /\ games = s
  <1>0. /\ games = s /\ UNCHANGED <<engines, view, manager, holder, retire, task, loop>>
        /\ TypeInv /\ ctl[s] \in Controller /\ SameGame(ctl[s], ctl[s])
    BY DEF MakeMove, TakeBack, Resign, Commanded, Inv, TypeInv, SameGame
  <1>1. ~Unborn(s)
    BY <1>0, LiveIsBorn
  <1>k. ASSUME GameStep(s), shut' \in [Sessions -> BOOLEAN],
               \A t \in Sessions \ {s} : shut'[t] = shut[t],
               shut'[s] => shut[s] \/ ~Playing(ctl'[s])
        PROVE  Inv'
    <2>1. task' \in [Sessions -> Task \cup {None}] /\ loop' \in [Sessions -> LoopPlaces]
      BY <1>0 DEF TypeInv
    <2>2. TaskOK(s)'
      BY <1>0, <1>k, TaskStays
    <2> QED BY <1>0, <1>1, <1>k, <2>1, <2>2, SessionKept
  <1>2. "Flag" \in Statuses \ {"Playing"} /\ "Resigned" \in Statuses \ {"Playing"}
    BY DEF Statuses
  <1>4. ASSUME NEW m \in Moves, NEW flag \in BOOLEAN, MakeMove(s, m, flag)
        PROVE  Inv' /\ GameStep(s)
    <2> DEFINE c == ctl[s]
               moved == Playing(c) /\ ~flag
               d == IF moved THEN ApplyMove(c, m) ELSE EndGame(c, "Flag")
    <2>1. /\ Becomes(s, d, IF moved THEN MoveEvent(d) ELSE << >>)
          /\ shut' = [shut EXCEPT ![s] = shut[s] \/ Claims(d)]
      BY <1>4 DEF MakeMove
    <2>2. GameStep(s) /\ (Claims(d) => ~Playing(ctl'[s]))
      <3>1. CASE moved
        <4>1. Plays(c, d) /\ Becomes(s, d, MoveEvent(d))
          BY <1>0, <2>1, <3>1, ApplyType
        <4> HIDE DEF d
        <4> QED BY <1>0, <4>1, MoveStep DEF Claims
      <3>2. CASE ~moved
        <4>1. Becomes(s, EndGame(c, "Flag"), << >>)
          BY <2>1, <3>2
        <4> QED BY <1>0, <1>2, <4>1, EndsStep
      <3> QED BY <3>1, <3>2
    <2>3. Claims(d) \in BOOLEAN
      BY DEF Claims
    <2> HIDE DEF d
    <2>4. /\ shut' \in [Sessions -> BOOLEAN] /\ \A t \in Sessions \ {s} : shut'[t] = shut[t]
          /\ shut'[s] = (shut[s] \/ Claims(d))
      BY <1>0, <2>1, <2>3 DEF TypeInv
    <2> QED BY <1>k, <2>2, <2>4
  <1>5. ASSUME TakeBack(s) PROVE Inv' /\ GameStep(s)
    <2> DEFINE c == ctl[s]
               two == White # Black /\ ~IsEngineTurn(c)
               count == IF two THEN 2 ELSE 1
               d == TakeBackMoves(c, count)
    <2>1. /\ Playing(c) /\ Becomes(s, d, MoveEvent(d))
          /\ shut' = [shut EXCEPT ![s] = shut[s] \/ Claims(d)]
      BY <1>5 DEF TakeBack
    <2>2. count \in Nat
      OBVIOUS
    <2> HIDE DEF count
    <2>3. Plays(c, d)
      BY <1>0, <2>1, <2>2, TakeBackType
    <2> HIDE DEF d
    <2>4. GameStep(s) /\ (Claims(d) => ~Playing(ctl'[s])) /\ Claims(d) \in BOOLEAN
      BY <1>0, <2>1, <2>3, MoveStep DEF Claims
    <2>5. /\ shut' \in [Sessions -> BOOLEAN] /\ \A t \in Sessions \ {s} : shut'[t] = shut[t]
          /\ shut'[s] = (shut[s] \/ Claims(d))
      BY <1>0, <2>1, <2>4 DEF TypeInv
    <2> QED BY <1>k, <2>4, <2>5
  <1>6. ASSUME Resign(s) PROVE Inv' /\ GameStep(s)
    <2>1. GameStep(s) /\ ~Playing(ctl'[s])
      BY <1>0, <1>2, <1>6, EndsStep DEF Resign
    <2>2. shut' = [shut EXCEPT ![s] = TRUE]
      BY <1>6 DEF Resign
    <2>3. shut' \in [Sessions -> BOOLEAN] /\ \A t \in Sessions \ {s} : shut'[t] = shut[t]
      BY <1>0, <2>2 DEF TypeInv
    <2> QED BY <1>k, <2>1, <2>3
  <1> QED BY <1>0, <1>4, <1>5, <1>6

\* The task goes on, and its session with it.
LEMMA TaskMoves ==
    ASSUME Inv, NEW s \in Sessions, GameStep(s), task[s] # None, NEW x \in TaskPlaces,
           x \in WithMove => task[s].at \in WithMove, TaskGoes(s, x),
           UNCHANGED <<loop, shut, engines, view, manager, holder, retire>>
    PROVE  Inv'
  <1>1. /\ task' \in [Sessions -> Task \cup {None}] /\ TaskOK(s)'
        /\ \A t \in Sessions \ {s} : task'[t] = task[t]
    BY TaskGoesOn
  <1>2. ~Unborn(s)
    BY LiveIsBorn
  <1>3. loop' \in [Sessions -> LoopPlaces] /\ shut' \in [Sessions -> BOOLEAN]
    BY DEF Inv, TypeInv
  <1> QED BY <1>1, <1>2, <1>3, SessionKept

\* request_engine_move, up to the move it would play.
LEMMA TaskStepKept ==
    ASSUME Inv, NEW s \in Sessions, TaskStep(s) \/ TaskPanics(s)
    PROVE  Inv' /\ GameStep(s) /\ \A t \in Sessions : ctl'[t].moves = ctl[t].moves
  <1>0. /\ UNCHANGED <<loop, shut, engines, view, manager, holder, retire>> /\ sent' = sent
        /\ task[s] # None /\ TypeInv /\ ctl[s] \in Controller /\ task[s] \in Task
    BY DEF TaskStep, TaskReads, TaskSearches, TaskRegisters, TaskWaits, TaskPanics, TaskAt,
           Inv, TypeInv
  <1>q. ASSUME ctl' = ctl PROVE GameStep(s)
    BY <1>0, <1>q, NoGame
  <1>p. {"Ok", "Err", "Panic", "Started", "Waiting", "Answered"} \subseteq TaskPlaces
        /\ "Ok" \notin WithMove /\ "Err" \notin WithMove /\ "Panic" \notin WithMove
    BY DEF TaskPlaces, WithMove
  <1>1. ASSUME TaskReads(s) PROVE Inv' /\ ctl' = ctl
    <2> DEFINE c == ctl[s]
               r(at) == [at |-> at, gen |-> task[s].gen, nonce |-> task[s].nonce,
                         asked |-> c.moves]
    <2>1. ctl' = ctl /\ GameStep(s)
      BY <1>1, <1>q DEF TaskReads
    <2>2. CASE TaskGoes(s, "Ok")
      BY <1>0, <1>p, <2>1, <2>2, TaskMoves
    <2>3. ASSUME NEW x \in {"Book", "Prepared", "Err"}, task' = [task EXCEPT ![s] = r(x)]
          PROVE  Inv'
      <3> DEFINE n == r(x)
      <3>1. task[s].gen \in Nat /\ task[s].nonce \in Nat /\ c.moves \in Seq(Moves)
        BY <1>0 DEF Task, AskedTask, Controller
      <3>2. n \in AskedTask /\ n.gen = task[s].gen /\ n.asked = c.moves
        BY <3>1 DEF AskedTask, TaskPlaces
      <3>3. task' = [task EXCEPT ![s] = n]
        BY <2>3
      <3> HIDE DEF n
      <3>4. /\ task' \in [Sessions -> Task \cup {None}] /\ task'[s] = n
            /\ \A t \in Sessions \ {s} : task'[t] = task[t]
        BY <1>0, <3>2, <3>3 DEF TypeInv, Task
      <3>5. TaskOK(s)'
        BY <1>0, <2>1, <3>2, <3>4 DEF Inv, TaskOK
      <3>6. loop' \in [Sessions -> LoopPlaces] /\ shut' \in [Sessions -> BOOLEAN]
        BY <1>0 DEF TypeInv
      <3>7. ~Unborn(s)
        BY <1>0, LiveIsBorn
      <3> QED BY <1>0, <2>1, <3>4, <3>5, <3>6, <3>7, SessionKept
    <2>4. \/ TaskGoes(s, "Ok") \/ \E x \in {"Book", "Prepared", "Err"} : task' = [task EXCEPT ![s] = r(x)]
      <3>1. \/ task' = [task EXCEPT ![s] = r("Book")] \/ TaskGoes(s, "Ok")
            \/ task' = [task EXCEPT ![s] = r("Prepared")] \/ task' = [task EXCEPT ![s] = r("Err")]
        BY <1>1 DEF TaskReads
      <3> HIDE DEF r
      <3> QED BY <3>1
    <2> QED BY <2>1, <2>2, <2>3, <2>4
  <1>2. ASSUME NEW x \in {"Started", "Answered"}, task[s].at \in WithMove, ctl' = ctl,
               Called(s, x) \/ TaskGoes(s, "Ok")
        PROVE  Inv'
    <2>1. PICK y \in {x, "Ok", "Err"} : TaskGoes(s, y)
      BY <1>2 DEF Called
    <2> QED BY <1>0, <1>p, <1>q, <1>2, <2>1, TaskMoves
  <1>3. ASSUME TaskSearches(s) PROVE Inv' /\ ctl' = ctl
    <2>1. task[s].at \in WithMove /\ ctl' = ctl /\ (Called(s, "Started") \/ TaskGoes(s, "Ok"))
      BY <1>3 DEF TaskSearches, TaskAt, WithMove
    <2> QED BY <1>2, <2>1
  <1>4. ASSUME TaskWaits(s) PROVE Inv' /\ ctl' = ctl
    <2>1. task[s].at \in WithMove /\ ctl' = ctl /\ Called(s, "Answered")
      BY <1>4 DEF TaskWaits, TaskAt, WithMove
    <2> QED BY <1>2, <2>1
  <1>5. ASSUME TaskPanics(s) PROVE Inv' /\ ctl' = ctl
    <2>1. TaskGoes(s, "Panic") /\ ctl' = ctl
      BY <1>5 DEF TaskPanics
    <2> QED BY <1>0, <1>p, <1>q, <2>1, TaskMoves
  <1>6. ASSUME TaskRegisters(s)
        PROVE  Inv' /\ GameStep(s) /\ \A t \in Sessions : ctl'[t].moves = ctl[t].moves
    <2> DEFINE c == ctl[s]
               active == /\ c.active # None /\ c.active.gen = task[s].gen
                         /\ c.active.nonce = task[s].nonce /\ ~c.token
               q == [c.active EXCEPT !.registered = TRUE]
               d == [c EXCEPT !.active = q]
    <2>1. /\ task[s].at \in WithMove
          /\ TaskGoes(s, IF active THEN "Waiting" ELSE "Ok")
          /\ ctl' = IF active THEN [ctl EXCEPT ![s].active.registered = TRUE] ELSE ctl
      BY <1>6 DEF TaskRegisters, TaskAt, WithMove
    <2>2. GameStep(s) /\ \A t \in Sessions : ctl'[t].moves = ctl[t].moves
      <3>1. CASE ~active
        BY <1>q, <2>1, <3>1
      <3>2. CASE active
        <4>1. c.active \in Requests
          BY <1>0, <3>2 DEF Controller
        <4>2. q \in Requests
          BY <4>1 DEF Requests
        <4>3. ctl' = [ctl EXCEPT ![s] = d]
          BY <2>1, <3>2
        <4> HIDE DEF q
        <4>4. d \in Controller /\ SameGame(c, d)
          BY <1>0, <4>2 DEF Controller, SameGame
        <4> HIDE DEF d
        <4>5. GameStep(s)
          BY <1>0, <4>3, <4>4, RequestStep
        <4>6. \A t \in Sessions : ctl'[t].moves = ctl[t].moves
          BY <1>0, <4>3, <4>4 DEF TypeInv, SameGame
        <4> QED BY <4>5, <4>6
      <3> QED BY <3>1, <3>2
    <2>3. PICK y \in {"Waiting", "Ok"} : TaskGoes(s, y)
      BY <2>1
    <2> QED BY <1>0, <1>p, <2>1, <2>2, <2>3, TaskMoves
  <1> QED BY <1>1, <1>3, <1>4, <1>5, <1>6, <1>q DEF TaskStep

\* A move of the book or of the engine, applied under the lifecycle lock.
LEMMA TaskApplyKept ==
    ASSUME Inv, NEW s \in Sessions, TaskApply(s)
    PROVE  /\ Inv' /\ GameStep(s)
           /\ ctl'[s].moves # ctl[s].moves => games = s /\ task[s].asked = ctl[s].moves
  <1> DEFINE c == ctl[s]
  <1>1. PICK m \in Moves \cup {None}, flag \in BOOLEAN : TaskApplies(s, m, flag)
    BY DEF TaskApply
  <1>0. /\ UNCHANGED <<loop, shut, engines, view, manager, holder, retire>>
        /\ task[s] # None /\ task[s].at \in WithMove
        /\ TypeInv /\ c \in Controller /\ SameGame(c, c)
    BY <1>1 DEF TaskApplies, TaskAt, WithMove, Inv, TypeInv, SameGame
  <1>p. /\ "Ok" \in TaskPlaces /\ "Err" \in TaskPlaces
        /\ "Flag" \in Statuses \ {"Playing"}
    BY DEF TaskPlaces, Statuses
  <1>2. PICK x \in {"Ok", "Err"} : TaskGoes(s, x)
    BY <1>1 DEF TaskApplies
  <1>3. \/ UNCHANGED <<ctl, sent>>
        \/ /\ games = s /\ AcceptsContext(c, task[s])
           /\ \/ Becomes(s, EndGame(c, "Flag"), << >>)
              \/ m \in Moves /\ Becomes(s, ApplyMove(c, m), MoveEvent(ApplyMove(c, m)))
    <2>1. CASE flag
      BY <1>1, <2>1 DEF TaskApplies, SessionIsCurrent, AcceptsResult
    <2>2. CASE ~flag
      BY <1>1, <2>2 DEF TaskApplies, SessionIsCurrent, AcceptsResult
    <2> QED BY <2>1, <2>2
  <1>4. GameStep(s)
    <2>1. CASE UNCHANGED <<ctl, sent>>
      BY <1>0, <2>1, NoGame
    <2>2. CASE Becomes(s, EndGame(c, "Flag"), << >>)
      BY <1>0, <1>p, <2>2, EndsStep
    <2>3. CASE /\ AcceptsContext(c, task[s]) /\ m \in Moves
               /\ Becomes(s, ApplyMove(c, m), MoveEvent(ApplyMove(c, m)))
      <3> DEFINE d == ApplyMove(c, m)
      <3>1. Plays(c, d) /\ Becomes(s, d, MoveEvent(d))
        BY <1>0, <2>3, ApplyType DEF AcceptsContext
      <3> HIDE DEF d
      <3> QED BY <1>0, <3>1, MoveStep
    <2> QED BY <1>3, <2>1, <2>2, <2>3
  <1>5. Inv'
    BY <1>0, <1>p, <1>2, <1>4, TaskMoves DEF WithMove
  <1>6. ASSUME ctl'[s].moves # c.moves PROVE games = s /\ task[s].asked = c.moves
    <2>1. games = s /\ AcceptsContext(c, task[s])
      BY <1>3, <1>6
    <2> QED BY <1>0, <2>1 DEF AcceptsContext, Inv, TaskOK
  <1> QED BY <1>4, <1>5, <1>6

-----------------------------------------------------------------------------
(* The loop.                                                               *)

\* select, maybe_start_engine, and the loop's own reasons to end a game.
LEMMA LoopKept ==
    ASSUME Inv, NEW s \in Sessions,
           Select(s) \/ StartEngine(s) \/ TaskFailed(s) \/ \E flag \in BOOLEAN : Tick(s, flag)
    PROVE  Inv' /\ GameStep(s) /\ \A t \in Sessions : ctl'[t].moves = ctl[t].moves
  <1> DEFINE c == ctl[s]
  <1>0. /\ UNCHANGED <<shut, engines, view, manager, holder, retire>>
        /\ loop[s] # "None" /\ TypeInv /\ c \in Controller /\ SameGame(c, c)
        /\ shut' \in [Sessions -> BOOLEAN]
    BY DEF Select, StartEngine, TaskFailed, Tick, Inv, TypeInv, SameGame
  <1>1. ~Unborn(s)
    BY <1>0, LiveIsBorn
  <1>2. "Flag" \in Statuses \ {"Playing"} /\ "Interrupted" \in Statuses \ {"Playing"}
    BY DEF Statuses
  <1>k. ASSUME GameStep(s), task' \in [Sessions -> Task \cup {None}], TaskOK(s)',
               \A t \in Sessions \ {s} : task'[t] = task[t],
               NEW x \in LoopPlaces, LoopGoes(s, x),
               \/ x \notin Leaving
               \/ x = "Ended" /\ (shut[s] \/ ~Playing(ctl'[s]))
        PROVE  Inv'
    <2>1. /\ loop' \in [Sessions -> LoopPlaces] /\ loop'[s] = x
          /\ \A t \in Sessions \ {s} : loop'[t] = loop[t]
      BY <1>0, <1>k DEF TypeInv, LoopGoes
    <2> QED BY <1>0, <1>1, <1>k, <2>1, SessionKept
  <1>s. ASSUME GameStep(s), task' = task \/ task' = [task EXCEPT ![s] = None]
        PROVE  /\ task' \in [Sessions -> Task \cup {None}] /\ TaskOK(s)'
               /\ \A t \in Sessions \ {s} : task'[t] = task[t]
    <2>1. /\ task' \in [Sessions -> Task \cup {None}]
          /\ \A t \in Sessions \ {s} : task'[t] = task[t]
          /\ task'[s] = task[s] \/ task'[s] = None
      BY <1>0, <1>s DEF TypeInv
    <2> QED BY <1>s, <2>1, TaskStays
  <1>l. /\ {"Select", "Start", "Tick", "Ended", "Err", "Panic"} \subseteq LoopPlaces
        /\ {"Select", "Start", "Tick", "Err", "Panic"} \cap Leaving = {}
    BY DEF LoopPlaces, Finished, Leaving
  <1>3. ASSUME Select(s) PROVE Inv' /\ GameStep(s) /\ ctl' = ctl
    <2>1. UNCHANGED <<ctl, sent>> /\ (task' = task \/ task' = [task EXCEPT ![s] = None])
      BY <1>3 DEF Select
    <2>2. GameStep(s)
      BY <1>0, <2>1, NoGame
    <2>3. PICK x \in {"Select", "Start", "Tick", "Ended", "Err", "Panic"} :
             LoopGoes(s, x) /\ (x = "Ended" => shut[s])
      BY <1>3 DEF Select, AfterTask, TaskDone
    <2> QED BY <1>k, <1>l, <1>s, <2>1, <2>2, <2>3
  <1>4. ASSUME StartEngine(s)
        PROVE  Inv' /\ GameStep(s) /\ \A t \in Sessions : ctl'[t].moves = ctl[t].moves
    <2>1. LoopGoes(s, "Select") /\ sent' = sent
      BY <1>4 DEF StartEngine
    <2>2. CASE UNCHANGED <<ctl, task>>
      <3>1. GameStep(s)
        BY <1>0, <2>1, <2>2, NoGame
      <3> QED BY <1>k, <1>l, <1>s, <2>1, <2>2, <3>1
    <2>3. CASE ~UNCHANGED <<ctl, task>>
      <3> DEFINE d == BeginRequest(c)
                 n == [at |-> "Begin", gen |-> d.gen, nonce |-> d.nonce]
                 q == [gen |-> c.gen, nonce |-> c.nonce + 1, registered |-> FALSE]
                 nn == c.nonce + 1
      <3>1. ctl' = [ctl EXCEPT ![s] = d] /\ task' = [task EXCEPT ![s] = n]
        BY <1>4, <2>3 DEF StartEngine
      <3>2. q \in Requests /\ nn \in Nat
        BY <1>0 DEF Requests, Controller
      <3>3. d = [c EXCEPT !.nonce = nn, !.thinking = TRUE, !.token = FALSE, !.active = q]
        BY DEF BeginRequest
      <3> HIDE DEF d, q, nn
      <3>4. d \in Controller /\ SameGame(c, d)
        BY <1>0, <3>2, <3>3 DEF Controller, SameGame
      <3>5. GameStep(s)
        BY <1>0, <2>1, <3>1, <3>4, RequestStep
      <3>6. n \in Task /\ n.at \notin WithMove /\ n.gen = d.gen /\ d.gen \in Nat
        BY <3>4 DEF Task, TaskPlaces, WithMove, Controller
      <3> HIDE DEF n
      <3>7. /\ task' \in [Sessions -> Task \cup {None}] /\ task'[s] = n
            /\ \A t \in Sessions \ {s} : task'[t] = task[t]
            /\ ctl'[s] = d /\ \A t \in Sessions : ctl'[t].moves = ctl[t].moves
        BY <1>0, <3>1, <3>4, <3>6 DEF TypeInv, SameGame
      <3>8. TaskOK(s)'
        BY <3>6, <3>7 DEF TaskOK
      <3> QED BY <1>k, <1>l, <2>1, <3>5, <3>7, <3>8
    <2> QED BY <2>2, <2>3
  <1>e. ASSUME NEW b \in Controller, SameGame(c, b), NEW result \in Statuses \ {"Playing"},
               Becomes(s, EndGame(b, result), << >>), LoopGoes(s, "Ended"), task' = task
        PROVE  Inv' /\ GameStep(s) /\ \A t \in Sessions : ctl'[t].moves = ctl[t].moves
    <2>1. GameStep(s) /\ ~Playing(ctl'[s])
      BY <1>0, <1>e, EndsStep
    <2>2. Inv'
      BY <1>k, <1>l, <1>s, <1>e, <2>1
    <2>3. EndGame(b, result).moves = c.moves
      BY <1>e, EndGameType DEF SameGame
    <2> DEFINE d == EndGame(b, result)
    <2>4. ctl' = [ctl EXCEPT ![s] = IF Claims(d) THEN [d EXCEPT !.claimed = TRUE] ELSE d]
      BY <1>e DEF Becomes
    <2>5. d \in Controller
      BY <1>e, EndGameType
    <2> HIDE DEF d
    <2>6. ctl'[s].moves = d.moves
      BY <1>0, <2>4, <2>5 DEF TypeInv, Controller
    <2> QED BY <1>0, <2>1, <2>2, <2>3, <2>6 DEF d, GameStep
  <1>5. ASSUME TaskFailed(s)
        PROVE  Inv' /\ GameStep(s) /\ \A t \in Sessions : ctl'[t].moves = ctl[t].moves
    <2>0. task' = task
      BY <1>5 DEF TaskFailed
    <2>1. CASE c.token
      <3>1. UNCHANGED <<ctl, sent>> /\ (LoopGoes(s, "Start") \/ LoopGoes(s, "Select"))
        BY <1>5, <2>1 DEF TaskFailed
      <3>2. GameStep(s)
        BY <1>0, <3>1, NoGame
      <3> QED BY <1>k, <1>l, <1>s, <2>0, <3>1, <3>2
    <2>2. CASE ~c.token
      <3> DEFINE b == [c EXCEPT !.thinking = FALSE]
      <3>1. Becomes(s, EndGame(b, "Interrupted"), << >>) /\ LoopGoes(s, "Ended")
        BY <1>5, <2>2 DEF TaskFailed
      <3>2. b \in Controller /\ SameGame(c, b)
        BY <1>0 DEF Controller, SameGame
      <3> HIDE DEF b
      <3> QED BY <1>2, <1>e, <2>0, <3>1, <3>2
    <2> QED BY <2>1, <2>2
  <1>6. ASSUME NEW flag \in BOOLEAN, Tick(s, flag)
        PROVE  Inv' /\ GameStep(s) /\ \A t \in Sessions : ctl'[t].moves = ctl[t].moves
    <2>0. task' = task
      BY <1>6 DEF Tick
    <2>1. CASE Playing(c) /\ ~flag
      <3> DEFINE d == [c EXCEPT !.revision = @ + 1]
                 e == [kind |-> "Clock", revision |-> d.revision]
      <3>1. Becomes(s, d, <<e>>) /\ LoopGoes(s, "Select")
        BY <1>6, <2>1 DEF Tick, ClockEvent
      <3>2. /\ d \in Controller /\ d.gen = c.gen /\ d.moves = c.moves /\ Playing(d)
            /\ d.revision = c.revision + 1
        BY <1>0, <2>1 DEF Controller, Playing
      <3> HIDE DEF d
      <3>3. Plays(c, d)
        BY <1>0, <2>1, <3>2 DEF Plays, Controller
      <3>4. e \in Emission /\ ~Over(e) /\ e.revision = MoveRevision(d)
        BY <3>2 DEF Emission, Over, MoveRevision, Controller
      <3> HIDE DEF e
      <3>5. GameStep(s)
        BY <1>0, <3>1, <3>3, <3>4, PlaysStep
      <3>6. ctl' = [ctl EXCEPT ![s] = d]
        BY <3>1, <3>2 DEF Becomes, Claims
      <3>7. \A t \in Sessions : ctl'[t].moves = ctl[t].moves
        BY <1>0, <3>2, <3>6 DEF TypeInv
      <3> QED BY <1>k, <1>l, <1>s, <2>0, <3>1, <3>5, <3>7
    <2>2. CASE Playing(c) /\ flag
      <3>1. Becomes(s, EndGame(c, "Flag"), << >>) /\ LoopGoes(s, "Ended")
        BY <1>6, <2>2 DEF Tick
      <3> QED BY <1>0, <1>2, <1>e, <2>0, <3>1
    <2>3. CASE ~Playing(c)
      <3>1. UNCHANGED <<ctl, sent>> /\ LoopGoes(s, "Ended")
        BY <1>6, <2>3 DEF Tick
      <3>2. GameStep(s)
        BY <1>0, <3>1, NoGame
      <3> QED BY <1>k, <1>l, <1>s, <2>0, <2>3, <3>1, <3>2
    <2> QED BY <2>1, <2>2, <2>3
  <1> QED BY <1>3, <1>4, <1>5, <1>6

-----------------------------------------------------------------------------
(* Steps that change no game.                                              *)

\* What is left to show of a step that neither plays nor emits.
LEMMA QuietKept ==
    ASSUME Inv, UNCHANGED <<ctl, sent>>, TypeInv', UnbornOK', RetireOK', HolderOK',
           \A t \in Sessions : task'[t] = task[t] \/ task'[t] = None,
           \A t \in Sessions : EndsOK(t)',
           SlotsOK', ShutdownLeavesNone', SnapshotIsFinal'
    PROVE  Inv'
  <1>1. ASSUME NEW t \in Sessions PROVE TaskOK(t)' /\ EmittedOK(t)'
    <2>1. GameStep(t)
      BY NoGame DEF Inv
    <2>2. EmittedOK(t)'
      BY <2>1, GameKept DEF Inv
    <2> QED BY <2>1, <2>2, TaskStays
  <1> QED BY <1>1 DEF Inv

\* The session a retirement is about.
LEMMA RetiredSession ==
    ASSUME Inv, NEW r \in Retirers, retire[r].at \in Underway
    PROVE  /\ retire[r].session \in Sessions /\ ~Unborn(retire[r].session)
           /\ games = retire[r].session => sealed
  <1>1. Retirers = Sessions \cup {Shutdown} /\ "None" \notin Underway
    BY DEF Retirers, Underway
  <1>2. CASE r \in Sessions
    BY <1>1, <1>2, LiveIsBorn DEF Inv, RetireOK
  <1>3. CASE r = Shutdown
    BY <1>1, <1>3, LiveIsBorn DEF Inv, RetireOK
  <1> QED BY <1>1, <1>2, <1>3

\* What the holder of the lifecycle lock is.
LEMMA HolderType ==
    ASSUME Inv
    PROVE  /\ holder # None => holder.session \in Sessions /\ holder.session <= next
           /\ \A x \in {"Built", "Publish", "Handoff"} : Starting(x) => holder \in StartHolder
           /\ Starting("Retiring") => /\ holder.old \in Sessions
                                      /\ retire[holder.old].at # "None"
           /\ Aborting => retire[holder.session].at # "None"
  <1>1. holder \in Holder \cup {None}
    BY DEF Inv, TypeInv
  <1>2. holder # None => holder.session \in Sessions
    BY <1>1 DEF Holder, StartHolder, RetiringHolder, AbortHolder
  <1>3. ASSUME NEW x \in {"Built", "Publish", "Handoff"}, Starting(x) PROVE holder \in StartHolder
    BY <1>1, <1>3 DEF Holder, StartHolder, RetiringHolder, AbortHolder, Starting
  <1> QED BY <1>2, <1>3 DEF Inv, HolderOK

\* finish_retired goes on, and nobody else notices.
LEMMA RetireGoes ==
    ASSUME Inv, NEW r \in Retirers, retire[r].at \in Underway, NEW x \in Underway, Goes(r, x),
           UNCHANGED <<games, next, sealed, holder>>,
           \A t \in Sessions : engines'[t] = "Dropped" <=> engines[t] = "Dropped"
    PROVE  /\ retire' \in [Retirers -> Retirement]
           /\ \A q \in Retirers : retire'[q].session = retire[q].session
           /\ RetireOK' /\ HolderOK' /\ ShutdownLeavesNone'
           /\ \A t \in Sessions : Unborn(t)' <=> Unborn(t)
  <1> DEFINE n == [retire[r] EXCEPT !.at = x]
  <1>1. retire \in [Retirers -> Retirement] /\ retire[r] \in Retirement
    BY DEF Inv, TypeInv
  <1>2. n \in Retirement /\ n.at = x /\ n.session = retire[r].session
    BY <1>1 DEF Retirement
  <1>3. retire' = [retire EXCEPT ![r] = n]
    BY DEF Goes
  <1> HIDE DEF n
  <1>4. /\ retire' \in [Retirers -> Retirement] /\ retire'[r] = n
        /\ \A q \in Retirers \ {r} : retire'[q] = retire[q]
    BY <1>1, <1>2, <1>3
  <1>5. \A q \in Retirers : retire'[q].session = retire[q].session
    BY <1>2, <1>4
  <1>6. "None" \notin Underway /\ "Done" \notin Underway /\ Sessions \subseteq Retirers /\ Shutdown \in Retirers
    BY DEF Underway, Retirers
  <1>7. RetireOK'
    BY <1>2, <1>4, <1>5, <1>6 DEF Inv, RetireOK
  <1>8. HolderOK'
    <2>1. \A t \in Sessions : retire[t].at # "None" => retire'[t].at # "None"
      BY <1>2, <1>4, <1>6
    <2>2. holder # None => holder.session \in Sessions
      BY HolderType
    <2> QED BY <2>1, <2>2 DEF Inv, HolderOK, Starting, Aborting
  <1>9. ShutdownLeavesNone'
    BY <1>2, <1>4, <1>6 DEF Inv, ShutdownLeavesNone
  <1>10. \A t \in Sessions : Unborn(t)' <=> Unborn(t)
    BY DEF Unborn
  <1> QED BY <1>4, <1>5, <1>7, <1>8, <1>9, <1>10

\* shutdown_and_join and terminate_registered_engines.
LEMMA RetireKept ==
    ASSUME Inv, NEW r \in Retirers, RetireStep(r) \/ JoinTimeout(r)
    PROVE  Inv' /\ (UNCHANGED <<ctl, sent>> \/ \E s \in Sessions : GameStep(s) /\ Stays(s))
  <1> DEFINE s == retire[r].session
  <1>0. PICK x \in Underway : /\ Goes(r, x) /\ retire[r].at \in Underway
                              /\ UNCHANGED <<games, snapshots, next, sealed, holder, task, view>>
    BY DEF RetireStep, RetireCancel, RetireSignal, RetireJoin, RetireTerminate, JoinTimeout,
           Underway, Retiring, session, manager
  <1>1. s \in Sessions /\ ~Unborn(s) /\ (games = s => sealed) /\ TypeInv
    BY <1>0, RetiredSession DEF Inv
  <1>d. \A t \in Sessions : engines'[t] = "Dropped" <=> engines[t] = "Dropped"
    <2>1. CASE UNCHANGED engines
      BY <2>1
    <2>2. CASE ~UNCHANGED engines
      <3>1. PICK ok \in Terminations :
               engines' = [engines EXCEPT ![s] = IF ok THEN "Terminated" ELSE "Failed"]
        BY <2>2 DEF RetireStep, RetireCancel, RetireSignal, RetireJoin, RetireTerminate,
                    JoinTimeout, session
      <3>2. engines[s] # "Dropped"
        BY <1>1 DEF Unborn
      <3> QED BY <1>1, <3>1, <3>2 DEF TypeInv
    <2> QED BY <2>1, <2>2
  <1>2. /\ retire' \in [Retirers -> Retirement]
        /\ \A q \in Retirers : retire'[q].session = retire[q].session
        /\ RetireOK' /\ HolderOK' /\ ShutdownLeavesNone'
        /\ \A t \in Sessions : Unborn(t)' <=> Unborn(t)
    BY <1>0, <1>d, RetireGoes
  <1> HIDE DEF s
  <1>3. ASSUME UNCHANGED <<ctl, sent>>,
               loop' \in [Sessions -> LoopPlaces], shut' \in [Sessions -> BOOLEAN],
               engines' \in [Sessions -> EngineStates],
               \A t \in Sessions \ {s} : loop'[t] = loop[t] /\ shut'[t] = shut[t]
                                         /\ engines'[t] = engines[t],
               engines'[s] = engines[s] \/ engines'[s] # "Alive",
               loop'[s] = loop[s] \/ loop'[s] = "Aborted",
               slots' = slots \/ (slots' = slots \ {s} /\ engines'[s] # "Alive")
        PROVE  Inv'
    <2>1. TypeInv'
      BY <1>0, <1>1, <1>2, <1>3 DEF TypeInv
    <2>2. UnbornOK'
      BY <1>0, <1>1, <1>2, <1>3 DEF Inv, UnbornOK
    <2>3. \A t \in Sessions : EndsOK(t)'
      BY <1>0, <1>1, <1>3 DEF Inv, EndsOK
    <2>4. SlotsOK'
      BY <1>1, <1>3 DEF Inv, SlotsOK
    <2>5. SnapshotIsFinal'
      BY <1>0, <1>3 DEF Inv, SnapshotIsFinal
    <2> QED BY <1>0, <1>2, <1>3, <2>1, <2>2, <2>3, <2>4, <2>5, QuietKept
  <1>4. ASSUME RetireCancel(r) PROVE Inv' /\ GameStep(s) /\ Stays(s)
    <2> DEFINE d == CancelRequest(ctl[s])
    <2>1. /\ ctl' = [ctl EXCEPT ![s] = d] /\ sent' = sent
          /\ UNCHANGED <<task, loop, shut, engines, view, games, snapshots, slots, next, sealed, holder>>
      BY <1>4 DEF RetireCancel, manager, s
    <2>2. d \in Controller /\ SameGame(ctl[s], d)
      BY <1>1, CancelType DEF TypeInv
    <2> HIDE DEF d
    <2>3. GameStep(s)
      BY <1>1, <2>1, <2>2, RequestStep
    <2>4. ctl' \in [Sessions -> Controller] /\ Stays(s)
      BY <1>1, <2>1, <2>2 DEF TypeInv, Stays
    <2>5. TypeInv'
      BY <1>1, <1>2, <2>1, <2>4 DEF TypeInv
    <2>6. UnbornOK'
      BY <1>0, <1>1, <1>2, <2>1 DEF Inv, UnbornOK
    <2>7. \A t \in Sessions : TaskOK(t)' /\ EmittedOK(t)'
      BY <1>1, <2>1, <2>3, TaskStays, GameKept DEF Inv
    <2>8. \A t \in Sessions : ~Playing(ctl[t]) => ~Playing(ctl'[t]) /\ State(ctl'[t]) = State(ctl[t])
      BY <1>1, <2>3, GameKept DEF Inv
    <2>9. (\A t \in Sessions : EndsOK(t)') /\ SnapshotIsFinal' /\ SlotsOK'
      BY <1>1, <2>1, <2>8 DEF Inv, TypeInv, EndsOK, SnapshotIsFinal, SlotsOK
    <2> QED BY <1>2, <2>3, <2>4, <2>5, <2>6, <2>7, <2>9 DEF Inv
  <1>5. ASSUME RetireSignal(r) PROVE Inv' /\ UNCHANGED <<ctl, sent>>
    <2>1. shut' = [shut EXCEPT ![s] = TRUE] /\ UNCHANGED <<ctl, sent, loop, engines, slots>>
      BY <1>5 DEF RetireSignal, manager, s
    <2>2. shut' \in [Sessions -> BOOLEAN] /\ \A t \in Sessions \ {s} : shut'[t] = shut[t]
      BY <1>1, <2>1 DEF TypeInv
    <2> QED BY <1>1, <1>3, <2>1, <2>2 DEF TypeInv
  <1>6. ASSUME RetireJoin(r) PROVE Inv' /\ UNCHANGED <<ctl, sent>>
    <2>1. UNCHANGED <<ctl, sent, loop, shut, engines, slots>>
      BY <1>6 DEF RetireJoin, session, manager
    <2> QED BY <1>1, <1>3, <2>1 DEF TypeInv
  <1>7. ASSUME JoinTimeout(r) PROVE Inv' /\ UNCHANGED <<ctl, sent>>
    <2>1. loop' = [loop EXCEPT ![s] = "Aborted"] /\ UNCHANGED <<ctl, sent, shut, engines, slots>>
      BY <1>7 DEF JoinTimeout, s
    <2>2. /\ loop' \in [Sessions -> LoopPlaces] /\ loop'[s] = "Aborted"
          /\ \A t \in Sessions \ {s} : loop'[t] = loop[t]
      BY <1>1, <2>1 DEF TypeInv, LoopPlaces
    <2> QED BY <1>1, <1>3, <2>1, <2>2 DEF TypeInv
  <1>8. ASSUME NEW ok, RetireTerminate(r, ok) PROVE Inv' /\ UNCHANGED <<ctl, sent>>
    <2>1. /\ engines' = [engines EXCEPT ![s] = IF ok THEN "Terminated" ELSE "Failed"]
          /\ slots' = slots \ {s} /\ UNCHANGED <<ctl, sent, shut, loop>>
      BY <1>8 DEF RetireTerminate, s
    <2>2. /\ engines' \in [Sessions -> EngineStates]
          /\ engines'[s] # "Alive" /\ \A t \in Sessions \ {s} : engines'[t] = engines[t]
      BY <1>1, <2>1 DEF TypeInv, EngineStates
    <2> QED BY <1>1, <1>3, <2>1, <2>2 DEF TypeInv
  <1> QED BY <1>1, <1>4, <1>5, <1>6, <1>7, <1>8 DEF RetireStep

\* The loop's cleanup, and complete_exact.
LEMMA LoopEndKept ==
    ASSUME Inv, NEW s \in Sessions,
           \/ \E ok \in Terminations : CleanUp(s, ok)
           \/ Unpublish(s) \/ ReadState(s) \/ CompleteExact(s)
    PROVE  Inv' /\ UNCHANGED <<ctl, sent>>
  <1>0. /\ UNCHANGED <<ctl, sent, shut, next, sealed, holder, retire>> /\ loop[s] # "None" /\ TypeInv
    BY DEF CleanUp, Unpublish, ReadState, CompleteExact, manager, Inv
  <1>d. ~Unborn(s) /\ \A t \in Sessions : engines'[t] = "Dropped" <=> engines[t] = "Dropped"
    <2>1. ~Unborn(s) /\ engines[s] # "Dropped"
      BY <1>0, LiveIsBorn DEF Unborn
    <2>2. CASE UNCHANGED engines
      BY <2>1, <2>2
    <2>3. CASE ~UNCHANGED engines
      <3>1. PICK ok \in Terminations :
               engines' = [engines EXCEPT ![s] = IF ok THEN "Terminated" ELSE "Failed"]
        BY <2>3 DEF CleanUp, Unpublish, ReadState, CompleteExact
      <3> QED BY <1>0, <2>1, <3>1 DEF TypeInv
    <2> QED BY <2>2, <2>3
  <1>1. ~Unborn(s) /\ \A t \in Sessions : Unborn(t)' <=> Unborn(t)
    BY <1>0, <1>d DEF Unborn
  <1>2. None \notin Sessions
    BY GameAssumption DEF Sessions
  <1>3. ASSUME NEW x \in LoopPlaces, LoopGoes(s, x),
               task' = task \/ task' = [task EXCEPT ![s] = None],
               games' = games \/ games' = None,
               engines' \in [Sessions -> EngineStates],
               SlotsOK', DOMAIN view' = Sessions,
               \A t \in Sessions \ {s} : view'[t] = view[t],
               DOMAIN snapshots' \subseteq DOMAIN snapshots \cup {s},
               x \in Finished => loop[s] \in Finished,
               x = "Complete" => view'[s] = State(ctl[s]), SnapshotIsFinal'
        PROVE  Inv'
    <2>1. /\ loop' \in [Sessions -> LoopPlaces] /\ loop'[s] = x
          /\ \A t \in Sessions \ {s} : loop'[t] = loop[t]
      BY <1>0, <1>3 DEF TypeInv, LoopGoes
    <2>2. /\ task' \in [Sessions -> Task \cup {None}]
          /\ \A t \in Sessions : task'[t] = task[t] \/ task'[t] = None
          /\ \A t \in Sessions \ {s} : task'[t] = task[t]
      BY <1>0, <1>3 DEF TypeInv
    <2>3. TypeInv'
      BY <1>0, <1>3, <2>1, <2>2 DEF TypeInv
    <2>4. UnbornOK'
      BY <1>0, <1>1, <1>2, <1>3, <2>1, <2>2 DEF Inv, UnbornOK
    <2>5. RetireOK' /\ HolderOK' /\ ShutdownLeavesNone'
      BY <1>0, <1>2, <1>3, <1>d, HolderType
         DEF Inv, RetireOK, HolderOK, ShutdownLeavesNone, Starting, Aborting
    <2>6. \A t \in Sessions : EndsOK(t)'
      <3> SUFFICES ASSUME NEW t \in Sessions PROVE EndsOK(t)'
        OBVIOUS
      <3>1. CASE t # s
        BY <1>0, <1>2, <1>3, <2>1, <3>1 DEF Inv, EndsOK
      <3>2. CASE t = s
        BY <1>0, <1>2, <1>3, <2>1, <3>2 DEF Inv, EndsOK, Finished
      <3> QED BY <3>1, <3>2
    <2> QED BY <1>0, <1>3, <2>2, <2>3, <2>4, <2>5, <2>6, QuietKept
  <1>4. {"Read", "Unpublish", "Done", "Complete"} \subseteq LoopPlaces
    BY DEF LoopPlaces
  <1>5. ASSUME UNCHANGED engines, LoopGoes(s, "Done") \/ LoopGoes(s, "Complete"),
               slots' = slots \/ (loop[s] = "Unpublish" /\ slots' = slots \ {s})
        PROVE  SlotsOK' /\ engines' \in [Sessions -> EngineStates]
    <2>1. \A t \in Sessions : loop'[t] = loop[t] \/ loop'[t] # "Unpublish"
      BY <1>0, <1>5 DEF TypeInv, LoopGoes
    <2> QED BY <1>0, <1>5, <2>1 DEF Inv, TypeInv, SlotsOK
  <1>6. ASSUME UNCHANGED snapshots
        PROVE  SnapshotIsFinal' /\ DOMAIN snapshots' \subseteq DOMAIN snapshots \cup {s}
    BY <1>0, <1>6 DEF Inv, SnapshotIsFinal
  <1>7. ASSUME NEW ok, CleanUp(s, ok) PROVE Inv'
    <2> DEFINE x == IF loop[s] = "Ended" THEN "Read" ELSE "Unpublish"
    <2>1. /\ task' = [task EXCEPT ![s] = None]
          /\ engines' = [engines EXCEPT ![s] = IF ok THEN "Terminated" ELSE "Failed"]
          /\ slots \ {s} \subseteq slots' /\ LoopGoes(s, x) /\ UNCHANGED <<view, games, snapshots>>
      BY <1>7 DEF CleanUp, StopTask
    <2>2. /\ engines' \in [Sessions -> EngineStates]
          /\ SlotsOK'
      <3>1. /\ engines' \in [Sessions -> EngineStates] /\ engines'[s] # "Alive"
            /\ \A t \in Sessions \ {s} : engines'[t] = engines[t] /\ loop'[t] = loop[t]
        BY <1>0, <2>1 DEF TypeInv, EngineStates, LoopGoes
      <3> QED BY <2>1, <3>1 DEF Inv, SlotsOK
    <2>3. x \in LoopPlaces /\ x # "Complete" /\ (x \in Finished => loop[s] \in Finished)
      BY DEF LoopPlaces, Finished
    <2> HIDE DEF x
    <2> QED BY <1>0, <1>3, <1>6, <2>1, <2>2, <2>3 DEF TypeInv
  <1>8. ASSUME Unpublish(s) PROVE Inv'
    <2>1. /\ LoopGoes(s, "Done") /\ UNCHANGED <<task, engines, view, snapshots>>
          /\ games' = games \/ games' = None
          /\ loop[s] = "Unpublish" /\ (slots' = slots \/ slots' = slots \ {s})
      BY <1>8 DEF Unpublish, RetireLive
    <2> QED BY <1>0, <1>3, <1>4, <1>5, <1>6, <2>1 DEF TypeInv, Finished
  <1>9. ASSUME ReadState(s) PROVE Inv'
    <2>1. /\ LoopGoes(s, "Complete") /\ UNCHANGED <<task, engines, slots, snapshots, games>>
          /\ view' = [view EXCEPT ![s] = State(ctl[s])] /\ loop[s] \in Finished
      BY <1>9 DEF ReadState, manager, Finished
    <2>2. /\ DOMAIN view' = Sessions /\ view'[s] = State(ctl[s])
          /\ \A t \in Sessions \ {s} : view'[t] = view[t]
      BY <1>0, <2>1 DEF TypeInv
    <2> QED BY <1>3, <1>4, <1>5, <1>6, <2>1, <2>2
  <1>10. ASSUME CompleteExact(s) PROVE Inv'
    <2>1. /\ LoopGoes(s, "Done") /\ UNCHANGED <<task, engines, slots, view>>
          /\ loop[s] = "Complete" /\ (games' = games \/ games' = None)
      BY <1>10 DEF CompleteExact
    <2>2. CASE UNCHANGED snapshots
      BY <1>0, <1>3, <1>4, <1>5, <1>6, <2>1, <2>2 DEF TypeInv, Finished
    <2>3. CASE ~UNCHANGED snapshots
      <3>1. /\ games = s
            /\ snapshots' = [t \in DOMAIN snapshots \cup {s} |->
                                IF t = s THEN view[s] ELSE snapshots[t]]
        BY <1>10, <2>3 DEF CompleteExact, IsExact
      <3>2. ~sealed => ~Playing(ctl[s]) /\ view[s] = State(ctl[s])
        BY <2>1, <3>1 DEF Inv, EndsOK
      <3>3. SnapshotIsFinal'
        BY <1>0, <3>1, <3>2 DEF Inv, SnapshotIsFinal
      <3>4. DOMAIN snapshots' \subseteq DOMAIN snapshots \cup {s}
        BY <3>1
      <3> QED BY <1>0, <1>3, <1>4, <1>5, <2>1, <3>3, <3>4 DEF TypeInv, Finished
    <2> QED BY <2>2, <2>3
  <1> QED BY <1>0, <1>7, <1>8, <1>9, <1>10

\* shutdown_all, and the snapshots of other games.
LEMMA ShutdownKept ==
    ASSUME Inv, ShutdownAll \/ Collect \/ ShutdownRetire \/ EvictSnapshot \/ UNCHANGED vars
    PROVE  Inv' /\ UNCHANGED <<ctl, sent>>
  <1>0. /\ UNCHANGED <<ctl, sent, task, loop, shut, engines, view, slots, next, holder>> /\ TypeInv
    BY DEF ShutdownAll, Collect, ShutdownRetire, EvictSnapshot, vars, session, manager, Inv
  <1>1. \A t \in Sessions : Unborn(t)' <=> Unborn(t)
    BY <1>0 DEF Unborn
  <1>2. None \notin Sessions /\ Shutdown \notin Sessions /\ Retirers = Sessions \cup {Shutdown}
    BY GameAssumption DEF Sessions, Shutdown, Retirers
  <1>3. ASSUME NEW n \in Retirement,
               retire' = [retire EXCEPT ![Shutdown] = n],
               n.session = retire[Shutdown].session \/ n.session = games \/ n.session = None,
               n.at # "None" => sealed', n.at \in Underway => n.session \in Sessions,
               n.at = "Done" => games' = None,
               games' = games \/ games' = None, sealed' \in BOOLEAN, sealed => sealed',
               \/ snapshots' = snapshots
               \/ \E v \in DOMAIN snapshots :
                     snapshots' = [t \in DOMAIN snapshots \ {v} |-> snapshots[t]]
        PROVE  Inv'
    <2>1. /\ retire' \in [Retirers -> Retirement] /\ retire'[Shutdown] = n
          /\ \A t \in Sessions : retire'[t] = retire[t]
      BY <1>0, <1>2, <1>3 DEF TypeInv
    <2>2. DOMAIN snapshots' \subseteq DOMAIN snapshots
          /\ \A t \in DOMAIN snapshots' : snapshots'[t] = snapshots[t]
      BY <1>3
    <2>3. TypeInv'
      BY <1>0, <1>2, <1>3, <2>1, <2>2 DEF TypeInv
    <2>4. UnbornOK'
      BY <1>0, <1>1, <1>2, <1>3, <2>1, <2>2 DEF Inv, UnbornOK
    <2>5. RetireOK' /\ ShutdownLeavesNone'
      BY <1>2, <1>3, <2>1 DEF Inv, RetireOK, ShutdownLeavesNone
    <2>6. HolderOK'
      <3>1. Aborting => holder.session \in Sessions
        BY DEF Inv, TypeInv, Holder, StartHolder, RetiringHolder, AbortHolder, Aborting
      <3> QED BY <1>0, <2>1, <3>1 DEF Inv, HolderOK, Starting, Aborting
    <2>7. \A t \in Sessions : EndsOK(t)'
      BY <1>0, <1>2, <1>3 DEF Inv, EndsOK
    <2>8. SlotsOK' /\ SnapshotIsFinal'
      BY <1>0, <1>3, <2>2 DEF Inv, SlotsOK, SnapshotIsFinal
    <2> QED BY <1>0, <2>3, <2>4, <2>5, <2>6, <2>7, <2>8, QuietKept
  <1> DEFINE k == retire[Shutdown]
  <1>4. k \in Retirement /\ k.session \in Sessions \cup {None} /\ sealed \in BOOLEAN
    BY <1>0, <1>2 DEF TypeInv, Retirement
  <1>5. ASSUME Goes(Shutdown, "Collect")
        PROVE  \E n \in Retirement : /\ n.at = "Collect" /\ n.session = k.session
                                     /\ retire' = [retire EXCEPT ![Shutdown] = n]
    <2> DEFINE n == [k EXCEPT !.at = "Collect"]
    <2>1. n \in Retirement /\ n.at = "Collect" /\ n.session = k.session
      BY <1>4 DEF Retirement
    <2>2. retire' = [retire EXCEPT ![Shutdown] = n]
      BY <1>5 DEF Goes
    <2> HIDE DEF n
    <2> QED BY <2>1, <2>2
  <1>6. ASSUME ShutdownAll PROVE Inv'
    <2>1. Goes(Shutdown, "Collect") /\ sealed' = TRUE /\ UNCHANGED <<games, snapshots>>
      BY <1>6 DEF ShutdownAll
    <2> QED BY <1>3, <1>4, <1>5, <2>1 DEF Underway
  <1>7. ASSUME ShutdownRetire PROVE Inv'
    <2>1. /\ Goes(Shutdown, "Collect") /\ k.at # "None" /\ UNCHANGED <<sealed, snapshots>>
          /\ games' = games \/ games' = None
      BY <1>7 DEF ShutdownRetire, RetireLive
    <2>2. sealed
      BY <2>1 DEF Inv, RetireOK
    <2> QED BY <1>3, <1>4, <1>5, <2>1, <2>2 DEF Underway
  <1>8. ASSUME Collect PROVE Inv'
    <2> DEFINE n == IF games = None THEN [at |-> "Done", session |-> None]
                    ELSE [at |-> "Cancel", session |-> games]
    <2>1. /\ retire' = [retire EXCEPT ![Shutdown] = n] /\ UNCHANGED <<sealed, snapshots, games>>
          /\ k.at = "Collect"
      BY <1>8 DEF Collect, Retiring, manager
    <2>2. sealed
      BY <2>1 DEF Inv, RetireOK
    <2>3. /\ n \in Retirement /\ n.session = games /\ (n.at = "Done" => games = None)
          /\ n.at \in Underway => n.session \in Sessions
      BY <1>0, <1>2 DEF TypeInv, Retirement, Underway
    <2> HIDE DEF n
    <2> QED BY <1>3, <1>4, <2>1, <2>2, <2>3
  <1>9. ASSUME EvictSnapshot \/ UNCHANGED vars PROVE Inv'
    <2>1. /\ UNCHANGED <<games, sealed, retire>>
          /\ \/ snapshots' = snapshots
             \/ \E v \in DOMAIN snapshots :
                   snapshots' = [t \in DOMAIN snapshots \ {v} |-> snapshots[t]]
      BY <1>9 DEF EvictSnapshot, vars, manager
    <2>2. retire' = [retire EXCEPT ![Shutdown] = k]
      BY <1>0, <1>2, <2>1 DEF TypeInv
    <2> QED BY <1>3, <1>4, <2>1, <2>2 DEF Inv, RetireOK, ShutdownLeavesNone
  <1> QED BY <1>0, <1>6, <1>7, <1>8, <1>9

-----------------------------------------------------------------------------
(* Commands that start and retire games.                                   *)

\* A command returns, fails or is dropped, and the retirement it armed starts
\* over.
LEMMA ReleaseKept ==
    ASSUME Inv, holder' = None, UNCHANGED <<ctl, sent, task, shut, view, games, snapshots, next, sealed>>,
           engines' \in [Sessions -> EngineStates], SlotsOK',
           \A t \in Sessions : engines'[t] = "Dropped" => Unborn(t),
           loop' \in [Sessions -> LoopPlaces],
           \A t \in Sessions : \/ loop'[t] = loop[t]
                               \/ loop[t] # "None" /\ loop'[t] \notin Leaving,
           \/ retire' = retire
           \/ \E q \in Sessions : /\ retire[q].at # "None"
                                  /\ retire' = [retire EXCEPT ![q].at = "Cancel"]
    PROVE  Inv'
  <1>0. TypeInv /\ Retirers = Sessions \cup {Shutdown} /\ Shutdown \notin Sessions
    BY DEF Inv, Retirers, Shutdown, Sessions
  <1>1. /\ retire' \in [Retirers -> Retirement] /\ retire'[Shutdown] = retire[Shutdown]
        /\ \A r \in Retirers : retire'[r].session = retire[r].session
        /\ \A t \in Sessions : \/ retire'[t].at = retire[t].at
                               \/ retire[t].at # "None" /\ retire'[t].at = "Cancel"
    <2>1. CASE retire' = retire
      BY <1>0, <2>1 DEF TypeInv
    <2>2. ASSUME NEW q \in Sessions, retire[q].at # "None",
                 retire' = [retire EXCEPT ![q].at = "Cancel"]
          PROVE  /\ retire' \in [Retirers -> Retirement] /\ retire'[Shutdown] = retire[Shutdown]
                 /\ \A r \in Retirers : retire'[r].session = retire[r].session
                 /\ \A t \in Sessions : \/ retire'[t].at = retire[t].at
                                        \/ retire[t].at # "None" /\ retire'[t].at = "Cancel"
      <3> DEFINE n == [retire[q] EXCEPT !.at = "Cancel"]
      <3>1. n \in Retirement /\ n.at = "Cancel" /\ n.session = retire[q].session
        BY <1>0 DEF TypeInv, Retirement, Underway
      <3>2. retire' = [retire EXCEPT ![q] = n]
        BY <2>2
      <3> HIDE DEF n
      <3>3. /\ retire' \in [Retirers -> Retirement] /\ retire'[q] = n
            /\ \A r \in Retirers \ {q} : retire'[r] = retire[r]
        BY <1>0, <3>1, <3>2 DEF TypeInv
      <3>4. retire'[Shutdown] = retire[Shutdown]
        BY <1>0, <3>3
      <3>5. \A r \in Retirers : retire'[r].session = retire[r].session
        BY <3>1, <3>3
      <3>6. \A t \in Sessions : \/ retire'[t].at = retire[t].at
                                \/ retire[t].at # "None" /\ retire'[t].at = "Cancel"
        BY <1>0, <2>2, <3>1, <3>3
      <3> QED BY <3>3, <3>4, <3>5, <3>6
    <2> QED BY <2>1, <2>2
  <1>2. \A t \in Sessions : Unborn(t)' => Unborn(t)
    BY DEF Unborn
  <1>3. TypeInv'
    BY <1>0, <1>1 DEF TypeInv
  <1>4. UnbornOK'
    BY <1>0, <1>1, <1>2 DEF Inv, UnbornOK
  <1>5. RetireOK'
    BY <1>0, <1>1 DEF Inv, RetireOK, Underway
  <1>6. HolderOK' /\ ShutdownLeavesNone' /\ SnapshotIsFinal'
    BY <1>0, <1>1 DEF Inv, HolderOK, Starting, Aborting, ShutdownLeavesNone, SnapshotIsFinal
  <1>7. \A t \in Sessions : EndsOK(t)'
    BY DEF Inv, EndsOK, Finished, Leaving
  <1> QED BY <1>3, <1>4, <1>5, <1>6, <1>7, QuietKept

\* A command goes on, or returns.
LEMMA HolderMoves ==
    ASSUME Inv, UNCHANGED <<session, games, snapshots, slots, next, sealed, retire, sent>>,
           holder' \in Holder \cup {None}, HolderOK', \A t \in Sessions : Unborn(t)' => Unborn(t)
    PROVE  Inv'
  <1>0. UNCHANGED <<ctl, task, loop, shut, engines, view>> /\ TypeInv
    BY DEF session, Inv
  <1>1. TypeInv'
    BY <1>0 DEF TypeInv
  <1>2. UnbornOK' /\ RetireOK'
    BY <1>0 DEF Inv, UnbornOK, RetireOK
  <1>3. ShutdownLeavesNone' /\ SlotsOK' /\ SnapshotIsFinal' /\ \A t \in Sessions : EndsOK(t)'
    BY <1>0 DEF Inv, ShutdownLeavesNone, SlotsOK, SnapshotIsFinal, EndsOK
  <1> QED BY <1>0, <1>1, <1>2, <1>3, QuietKept

\* A start_game that gives up waits for the end of its engines.
LEMMA AbandonKept ==
    ASSUME Inv, Abandon, retire' = retire, holder # None, holder.op = "Start",
           holder.at # "Handoff"
    PROVE  Inv' /\ UNCHANGED <<ctl, sent>>
  <1> DEFINE s == holder.session
             h == [op |-> "Start", session |-> s, at |-> "Abandoning"]
  <1>1. /\ holder' = h /\ UNCHANGED <<session, games, snapshots, slots, next, sealed, sent>>
        /\ UNCHANGED <<ctl, engines>>
    BY DEF Abandon, session, manager
  <1>2. s \in Sessions /\ s <= next /\ engines[s] # "Dropped"
    BY HolderType DEF Inv, HolderOK
  <1>3. h \in Holder /\ h.op = "Start" /\ h.session = s /\ h.at = "Abandoning"
    BY <1>2 DEF Holder, StartHolder
  <1> HIDE DEF h
  <1>4. HolderOK' /\ \A t \in Sessions : Unborn(t)' => Unborn(t)
    BY <1>1, <1>2, <1>3 DEF HolderOK, Starting, Aborting, Unborn
  <1> QED BY <1>1, <1>3, <1>4, HolderMoves

\* Its engines have ended, or its future is dropped before it has published
\* and the engines are left to their guards.
LEMMA GivesUpKept ==
    ASSUME Inv, StartDropped \/ \E ok \in Terminations : Abandoned(ok)
    PROVE  Inv' /\ UNCHANGED <<ctl, sent>>
  <1> DEFINE s == holder.session
  <1>1. /\ holder # None /\ holder.op = "Start" /\ holder.at # "Handoff"
        /\ slots' = slots \ {s} /\ holder' = None
        /\ UNCHANGED <<ctl, sent, task, loop, shut, view, games, snapshots, next, sealed>>
    BY DEF StartDropped, Abandoned, Starting
  <1>2. PICK x \in {"Dropped", "Terminated", "Failed"} : engines' = [engines EXCEPT ![s] = x]
    BY DEF StartDropped, Abandoned
  <1>3. \/ retire' = retire
        \/ \E q \in Sessions : /\ retire[q].at # "None"
                               /\ retire' = [retire EXCEPT ![q].at = "Cancel"]
    <2>1. Starting("Retiring") => holder.old \in Sessions /\ retire[holder.old].at # "None"
      BY HolderType
    <2> QED BY <2>1 DEF StartDropped, Abandoned
  <1>4. s \in Sessions /\ Unborn(s)
    BY <1>1, HolderType DEF Unborn
  <1>5. /\ engines' \in [Sessions -> EngineStates] /\ engines'[s] # "Alive"
        /\ \A t \in Sessions \ {s} : engines'[t] = engines[t]
    BY <1>2, <1>4 DEF Inv, TypeInv, EngineStates
  <1>6. SlotsOK' /\ loop' \in [Sessions -> LoopPlaces]
    BY <1>1, <1>5 DEF Inv, TypeInv, SlotsOK
  <1>7. \A t \in Sessions : engines'[t] = "Dropped" => Unborn(t)
    BY <1>4, <1>5 DEF Unborn
  <1> QED BY <1>1, <1>3, <1>5, <1>6, <1>7, ReleaseKept

\* The termination that a dropped guard has spawned.
LEMMA GuardKept ==
    ASSUME Inv, NEW s \in Sessions, Guard(s)
    PROVE  Inv' /\ UNCHANGED <<ctl, sent>>
  <1>1. PICK ok \in Terminations : GuardTerminates(s, ok)
    BY DEF Guard
  <1>2. /\ engines[s] = "Dropped"
        /\ engines' = [engines EXCEPT ![s] = IF ok THEN "Terminated" ELSE "Failed"]
        /\ UNCHANGED <<ctl, sent, task, loop, shut, view, games, snapshots, slots, next, sealed,
                       holder, retire>>
    BY <1>1 DEF GuardTerminates, manager
  <1>3. /\ engines' \in [Sessions -> EngineStates] /\ engines'[s] \in {"Terminated", "Failed"}
        /\ \A t \in Sessions \ {s} : engines'[t] = engines[t]
    BY <1>2 DEF Inv, TypeInv, EngineStates
  <1>4. \A t \in Sessions : Unborn(t)' => Unborn(t)
    BY <1>2, <1>3 DEF Unborn
  <1>5. TypeInv'
    BY <1>2, <1>3 DEF Inv, TypeInv
  <1>6. UnbornOK' /\ RetireOK'
    BY <1>2, <1>4 DEF Inv, UnbornOK, RetireOK
  <1>7. HolderOK'
    BY <1>2, <1>3, HolderType DEF Inv, HolderOK, Starting, Aborting
  <1>8. SlotsOK' /\ ShutdownLeavesNone' /\ SnapshotIsFinal' /\ \A t \in Sessions : EndsOK(t)'
    BY <1>2, <1>3 DEF Inv, SlotsOK, ShutdownLeavesNone, SnapshotIsFinal, EndsOK
  <1> QED BY <1>2, <1>5, <1>6, <1>7, <1>8, QuietKept

\* start_game calls that wait for the lock hold nothing.
LEMMA QueueKept ==
    ASSUME Inv, CallStart \/ StartRefused
    PROVE  Inv' /\ UNCHANGED <<ctl, sent>>
  <1>1. /\ UNCHANGED <<session, games, snapshots, slots, next, sealed, retire, sent, holder>>
        /\ UNCHANGED <<ctl, engines>>
    BY DEF CallStart, StartRefused, session
  <1>2. HolderOK' /\ holder' \in Holder \cup {None} /\ \A t \in Sessions : Unborn(t)' => Unborn(t)
    BY <1>1 DEF Inv, TypeInv, HolderOK, Starting, Aborting, Unborn
  <1> QED BY <1>1, <1>2, HolderMoves

\* The live session leaves the table and its retirement begins.
LEMMA LeaveKept ==
    ASSUME Inv, NEW s \in Sessions, games = s, RetireLive(s),
           retire' = [retire EXCEPT ![s] = [at |-> "Cancel", session |-> s]],
           UNCHANGED <<session, snapshots, slots, next, sealed, sent>>,
           holder' \in Holder, HolderOK', \A t \in Sessions : Unborn(t)' => Unborn(t)
    PROVE  Inv'
  <1>0. /\ UNCHANGED <<ctl, task, loop, shut, engines, view>> /\ TypeInv /\ games' = None
        /\ None \notin Sessions /\ Retirers = Sessions \cup {Shutdown} /\ Shutdown \notin Sessions
    BY GameAssumption DEF session, Inv, RetireLive, Sessions, Retirers, Shutdown
  <1> DEFINE n == [at |-> "Cancel", session |-> s]
  <1>1. n \in Retirement /\ n.session = s /\ n.at \in Underway
    BY DEF Retirement, Underway
  <1>2. retire' = [retire EXCEPT ![s] = n]
    OBVIOUS
  <1> HIDE DEF n
  <1>3. /\ retire' \in [Retirers -> Retirement] /\ retire'[s] = n
        /\ \A r \in Retirers \ {s} : retire'[r] = retire[r]
    BY <1>0, <1>1, <1>2 DEF TypeInv
  <1>4. TypeInv'
    BY <1>0, <1>3 DEF TypeInv
  <1>5. ~Unborn(s)
    BY LiveIsBorn
  <1>6. UnbornOK'
    BY <1>0, <1>1, <1>3, <1>5 DEF Inv, UnbornOK
  <1>7. RetireOK' /\ ShutdownLeavesNone'
    BY <1>0, <1>1, <1>3 DEF Inv, RetireOK, ShutdownLeavesNone
  <1>8. SlotsOK' /\ SnapshotIsFinal' /\ \A t \in Sessions : EndsOK(t)'
    BY <1>0 DEF Inv, SlotsOK, SnapshotIsFinal, EndsOK
  <1> QED BY <1>0, <1>4, <1>6, <1>7, <1>8, QuietKept

\* abort_game.
LEMMA AbortKept ==
    ASSUME Inv, (\E s \in Sessions : AbortGame(s)) \/ AbortReturns \/ AbortDropped
    PROVE  Inv' /\ UNCHANGED <<ctl, sent>>
  <1>0. UNCHANGED <<ctl, sent>>
    BY DEF AbortGame, AbortReturns, AbortDropped, session
  <1>1. ASSUME NEW s \in Sessions, AbortGame(s) PROVE Inv'
    <2> DEFINE h == [op |-> "Abort", session |-> s, at |-> "Retiring"]
    <2>1. /\ games = s /\ RetireLive(s) /\ holder' = h
          /\ retire' = [retire EXCEPT ![s] = [at |-> "Cancel", session |-> s]]
          /\ UNCHANGED <<session, snapshots, slots, next, sealed, sent>>
      BY <1>1 DEF AbortGame, Commanded
    <2>2. h \in Holder /\ h.op = "Abort" /\ h.session = s
      BY DEF Holder, AbortHolder
    <2> HIDE DEF h
    <2>3. retire'[s].at = "Cancel"
      BY <2>1 DEF Inv, TypeInv, Retirers
    <2>4. \A t \in Sessions : Unborn(t)' => Unborn(t)
      BY <2>1, <2>2 DEF Unborn, session
    <2>5. s <= next
      BY <2>1, LiveIsBorn DEF Unborn, Inv, TypeInv, Sessions
    <2>6. HolderOK'
      BY <2>1, <2>2, <2>3, <2>5 DEF HolderOK, Starting, Aborting
    <2> QED BY <2>1, <2>2, <2>4, <2>6, LeaveKept
  <1>2. ASSUME AbortReturns \/ AbortDropped PROVE Inv'
    <2>1. /\ holder' = None /\ UNCHANGED <<session, games, snapshots, slots, next, sealed, sent>>
          /\ Aborting
          /\ retire' = retire \/ retire' = [retire EXCEPT ![holder.session].at = "Cancel"]
      BY <1>2 DEF AbortReturns, AbortDropped, manager
    <2>2. holder.session \in Sessions /\ retire[holder.session].at # "None"
      BY <2>1, HolderType DEF Aborting
    <2>3. UNCHANGED <<ctl, task, loop, shut, engines, view>> /\ SlotsOK'
      BY <2>1 DEF session, Inv, SlotsOK
    <2>4. \A t \in Sessions : engines'[t] = "Dropped" => Unborn(t)
      BY <2>3 DEF Unborn
    <2> QED BY <2>1, <2>2, <2>3, <2>4, ReleaseKept DEF Inv, TypeInv
  <1> QED BY <1>0, <1>1, <1>2

\* start_game, after the construction.
LEMMA ReplaceKept ==
    ASSUME Inv, ConstructionFails \/ ReplaceOld \/ OldRetired
    PROVE  Inv' /\ UNCHANGED <<ctl, sent>>
  <1> DEFINE s == holder.session
  <1>0. /\ holder # None /\ holder.op = "Start" /\ s \in Sessions /\ s <= next
        /\ holder.at # "Handoff" /\ engines[s] # "Dropped"
    <2>1. holder # None /\ holder.op = "Start" /\ holder.at # "Handoff"
      BY DEF ConstructionFails, ReplaceOld, OldRetired, Starting
    <2> QED BY <2>1, HolderType DEF Inv, HolderOK
  <1>p. ASSUME holder' = [op |-> "Start", session |-> s, at |-> "Publish"],
               UNCHANGED <<next, engines>>
        PROVE  holder' \in Holder /\ HolderOK' /\ \A t \in Sessions : Unborn(t)' => Unborn(t)
    <2> DEFINE h == [op |-> "Start", session |-> s, at |-> "Publish"]
    <2>1. h \in Holder /\ h.op = "Start" /\ h.session = s /\ h.at = "Publish" /\ holder' = h
      BY <1>0, <1>p DEF Holder, StartHolder
    <2> HIDE DEF h
    <2>2. HolderOK'
      BY <1>0, <1>p, <2>1 DEF HolderOK, Starting, Aborting
    <2> QED BY <1>0, <1>p, <2>1, <2>2 DEF Unborn
  <1>1. ASSUME ConstructionFails PROVE Inv' /\ UNCHANGED <<ctl, sent>>
    BY <1>0, <1>1, AbandonKept DEF ConstructionFails
  <1>3. ASSUME OldRetired PROVE Inv' /\ UNCHANGED <<ctl, sent>>
    <2>1. CASE Abandon /\ retire' = retire
      BY <1>0, <2>1, AbandonKept
    <2>2. CASE ~(Abandon /\ retire' = retire)
      <3>1. /\ holder' = [op |-> "Start", session |-> s, at |-> "Publish"]
            /\ UNCHANGED <<session, games, snapshots, slots, next, sealed, retire, sent>>
        BY <1>3, <2>2 DEF OldRetired, Starting, manager
      <3>2. UNCHANGED <<ctl, engines>>
        BY <3>1 DEF session
      <3> QED BY <1>p, <3>1, <3>2, HolderMoves
    <2> QED BY <2>1, <2>2
  <1>4. ASSUME ReplaceOld PROVE Inv' /\ UNCHANGED <<ctl, sent>>
    <2>0. /\ UNCHANGED <<session, snapshots, slots, next, sealed, sent>>
          /\ UNCHANGED <<ctl, sent, engines>>
          /\ Starting("Built") /\ holder.at = "Built"
      BY <1>4 DEF ReplaceOld, session, Starting
    <2>1. CASE games = None
      <3>1. holder' = [holder EXCEPT !.at = "Publish"] /\ UNCHANGED <<games, retire>>
        BY <1>4, <2>1 DEF ReplaceOld
      <3>2. holder \in StartHolder
        BY <2>0, HolderType
      <3>3. [holder EXCEPT !.at = "Publish"] = [op |-> "Start", session |-> s, at |-> "Publish"]
        BY <3>2 DEF StartHolder
      <3> QED BY <1>p, <2>0, <3>1, <3>3, HolderMoves
    <2>2. CASE games # None
      <3> DEFINE h == [op |-> "Start", session |-> s, at |-> "Retiring", old |-> games]
      <3>1. /\ RetireLive(games) /\ holder' = h
            /\ retire' = [retire EXCEPT ![games] = [at |-> "Cancel", session |-> games]]
        BY <1>4, <2>2 DEF ReplaceOld
      <3>2. games \in Sessions
        BY <2>2 DEF Inv, TypeInv
      <3>3. /\ h \in Holder /\ h.op = "Start" /\ h.session = s /\ h.at = "Retiring"
            /\ h.old = games
        BY <1>0, <3>2 DEF Holder, RetiringHolder
      <3> HIDE DEF h
      <3>4. retire'[games].at # "None"
        BY <3>1, <3>2 DEF Inv, TypeInv, Retirers
      <3>5. HolderOK'
        BY <1>0, <2>0, <3>1, <3>2, <3>3, <3>4 DEF HolderOK, Starting, Aborting
      <3>6. \A t \in Sessions : Unborn(t)' => Unborn(t)
        BY <1>0, <2>0, <3>1, <3>3 DEF Unborn
      <3> QED BY <2>0, <3>1, <3>2, <3>3, <3>5, <3>6, LeaveKept
    <2> QED BY <2>1, <2>2
  <1> QED BY <1>1, <1>3, <1>4

\* publish_live.
LEMMA PublishKept ==
    ASSUME Inv, Publish
    PROVE  Inv' /\ UNCHANGED <<ctl, sent>>
  <1> DEFINE s == holder.session
  <1>0. /\ holder # None /\ holder.op = "Start" /\ holder.at = "Publish" /\ Starting("Publish")
        /\ s \in Sessions /\ s <= next /\ holder \in StartHolder /\ TypeInv
        /\ engines[s] # "Dropped"
    <2>1. holder # None /\ holder.op = "Start" /\ holder.at = "Publish" /\ Starting("Publish")
      BY DEF Publish, Starting
    <2> QED BY <2>1, HolderType DEF Inv, HolderOK
  <1>1. CASE sealed
    <2>1. Abandon /\ retire' = retire
      BY <1>1 DEF Publish
    <2> QED BY <1>0, <2>1, AbandonKept
  <1>2. CASE ~sealed
    <2> DEFINE h == [holder EXCEPT !.at = "Handoff"]
    <2>1. /\ games' = s /\ loop' = [loop EXCEPT ![s] = "Waiting"] /\ holder' = h
          /\ UNCHANGED <<ctl, task, shut, engines, view, snapshots, slots, next, sealed, sent, retire>>
      BY <1>2 DEF Publish
    <2>2. h \in StartHolder /\ h.op = "Start" /\ h.session = s /\ h.at = "Handoff"
      BY <1>0 DEF StartHolder
    <2> HIDE DEF h
    <2>3. /\ loop' \in [Sessions -> LoopPlaces] /\ loop'[s] = "Waiting"
          /\ \A t \in Sessions \ {s} : loop'[t] = loop[t]
      BY <1>0, <2>1 DEF TypeInv, LoopPlaces
    <2>4. TypeInv'
      BY <1>0, <2>1, <2>2, <2>3 DEF TypeInv, Holder
    <2>5. Unborn(s) /\ \A t \in Sessions : Unborn(t)' => t > next \/ engines[t] = "Dropped"
      BY <1>0, <2>1, <2>2 DEF Unborn
    <2>6. \A t \in Sessions : t > next \/ engines[t] = "Dropped" => Unborn(t) /\ t # s
      BY <1>0 DEF Unborn, Sessions, TypeInv
    <2>7. UnbornOK'
      BY <2>1, <2>3, <2>5, <2>6 DEF Inv, UnbornOK
    <2>8. RetireOK'
      <3>1. retire[s].at = "None"
        BY <1>0, <2>5 DEF Inv, UnbornOK, RetireOK, Retirers
      <3> QED BY <1>0, <2>1, <3>1 DEF Inv, RetireOK
    <2>9. HolderOK'
      BY <1>0, <2>1, <2>2 DEF HolderOK, Starting, Aborting
    <2>10. \A t \in Sessions : EndsOK(t)'
      BY <1>0, <2>1, <2>3, <2>5 DEF Inv, UnbornOK, EndsOK
    <2>11. SlotsOK' /\ SnapshotIsFinal'
      BY <2>1, <2>3 DEF Inv, SlotsOK, SnapshotIsFinal
    <2>12. ShutdownLeavesNone'
      BY <1>2, <2>1 DEF Inv, RetireOK, ShutdownLeavesNone
    <2> QED BY <2>1, <2>4, <2>7, <2>8, <2>9, <2>10, <2>11, <2>12, QuietKept
  <1> QED BY <1>1, <1>2

\* The published game is handed to its loop.
LEMMA HandoffKept ==
    ASSUME Inv, Handoff \/ HandoffDropped
    PROVE  Inv' /\ \E s \in Sessions : GameStep(s) /\ ctl'[s].moves = ctl[s].moves
  <1> DEFINE s == holder.session
  <1>0. /\ holder # None /\ holder.op = "Start" /\ holder.at = "Handoff"
        /\ s \in Sessions /\ s <= next /\ TypeInv /\ engines[s] # "Dropped"
    <2>1. holder # None /\ holder.op = "Start" /\ holder.at = "Handoff"
      BY DEF Handoff, HandoffDropped, Starting
    <2> QED BY <2>1, HolderType DEF Inv, HolderOK
  <1>1. ~Unborn(s)
    BY <1>0 DEF Unborn, Sessions, TypeInv
  <1>2. CASE HandoffDropped
    <2>1. /\ loop' = [loop EXCEPT ![s] = IF @ = "Waiting" THEN "NeverStarted" ELSE @]
          /\ holder' = None
          /\ UNCHANGED <<ctl, task, shut, engines, slots, view, games, snapshots, next, sealed, retire, sent>>
      BY <1>2 DEF HandoffDropped, manager
    <2>2. /\ loop' \in [Sessions -> LoopPlaces]
          /\ \A t \in Sessions : \/ loop'[t] = loop[t]
                                 \/ loop[t] # "None" /\ loop'[t] \notin Leaving
      BY <1>0, <2>1 DEF TypeInv, LoopPlaces, Finished, Leaving
    <2>3. /\ SlotsOK' /\ engines' \in [Sessions -> EngineStates]
          /\ \A t \in Sessions : engines'[t] = "Dropped" => Unborn(t)
      BY <1>0, <2>1, <2>2 DEF Inv, TypeInv, SlotsOK, Leaving, Unborn
    <2>4. Inv'
      BY <2>1, <2>2, <2>3, ReleaseKept
    <2> QED BY <1>0, <2>1, <2>4, NoGame
  <1>3. CASE Handoff
    <2> DEFINE c == ctl[s]
    <2>1. /\ Becomes(s, c, << >>) /\ holder' = None
          /\ shut' = [shut EXCEPT ![s] = shut[s] \/ Claims(c)]
          /\ loop' = [loop EXCEPT ![s] = IF loop[s] = "Waiting" THEN "Start" ELSE loop[s]]
          /\ UNCHANGED <<task, engines, slots, view, games, snapshots, next, sealed, retire>>
      BY <1>3 DEF Handoff, manager
    <2>2. GameStep(s) /\ ctl'[s].moves = c.moves /\ (Claims(c) => ~Playing(ctl'[s]))
      <3> DEFINE e == OverAt(0)
                 events == << >>
      <3>1. e \in Emission /\ c \in Controller
        BY <1>0 DEF OverAt, Emission, TypeInv
      <3>2. events = << >> /\ Becomes(s, c, events)
        BY <2>1
      <3> HIDE DEF e, events
      <3>3. Told(s, c, e, events)
        BY <1>0, <3>1, <3>2, BecomesType
      <3>4. CASE Claims(c)
        BY <3>2, <3>3, <3>4 DEF Told, GameStep, Announces, Claims, Playing
      <3>5. CASE ~Claims(c)
        BY <3>2, <3>3, <3>5 DEF Told, GameStep, Stays, SameGame
      <3> QED BY <3>4, <3>5
    <2>3. Claims(c) \in BOOLEAN
      BY DEF Claims
    <2>4. /\ shut' \in [Sessions -> BOOLEAN] /\ shut'[s] = (shut[s] \/ Claims(c))
          /\ \A t \in Sessions \ {s} : shut'[t] = shut[t]
      BY <1>0, <2>1, <2>3 DEF TypeInv
    <2>5. /\ loop' \in [Sessions -> LoopPlaces] /\ (loop'[s] = loop[s] \/ loop'[s] = "Start")
          /\ \A t \in Sessions \ {s} : loop'[t] = loop[t]
      BY <1>0, <2>1 DEF TypeInv, LoopPlaces
    <2>6. TypeInv'
      BY <1>0, <2>1, <2>2, <2>4, <2>5 DEF TypeInv, GameStep
    <2>7. \A t \in Sessions : Unborn(t)' => Unborn(t) /\ t # s
      BY <1>1, <2>1 DEF Unborn
    <2>8. UnbornOK'
      BY <2>1, <2>2, <2>4, <2>5, <2>7 DEF Inv, UnbornOK, GameStep
    <2>9. RetireOK' /\ HolderOK' /\ ShutdownLeavesNone' /\ SlotsOK'
      BY <2>1, <2>5 DEF Inv, RetireOK, HolderOK, Starting, Aborting, ShutdownLeavesNone, SlotsOK
    <2>10. \A t \in Sessions : ~Playing(ctl[t]) => ~Playing(ctl'[t]) /\ State(ctl'[t]) = State(ctl[t])
      BY <1>0, <2>2, GameKept DEF Inv
    <2>11. \A t \in Sessions : TaskOK(t)' /\ EmittedOK(t)'
      BY <1>0, <2>1, <2>2, TaskStays, GameKept DEF Inv
    <2>12. \A t \in Sessions : EndsOK(t)'
      <3> SUFFICES ASSUME NEW t \in Sessions PROVE EndsOK(t)'
        OBVIOUS
      <3>1. CASE t # s
        BY <2>1, <2>4, <2>5, <2>10, <3>1 DEF Inv, EndsOK
      <3>2. CASE t = s
        BY <1>0, <2>1, <2>2, <2>4, <2>5, <2>10, <3>2 DEF Inv, EndsOK
      <3> QED BY <3>1, <3>2
    <2>13. SnapshotIsFinal'
      BY <1>0, <2>1, <2>10 DEF Inv, TypeInv, SnapshotIsFinal
    <2> QED BY <1>0, <2>2, <2>6, <2>8, <2>9, <2>11, <2>12, <2>13 DEF Inv
  <1> QED BY <1>2, <1>3

\* A new controller is one, also for a position that is terminal.
LEMMA NewType ==
    ASSUME NEW terminal \in BOOLEAN
    PROVE  NewController(terminal) \in Controller
  <1> DEFINE c == [moves |-> <<>>, status |-> "Playing", gen |-> 0, revision |-> 0,
                   nonce |-> 0, active |-> None, thinking |-> FALSE, token |-> FALSE,
                   claimed |-> FALSE]
  <1>1. c \in Controller
    BY DEF Controller, Statuses
  <1>2. NewController(terminal) = IF terminal THEN EndGame(c, "Board") ELSE c
    BY DEF NewController
  <1> HIDE DEF c
  <1>3. EndGame(c, "Board") \in Controller
    BY <1>1, EndGameType DEF Statuses
  <1> QED BY <1>1, <1>2, <1>3

\* start_game up to the constructed replacement.
LEMMA StartKept ==
    ASSUME Inv, NEW terminal \in BOOLEAN, StartGame(terminal)
    PROVE  /\ Inv' /\ sent' = sent /\ next' = next + 1
           /\ \A t \in Sessions : t <= next => ctl'[t] = ctl[t]
  <1> DEFINE s == next + 1
             c == NewController(terminal)
             h == [op |-> "Start", session |-> s, at |-> "Built"]
  <1>1. /\ holder = None /\ s \in Sessions /\ next' = s /\ slots' = slots \cup {s}
        /\ ctl' = [ctl EXCEPT ![s] = c] /\ engines' = [engines EXCEPT ![s] = "Alive"]
        /\ holder' = h
        /\ UNCHANGED <<task, loop, shut, view, games, snapshots, sealed, retire, sent>>
    BY DEF StartGame
  <1>2. TypeInv /\ next \in Nat /\ s > next /\ s \in 0 .. MaxSessions
    BY <1>1 DEF Inv, TypeInv, Sessions
  <1>3. c \in Controller
    BY NewType
  <1>4. h \in Holder /\ h.op = "Start" /\ h.session = s /\ h.at = "Built"
    BY <1>1 DEF Holder, StartHolder
  <1> HIDE DEF c, h
  <1>5. /\ ctl' \in [Sessions -> Controller] /\ ctl'[s] = c
        /\ \A t \in Sessions \ {s} : ctl'[t] = ctl[t]
        /\ engines' \in [Sessions -> EngineStates] /\ engines'[s] = "Alive"
        /\ \A t \in Sessions \ {s} : engines'[t] = engines[t]
    BY <1>1, <1>2, <1>3 DEF TypeInv, EngineStates
  <1>6. Unborn(s) /\ \A t \in Sessions : Unborn(t)' => Unborn(t)
    BY <1>1, <1>2, <1>4, <1>5 DEF Unborn, Sessions
  <1>7. TypeInv'
    BY <1>1, <1>2, <1>4, <1>5 DEF TypeInv
  <1>8. UnbornOK' /\ RetireOK' /\ ShutdownLeavesNone'
    BY <1>1, <1>6 DEF Inv, UnbornOK, RetireOK, ShutdownLeavesNone
  <1>9. HolderOK'
    BY <1>1, <1>2, <1>4, <1>5 DEF HolderOK, Starting, Aborting
  <1>10. /\ task[s] = None /\ loop[s] = "None" /\ sent[s].events = << >> /\ games # s /\ s \notin DOMAIN snapshots
    BY <1>1, <1>6 DEF Inv, UnbornOK
  <1>11. \A t \in Sessions : TaskOK(t)' /\ EndsOK(t)'
    BY <1>1, <1>5, <1>10 DEF Inv, TaskOK, EndsOK
  <1>12. \A t \in Sessions : EmittedOK(t)'
    BY <1>1, <1>5, <1>10 DEF Inv, EmittedOK
  <1>13. SlotsOK' /\ SnapshotIsFinal'
    BY <1>1, <1>2, <1>5, <1>10 DEF Inv, TypeInv, SlotsOK, SnapshotIsFinal
  <1>14. \A t \in Sessions : t <= next => ctl'[t] = ctl[t]
    BY <1>2, <1>5 DEF Sessions
  <1> QED BY <1>1, <1>7, <1>8, <1>9, <1>11, <1>12, <1>13, <1>14 DEF Inv

\* What a step other than the start of a game does: it changes the game of at
\* most one session, and plays only in the live one.
OneGame ==
    /\ UNCHANGED <<ctl, sent>> \/ \E s \in Sessions : GameStep(s)
    /\ \A t \in Sessions : ctl'[t].moves # ctl[t].moves => games = t

\* Every step keeps the invariant.
LEMMA StepKept ==
    ASSUME Inv, [Next]_vars
    PROVE  /\ Inv'
           /\ \/ OneGame
              \/ /\ sent' = sent /\ next' = next + 1
                 /\ \A t \in Sessions : t <= next => ctl'[t] = ctl[t]
  <1>q. ASSUME UNCHANGED <<ctl, sent>> PROVE OneGame
    BY <1>q DEF OneGame
  <1>1. ASSUME NEW terminal \in BOOLEAN, StartGame(terminal)
        PROVE  /\ Inv' /\ sent' = sent /\ next' = next + 1
               /\ \A t \in Sessions : t <= next => ctl'[t] = ctl[t]
    BY <1>1, StartKept
  <1>2. ASSUME NEW s \in Sessions, Command(s) PROVE Inv' /\ OneGame
    <2>1. CASE AbortGame(s)
      BY <1>q, <2>1, AbortKept
    <2>2. CASE ~AbortGame(s)
      <3>1. Inv' /\ GameStep(s) /\ games = s
        BY <1>2, <2>2, CommandStep DEF Command
      <3> QED BY <3>1 DEF OneGame, GameStep
    <2> QED BY <2>1, <2>2
  <1>3. ASSUME NEW s \in Sessions, LoopStep(s) PROVE Inv' /\ OneGame
    <2>1. CASE Select(s) \/ StartEngine(s) \/ TaskFailed(s) \/ \E flag \in BOOLEAN : Tick(s, flag)
      BY <2>1, LoopKept DEF OneGame
    <2>2. CASE \/ \E ok \in Terminations : CleanUp(s, ok)
               \/ Unpublish(s) \/ ReadState(s) \/ CompleteExact(s)
      BY <1>q, <2>2, LoopEndKept
    <2> QED BY <1>3, <2>1, <2>2 DEF LoopStep
  <1>4. ASSUME NEW s \in Sessions, TaskStep(s) \/ TaskPanics(s) PROVE Inv' /\ OneGame
    BY <1>4, TaskStepKept DEF OneGame
  <1>5. ASSUME NEW s \in Sessions, TaskApply(s) PROVE Inv' /\ OneGame
    <2>1. Inv' /\ GameStep(s) /\ (ctl'[s].moves # ctl[s].moves => games = s)
      BY <1>5, TaskApplyKept
    <2> QED BY <2>1 DEF OneGame, GameStep
  <1>6. ASSUME NEW r \in Retirers, RetireStep(r) \/ JoinTimeout(r) PROVE Inv' /\ OneGame
    <2>1. Inv' /\ (UNCHANGED <<ctl, sent>> \/ \E s \in Sessions : GameStep(s) /\ Stays(s))
      BY <1>6, RetireKept
    <2> QED BY <1>q, <2>1 DEF OneGame, GameStep, Stays, SameGame
  <1>7. ASSUME Handoff \/ HandoffDropped PROVE Inv' /\ OneGame
    <2>1. Inv' /\ \E s \in Sessions : GameStep(s) /\ ctl'[s].moves = ctl[s].moves
      BY <1>7, HandoffKept
    <2> QED BY <2>1 DEF OneGame, GameStep
  <1>8. ASSUME ConstructionFails \/ ReplaceOld \/ OldRetired PROVE Inv' /\ OneGame
    BY <1>q, <1>8, ReplaceKept
  <1>12. ASSUME StartDropped \/ \E ok \in Terminations : Abandoned(ok) PROVE Inv' /\ OneGame
    BY <1>q, <1>12, GivesUpKept
  <1>13. ASSUME NEW s \in Sessions, Guard(s) PROVE Inv' /\ OneGame
    BY <1>q, <1>13, GuardKept
  <1>14. ASSUME CallStart \/ StartRefused PROVE Inv' /\ OneGame
    BY <1>q, <1>14, QueueKept
  <1>9. ASSUME Publish PROVE Inv' /\ OneGame
    BY <1>q, <1>9, PublishKept
  <1>10. ASSUME AbortReturns \/ AbortDropped PROVE Inv' /\ OneGame
    BY <1>q, <1>10, AbortKept
  <1>11. ASSUME ShutdownAll \/ Collect \/ ShutdownRetire \/ EvictSnapshot \/ UNCHANGED vars
         PROVE  Inv' /\ OneGame
    BY <1>q, <1>11, ShutdownKept
  <1> QED BY <1>1, <1>2, <1>3, <1>4, <1>5, <1>6, <1>7, <1>8, <1>9, <1>10, <1>11,
             <1>12, <1>13, <1>14 DEF Next, Continue

\* Before the first game.
LEMMA InitKept == Init => Inv
  <1> SUFFICES ASSUME Init PROVE Inv
    OBVIOUS
  <1>1. None \notin Sessions /\ MaxSessions \in Nat
    BY GameAssumption DEF Sessions
  <1>2. NewController(FALSE) \in Controller
    BY NewType
  <1>3. ctl \in [Sessions -> Controller]
    BY <1>2 DEF Init
  <1> DEFINE b == [count |-> 0, events |-> << >>]
             n == [at |-> "None", session |-> None]
  <1>4. /\ b \in Batch /\ b.events = << >>
    BY DEF Batch
  <1>5. /\ n \in Retirement /\ n.at = "None" /\ n.session = None
    BY DEF Retirement
  <1>6. sent = [s \in Sessions |-> b] /\ retire = [r \in Retirers |-> n]
    BY DEF Init, NoRetirement
  <1>7. /\ task = [s \in Sessions |-> None] /\ loop = [s \in Sessions |-> "None"]
        /\ shut = [s \in Sessions |-> FALSE] /\ engines = [s \in Sessions |-> "None"]
        /\ view = [s \in Sessions |-> None] /\ games = None /\ snapshots = << >>
        /\ next = 0 /\ sealed = FALSE /\ holder = None
    BY DEF Init
  <1> HIDE DEF b, n
  <1>8. DOMAIN snapshots = {}
    BY <1>7
  <1>9. TypeInv
    <2>1. /\ task \in [Sessions -> Task \cup {None}] /\ loop \in [Sessions -> LoopPlaces]
          /\ shut \in [Sessions -> BOOLEAN] /\ DOMAIN view = Sessions
          /\ engines \in [Sessions -> EngineStates]
      BY <1>7 DEF LoopPlaces, EngineStates
    <2>2. sent \in [Sessions -> Batch] /\ retire \in [Retirers -> Retirement]
      BY <1>4, <1>5, <1>6
    <2>3. /\ games \in Sessions \cup {None} /\ holder \in Holder \cup {None}
          /\ DOMAIN snapshots \subseteq Sessions
      BY <1>7, <1>8
    <2>4. next \in 0 .. MaxSessions
      BY <1>1, <1>7
    <2>5. sealed \in BOOLEAN
      BY <1>7
    <2> QED BY <1>3, <2>1, <2>2, <2>3, <2>4, <2>5 DEF TypeInv
  <1>10. UnbornOK
    BY <1>1, <1>4, <1>5, <1>6, <1>7, <1>8 DEF UnbornOK
  <1>11. RetireOK /\ HolderOK /\ ShutdownLeavesNone
    BY <1>5, <1>6, <1>7 DEF RetireOK, HolderOK, ShutdownLeavesNone, Retirers, Starting, Aborting, Underway
  <1>12. SlotsOK /\ SnapshotIsFinal
    BY <1>7, <1>8 DEF SlotsOK, SnapshotIsFinal
  <1>13. \A s \in Sessions : TaskOK(s) /\ EndsOK(s)
    BY <1>1, <1>7 DEF TaskOK, EndsOK
  <1>14. \A s \in Sessions : EmittedOK(s)
    BY <1>4, <1>6 DEF EmittedOK
  <1> QED BY <1>9, <1>10, <1>11, <1>12, <1>13, <1>14 DEF Inv

-----------------------------------------------------------------------------
(* The theorems.                                                           *)

\* The invariant holds of every state of the sessions of a game id.
THEOREM Invariance == Spec => []Inv
  <1>1. Inv /\ [Next]_vars => Inv'
    BY StepKept
  <1> QED BY <1>1, InitKept, PTL DEF Spec

\* Live engines belong to a session that holds an observation slot, which
\* neither an abandoned construction nor a retirement that timed out gives up
\* too early; engines without a slot are those of a start_game that was
\* dropped before it published, with a session nobody has or will have.
THEOREM EnginesAreAccountedFor == Spec => []EnginesHoldSlots
  <1>1. Inv => EnginesHoldSlots
    BY DEF Inv, SlotsOK, UnbornOK, Unborn, EnginesHoldSlots, Running
  <1> QED BY <1>1, Invariance, PTL

\* When shutdown_all has returned no session is live, although a start_game was
\* under way when it sealed the manager.
THEOREM ShutdownIsComplete == Spec => []ShutdownLeavesNone
  <1>1. Inv => ShutdownLeavesNone
    BY DEF Inv
  <1> QED BY <1>1, Invariance, PTL

\* A completed session is a finished game and its snapshot what it ended as:
\* complete_exact read the state before it had the metadata's lock, and nothing
\* has changed it since.
THEOREM SnapshotsAreFinal == Spec => []SnapshotIsFinal
  <1>1. Inv => SnapshotIsFinal
    BY DEF Inv
  <1> QED BY <1>1, Invariance, PTL

\* A move of the book or of the engine is played only in the position that was
\* read for it: accepts_engine_context compares generations, and whatever
\* changes the moves advances the generation.
THEOREM EngineMovesAreFresh == Spec => EngineMoveIsFresh
  <1>1. ASSUME Inv, [Next]_vars, NEW s \in Sessions, TaskApply(s), ctl'[s].moves # ctl[s].moves
        PROVE  ctl[s].moves = task[s].asked
    BY <1>1, TaskApplyKept
  <1>2. Inv /\ [Next]_vars =>
           [\A s \in Sessions : TaskApply(s) /\ ctl'[s].moves # ctl[s].moves =>
               ctl[s].moves = task[s].asked]_vars
    BY <1>1
  <1> QED BY <1>2, Invariance, PTL DEF Spec, EngineMoveIsFresh

\* A game that has left the table is not played on, although its task, its loop
\* and the commands that still name it may run.
THEOREM RetiredGamesRest == Spec => RetiredIsNotPlayed
  <1>1. ASSUME Inv, [Next]_vars, NEW s \in Sessions, games # s, s <= next
        PROVE  ctl'[s].moves = ctl[s].moves
    BY <1>1, StepKept DEF OneGame
  <1>2. Inv /\ [Next]_vars =>
           [\A s \in Sessions : games # s /\ s <= next => ctl'[s].moves = ctl[s].moves]_vars
    BY <1>1
  <1> QED BY <1>2, Invariance, PTL DEF Spec, RetiredIsNotPlayed

\* The first end of a game stands, and nothing is emitted after its GameOver,
\* whoever tries: a command, the clock, the engine's task or a failed one.
THEOREM GameOversAreFinal == Spec => GameOverIsFinal
  <1>1. ASSUME Inv, [Next]_vars, NEW s \in Sessions, ~Playing(ctl[s]), next' = next
        PROVE  ctl'[s].status = ctl[s].status
    <2>1. next \in Nat
      BY <1>1 DEF Inv, TypeInv
    <2>2. UNCHANGED <<ctl, sent>> \/ \E t \in Sessions : GameStep(t)
      BY <1>1, <2>1, StepKept DEF OneGame
    <2> QED BY <1>1, <2>2, GameKept DEF Inv
  <1>2. ASSUME Inv, [Next]_vars, NEW s \in Sessions,
               \E n \in 1 .. Len(sent[s].events) : sent[s].events[n].kind = "Over"
        PROVE  sent'[s] = sent[s]
    <2>1. ~Playing(ctl[s]) /\ ctl[s].claimed
      BY <1>2 DEF Inv, EmittedOK, Over
    <2>2. sent' = sent \/ \E t \in Sessions : GameStep(t)
      BY <1>2, StepKept DEF OneGame
    <2> QED BY <2>1, <2>2 DEF GameStep, Stays, Advances, Announces
  <1>3. Inv /\ [Next]_vars =>
           [\A s \in Sessions :
               /\ ~Playing(ctl[s]) /\ next' = next => ctl'[s].status = ctl[s].status
               /\ (\E n \in 1 .. Len(sent[s].events) : sent[s].events[n].kind = "Over")
                  => sent'[s] = sent[s]]_vars
    BY <1>1, <1>2
  <1> QED BY <1>3, Invariance, PTL DEF Spec, GameOverIsFinal

\* The revisions of one, two or three events.
Increasing(all) == \A n \in 2 .. Len(all) : all[n - 1].revision < all[n].revision

\* One event is in order.
LEMMA OneIncreases ==
    ASSUME NEW a
    PROVE  Increasing(<<a>>)
  BY DEF Increasing

\* Two events are in order when the second has the greater revision.
LEMMA TwoIncrease ==
    ASSUME NEW a, NEW b, a.revision < b.revision
    PROVE  Increasing(<<a, b>>)
  <1>1. \A n \in 2 .. Len(<<a, b>>) : n = 2
    OBVIOUS
  <1> QED BY <1>1 DEF Increasing

\* Three events are in order when each has a greater revision than the one
\* before it.
LEMMA ThreeIncrease ==
    ASSUME NEW a, NEW b, NEW c, a.revision < b.revision, b.revision < c.revision
    PROVE  Increasing(<<a, b, c>>)
  <1>1. \A n \in 2 .. Len(<<a, b, c>>) : n = 2 \/ n = 3
    OBVIOUS
  <1> QED BY <1>1 DEF Increasing

\* The events of a session have increasing revisions, over all its steps: a
\* terminal move takes the revision before its GameOver's.
THEOREM RevisionsAreOrdered == Spec => RevisionsIncrease
  <1>1. ASSUME Inv, [Next]_vars, NEW s \in Sessions, sent'[s] # sent[s]
        PROVE  Increasing((IF sent[s].events = << >> THEN << >>
                           ELSE <<sent[s].events[Len(sent[s].events)]>>) \o sent'[s].events)
    <2> DEFINE es == sent[s].events
               l == es[Len(es)]
               fs == sent'[s].events
               c == ctl[s]
               d == ctl'[s]
               o == OverAt(d.revision)
    <2>1. GameStep(s) /\ (Advances(s) \/ Announces(s))
      <3>1. PICK t \in Sessions : GameStep(t)
        BY <1>1, StepKept DEF OneGame
      <3>2. t = s
        BY <1>1, <3>1 DEF GameStep
      <3> QED BY <1>1, <3>1, <3>2 DEF GameStep, Stays
    <2>2. es \in Seq(Emission) /\ c.revision \in Nat /\ d.revision \in Nat
      BY <1>1, <2>1 DEF Inv, TypeInv, GameStep, Batch, Controller
    <2>3. es # << >> => l \in Emission /\ l.revision \in Int /\ l.revision <= c.revision
      <3>1. es # << >> => l \in Emission
        BY <2>2
      <3>2. es # << >> => l.revision <= c.revision
        BY <1>1 DEF Inv, EmittedOK
      <3> HIDE DEF l
      <3> QED BY <3>1, <3>2 DEF Emission
    <2>4. o \in Emission /\ o.revision = d.revision
      BY <2>2 DEF OverAt, Emission
    <2>5. ASSUME NEW e \in Emission, fs = <<e>>, es # << >> => e.revision > c.revision
          PROVE  Increasing((IF es = << >> THEN << >> ELSE <<l>>) \o fs)
      <3>0. e.revision \in Int
        BY DEF Emission
      <3>1. CASE es = << >>
        <4>1. << >> \o <<e>> = <<e>>
          OBVIOUS
        <4> QED BY <2>5, <3>1, <4>1, OneIncreases
      <3>2. CASE es # << >>
        <4> HIDE DEF l
        <4>1. <<l>> \o <<e>> = <<l, e>>
          BY <2>3, <3>2, TwoEvents
        <4>2. l.revision < e.revision
          BY <2>2, <2>3, <2>5, <3>0, <3>2
        <4> QED BY <2>5, <3>2, <4>1, <4>2, TwoIncrease
      <3> QED BY <3>1, <3>2
    <2>6. ASSUME NEW e \in Emission, fs = <<e, o>>, e.revision > c.revision, e.revision < o.revision
          PROVE  Increasing((IF es = << >> THEN << >> ELSE <<l>>) \o fs)
      <3>0. e.revision \in Int
        BY DEF Emission
      <3> HIDE DEF o
      <3>1. CASE es = << >>
        <4>1. << >> \o <<e, o>> = <<e, o>>
          OBVIOUS
        <4> QED BY <2>6, <3>1, <4>1, TwoIncrease
      <3>2. CASE es # << >>
        <4> HIDE DEF l
        <4>1. <<l>> \o <<e, o>> = <<l, e, o>>
          BY <2>3, <2>4, <3>2, ThreeEvents
        <4>2. l.revision < e.revision
          BY <2>2, <2>3, <2>6, <3>0, <3>2
        <4> QED BY <2>6, <3>2, <4>1, <4>2, ThreeIncrease
      <3> QED BY <3>1, <3>2
    <2>7. CASE Advances(s)
      <3>1. \/ \E e \in Emission : e.revision = d.revision /\ fs = <<e>>
            \/ fs = <<o>>
            \/ \E e \in Emission : /\ fs = <<e, o>>
                                   /\ c.revision < e.revision /\ e.revision < d.revision
        BY <2>7 DEF Advances
      <3>2. d.revision > c.revision
        BY <2>7 DEF Advances
      <3> QED BY <2>2, <2>4, <2>5, <2>6, <3>1, <3>2
    <2>8. CASE Announces(s)
      <3>1. es = << >> /\ fs = <<o>>
        BY <1>1, <2>8 DEF Announces, Inv, EmittedOK
      <3> QED BY <2>4, <2>5, <3>1
    <2> QED BY <2>1, <2>7, <2>8
  <1>2. Inv /\ [Next]_vars =>
           [\A s \in Sessions : sent'[s] # sent[s] =>
               LET all == (IF sent[s].events = << >> THEN << >>
                           ELSE <<sent[s].events[Len(sent[s].events)]>>) \o sent'[s].events
               IN  \A n \in 2 .. Len(all) : all[n - 1].revision < all[n].revision]_vars
    BY <1>1 DEF Increasing
  <1> QED BY <1>2, Invariance, PTL DEF Spec, RevisionsIncrease
=============================================================================
