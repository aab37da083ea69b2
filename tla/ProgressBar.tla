---------------------------- MODULE ProgressBar ----------------------------
(***************************************************************************)
(* From the store to the bar that is drawn: the hook of                    *)
(* src/hooks/useProgress.ts, mounted for one id, over ProgressStore.       *)
(*                                                                         *)
(* The hook subscribes, asks the store once the subscription is settled,    *)
(* and orders what it hears by generation.  Threads emit in any order; what  *)
(* is emitted arrives in that order.                                        *)
(***************************************************************************)
EXTENDS ProgressStore

CONSTANTS
    Drawn,        \* the id the hook displays
    MaxChannel    \* bound: events on their way at once

ASSUME BarAssumption == Drawn \in Ids /\ MaxChannel \in Nat

VARIABLES
    channel,    \* events on their way to the webview
    phase,      \* Unmounted, Listening (registered) or Settled
    item,       \* the displayed item
    minimum,    \* minimumGeneration
    asked,      \* its get_progress: Waiting, Answered or Done
    reply,      \* what get_progress answered
    excused     \* history: the last generation of Drawn that expired, was
                \* evicted, or was cleared before the hook was settled

hook == <<phase, item, minimum, asked, reply>>
barVars == <<vars, channel, hook, excused>>

BarInit ==
    /\ Init
    /\ channel = <<>>
    /\ phase = "Unmounted"
    /\ item = None
    /\ minimum = 0
    /\ asked = "Done"
    /\ reply = None
    /\ excused = 0

-----------------------------------------------------------------------------
(* Native steps, as the webview sees them.                                 *)

Forget == excused' = IF entries[Drawn] # None /\ entries'[Drawn] = None
                     THEN entries[Drawn].gen ELSE excused

\* Steps that send nothing.
Silently ==
    /\ \/ \E t \in Threads :
             \/ \E i \in Ids : Start(t, i)
             \/ \E u \in Threads : Share(t, u)
             \/ \E p \in Raw, st \in {"Running"} \cup Outcomes : Report(t, p, st)
             \/ DropJob(t)
       \/ \E i \in Ids : Expire(i) \/ Claim(i) \/ Unclaim(i) \/ ClearDecide(i)
    /\ Forget
    /\ UNCHANGED <<channel, hook>>

SendProgress(t) ==
    /\ Len(channel) < MaxChannel
    /\ Emit(t)
    /\ channel' = Append(channel, out[t])
    /\ UNCHANGED <<hook, excused>>

BarClearStore ==
    /\ ClearStore
    /\ excused' = IF clear.id = Drawn /\ phase # "Settled" THEN clock ELSE excused
    /\ UNCHANGED <<channel, hook>>

SendCleared ==
    /\ Len(channel) < MaxChannel
    /\ ClearEmit
    /\ channel' = Append(channel,
          [id |-> clear.id, cleared |-> TRUE,
           item |-> [gen |-> clear.gen, progress |-> 0, state |-> "Cancelled"]])
    /\ UNCHANGED <<hook, excused>>

-----------------------------------------------------------------------------
(* The hook.                                                               *)

\* The subscription is registered; events are delivered from here on.
Mount ==
    /\ phase = "Unmounted"
    /\ phase' = "Listening"
    /\ UNCHANGED <<vars, channel, item, minimum, asked, reply, excused>>

\* onSettled(true) reruns the effect: the hook starts over and asks the store.
SettleWithoutAsking ==
    /\ phase = "Listening"
    /\ phase' = "Settled"
    /\ item' = None
    /\ minimum' = 0
    /\ UNCHANGED <<vars, channel, asked, reply, excused>>

Settle ==
    /\ phase = "Listening"
    /\ phase' = "Settled"
    /\ item' = None
    /\ minimum' = 0
    /\ asked' = "Waiting"
    /\ UNCHANGED <<vars, channel, reply, excused>>

\* get_progress runs, for the hook.
Ask ==
    /\ asked = "Waiting"
    /\ Get(Drawn)
    /\ asked' = "Answered"
    /\ reply' = Answer(Drawn)
    /\ Forget
    /\ UNCHANGED <<channel, phase, item, minimum>>

\* Two items: by generation, then terminal ones, then progress.
SupersedesLast(incoming, current) == incoming.gen >= current.gen

Supersedes(incoming, current) ==
    \/ incoming.gen > current.gen
    \/ /\ incoming.gen = current.gen
       /\ IF Terminal(current) # Terminal(incoming) THEN Terminal(incoming)
          ELSE incoming.progress >= current.progress

\* newestProgress.
NewestUnfenced(current, incoming) ==
    IF current = None \/ Supersedes(incoming, current) THEN incoming ELSE current

Newest(current, incoming) ==
    IF incoming.gen >= minimum /\ (current = None \/ Supersedes(incoming, current))
    THEN incoming ELSE current

\* The answer arrives.
Answered ==
    /\ asked = "Answered"
    /\ asked' = "Done"
    /\ reply' = None
    /\ item' = IF reply = None THEN item ELSE Newest(item, reply)
    /\ UNCHANGED <<vars, channel, phase, minimum, excused>>

Raised(g) == IF minimum > g THEN minimum ELSE g

\* An event arrives: a cleared one raises the fence.
Deliver ==
    /\ channel # <<>>
    /\ channel' = Tail(channel)
    /\ LET e == Head(channel)
       IN  IF phase = "Unmounted" \/ e.id # Drawn
           THEN UNCHANGED <<item, minimum>>
           ELSE IF e.cleared
           THEN /\ minimum' = Raised(e.item.gen)
                /\ item' = IF item # None /\ item.gen >= e.item.gen THEN item ELSE None
           ELSE /\ item' = Newest(item, e.item)
                /\ UNCHANGED minimum
    /\ UNCHANGED <<vars, phase, asked, reply, excused>>

\* fence(generation), once clear_progress has answered.
Fence ==
    /\ ClearReturn
    /\ IF phase = "Unmounted" \/ clear.id # Drawn
       THEN UNCHANGED <<item, minimum>>
       ELSE /\ minimum' = Raised(clear.gen)
            /\ item' = IF item # None /\ item.gen < clear.gen THEN None ELSE item
    /\ UNCHANGED <<channel, phase, asked, reply, excused>>

BarNext ==
    \/ Silently
    \/ \E t \in Threads : SendProgress(t)
    \/ BarClearStore \/ SendCleared
    \/ Mount \/ Settle \/ Ask \/ Answered \/ Deliver \/ Fence

BarSpec == BarInit /\ [][BarNext]_barVars

-----------------------------------------------------------------------------

\* The bar never runs backwards and never leaves a finished job for a
\* running one of the same generation, whatever order events arrive in.
BarOnlyAdvances ==
    [][(item # None /\ item' # None) =>
          \/ item'.gen > item.gen
          \/ /\ item'.gen = item.gen
             /\ item'.progress >= item.progress
             /\ Terminal(item) => Terminal(item')]_barVars

\* A cleared bar stays away: neither a late event of its job nor the answer
\* to get_progress brings it back past the fence.
FenceHolds == item # None => item.gen >= minimum

\* Nothing is on its way to a settled hook.
Quiet ==
    /\ phase = "Settled" /\ asked = "Done" /\ channel = <<>> /\ clear = Idle
    /\ \A t \in Threads : out[t] = None

\* The bar converges: when nothing is on its way, it shows what the store
\* has.  A bar without an item in the store is left only by the expiry or
\* eviction of its generation or a later one, or by a clear that came before
\* the hook was there to hear of it.
Converged ==
    Quiet =>
       /\ entries[Drawn] # None => item = entries[Drawn]
       /\ (item # None /\ entries[Drawn] = None) =>
             item.gen <= excused

=============================================================================
