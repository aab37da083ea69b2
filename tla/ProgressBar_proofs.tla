------------------------- MODULE ProgressBar_proofs -------------------------
(***************************************************************************)
(* What the bar shows, for any number of ids, threads and generations, any *)
(* capacity of the store and any number of events on their way.            *)
(***************************************************************************)
EXTENDS ProgressBar, ProgressStore_proofs

-----------------------------------------------------------------------------
(* The inductive invariant.                                                *)

Sent == {channel[n] : n \in 1 .. Len(channel)}

Stored == entries[Drawn]

Told(i) == [id |-> Drawn, item |-> i, cleared |-> FALSE]

\* The items of the drawn id: stored, answered, displayed or on their way.
Known ==
    ({item, reply, Stored}
       \cup {out[t].item : t \in {u \in Threads : out[u] # None /\ out[u].id = Drawn}}
       \cup {e.item : e \in {x \in Sent : x.id = Drawn /\ ~x.cleared}}) \ {None}

\* The generations of the clears that the hook has still to hear of.
Clears ==
    {e.item.gen : e \in {x \in Sent : x.id = Drawn /\ x.cleared}}
       \cup (IF clear.at \in {"Emitting", "Answered"} /\ clear.id = Drawn
             THEN {clear.gen} ELSE {})

AnyEvent ==
    [id : Ids, item : [gen : Nat, progress : 0 .. Full, state : States], cleared : BOOLEAN]

BarType ==
    /\ item \in Item \cup {None} /\ reply \in Item \cup {None}
    /\ minimum \in Nat /\ excused \in Nat
    /\ phase \in {"Unmounted", "Listening", "Settled"}
    /\ asked \in {"Waiting", "Answered", "Done"}
    /\ asked # "Done" => phase = "Settled"
    /\ out \in [Threads -> Event \cup {None}]
    /\ \A t \in Threads : out[t] # None => ~out[t].cleared
    /\ channel \in Seq(AnyEvent)
    /\ \A e \in Sent : ~e.cleared => e.item \in Item

\* The stored item is the last word: later than every other generation, and
\* within its own no item is ahead of it or ended otherwise.
StoredIsLast ==
    Stored # None =>
       \A y \in Known : /\ y.gen <= Stored.gen
                        /\ y.gen = Stored.gen => /\ y.progress <= Stored.progress
                                                 /\ Terminal(y) => y = Stored

\* Within a generation nothing is ahead of the end.
EndIsAhead ==
    \A x, y \in Known : x.gen = y.gen /\ Terminal(x) => x.progress >= y.progress

\* The clock is ahead of every item and of every clear, and a stored item is
\* of a later generation than every clear.
Timely ==
    /\ \A y \in Known : y.gen <= clock
    /\ \A c \in Clears \cup {minimum} : c <= clock /\ (Stored # None => c <= Stored.gen)

\* A settled hook shows the stored item, or will be told of it.
OnItsWay ==
    phase = "Settled" /\ Stored # None =>
       \/ item = Stored
       \/ asked = "Waiting"
       \/ asked = "Answered" /\ reply = Stored
       \/ \E t \in Threads : out[t] = Told(Stored)
       \/ Told(Stored) \in Sent

\* An item that is not in the store any more is excused, or fenced off by a
\* clear that the settled hook has heard of or will hear of.
Gone ==
    Stored = None =>
       \A y \in Known : \/ y.gen <= excused
                        \/ phase = "Settled" /\ \E c \in Clears \cup {minimum} : y.gen < c

BarInv ==
    /\ StoreInv /\ BarType
    /\ StoredIsLast /\ EndIsAhead /\ Timely /\ FenceHolds /\ OnItsWay /\ Gone

-----------------------------------------------------------------------------
(* What a step may do to the store and to what is known of it.             *)

\* The stored item is dropped, kept, moved on within its generation, or
\* replaced by the next generation.
StoredStep ==
    /\ Stored' \in Item \cup {None} /\ clock' \in Nat /\ clock' >= clock
    /\ \/ Stored' = None
       \/ Stored' = Stored
       \/ /\ Stored # None /\ Stored' # None /\ ~Terminal(Stored)
          /\ Stored'.gen = Stored.gen /\ Stored'.progress >= Stored.progress
       \/ Stored' # None /\ Stored'.gen = clock + 1 /\ clock' = clock + 1

\* Nothing is learnt but from the store.
Learns == \A y \in Known' : y \in Known \/ y = Stored'

\* A step of the store is a step of the stored item.
LEMMA StoreSteps ==
    ASSUME StoreInv, [Next]_vars
    PROVE  StoreInv' /\ StoredStep
  <1>1. StoreInv' /\ EntriesStep
    BY StoreStep
  <1>2. Drawn \in Ids /\ Stored' \in Item \cup {None} /\ clock \in Nat /\ clock' \in Nat
        /\ Stored \in Item \cup {None}
    BY <1>1, BarAssumption DEF StoreInv, Entries, Stored
  <1>3. ASSUME NEW i \in Ids, Starts(i) PROVE StoredStep
    <2>1. Stored' # None => Stored'.gen \in Nat
      BY <1>2, ProgressAssumption DEF Item, Gens
    <2> QED BY <1>2, <1>3, <2>1 DEF Starts, StoredStep, Stored
  <1>4. ASSUME NEW i, Keeps(i), clock' >= clock PROVE StoredStep
    BY <1>2, <1>4 DEF Keeps, StoredStep, Stored
  <1> QED BY <1>1, <1>3, <1>4 DEF EntriesStep

\* Every step of the bar is a step of the store or leaves it alone.
LEMMA BarSteps ==
    ASSUME [BarNext]_barVars
    PROVE  [Next]_vars
  <1>1. CASE Silently
    BY <1>1 DEF Silently, Next
  <1>2. CASE \E t \in Threads : SendProgress(t)
    BY <1>2 DEF SendProgress, Next
  <1>3. CASE BarClearStore \/ SendCleared \/ Fence
    BY <1>3 DEF BarClearStore, SendCleared, Fence, Next
  <1>4. CASE Mount \/ Settle \/ Answered \/ Deliver
    BY <1>4 DEF Mount, Settle, Answered, Deliver
  <1>5. CASE Ask
    BY <1>5, BarAssumption DEF Ask, Next
  <1>6. CASE UNCHANGED barVars
    BY <1>6 DEF barVars
  <1> QED BY <1>1, <1>2, <1>3, <1>4, <1>5, <1>6 DEF BarNext

\* What is known stays in order as the store moves on.
LEMMA OrderKept ==
    ASSUME BarInv, StoredStep, Learns, \A y \in Known' : y \in Item
    PROVE  /\ StoredIsLast' /\ EndIsAhead'
           /\ \A y \in Known' : y.gen <= clock'
  <1>0. /\ \A y \in Item : y.gen \in Nat /\ y.progress \in Nat /\ y # None
        /\ clock \in Nat /\ clock' \in Nat /\ clock' >= clock
        /\ Stored # None => Stored \in Item /\ Stored \in Known
        /\ Stored' # None => Stored' \in Item
    BY ProgressAssumption, BarAssumption
       DEF BarInv, StoreInv, StoredStep, Item, Gens, Known, Entries, Stored
  <1>1. \A y \in Known : y.gen <= clock
    BY DEF BarInv, Timely
  <1>2. Stored' # None => Stored'.gen <= clock'
    BY <1>0, <1>1 DEF StoredStep
  <1>3. \A y \in Known' : y.gen <= clock'
    BY <1>0, <1>1, <1>2 DEF Learns
  <1>4. StoredIsLast'
    <2> SUFFICES ASSUME Stored' # None, NEW y \in Known', y # Stored'
                 PROVE  /\ y.gen <= Stored'.gen
                        /\ y.gen = Stored'.gen => /\ y.progress <= Stored'.progress
                                                  /\ ~Terminal(y)
      BY <1>0 DEF StoredIsLast, Terminal
    <2>1. y \in Known /\ y \in Item /\ y.gen <= clock
      BY <1>1 DEF Learns
    <2>2. CASE Stored' = Stored
      BY <1>0, <2>1, <2>2 DEF BarInv, StoredIsLast
    <2>3. CASE /\ Stored # None /\ ~Terminal(Stored)
               /\ Stored'.gen = Stored.gen /\ Stored'.progress >= Stored.progress
      BY <1>0, <2>1, <2>3 DEF BarInv, StoredIsLast
    <2>4. CASE Stored'.gen = clock + 1
      BY <1>0, <2>1, <2>4
    <2> QED BY <2>2, <2>3, <2>4 DEF StoredStep
  <1>5. EndIsAhead'
    <2> SUFFICES ASSUME NEW x \in Known', NEW y \in Known', x.gen = y.gen, Terminal(x)
                 PROVE  x.progress >= y.progress
      BY DEF EndIsAhead, Terminal
    <2>1. CASE x = Stored'
      BY <1>0, <1>4, <2>1 DEF StoredIsLast
    <2>2. CASE y = Stored'
      BY <1>0, <1>4, <2>2 DEF StoredIsLast
    <2>3. CASE x # Stored' /\ y # Stored'
      BY <2>3 DEF Learns, BarInv, EndIsAhead
    <2> QED BY <2>1, <2>2, <2>3
  <1> QED BY <1>3, <1>4, <1>5

\* What the channel holds after an event is sent.
LEMMA SentAppend ==
    ASSUME channel \in Seq(AnyEvent), NEW e \in AnyEvent, channel' = Append(channel, e)
    PROVE  channel' \in Seq(AnyEvent) /\ Sent' = Sent \cup {e}
  <1>1. channel' \in Seq(AnyEvent) /\ Len(channel') = Len(channel) + 1 /\ Len(channel) \in Nat
    OBVIOUS
  <1>2. \A n \in 1 .. Len(channel) : channel'[n] = channel[n]
    OBVIOUS
  <1>3. channel'[Len(channel) + 1] = e
    OBVIOUS
  <1>4. 1 .. Len(channel') = 1 .. Len(channel) \cup {Len(channel) + 1}
    BY <1>1
  <1> QED BY <1>1, <1>2, <1>3, <1>4 DEF Sent

\* What the channel held before an event arrived.
LEMMA SentTail ==
    ASSUME channel \in Seq(AnyEvent), channel # <<>>, channel' = Tail(channel)
    PROVE  /\ channel' \in Seq(AnyEvent) /\ Head(channel) \in AnyEvent
           /\ Sent = Sent' \cup {Head(channel)}
  <1>1. /\ channel' \in Seq(AnyEvent) /\ Len(channel') = Len(channel) - 1
        /\ Len(channel) \in Nat \ {0} /\ Head(channel) = channel[1]
        /\ Head(channel) \in AnyEvent
    OBVIOUS
  <1>2. \A n \in 1 .. Len(channel') : channel'[n] = channel[n + 1]
    OBVIOUS
  <1>3. Sent' \cup {Head(channel)} \subseteq Sent
    BY <1>1, <1>2 DEF Sent
  <1>4. \A n \in 1 .. Len(channel) : n = 1 \/ (n - 1 \in 1 .. Len(channel') /\ channel'[n - 1] = channel[n])
    BY <1>1, <1>2
  <1>5. Sent \subseteq Sent' \cup {Head(channel)}
    <2> SUFFICES ASSUME NEW n \in 1 .. Len(channel)
                 PROVE  channel[n] \in Sent' \cup {Head(channel)}
      BY DEF Sent
    <2>1. CASE n = 1
      BY <1>1, <2>1
    <2>2. CASE n # 1
      <3>1. n - 1 \in 1 .. Len(channel') /\ channel[n] = channel'[n - 1]
        BY <1>4, <2>2
      <3> QED BY <3>1 DEF Sent
    <2> QED BY <2>1, <2>2
  <1> QED BY <1>1, <1>3, <1>5

-----------------------------------------------------------------------------
(* What a step does to the events that the threads have still to send.     *)

\* A thread keeps its event; a new one tells of what the store holds, and a
\* change of the stored item is told.
OutStep ==
    /\ out' \in [Threads -> Event \cup {None}]
    /\ \A t \in Threads : out'[t] # None => ~out'[t].cleared
    /\ \A t \in Threads : out[t] # None => out'[t] = out[t]
    /\ \A t \in Threads : \/ out'[t] = out[t]
                          \/ out'[t] # None /\ (out'[t].id = Drawn => out'[t].item = Stored')
    /\ Stored' # None /\ Stored' # Stored => \E t \in Threads : out'[t] = Told(Stored')

\* The store writes the item new of i, drops others, and t tells of it.
Writes(t, i, new) ==
    /\ new \in Item
    /\ entries'[i] = new
    /\ \A j \in Ids \ {i} : entries'[j] = None \/ entries'[j] = entries[j]
    /\ out' = [out EXCEPT ![t] = [id |-> i, item |-> new, cleared |-> FALSE]]

\* A write that its thread tells of.
LEMMA WritesTell ==
    ASSUME BarType, NEW t \in Threads, NEW i \in Ids, NEW new, out[t] = None, Writes(t, i, new)
    PROVE  OutStep
  <1> DEFINE e == [id |-> i, item |-> new, cleared |-> FALSE]
  <1>1. e \in Event /\ e # None /\ ~e.cleared /\ e.id = i /\ e.item = new
    <2>1. ~e.cleared /\ e.id = i /\ e.item = new
      OBVIOUS
    <2>2. e \in Event
      BY DEF Writes, Event
    <2> HIDE DEF e
    <2> QED BY <2>1, <2>2, ProgressAssumption
  <1>2. out' = [out EXCEPT ![t] = e] /\ out \in [Threads -> Event \cup {None}]
    BY DEF Writes, BarType
  <1>3. i = Drawn => e = Told(new)
    BY DEF Told
  <1> HIDE DEF e
  <1>4. /\ out' \in [Threads -> Event \cup {None}] /\ out'[t] = e
        /\ \A u \in Threads \ {t} : out'[u] = out[u]
    BY <1>1, <1>2
  <1>5. i # Drawn => Stored' = None \/ Stored' = Stored
    BY BarAssumption DEF Writes, Stored
  <1>6. i = Drawn => Stored' = new
    BY DEF Writes, Stored
  <1>7. Stored' # None /\ Stored' # Stored => \E u \in Threads : out'[u] = Told(Stored')
    BY <1>3, <1>4, <1>5, <1>6
  <1>8. \A u \in Threads : out'[u] # None => ~out'[u].cleared
    BY <1>1, <1>4 DEF BarType
  <1>9. \A u \in Threads : \/ out'[u] = out[u]
                           \/ out'[u] # None /\ (out'[u].id = Drawn => out'[u].item = Stored')
    BY <1>1, <1>4, <1>6
  <1> QED BY <1>4, <1>7, <1>8, <1>9 DEF OutStep

\* A step that writes nothing and tells nothing.
LEMMA QuietOut ==
    ASSUME BarType, UNCHANGED out, Stored' = None \/ Stored' = Stored
    PROVE  OutStep
  BY DEF OutStep, BarType

\* Every transition of a job tells what it changed.
LEMMA TransitionTells ==
    ASSUME StoreInv, BarType, NEW t \in Threads, NEW l \in Lease, NEW p \in Raw,
           NEW st \in States, out[t] = None, Transition(t, l, p, st), entries' \in Entries
    PROVE  OutStep
  <1>0. l.id \in Ids /\ Drawn \in Ids
    BY BarAssumption DEF Lease
  <1>1. CASE ~Current(l)
    <2>1. Becomes(None, None, FreshBut(None)) /\ out' = out
      BY <1>1 DEF Transition
    <2>2. Stored' = None \/ Stored' = Stored
      BY <2>1, <1>0, ProgressAssumption DEF Becomes, Stored
    <2> QED BY <2>1, <2>2, QuietOut
  <1>2. CASE Current(l)
    <2> DEFINE new == Moved(l, p, st)
    <2>1. Becomes(l.id, new, FreshBut(l.id))
      BY <1>2 DEF Transition
    <2>2. out' = IF new = entries[l.id] THEN out
                 ELSE [out EXCEPT ![t] = [id |-> l.id, item |-> new, cleared |-> FALSE]]
      BY <1>2 DEF Transition
    <2>3. entries[l.id] # None
      BY <1>2 DEF Current, Fresh, Present
    <2>4. new # None
      <3>1. Terminal(entries[l.id]) => new = entries[l.id]
        BY DEF Moved
      <3>2. ~Terminal(entries[l.id]) => new \in Item
        <4> SUFFICES ASSUME ~Terminal(entries[l.id]) PROVE new \in Item
          OBVIOUS
        <4> DEFINE q == Sanitize(p)
                   r == IF q > entries[l.id].progress THEN q ELSE entries[l.id].progress
        <4>1. entries[l.id] \in Item /\ q \in 0 .. Full /\ l.gen \in Gens
          BY <1>0, <2>3, SanitizeType DEF StoreInv, Entries, Lease
        <4>2. r \in 0 .. Full
          BY <4>1 DEF Item
        <4>3. new = [gen |-> l.gen, progress |-> r, state |-> st]
          BY DEF Moved
        <4> HIDE DEF new, r
        <4> QED BY <4>1, <4>2, <4>3 DEF Item
      <3> HIDE DEF new
      <3> QED BY <2>3, <3>1, <3>2, ProgressAssumption
    <2> HIDE DEF new
    <2>5. entries'[l.id] = new /\ \A j \in Ids \ {l.id} : entries'[j] = None \/ entries'[j] = entries[j]
      BY <1>0, <2>1 DEF Becomes
    <2>6. new \in Item
      BY <1>0, <2>4, <2>5 DEF Entries
    <2>7. CASE new = entries[l.id]
      BY <1>0, <2>2, <2>5, <2>7, QuietOut DEF Stored
    <2>8. CASE new # entries[l.id]
      <3>1. Writes(t, l.id, new)
        BY <2>2, <2>5, <2>6, <2>8 DEF Writes
      <3> QED BY <3>1, <1>0, WritesTell
    <2> QED BY <2>7, <2>8
  <1> QED BY <1>1, <1>2

\* The steps that send nothing.
LEMMA SilentlyTells ==
    ASSUME BarInv, StoreInv', Silently
    PROVE  OutStep
  <1>0. Drawn \in Ids /\ entries' \in Entries /\ StoreInv /\ BarType
    BY BarAssumption DEF BarInv, StoreInv
  <1>1. ASSUME NEW t \in Threads, NEW i \in Ids, Start(t, i) PROVE OutStep
    <2> DEFINE new == [gen |-> clock + 1, progress |-> 0, state |-> "Running"]
    <2>1. Becomes(i, new, RoomForOne(FreshBut(i))) /\ out[t] = None
          /\ out' = [out EXCEPT ![t] = [id |-> i, item |-> new, cleared |-> FALSE]]
      BY <1>1 DEF Start
    <2>2. new # None
      <3>1. clock + 1 \in Gens
        BY <1>1, <1>0, ProgressAssumption DEF Start, StoreInv, Gens
      <3>2. new \in Item
        BY <3>1, ProgressAssumption DEF Item, States
      <3> HIDE DEF new
      <3> QED BY <3>2, ProgressAssumption
    <2> HIDE DEF new
    <2>3. entries'[i] = new /\ \A j \in Ids \ {i} : entries'[j] = None \/ entries'[j] = entries[j]
      BY <2>1 DEF Becomes
    <2>4. Writes(t, i, new)
      BY <1>0, <2>1, <2>2, <2>3 DEF Writes, Entries
    <2> QED BY <1>0, <2>1, <2>4, WritesTell
  <1>2. ASSUME NEW t \in Threads, NEW u \in Threads, Share(t, u) PROVE OutStep
    BY <1>0, <1>2, QuietOut DEF Share, store, Stored
  <1>3. ASSUME NEW t \in Threads, NEW p \in Raw, NEW st \in {"Running"} \cup Outcomes,
               Report(t, p, st)
        PROVE  OutStep
    <2>1. lease[t] \in Lease /\ st \in States /\ out[t] = None
      BY <1>0, <1>3, ProgressAssumption DEF Report, StoreInv, States
    <2> QED BY <1>0, <1>3, <2>1, TransitionTells DEF Report
  <1>4. ASSUME NEW t \in Threads, DropJob(t) PROVE OutStep
    <2>1. CASE owner[t]
      <3>1. lease[t] \in Lease /\ 0 \in Raw /\ "Cancelled" \in States /\ out[t] = None
        BY <1>0, <1>4, ProgressAssumption DEF DropJob, StoreInv, Raw, States
      <3> QED BY <1>0, <1>4, <2>1, <3>1, TransitionTells DEF DropJob
    <2>2. CASE ~owner[t]
      BY <1>0, <1>4, <2>2, QuietOut DEF DropJob, store, Stored
    <2> QED BY <2>1, <2>2
  <1>5. ASSUME NEW i \in Ids, Expire(i) \/ Claim(i) \/ Unclaim(i) \/ ClearDecide(i)
        PROVE  OutStep
    BY <1>0, <1>5, QuietOut DEF Expire, Claim, Unclaim, ClearDecide, store, Stored
  <1> QED BY <1>1, <1>2, <1>3, <1>4, <1>5 DEF Silently

-----------------------------------------------------------------------------
(* The bar, action by action.                                              *)

\* The clears to hear of stay, are heard of, or are later than every item.
ClearsStep ==
    \A c \in Clears' \cup {minimum'} :
       \/ c \in Clears \cup {minimum, 0}
       \/ c \in Nat /\ c <= clock' /\ (Stored' # None => c <= Stored'.gen)

BarStep ==
    BarType' /\ Learns /\ ClearsStep /\ FenceHolds' /\ OnItsWay' /\ Gone'

\* What the invariant says of the values involved.
LEMMA Values ==
    ASSUME BarInv
    PROVE  /\ Drawn \in Ids /\ clock \in Nat /\ minimum \in Nat /\ excused \in Nat
           /\ \A y \in Item : y.gen \in Nat /\ y.progress \in Nat /\ y # None
           /\ Stored # None => Stored \in Item /\ Stored \in Known
           /\ \A y \in Known : y \in Item
           /\ \A c \in Clears : c \in Nat
           /\ \A c \in Clears \cup {minimum} : c <= clock /\ (Stored # None => c <= Stored.gen)
  <1>1. Drawn \in Ids /\ clock \in Nat /\ minimum \in Nat /\ excused \in Nat
    BY BarAssumption DEF BarInv, StoreInv, BarType
  <1>2. \A y \in Item : y.gen \in Nat /\ y.progress \in Nat /\ y # None
    BY ProgressAssumption DEF Item, Gens
  <1>3. Stored # None => Stored \in Item /\ Stored \in Known
    BY <1>1 DEF BarInv, StoreInv, Entries, Stored, Known
  <1>4. \A y \in Known : y \in Item
    <2>1. \A t \in Threads : out[t] # None => out[t].item \in Item
      BY DEF BarInv, BarType, Event
    <2>2. \A e \in Sent : ~e.cleared => e.item \in Item
      BY DEF BarInv, BarType
    <2> QED BY <1>3, <2>1, <2>2 DEF BarInv, BarType, Known
  <1>5. \A c \in Clears : c \in Nat
    <2>0. Sent \subseteq AnyEvent
      BY DEF BarInv, BarType, Sent
    <2>1. \A e \in Sent : e.item.gen \in Nat
      BY <2>0 DEF AnyEvent
    <2>2. clear.at \in {"Emitting", "Answered"} => clear.gen \in Nat
      BY DEF BarInv, StoreInv, Commands, Idle
    <2> QED BY <2>1, <2>2 DEF Clears
  <1>6. \A c \in Clears \cup {minimum} : c <= clock /\ (Stored # None => c <= Stored.gen)
    BY DEF BarInv, Timely
  <1> QED BY <1>1, <1>2, <1>3, <1>4, <1>5, <1>6

\* A step of the bar as described keeps the invariant.
LEMMA BarKept ==
    ASSUME BarInv, StoreInv', StoredStep, BarStep
    PROVE  BarInv'
  <1>1. \A y \in Known' : y \in Item
    BY Values DEF BarStep, Learns, StoredStep, Known
  <1>2. /\ StoredIsLast' /\ EndIsAhead'
        /\ \A y \in Known' : y.gen <= clock'
    BY <1>1, OrderKept DEF BarStep
  <1>3. \A c \in Clears' \cup {minimum'} : c <= clock' /\ (Stored' # None => c <= Stored'.gen)
    <2> SUFFICES ASSUME NEW c \in Clears \cup {minimum, 0}
                 PROVE  c <= clock' /\ (Stored' # None => c <= Stored'.gen)
      BY DEF BarStep, ClearsStep
    <2>1. /\ c \in Nat /\ c <= clock /\ (Stored # None => c <= Stored.gen)
          /\ clock \in Nat /\ clock' \in Nat /\ clock' >= clock
          /\ Stored' # None => Stored'.gen \in Nat
          /\ Stored # None => Stored.gen \in Nat
      BY Values DEF StoredStep
    <2> QED BY <2>1 DEF StoredStep
  <1> QED BY <1>2, <1>3 DEF BarInv, Timely, BarStep

\* The steps of the native side that send nothing.
LEMMA SilentlyStep ==
    ASSUME BarInv, StoreInv', StoredStep, Silently
    PROVE  BarStep
  <1>0. OutStep /\ UNCHANGED <<channel, hook>> /\ Forget
    BY SilentlyTells DEF Silently
  <1>1. Sent' = Sent /\ UNCHANGED <<phase, item, minimum, asked, reply, channel>>
    BY <1>0 DEF Sent, hook
  <1>2. Clears' = Clears
    <2>1. clear' = clear \/ (clear = Idle /\ clear'.at = "Decided")
      BY DEF Silently, Start, Share, Report, DropJob, Expire, Claim, Unclaim, ClearDecide
    <2>2. clear = Idle => clear.at = "Idle"
      BY DEF Idle
    <2> QED BY <1>1, <2>1, <2>2 DEF Clears
  <1>3. Learns
    BY <1>0, <1>1 DEF Learns, Known, OutStep
  <1>4. BarType'
    <2>1. excused' \in Nat
      BY <1>0, Values DEF Forget, Stored
    <2> QED BY <1>0, <1>1, <2>1 DEF BarInv, BarType, OutStep
  <1>5. ClearsStep /\ FenceHolds'
    BY <1>1, <1>2 DEF ClearsStep, BarInv, FenceHolds
  <1>6. OnItsWay'
    <2> SUFFICES ASSUME phase = "Settled", Stored' # None, Stored' = Stored PROVE OnItsWay'
      BY <1>0, <1>1 DEF OnItsWay, OutStep
    <2>1. \A t \in Threads : out[t] = Told(Stored) => out'[t] = out[t]
      <3>1. \A t \in Threads : out[t] = Told(Stored) => out[t].item = Stored
        BY DEF Told
      <3>2. Told(Stored) # None
        <4>1. Told(Stored) \in Event
          BY Values DEF Told, Event
        <4> QED BY <4>1, ProgressAssumption
      <3> QED BY <1>0, <3>2 DEF OutStep
    <2>2. Told(Stored') = Told(Stored)
      BY DEF Told
    <2>3. OnItsWay
      BY DEF BarInv
    <2> QED BY <1>1, <2>1, <2>2, <2>3 DEF OnItsWay
  <1>7. Gone'
    <2> SUFFICES ASSUME Stored' = None, NEW y \in Known'
                 PROVE  \/ y.gen <= excused'
                        \/ phase' = "Settled" /\ \E c \in Clears' \cup {minimum'} : y.gen < c
      BY DEF Gone
    <2>1. y \in Known
      BY <1>3 DEF Learns, Known
    <2>2. CASE Stored # None
      <3>1. excused' = Stored.gen
        BY <1>0, <2>2 DEF Forget, Stored
      <3> QED BY <2>1, <2>2, <3>1 DEF BarInv, StoredIsLast
    <2>3. CASE Stored = None
      <3>1. excused' = excused
        BY <1>0, <2>3 DEF Forget, Stored
      <3> QED BY <1>1, <1>2, <2>1, <2>3, <3>1 DEF BarInv, Gone
    <2> QED BY <2>2, <2>3
  <1> QED BY <1>3, <1>4, <1>5, <1>6, <1>7 DEF BarStep

\* A thread sends its event.
LEMMA SendProgressStep ==
    ASSUME BarInv, NEW t \in Threads, SendProgress(t)
    PROVE  BarStep
  <1>1. /\ UNCHANGED <<store, lease, owner, live, clear, phase, item, minimum, asked, reply, excused>>
        /\ out[t] # None /\ out' = [out EXCEPT ![t] = None]
        /\ channel' = Append(channel, out[t])
    BY DEF SendProgress, Emit, hook
  <1>2. /\ out \in [Threads -> Event \cup {None}] /\ out[t] \in Event /\ ~out[t].cleared
        /\ out[t].item \in Item
    BY <1>1 DEF BarInv, BarType, Event
  <1>3. out[t] \in AnyEvent
    <2>1. \A i \in Item : i \in [gen : Nat, progress : 0 .. Full, state : States]
      BY DEF Item, Gens
    <2> QED BY <1>2, <2>1 DEF Event, AnyEvent
  <1>4. channel' \in Seq(AnyEvent) /\ Sent' = Sent \cup {out[t]}
    BY <1>1, <1>3, SentAppend DEF BarInv, BarType
  <1>5. /\ out' \in [Threads -> Event \cup {None}] /\ out'[t] = None
        /\ \A u \in Threads \ {t} : out'[u] = out[u]
    BY <1>1, <1>2
  <1>6. Stored' = Stored /\ clock' = clock /\ Clears' = Clears
    BY <1>1, <1>2, <1>4 DEF Clears, Stored, store
  <1>7. Known' \subseteq Known
    BY <1>1, <1>2, <1>4, <1>5, <1>6 DEF Known
  <1>8. BarType'
    BY <1>1, <1>2, <1>4, <1>5 DEF BarInv, BarType
  <1>9. OnItsWay'
    <2>1. Told(Stored') = Told(Stored)
      BY <1>6 DEF Told
    <2>2. \A u \in Threads : out[u] = Told(Stored) => out'[u] = Told(Stored) \/ Told(Stored) \in Sent'
      BY <1>4, <1>5
    <2>3. OnItsWay
      BY DEF BarInv
    <2> QED BY <1>1, <1>4, <1>6, <2>1, <2>2, <2>3 DEF OnItsWay
  <1> QED BY <1>1, <1>6, <1>7, <1>8, <1>9 DEF BarStep, BarInv, Learns, ClearsStep, FenceHolds, Gone

\* clear_progress clears the store, or spares the bar of a live download.
LEMMA ClearStoreStep ==
    ASSUME BarInv, StoreInv', StoredStep, BarClearStore
    PROVE  BarStep
  <1>1. /\ UNCHANGED <<out, channel, phase, item, minimum, asked, reply>> /\ clear.at = "Decided"
        /\ excused' = IF clear.id = Drawn /\ phase # "Settled" THEN clock ELSE excused
    BY DEF BarClearStore, ClearStore, hook
  <1>2. Sent' = Sent /\ clear \in Commands /\ clear.id \in Ids
    BY <1>1 DEF Sent, BarInv, StoreInv, Idle, Commands
  <1>3. BarType'
    BY <1>1, <1>2, Values DEF BarInv, BarType
  <1>4. FenceHolds'
    BY <1>1 DEF BarInv, FenceHolds
  <1>5. CASE UNCHANGED store
    <2>1. /\ clear' = [clear EXCEPT !.at = "Answered", !.gen = entries[clear.id].gen]
          /\ entries[clear.id] # None
      <3>1. clock + 1 # clock
        BY Values
      <3> QED BY <1>5, <3>1 DEF BarClearStore, ClearStore, store
    <2>2. Stored' = Stored /\ clock' = clock
      BY <1>5 DEF store, Stored
    <2>3. /\ Clears \subseteq Clears'
          /\ \A c \in Clears' : c \in Clears \/ (clear.id = Drawn /\ c = Stored.gen /\ Stored # None)
      <3>1. clear'.id = clear.id /\ clear'.gen = entries[clear.id].gen
        BY <1>2, <2>1 DEF Commands
      <3>2. \A c \in Clears' : c \in Clears \/ (clear.id = Drawn /\ c = clear'.gen)
        BY <1>1, <1>2, <3>1 DEF Clears
      <3>3. Clears \subseteq Clears'
        BY <1>1, <1>2 DEF Clears
      <3> QED BY <2>1, <3>1, <3>2, <3>3 DEF Stored
    <2>4. ClearsStep
      <3>1. Stored # None => Stored.gen \in Nat /\ Stored.gen <= clock
        BY Values DEF BarInv, Timely
      <3> QED BY <1>1, <2>2, <2>3, <3>1 DEF ClearsStep
    <2>5. Known' = Known
      BY <1>1, <1>2, <2>2 DEF Known
    <2>6. OnItsWay'
      BY <1>1, <1>2, <2>2 DEF BarInv, OnItsWay, Told
    <2>7. Gone'
      <3> SUFFICES ASSUME Stored = None, NEW y \in Known
                   PROVE  \/ y.gen <= excused'
                          \/ phase' = "Settled" /\ \E c \in Clears' \cup {minimum'} : y.gen < c
        BY <2>2, <2>5 DEF Gone
      <3>1. clear.id # Drawn
        BY <2>1 DEF Stored
      <3> QED BY <1>1, <2>3, <3>1 DEF BarInv, Gone
    <2> QED BY <1>3, <1>4, <2>4, <2>5, <2>6, <2>7 DEF BarStep, Learns
  <1>6. CASE /\ clock' = clock + 1
             /\ clear' = [clear EXCEPT !.at = "Emitting", !.gen = clock + 1]
             /\ entries' = [entries EXCEPT ![clear.id] = None]
    <2>1. clear'.at = "Emitting" /\ clear'.id = clear.id /\ clear'.gen = clock + 1
      BY <1>2, <1>6 DEF Commands
    <2>2. Stored' = IF clear.id = Drawn THEN None ELSE Stored
      BY <1>2, <1>6, Values DEF BarInv, StoreInv, Entries, Stored
    <2>3. Clears' = Clears \cup (IF clear.id = Drawn THEN {clock + 1} ELSE {})
      BY <1>1, <1>2, <2>1 DEF Clears
    <2>4. ClearsStep
      BY <1>1, <1>6, <2>2, <2>3, Values DEF ClearsStep
    <2>5. Learns
      BY <1>1, <1>2, <2>2 DEF Learns, Known
    <2>6. OnItsWay'
      BY <1>1, <1>2, <2>2 DEF BarInv, OnItsWay, Told
    <2>7. Gone'
      <3> SUFFICES ASSUME Stored' = None, NEW y \in Known'
                   PROVE  \/ y.gen <= excused'
                          \/ phase' = "Settled" /\ \E c \in Clears' \cup {minimum'} : y.gen < c
        BY DEF Gone
      <3>1. y \in Known /\ y.gen <= clock /\ y.gen \in Nat
        BY <2>5, Values DEF Learns, Known, BarInv, Timely
      <3>2. CASE clear.id = Drawn
        <4>1. CASE phase = "Settled"
          <5>1. clock + 1 \in Clears' /\ y.gen < clock + 1
            BY <2>3, <3>1, <3>2, Values
          <5> QED BY <1>1, <4>1, <5>1
        <4>2. CASE phase # "Settled"
          BY <1>1, <3>1, <3>2, <4>2
        <4> QED BY <4>1, <4>2
      <3>3. CASE clear.id # Drawn
        BY <1>1, <2>2, <2>3, <3>1, <3>3 DEF BarInv, Gone
      <3> QED BY <3>2, <3>3
    <2> QED BY <1>3, <1>4, <2>4, <2>5, <2>6, <2>7 DEF BarStep
  <1> QED BY <1>5, <1>6 DEF BarClearStore, ClearStore

\* The cleared event is sent.
LEMMA SendClearedStep ==
    ASSUME BarInv, SendCleared
    PROVE  BarStep
  <1> DEFINE i == [gen |-> clear.gen, progress |-> 0, state |-> "Cancelled"]
             e == [id |-> clear.id, cleared |-> TRUE, item |-> i]
  <1>1. /\ UNCHANGED <<store, lease, owner, out, live, phase, item, minimum, asked, reply, excused>>
        /\ clear.at = "Emitting" /\ clear' = [clear EXCEPT !.at = "Answered"]
        /\ channel' = Append(channel, e)
    BY DEF SendCleared, ClearEmit, hook
  <1>2. clear \in Commands
    BY <1>1 DEF BarInv, StoreInv, Idle
  <1>3. clear'.id = clear.id /\ clear'.gen = clear.gen /\ clear'.at = "Answered"
    BY <1>1, <1>2 DEF Commands
  <1>4. e \in AnyEvent /\ e.cleared /\ e.id = clear.id /\ e.item.gen = clear.gen
    <2>1. i \in [gen : Nat, progress : 0 .. Full, state : States]
      BY <1>2, ProgressAssumption DEF Commands, States
    <2>2. i.gen = clear.gen
      OBVIOUS
    <2> HIDE DEF i
    <2>3. e \in AnyEvent
      BY <1>2, <2>1 DEF AnyEvent, Commands
    <2> QED BY <2>2, <2>3
  <1> HIDE DEF e
  <1>5. channel' \in Seq(AnyEvent) /\ Sent' = Sent \cup {e}
    BY <1>1, <1>4, SentAppend DEF BarInv, BarType
  <1>6. Stored' = Stored /\ clock' = clock
    BY <1>1 DEF Stored, store
  <1>7. Clears' = Clears
    <2>1. \A c : c \in Clears' => c \in Clears
      BY <1>1, <1>3, <1>4, <1>5 DEF Clears
    <2>2. \A c : c \in Clears => c \in Clears'
      BY <1>1, <1>3, <1>4, <1>5 DEF Clears
    <2> QED BY <2>1, <2>2
  <1>8. Known' = Known
    BY <1>1, <1>4, <1>5, <1>6 DEF Known
  <1>9. BarType'
    BY <1>1, <1>4, <1>5 DEF BarInv, BarType
  <1>10. OnItsWay'
    BY <1>1, <1>5, <1>6 DEF BarInv, OnItsWay, Told
  <1> QED BY <1>1, <1>6, <1>7, <1>8, <1>9, <1>10
          DEF BarStep, BarInv, Learns, ClearsStep, FenceHolds, Gone

\* The hook subscribes.
LEMMA MountStep ==
    ASSUME BarInv, Mount
    PROVE  BarStep
  <1>1. /\ UNCHANGED <<vars, channel, item, minimum, asked, reply, excused>>
        /\ phase = "Unmounted" /\ phase' = "Listening"
    BY DEF Mount
  <1>2. Sent' = Sent /\ Stored' = Stored /\ Known' = Known /\ Clears' = Clears
    BY <1>1 DEF Sent, Stored, Known, Clears, vars, store
  <1>3. BarType'
    BY <1>1, <1>2 DEF BarInv, BarType, vars
  <1> QED BY <1>1, <1>2, <1>3
          DEF BarStep, BarInv, Learns, ClearsStep, FenceHolds, Gone, OnItsWay

\* The settled hook starts over and asks.
LEMMA SettleStep ==
    ASSUME BarInv, Settle
    PROVE  BarStep
  <1>1. /\ UNCHANGED <<vars, channel, reply, excused>>
        /\ phase = "Listening" /\ phase' = "Settled"
        /\ item' = None /\ minimum' = 0 /\ asked' = "Waiting"
    BY DEF Settle
  <1>2. Sent' = Sent /\ Stored' = Stored /\ Known' \subseteq Known /\ Clears' = Clears
    BY <1>1 DEF Sent, Stored, Known, Clears, vars, store
  <1>3. BarType'
    BY <1>1, <1>2 DEF BarInv, BarType, vars
  <1> QED BY <1>1, <1>2, <1>3
          DEF BarStep, BarInv, Learns, ClearsStep, FenceHolds, Gone, OnItsWay

\* get_progress answers with what the store holds after it.
LEMMA AskStep ==
    ASSUME BarInv, StoreInv', StoredStep, Ask
    PROVE  BarStep
  <1>1. /\ UNCHANGED <<clock, lease, owner, out, live, clear, channel, phase, item, minimum>>
        /\ asked = "Waiting" /\ asked' = "Answered" /\ reply' = Answer(Drawn) /\ Forget
    BY DEF Ask, Get
  <1>2. reply' = Stored' /\ (Stored' = None \/ Stored' = Stored)
    <2>1. CASE Drawn \in Fresh
      <3>1. Becomes(Drawn, entries[Drawn], FreshBut(Drawn)) /\ reply' = entries[Drawn]
        BY <1>1, <2>1 DEF Ask, Get, Answer
      <3> QED BY <3>1, Values DEF Becomes, Stored
    <2>2. CASE Drawn \notin Fresh
      <3>1. Becomes(None, None, FreshBut(None)) /\ reply' = None
        BY <1>1, <2>2 DEF Ask, Get, Answer
      <3> QED BY <2>2, <3>1, Values, ProgressAssumption DEF Becomes, Stored
    <2> QED BY <2>1, <2>2
  <1>3. Sent' = Sent /\ Clears' = Clears
    BY <1>1 DEF Sent, Clears
  <1>4. Learns
    BY <1>1, <1>2, <1>3 DEF Learns, Known
  <1>5. BarType'
    <2>1. excused' \in Nat
      BY <1>1, Values DEF Forget, Stored
    <2>2. reply' \in Item \cup {None}
      BY <1>2 DEF StoredStep
    <2> QED BY <1>1, <1>3, <2>1, <2>2 DEF BarInv, BarType
  <1>6. OnItsWay'
    BY <1>1, <1>2 DEF OnItsWay
  <1>7. Gone'
    <2> SUFFICES ASSUME Stored' = None, NEW y \in Known'
                 PROVE  \/ y.gen <= excused'
                        \/ phase' = "Settled" /\ \E c \in Clears' \cup {minimum'} : y.gen < c
      BY DEF Gone
    <2>1. y \in Known
      BY <1>4 DEF Learns, Known
    <2>2. CASE Stored # None
      <3>1. excused' = Stored.gen
        BY <1>1, <2>2 DEF Forget, Stored
      <3> QED BY <2>1, <2>2, <3>1 DEF BarInv, StoredIsLast
    <2>3. CASE Stored = None
      <3>1. excused' = excused
        BY <1>1, <2>3 DEF Forget, Stored
      <3> QED BY <1>1, <1>3, <2>1, <2>3, <3>1 DEF BarInv, Gone
    <2> QED BY <2>2, <2>3
  <1> QED BY <1>1, <1>3, <1>4, <1>5, <1>6, <1>7 DEF BarStep, BarInv, ClearsStep, FenceHolds

\* newestProgress: the displayed stored item is not replaced, the stored item
\* is displayed when it is heard of, and nothing below the fence is.
LEMMA NewestIsStored ==
    ASSUME BarInv, NEW y \in Known
    PROVE  /\ Newest(item, y) \in {item, y}
           /\ Newest(item, y) # None => Newest(item, y).gen >= minimum
           /\ Stored # None /\ item = Stored => Newest(item, y) = Stored
           /\ Stored # None /\ y = Stored => Newest(item, y) = Stored
  <1>1. /\ y \in Item /\ (item # None => item \in Item /\ item \in Known)
        /\ \A x \in Item : x.gen \in Nat /\ x.progress \in Nat
        /\ Stored # None => Stored \in Item /\ minimum <= Stored.gen
        /\ minimum \in Nat
    BY Values DEF Known
  <1>2. Newest(item, y) \in {item, y}
    BY DEF Newest
  <1>3. Newest(item, y) # None => Newest(item, y).gen >= minimum
    <2>1. (Newest(item, y) = y /\ y.gen >= minimum) \/ Newest(item, y) = item
      BY DEF Newest
    <2> QED BY <2>1 DEF BarInv, FenceHolds
  <1>4. ASSUME Stored # None, item = Stored PROVE Newest(item, y) = Stored
    <2>1. /\ y.gen <= Stored.gen
          /\ y.gen = Stored.gen => y.progress <= Stored.progress /\ (Terminal(y) => y = Stored)
      BY <1>4 DEF BarInv, StoredIsLast
    <2>2. CASE y = Stored
      BY <1>2, <1>4, <2>2
    <2>3. CASE y # Stored /\ Supersedes(y, Stored)
      <3>1. y.gen = Stored.gen /\ ~Terminal(y) /\ ~Terminal(Stored) /\ y.progress = Stored.progress
        BY <1>1, <1>4, <2>1, <2>3 DEF Supersedes, Terminal
      <3>2. y.state = Stored.state
        BY <3>1 DEF Terminal
      <3>3. y = Stored
        BY <1>1, <1>4, <3>1, <3>2 DEF Item
      <3> QED BY <2>3, <3>3
    <2>4. CASE ~Supersedes(y, Stored)
      BY <1>4, <2>4 DEF Newest
    <2> QED BY <2>2, <2>3, <2>4
  <1>5. ASSUME Stored # None, y = Stored PROVE Newest(item, y) = Stored
    <2>1. CASE item = None
      BY <1>1, <1>5, <2>1 DEF Newest
    <2>2. CASE item # None /\ item # Stored
      <3>1. /\ item.gen <= Stored.gen
            /\ item.gen = Stored.gen => item.progress <= Stored.progress /\ ~Terminal(item)
        BY <1>1, <1>5, <2>2 DEF BarInv, StoredIsLast
      <3>2. Supersedes(Stored, item)
        BY <1>1, <1>5, <2>2, <3>1 DEF Supersedes, Terminal
      <3> QED BY <1>1, <1>5, <3>2 DEF Newest
    <2>3. CASE item = Stored
      BY <1>5, <2>3, <1>2
    <2> QED BY <2>1, <2>2, <2>3
  <1> QED BY <1>2, <1>3, <1>4, <1>5

\* The answer to get_progress arrives.
LEMMA AnsweredStep ==
    ASSUME BarInv, Answered
    PROVE  BarStep
  <1>1. /\ UNCHANGED <<vars, channel, phase, minimum, excused>>
        /\ asked = "Answered" /\ asked' = "Done" /\ reply' = None
        /\ item' = IF reply = None THEN item ELSE Newest(item, reply)
    BY DEF Answered
  <1>2. Sent' = Sent /\ Stored' = Stored /\ Clears' = Clears
    BY <1>1 DEF Sent, Stored, Clears, vars, store
  <1>3. reply # None => reply \in Known
    BY DEF Known
  <1>4. item' \in {item, reply}
    BY <1>1, <1>3, NewestIsStored
  <1>5. Known' \subseteq Known
    BY <1>1, <1>2, <1>4 DEF Known, vars
  <1>6. BarType'
    BY <1>1, <1>2, <1>4 DEF BarInv, BarType, vars
  <1>7. FenceHolds'
    BY <1>1, <1>3, NewestIsStored DEF BarInv, FenceHolds
  <1>8. OnItsWay'
    <2>1. Told(Stored') = Told(Stored)
      BY <1>2 DEF Told
    <2>2. Stored # None /\ (item = Stored \/ reply = Stored) => item' = Stored
      BY <1>1, <1>3, NewestIsStored
    <2> QED BY <1>1, <1>2, <2>1, <2>2 DEF BarInv, OnItsWay, vars
  <1> QED BY <1>1, <1>2, <1>5, <1>6, <1>7, <1>8 DEF BarStep, BarInv, Learns, ClearsStep, Gone

\* An event arrives.
LEMMA DeliverStep ==
    ASSUME BarInv, Deliver
    PROVE  BarStep
  <1> DEFINE e == Head(channel)
  <1>1. /\ UNCHANGED <<vars, phase, asked, reply, excused>>
        /\ channel # <<>> /\ channel' = Tail(channel)
    BY DEF Deliver
  <1>2. /\ channel' \in Seq(AnyEvent) /\ e \in AnyEvent /\ Sent = Sent' \cup {e}
    BY <1>1, SentTail DEF BarInv, BarType
  <1>3. Stored' = Stored /\ clock' = clock /\ Told(Stored') = Told(Stored)
    BY <1>1 DEF Stored, Told, vars, store
  <1>4. (phase = "Unmounted" \/ e.id # Drawn) => UNCHANGED <<item, minimum>>
    BY DEF Deliver
  <1>5. (phase # "Unmounted" /\ e.id = Drawn /\ e.cleared) =>
           /\ minimum' = Raised(e.item.gen)
           /\ item' = IF item # None /\ item.gen >= e.item.gen THEN item ELSE None
    BY DEF Deliver
  <1>6. (phase # "Unmounted" /\ e.id = Drawn /\ ~e.cleared) =>
           /\ minimum' = minimum
           /\ item' = Newest(item, e.item)
    BY DEF Deliver
  <1> HIDE DEF e
  <1>7. Clears = Clears' \cup (IF e.id = Drawn /\ e.cleared THEN {e.item.gen} ELSE {})
    <2>1. \A c : c \in Clears => c \in Clears' \/ (e.id = Drawn /\ e.cleared /\ c = e.item.gen)
      BY <1>1, <1>2 DEF Clears, vars
    <2>2. \A c : c \in Clears' => c \in Clears
      BY <1>1, <1>2 DEF Clears, vars
    <2>3. e.id = Drawn /\ e.cleared => e.item.gen \in Clears
      BY <1>2 DEF Clears
    <2> QED BY <2>1, <2>2, <2>3
  <1>8. e.id = Drawn /\ ~e.cleared => e.item \in Known /\ e.item \in Item
    <2>1. ~e.cleared => e.item \in Item
      BY <1>2 DEF BarInv, BarType
    <2> QED BY <1>2, <2>1, Values DEF Known
  <1>9. ASSUME item' \in {item, None} \/ item' \in Known, minimum' \in Nat
        PROVE  BarType' /\ Learns
    <2>1. Known' \subseteq Known
      BY <1>1, <1>2, <1>3, <1>9 DEF Known, vars
    <2>2. item' \in Item \cup {None}
      BY <1>9, Values DEF BarInv, BarType
    <2>3. BarType'
      BY <1>1, <1>2, <1>9, <2>2 DEF BarInv, BarType, vars
    <2> QED BY <2>1, <2>3 DEF Learns
  <1>10. Told(Stored).cleared = FALSE /\ Told(Stored).id = Drawn /\ Told(Stored).item = Stored
    BY DEF Told
  <1>11. CASE phase = "Unmounted" \/ e.id # Drawn
    <2>1. UNCHANGED <<item, minimum>>
      BY <1>4, <1>11
    <2>2. BarType' /\ Learns
      BY <1>9, <2>1, Values
    <2>3. ClearsStep /\ FenceHolds'
      BY <1>7, <2>1 DEF ClearsStep, BarInv, FenceHolds
    <2>4. OnItsWay'
      BY <1>1, <1>2, <1>3, <1>10, <1>11, <2>1 DEF BarInv, OnItsWay, vars
    <2>5. Gone'
      BY <1>1, <1>3, <1>7, <1>11, <2>1, <2>2 DEF BarInv, Gone, Learns, Known
    <2> QED BY <2>2, <2>3, <2>4, <2>5 DEF BarStep
  <1>12. CASE phase # "Unmounted" /\ e.id = Drawn /\ e.cleared
    <2>1. /\ e.item.gen \in Clears /\ e.item.gen \in Nat
          /\ minimum' \in {minimum, e.item.gen} /\ minimum' \in Nat
          /\ minimum' >= minimum /\ minimum' >= e.item.gen
      BY <1>5, <1>7, <1>12, Values DEF Raised
    <2>2. item' = IF item # None /\ item.gen >= e.item.gen THEN item ELSE None
      BY <1>5, <1>12
    <2>3. BarType' /\ Learns
      BY <1>9, <2>1, <2>2
    <2>4. ClearsStep
      BY <1>7, <2>1 DEF ClearsStep
    <2>5. FenceHolds'
      BY <2>1, <2>2 DEF BarInv, FenceHolds
    <2>6. OnItsWay'
      <3>1. Stored # None => Stored.gen >= e.item.gen
        BY <2>1, Values
      <3>2. Stored # None /\ item = Stored => item' = Stored
        BY <2>2, <3>1
      <3>3. Told(Stored) \in Sent => Told(Stored) \in Sent'
        BY <1>2, <1>10, <1>12
      <3> QED BY <1>1, <1>3, <3>2, <3>3 DEF BarInv, OnItsWay, vars
    <2>7. Gone'
      <3> SUFFICES ASSUME Stored = None, NEW y \in Known'
                   PROVE  \/ y.gen <= excused'
                          \/ phase' = "Settled" /\ \E c \in Clears' \cup {minimum'} : y.gen < c
        BY <1>3 DEF Gone
      <3>1. y \in Known /\ y.gen \in Nat
        BY <1>3, <2>3, Values DEF Learns, Known
      <3>2. ASSUME NEW c \in Clears \cup {minimum}, y.gen < c
            PROVE  \E d \in Clears' \cup {minimum'} : y.gen < d
        <4>1. CASE c \in Clears'
          BY <3>2, <4>1
        <4>2. CASE c \in {minimum, e.item.gen}
          <5>1. y.gen < minimum'
            BY <2>1, <3>1, <3>2, <4>2, Values
          <5> QED BY <5>1
        <4> QED BY <1>7, <3>2, <4>1, <4>2
      <3> QED BY <1>1, <3>1, <3>2 DEF BarInv, Gone
    <2> QED BY <2>3, <2>4, <2>5, <2>6, <2>7 DEF BarStep
  <1>13. CASE phase # "Unmounted" /\ e.id = Drawn /\ ~e.cleared
    <2>1. minimum' = minimum /\ item' = Newest(item, e.item) /\ e.item \in Known
      BY <1>6, <1>8, <1>13
    <2>2. BarType' /\ Learns
      BY <1>9, <2>1, NewestIsStored, Values
    <2>3. ClearsStep
      BY <1>7, <2>1 DEF ClearsStep
    <2>4. FenceHolds'
      BY <2>1, NewestIsStored DEF FenceHolds
    <2>5. OnItsWay'
      <3>1. Stored # None /\ item = Stored => item' = Stored
        BY <2>1, NewestIsStored
      <3>2. Stored # None /\ Told(Stored) = e => item' = Stored
        BY <1>10, <2>1, NewestIsStored
      <3> QED BY <1>1, <1>2, <1>3, <3>1, <3>2 DEF BarInv, OnItsWay, vars
    <2>6. Gone'
      BY <1>1, <1>3, <1>7, <1>13, <2>1, <2>2 DEF BarInv, Gone, Learns, Known
    <2> QED BY <2>2, <2>3, <2>4, <2>5, <2>6 DEF BarStep
  <1> QED BY <1>11, <1>12, <1>13

\* The command has answered: its generation is the fence.
LEMMA FenceStep ==
    ASSUME BarInv, Fence
    PROVE  BarStep
  <1>1. /\ UNCHANGED <<store, lease, owner, out, live, channel, phase, asked, reply, excused>>
        /\ clear.at = "Answered" /\ clear' = Idle
    BY DEF Fence, ClearReturn
  <1>2. Sent' = Sent /\ Stored' = Stored /\ clock' = clock /\ Told(Stored') = Told(Stored)
    BY <1>1 DEF Sent, Stored, Told, store
  <1>3. Clears = Clears' \cup (IF clear.id = Drawn THEN {clear.gen} ELSE {})
    BY <1>1, <1>2 DEF Clears, Idle
  <1>4. ASSUME item' \in {item, None}, minimum' \in Nat
        PROVE  BarType' /\ Learns
    <2>1. Known' \subseteq Known
      BY <1>1, <1>2, <1>4 DEF Known
    <2>2. BarType'
      BY <1>1, <1>2, <1>4 DEF BarInv, BarType
    <2> QED BY <2>1, <2>2 DEF Learns
  <1>5. CASE phase = "Unmounted" \/ clear.id # Drawn
    <2>1. UNCHANGED <<item, minimum>>
      BY <1>5 DEF Fence
    <2>2. BarType' /\ Learns
      BY <1>4, <2>1, Values
    <2>3. ClearsStep /\ FenceHolds'
      BY <1>3, <2>1 DEF ClearsStep, BarInv, FenceHolds
    <2>4. OnItsWay'
      BY <1>1, <1>2, <2>1 DEF BarInv, OnItsWay
    <2>5. Gone'
      BY <1>1, <1>2, <1>3, <1>5, <2>1, <2>2 DEF BarInv, Gone, Learns, Known
    <2> QED BY <2>2, <2>3, <2>4, <2>5 DEF BarStep
  <1>6. CASE phase # "Unmounted" /\ clear.id = Drawn
    <2>0. /\ minimum' = Raised(clear.gen)
          /\ item' = IF item # None /\ item.gen < clear.gen THEN None ELSE item
      BY <1>6 DEF Fence
    <2>1. /\ clear.gen \in Clears /\ clear.gen \in Nat
          /\ minimum' \in {minimum, clear.gen} /\ minimum' \in Nat
          /\ minimum' >= minimum /\ minimum' >= clear.gen
      BY <1>3, <1>6, <2>0, Values DEF Raised
    <2>3. BarType' /\ Learns
      BY <1>4, <2>0, <2>1
    <2>4. ClearsStep
      BY <1>3, <2>1 DEF ClearsStep
    <2>5. FenceHolds'
      <3>1. item # None => item.gen \in Nat
        BY Values DEF Known
      <3> QED BY <2>0, <2>1, <3>1 DEF BarInv, FenceHolds
    <2>6. OnItsWay'
      <3>1. Stored # None => Stored.gen >= clear.gen /\ Stored.gen \in Nat
        BY <2>1, Values
      <3>2. Stored # None /\ item = Stored => item' = Stored
        BY <2>0, <2>1, <3>1
      <3> QED BY <1>1, <1>2, <3>2 DEF BarInv, OnItsWay
    <2>7. Gone'
      <3> SUFFICES ASSUME Stored = None, NEW y \in Known'
                   PROVE  \/ y.gen <= excused'
                          \/ phase' = "Settled" /\ \E c \in Clears' \cup {minimum'} : y.gen < c
        BY <1>2 DEF Gone
      <3>1. y \in Known /\ y.gen \in Nat
        BY <1>2, <2>3, Values DEF Learns, Known
      <3>2. ASSUME NEW c \in Clears \cup {minimum}, y.gen < c
            PROVE  \E d \in Clears' \cup {minimum'} : y.gen < d
        <4>1. CASE c \in Clears'
          BY <3>2, <4>1
        <4>2. CASE c \in {minimum, clear.gen}
          <5>1. y.gen < minimum'
            BY <2>1, <3>1, <3>2, <4>2, Values
          <5> QED BY <5>1
        <4> QED BY <1>3, <3>2, <4>1, <4>2
      <3> QED BY <1>1, <3>1, <3>2 DEF BarInv, Gone
    <2> QED BY <2>3, <2>4, <2>5, <2>6, <2>7 DEF BarStep
  <1> QED BY <1>5, <1>6

-----------------------------------------------------------------------------
(* The theorems.                                                           *)

\* Nothing is known, sent or displayed at first.
LEMMA BarBegins == BarInit => BarInv
  <1> SUFFICES ASSUME BarInit PROVE BarInv
    OBVIOUS
  <1>1. StoreInv
    BY StoreInit DEF BarInit
  <1>2. /\ Sent = {} /\ Stored = None /\ Known = {} /\ Clears = {}
        /\ item = None /\ minimum = 0 /\ phase = "Unmounted" /\ clock = 0
    <2>1. channel = <<>> /\ clear = Idle /\ clear.at = "Idle" /\ Drawn \in Ids
      BY BarAssumption DEF BarInit, Init, Idle
    <2>2. Sent = {}
      BY <2>1 DEF Sent
    <2>3. \A t \in Threads : out[t] = None
      BY DEF BarInit, Init
    <2>4. Stored = None
      BY <2>1 DEF BarInit, Init, Stored
    <2> QED BY <2>1, <2>2, <2>3, <2>4 DEF BarInit, Init, Known, Clears
  <1>3. BarType
    BY <1>2 DEF BarInit, Init, BarType
  <1> QED BY <1>1, <1>2, <1>3
          DEF BarInv, StoredIsLast, EndIsAhead, Timely, FenceHolds, OnItsWay, Gone

\* Every step of the bar keeps its invariant.
LEMMA BarPreserved == BarInv /\ [BarNext]_barVars => BarInv'
  <1> SUFFICES ASSUME BarInv, [BarNext]_barVars PROVE BarInv'
    OBVIOUS
  <1>1. StoreInv' /\ StoredStep
    BY BarSteps, StoreSteps DEF BarInv
  <1>2. CASE Silently
    BY <1>1, <1>2, SilentlyStep, BarKept
  <1>3. ASSUME NEW t \in Threads, SendProgress(t) PROVE BarInv'
    BY <1>1, <1>3, SendProgressStep, BarKept
  <1>4. CASE BarClearStore
    BY <1>1, <1>4, ClearStoreStep, BarKept
  <1>5. CASE SendCleared
    BY <1>1, <1>5, SendClearedStep, BarKept
  <1>6. CASE Mount
    BY <1>1, <1>6, MountStep, BarKept
  <1>7. CASE Settle
    BY <1>1, <1>7, SettleStep, BarKept
  <1>8. CASE Ask
    BY <1>1, <1>8, AskStep, BarKept
  <1>9. CASE Answered
    BY <1>1, <1>9, AnsweredStep, BarKept
  <1>10. CASE Deliver
    BY <1>1, <1>10, DeliverStep, BarKept
  <1>11. CASE Fence
    BY <1>1, <1>11, FenceStep, BarKept
  <1>12. CASE UNCHANGED barVars
    <2>1. Sent' = Sent /\ Stored' = Stored /\ Known' = Known /\ Clears' = Clears
      BY <1>12 DEF barVars, hook, vars, store, Sent, Stored, Known, Clears
    <2>2. BarType'
      BY <1>12, <2>1 DEF BarInv, BarType, barVars, hook, vars
    <2>3. OnItsWay'
      BY <1>12, <2>1 DEF BarInv, OnItsWay, Told, barVars, hook, vars
    <2> QED BY <1>1, <1>12, <2>1, <2>2, <2>3
            DEF BarInv, StoredIsLast, EndIsAhead, Timely, FenceHolds, Gone, barVars, hook, vars, store
  <1> QED BY <1>2, <1>3, <1>4, <1>5, <1>6, <1>7, <1>8, <1>9, <1>10, <1>11, <1>12 DEF BarNext

\* The store under the hook is the store: what is proved of it holds here too.
THEOREM BarRunsTheStore == BarSpec => Spec
  <1>1. BarInit => Init
    BY DEF BarInit
  <1>2. [BarNext]_barVars => [Next]_vars
    BY BarSteps
  <1> QED BY <1>1, <1>2, PTL DEF BarSpec, Spec

\* The bar and what is known of its id keep in step with the store.
THEOREM BarInvariance == BarSpec => []BarInv
  BY BarBegins, BarPreserved, PTL DEF BarSpec

\* A bar that clear_progress took away stays away: no late event of its job
\* and no late answer of get_progress is displayed past the fence.
THEOREM ClearedBarsStayAway == BarSpec => []FenceHolds
  <1>1. BarInv => FenceHolds
    BY DEF BarInv
  <1> QED BY <1>1, BarInvariance, PTL

\* When nothing is on its way, the hook displays what the store holds; what
\* it displays without the store was dropped without an event.
THEOREM BarConverges == BarSpec => []Converged
  <1>1. BarInv => Converged
    <2> SUFFICES ASSUME BarInv, Quiet PROVE
           /\ Stored # None => item = Stored
           /\ item # None /\ Stored = None => item.gen <= excused
      BY DEF Converged, Stored
    <2>1. Sent = {} /\ Clears = {}
      BY DEF Quiet, Sent, Clears, Idle
    <2>2. Stored # None => item = Stored
      <3> SUFFICES ASSUME Stored # None PROVE item = Stored
        OBVIOUS
      <3>1. Told(Stored) # None
        <4>1. Told(Stored) \in Event
          BY Values DEF Told, Event
        <4> QED BY <4>1, ProgressAssumption
      <3> QED BY <2>1, <3>1 DEF BarInv, OnItsWay, Quiet
    <2>3. ASSUME item # None, Stored = None PROVE item.gen <= excused
      <3>1. item \in Known /\ item.gen \in Nat /\ minimum \in Nat
        BY <2>3, Values DEF Known
      <3>2. item.gen >= minimum
        BY <2>3 DEF BarInv, FenceHolds
      <3> QED BY <2>1, <2>3, <3>1, <3>2 DEF BarInv, Gone
    <2> QED BY <2>2, <2>3
  <1> QED BY <1>1, BarInvariance, PTL

\* newestProgress never goes back.
LEMMA NewestAdvances ==
    ASSUME BarInv, NEW y \in Known, item # None
    PROVE  LET new == Newest(item, y)
           IN  \/ new.gen > item.gen
               \/ /\ new.gen = item.gen /\ new.progress >= item.progress
                  /\ Terminal(item) => Terminal(new)
  <1>1. y \in Item /\ item \in Known /\ item \in Item
    BY Values DEF Known
  <1>2. y.gen \in Nat /\ item.gen \in Nat /\ y.progress \in Nat /\ item.progress \in Nat
    BY <1>1, Values
  <1>3. CASE Newest(item, y) = item
    BY <1>2, <1>3
  <1>4. CASE Newest(item, y) # item
    <2>1. Newest(item, y) = y /\ Supersedes(y, item)
      BY <1>4 DEF Newest
    <2>2. y.gen = item.gen /\ Terminal(y) => y.progress >= item.progress
      BY <1>1 DEF BarInv, EndIsAhead
    <2> QED BY <1>2, <2>1, <2>2 DEF Supersedes, Terminal
  <1> QED BY <1>3, <1>4

\* The bar never runs backwards and never leaves a finished job for a running
\* one, in whatever order the threads' events arrive.
THEOREM BarNeverGoesBack == BarSpec => BarOnlyAdvances
  <1> DEFINE Advances ==
          (item # None /\ item' # None) =>
          \/ item'.gen > item.gen
          \/ /\ item'.gen = item.gen
             /\ item'.progress >= item.progress
             /\ Terminal(item) => Terminal(item')
  <1>1. BarInv /\ [BarNext]_barVars => Advances
    <2> SUFFICES ASSUME BarInv, [BarNext]_barVars, item # None, item' # None PROVE Advances
      OBVIOUS
    <2>0. item \in Item /\ item.gen \in Nat /\ item.progress \in Nat
      BY Values DEF Known
    <2>1. CASE item' = item
      BY <2>0, <2>1
    <2>2. ASSUME NEW y \in Known, item' = Newest(item, y) PROVE Advances
      BY <2>2, NewestAdvances
    <2>3. CASE Answered
      <3>1. reply # None => reply \in Known
        BY DEF Known
      <3> QED BY <2>1, <2>2, <2>3, <3>1 DEF Answered
    <2>4. CASE Deliver
      <3> DEFINE e == Head(channel)
      <3>1. e \in Sent
        <4>1. channel \in Seq(AnyEvent) /\ channel # <<>> /\ channel' = Tail(channel)
          BY <2>4 DEF Deliver, BarInv, BarType
        <4> QED BY <4>1, SentTail
      <3>2. \/ item' \in {item, None}
            \/ e.id = Drawn /\ ~e.cleared /\ item' = Newest(item, e.item)
        BY <2>4 DEF Deliver
      <3> HIDE DEF e
      <3>3. e.id = Drawn /\ ~e.cleared => e.item \in Known
        <4>1. ~e.cleared => e.item \in Item
          BY <3>1 DEF BarInv, BarType
        <4> QED BY <3>1, <4>1, Values DEF Known
      <3> QED BY <2>1, <2>2, <3>2, <3>3
    <2>5. CASE Settle \/ Fence
      BY <2>1, <2>5 DEF Settle, Fence
    <2>6. CASE Silently \/ (\E t \in Threads : SendProgress(t)) \/ BarClearStore \/ SendCleared
      BY <2>1, <2>6 DEF Silently, SendProgress, BarClearStore, SendCleared, hook
    <2>7. CASE Mount \/ Ask \/ UNCHANGED barVars
      BY <2>1, <2>7 DEF Mount, Ask, barVars, hook
    <2> QED BY <2>3, <2>4, <2>5, <2>6, <2>7 DEF BarNext
  <1>2. BarInv /\ [BarNext]_barVars => [Advances]_barVars
    BY <1>1
  <1> QED BY <1>2, BarInvariance, PTL DEF BarSpec, BarOnlyAdvances

=============================================================================
