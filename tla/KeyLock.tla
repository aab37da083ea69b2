------------------------------ MODULE KeyLock ------------------------------
(***************************************************************************)
(* What per-key exclusion promises its callers: a caller asks for a key,   *)
(* is granted it while nobody owns it, may give up waiting, and releases   *)
(* it.  Nothing here says where the mutexes live; KeyedLocks implements it *)
(* with a map whose entries come and go (src-tauri/src/infra/              *)
(* keyed_locks.rs), and its callers rely on no more than this.             *)
(***************************************************************************)
CONSTANTS Procs, Keys

VARIABLES
    waiting,    \* who has asked for a key
    owners      \* who has been granted it

lockVars == <<waiting, owners>>

Init ==
    /\ waiting = [k \in Keys |-> {}]
    /\ owners = [k \in Keys |-> {}]

Ask(p, k) ==
    /\ \A j \in Keys : p \notin waiting[j] \cup owners[j]
    /\ waiting' = [waiting EXCEPT ![k] = @ \cup {p}]
    /\ UNCHANGED owners

Grant(p, k) ==
    /\ p \in waiting[k]
    /\ owners[k] = {}
    /\ waiting' = [waiting EXCEPT ![k] = @ \ {p}]
    /\ owners' = [owners EXCEPT ![k] = {p}]

Withdraw(p, k) ==
    /\ p \in waiting[k]
    /\ waiting' = [waiting EXCEPT ![k] = @ \ {p}]
    /\ UNCHANGED owners

Free(p, k) ==
    /\ p \in owners[k]
    /\ owners' = [owners EXCEPT ![k] = @ \ {p}]
    /\ UNCHANGED waiting

Next ==
    \E p \in Procs, k \in Keys :
       Ask(p, k) \/ Grant(p, k) \/ Withdraw(p, k) \/ Free(p, k)

Spec == Init /\ [][Next]_lockVars

=============================================================================
