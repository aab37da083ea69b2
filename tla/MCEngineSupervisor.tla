------------------------ MODULE MCEngineSupervisor ------------------------
(* Launches and commands of one or two keys of the engine supervisor.      *)
EXTENDS EngineSupervisor, TLC

CONSTANTS Tabs, Kinds, CommandKinds, StopGens

MCKeys == [tab : Tabs, engine : {"sf"}]

MCLaunches == [key : MCKeys, id : {"sf"}, exe : {"x"}, kind : Kinds]

Plain(kind, k) == [kind |-> kind, key |-> k, gen |-> 0, release |-> FALSE, name |-> None]

MCCommands ==
    {c \in UNION {
        {[Plain("Stop", k) EXCEPT !.gen = g, !.release = r] :
             k \in MCKeys, g \in StopGens, r \in BOOLEAN},
        {[Plain("Exact", k) EXCEPT !.gen = g] : k \in MCKeys, g \in 1..MaxGen},
        {Plain(kind, k) : kind \in {"Kill", "Flag"}, k \in MCKeys},
        {[Plain("Tab", None) EXCEPT !.name = t] : t \in Tabs},
        {[Plain("Engine", None) EXCEPT !.name = "sf"]},
        {[Plain("Executable", None) EXCEPT !.name = "x"]},
        {[Plain("Binary", None) EXCEPT !.name =
             [id |-> "sf", retired |-> "x", current |-> "y"]]},
        {Plain("All", None)}} :
      /\ c.kind \in CommandKinds
      /\ c.kind = "Stop" /\ c.gen = 0 => c.release}

=============================================================================
