--------------------------- MODULE MCSpiceSession ----------------------------
(* Small instances of SpiceSession for TLC. *)
EXTENDS SpiceSession

Nothing == [c \in Channels |-> <<>>]
Quiet == [listed |-> <<>>, scripts |-> Nothing, split |-> {}, cuts |-> 0,
          ops |-> 0, faults |-> 0, leaves |-> FALSE]

\* Four channels are opened; sockets fail, the user types and leaves.
Opening ==
    [Quiet EXCEPT
        !.listed = <<"display", "inputs", "cursor">>,
        !.scripts = [Nothing EXCEPT !["main"] = <<"init", "list">>, !["display"] = <<"create">>,
                                    !["inputs"] = <<"data">>, !["cursor"] = <<"data">>],
        !.ops = 1, !.faults = 1, !.leaves = TRUE]

\* The main channel alone, cut anywhere: the agent goes and comes back.
Agents ==
    [Quiet EXCEPT
        !.scripts = [Nothing EXCEPT !["main"] =
            <<"init", "agent", "agent", "agent", "agentUp", "agent", "agent", "agent">>],
        !.split = {"main"}, !.cuts = 1]

\* A display channel cut anywhere, with more messages than its window allows.
Display ==
    [Quiet EXCEPT
        !.listed = <<"display">>,
        !.scripts = [Nothing EXCEPT !["main"] = <<"initAlone", "list">>, !["display"] =
            <<"ping", "setAck", "create", "data", "mark", "data", "mark", "data">>],
        !.split = {"display"}, !.cuts = 1]

SessionScopes == {Opening, Agents, Display}

\* What the theorems assume of the scopes.
ASSUME SessionsOrderly == \A s \in SessionScopes : OrderlyScope(s) /\ WindowSetOnce(s) /\ AgentHeard(s)
=============================================================================
