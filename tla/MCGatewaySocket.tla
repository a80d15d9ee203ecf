-------------------------- MODULE MCGatewaySocket --------------------------
(* Small instances of GatewaySocket for model checking.                    *)
EXTENDS GatewaySocket, TLC

CONSTANTS s1, s2, k1, k2, A, B

\* One subscription, one fact that changes, and many faults.
Alone(profile, fact) ==
    [profile |-> profile, facts |-> {fact}, discards |-> FALSE, subs |-> {s1}, faults |-> 3,
     conversation |-> [s \in Subs |-> IF s = s1 THEN A ELSE B], auths |-> {"ann"}]

\* Two subscriptions to one conversation: a reload.
Reload(profile) == [Alone(profile, "item") EXCEPT !.conversation = [s \in Subs |-> A],
                                                  !.subs = {s1, s2}, !.faults = 1]

\* Two conversations, while another user signs in.
Switch(profile, failures) ==
    [Alone(profile, "item") EXCEPT !.facts = {}, !.subs = {s1, s2},
                                   !.faults = failures, !.auths = {"ann", "bob"}]

\* A consumer that pages through the history, or gives a reload up.
Discarding == [Alone("verified", "run") EXCEPT !.discards = TRUE, !.faults = 2]

SocketSetupsKept ==
    LET profiles == {"verified", "current-server"}
    IN  {Discarding}
        \cup {Alone(p, f) : p \in profiles, f \in {"run", "item"}}
        \cup {Reload(p) : p \in profiles} \cup {Switch("verified", 2), Switch("current-server", 1)}

DiscardingOnly == {Discarding}

\* Connections are interchangeable.
Symmetry == Permutations(Conns)

==============================================================================
