----------------------- MODULE SubscriptionLifecycle -----------------------
(***************************************************************************)
(* What a consumer of the TFRobot gateway may rely on about the lifecycle  *)
(* of its subscriptions, whatever happens to connections, sessions and     *)
(* requests: operable only after an accepted join, and after a loss only   *)
(* when it has joined again and recovered; terminal for good; over at any  *)
(* time.  GatewaySocket implements it.                                     *)
(***************************************************************************)
CONSTANT Subs
VARIABLE life

Stages == {"none", "opening", "joining", "operable", "lost", "rejoining",
           "recovering", "terminal"}

\* Before the first acknowledgement; a lost connection starts over.
Opens(from, to) == from = "none" /\ to \in {"opening", "joining"}
Rejoins(from, to) ==
    \/ from = "opening" /\ to = "joining"
    \/ from = "joining" /\ to = "opening"
    \/ from = "lost" /\ to = "rejoining"

Accepts(from, to) ==
    \/ from = "joining" /\ to = "operable"
    \/ from = "rejoining" /\ to = "recovering"

Recovers(from, to) == from = "recovering" /\ to = "operable"

Loses(from, to) ==
    from \in {"operable", "rejoining", "recovering"} /\ to = "lost"

GivesUp(from, to) == from \notin {"none", "terminal"} /\ to = "terminal"

Ends(from, to) == from # "none" /\ to = "none"

Moves(from, to) ==
    \/ Opens(from, to)
    \/ Rejoins(from, to)
    \/ Accepts(from, to)
    \/ Recovers(from, to)
    \/ Loses(from, to)
    \/ GivesUp(from, to)
    \/ Ends(from, to)

Init == life = [s \in Subs |-> "none"]

\* One event may concern every subscription of a connection.
Next ==
    /\ life' \in [Subs -> Stages]
    /\ \A s \in Subs: life'[s] = life[s] \/ Moves(life[s], life'[s])

Spec == Init /\ [][Next]_life
=============================================================================
