--------------------------- MODULE GatewaySocket ---------------------------
(***************************************************************************)
(* The socket side of the TFRobot gateway (chat-gateway-tfrobot): the      *)
(* subscriptions of TFRobotSocketClient (socket.ts) and the connections    *)
(* they lease from TFRobotSocketTransports (socket-transport.ts).          *)
(*                                                                         *)
(* A subscription obtains a session, with the current-server profile       *)
(* probes REST, leases a connection, joins the conversation's room and is  *)
(* established by the server's acknowledgement.  A lost connection is      *)
(* retried by Socket.IO; a forced one is reconnected once by hand after    *)
(* the host's session was invalidated.  After a reconnect the subscription *)
(* joins again and recovers: by the server's replay and a REST read of the *)
(* run (verified), or by a REST rebase of items and run (current-server).  *)
(* A terminal subscription never joins again.                              *)
(*                                                                         *)
(* The server is external: the version of every fact of a conversation,    *)
(* and per connection the rooms joined and one ordered stream of events    *)
(* and acknowledgements, lost when the connection drops.  The consumer of  *)
(* a subscription loads a snapshot once it is established.  Payloads,      *)
(* credentials, diagnostics and error texts are left out.                  *)
(***************************************************************************)
EXTENDS Integers, Sequences, FiniteSets, SequencesExt

CONSTANTS
    Subs,           \* subscriptions, one per call of subscribe
    Conns,          \* connection objects alive at the same time
    Conversations,  \* conversations
    None,           \* no connection
    MaxVersion,     \* bound: changes of a fact on the server
    SocketSetups    \* the instances checked: see SocketInit

VARIABLES
    socketSetup,    \* the instance: profile, facts, subscriptions, bound on faults
    socketDisposed, \* #disposed of the client
    subs,           \* the state of every subscription
    conns,          \* the state of every connection
    current,        \* #current of the transports
    runs,           \* #runs: the run last seen per conversation, by anyone
    world,          \* the server's version of every fact
    faults          \* faults so far

socketVars ==
    <<socketSetup, socketDisposed, subs, conns, current, runs, world, faults>>

Facts == socketSetup.facts
Verified == socketSetup.profile = "verified"
ConversationOf(s) == socketSetup.conversation[s]

\* Nothing is remembered of a conversation's run.
Absent == -1

Zero == [f \in Facts |-> 0]

(* ------------------------------ state ---------------------------------- *)

\* A subscription before subscribe is called.
Unborn ==
    [phase |-> "unborn", auth |-> None, refreshed |-> FALSE,
     conn |-> None, reused |-> FALSE, status |-> "none",
     terminal |-> FALSE, authRequired |-> FALSE,
     accepting |-> TRUE, joinPending |-> FALSE, buffer |-> <<>>,
     attempted |-> FALSE, manual |-> FALSE, revision |-> 0, timer |-> 0, touched |-> Zero,
     recoveries |-> {}, invalidations |-> {},
     loaded |-> FALSE, seen |-> Zero]

\* A subscription that ended: nothing it waits for concerns it any more.
Over == [Unborn EXCEPT !.phase = "over"]

\* A connection that does not exist, or no longer.
Closed ==
    [state |-> "closed", auth |-> None, leases |-> <<>>,
     rooms |-> {}, joins |-> {}, stream |-> <<>>]

\* What the handlers of one turn read and write together.
State == [subs |-> subs, conns |-> conns, current |-> current, runs |-> runs]

Become(g) ==
    /\ subs' = g.subs
    /\ conns' = g.conns
    /\ current' = g.current
    /\ runs' = g.runs

Active(g, s) == g.subs[s].phase \in {"opening", "live"}
Healthy(g, k) == g.conns[k].state = "connected"
Connected(g, s) == g.subs[s].conn # None /\ Healthy(g, g.subs[s].conn)

\* Subscription s with the fields of u replaced.
With(g, s, u) == [g EXCEPT !.subs[s] = u @@ @]

\* lifecycle(): nothing is published for a subscription that is not active.
Lifecycle(g, s, status) ==
    IF Active(g, s) THEN [g EXCEPT !.subs[s].status = status] ELSE g

(* ---------------------------- connections ------------------------------ *)

\* Every unreleased lease of k, in the order acquired, handles an event.
ForLeases(g, k, H(_, _)) ==
    FoldLeft(LAMBDA h, s: IF h.subs[s].conn = k THEN H(h, s) ELSE h,
             g, g.conns[k].leases)

\* close(): listeners are removed before the socket is disconnected, so that
\* no event of this connection is heard again.
CloseConnection(g, k) ==
    [g EXCEPT !.conns[k] = Closed,
              !.current = IF @ = k THEN None ELSE @,
              !.subs = [s \in Subs |-> IF @[s].conn = k
                                       THEN [@[s] EXCEPT !.conn = None]
                                       ELSE @[s]]]

\* #selectHealthy
SelectHealthy(g) ==
    LET healthy == {k \in Conns : Healthy(g, k)}
    IN  IF g.current \in healthy THEN g.current
        ELSE IF healthy # {} THEN CHOOSE k \in healthy : TRUE ELSE None

\* Faulty: the last lease always leaves its connection behind.
ReleaseAndKeep(g, s) ==
    LET k == g.subs[s].conn
    IN  IF k = None THEN g
        ELSE [g EXCEPT !.subs[s].conn = None,
                       !.conns[k].leases = SelectSeq(@, LAMBDA t: t # s)]

\* release(): the last lease of a connection closes it, unless the connection
\* is healthy and the one to retain.
Release(g, s) ==
    LET k == g.subs[s].conn
        h == [g EXCEPT !.subs[s].conn = None,
                       !.conns[k].leases =
                           SelectSeq(@, LAMBDA t: t # s)]
    IN  IF k = None THEN g
        ELSE IF h.conns[k].leases # <<>> THEN h
        ELSE IF ~Healthy(h, k) THEN CloseConnection(h, k)
        ELSE IF SelectHealthy(h) = k THEN [h EXCEPT !.current = k]
        ELSE CloseConnection([h EXCEPT !.current = SelectHealthy(h)], k)

\* disconnect() of a lease
Disconnect(g, s) ==
    LET k == g.subs[s].conn
        h == Release(g, s)
    IN  IF k # None /\ h.conns[k].leases = <<>> /\ h.conns[k].state # "closed"
        THEN CloseConnection(h, k) ELSE h

\* The cleanup of a subscription and, with it, of all it waits for.
Cleanup(g, s, established) ==
    LET h == IF ~established /\ ~g.subs[s].reused
             THEN Disconnect(g, s) ELSE Release(g, s)
    IN  [h EXCEPT !.subs[s] = Over]

\* settleEstablishment with a failure
Fail(g, s) == Cleanup(g, s, FALSE)

\* A terminal subscription drops what it buffered and what it waits for.
BecomesTerminal(g, s, status) ==
    Lifecycle(With(g, s, [accepting |-> FALSE, terminal |-> TRUE,
                          joinPending |-> FALSE, buffer |-> <<>>,
                          revision |-> g.subs[s].revision + 1]), s, status)

\* The connect_error every lease hears when its connection is closed because
\* the identity changed: a network error for each of them.
HearsContextChanged(g, s) ==
    IF ~Active(g, s) \/ g.subs[s].terminal THEN g
    ELSE IF g.subs[s].phase = "opening" THEN Fail(g, s)
    ELSE IF g.subs[s].manual
    THEN With(BecomesTerminal(g, s, "auth-required"), s, [authRequired |-> TRUE])
    ELSE g

\* close(true)
Invalidate(g, k) ==
    IF k = None \/ g.conns[k].state = "closed" THEN g
    ELSE CloseConnection(ForLeases(g, k, HearsContextChanged), k)

\* isolateAuthentication and, with no identity kept, invalidate
Isolate(g, keep) ==
    FoldSet(LAMBDA k, h: IF h.conns[k].auth \in keep THEN h ELSE Invalidate(h, k),
            g, {k \in Conns : g.conns[k].state # "closed"})

\* Faulty: the status is published, the subscription goes on.
EnterAuthRequiredInName(g, s, code) ==
    With(Lifecycle(g, s, "auth-required"), s, [authRequired |-> TRUE])

\* The transport is invalidated for a rejected identity, and only left for a
\* forbidden conversation.
EnterAuthRequired(g, s, code) ==
    LET h == With(BecomesTerminal(g, s, "auth-required"), s, [authRequired |-> TRUE])
    IN  IF code = "authentication" THEN Invalidate(h, g.subs[s].conn)
        ELSE Disconnect(h, s)

(* ------------------------------ joining -------------------------------- *)

\* The connect handler: forget what was buffered, join again.
Joins(g, s) ==
    LET sub == g.subs[s]
        r == sub.revision + 1
    IN  IF ~Active(g, s) THEN g
        ELSE IF sub.terminal THEN Disconnect(g, s)
        ELSE LET h == Lifecycle(With(g, s,
                          [revision |-> r, timer |-> r, accepting |-> FALSE,
                           joinPending |-> TRUE, buffer |-> <<>>]), s, "joining")
             IN  [h EXCEPT !.conns[sub.conn].joins = @ \cup
                     {[sub |-> s, revision |-> r, base |-> sub.touched,
                       again |-> sub.phase = "live"]}]

\* connect() of a lease: a healthy connection calls the connect handler.
Connect(g, s) ==
    LET k == g.subs[s].conn
    IN  IF Healthy(g, k) THEN Joins(g, s)
        ELSE IF g.conns[k].state = "created"
        THEN [g EXCEPT !.conns[k].state = "connecting"]
        ELSE [g EXCEPT !.conns[k].state = "retrying"]

\* An event is handed over, kept until the acknowledgement, or dropped.  What
\* belongs to another conversation of a shared connection is not heard.
Applied(g, s, e) ==
    LET h == [g EXCEPT !.subs[s].touched[e.fact] = @ + 1,
                       !.subs[s].seen[e.fact] = e.version]
    IN  IF e.fact = "run" THEN [h EXCEPT !.runs[e.conversation] = e.version] ELSE h

Realtime(g, s, e) ==
    IF ~Active(g, s) \/ e.conversation # ConversationOf(s) THEN g
    ELSE IF g.subs[s].accepting THEN Applied(g, s, e)
    ELSE IF g.subs[s].joinPending
    THEN [g EXCEPT !.subs[s].buffer = Append(@, e)]
    ELSE g

Flushed(g, s) ==
    FoldLeft(LAMBDA h, e: Applied(h, s, e),
             With(g, s, [buffer |-> <<>>, accepting |-> TRUE, joinPending |-> FALSE]),
             g.subs[s].buffer)

\* parseJoinAcknowledgement: an empty one is accepted on a reconnect, and at
\* first only by the current-server profile.
Accepted(verdict, again) ==
    verdict = "verified" \/ (verdict = "empty" /\ (again \/ ~Verified))

Rejection(verdict) ==
    CASE verdict = "unauthorized" -> "authentication"
      [] verdict = "forbidden"    -> "authorization"
      [] OTHER                    -> "validation"

JoinRejected(g, s, code) ==
    LET h == With(g, s, [joinPending |-> FALSE, buffer |-> <<>>, timer |-> 0])
        k == g.subs[s].conn
    IN  IF g.subs[s].phase = "opening"
        THEN LET f == Fail(Lifecycle(h, s, "subscription-failed"), s)
             IN  IF code = "authentication" THEN Invalidate(f, k) ELSE f
        ELSE IF code = "validation"
        THEN Lifecycle(Disconnect(BecomesTerminal(h, s, h.subs[s].status), s),
                       s, "subscription-failed")
        ELSE EnterAuthRequired(h, s, code)

Established(g, s, verdict) ==
    LET h == With(g, s, [phase |-> "live", timer |-> 0])
        status == IF verdict = "empty" THEN "degraded" ELSE "active"
    IN  Flushed(Lifecycle(h, s, status), s)

\* Accepted again: hand over what was buffered, then ask REST.
Recovering(g, s, j, verdict) ==
    LET h == Flushed(Lifecycle(With(g, s, [timer |-> 0]), s, "recovering"), s)
    IN  [h EXCEPT !.subs[s].recoveries = @ \cup
            {[revision |-> j.revision, base |-> j.base, read |-> <<>>,
              complete |-> verdict = "verified",
              rebase |-> ~Verified /\ verdict = "empty"]}]

SettleJoin(g, j, verdict) ==
    LET s == j.sub
    IN  IF ~Active(g, s) \/ g.subs[s].revision # j.revision THEN g
        ELSE IF ~Accepted(verdict, j.again) THEN JoinRejected(g, s, Rejection(verdict))
        ELSE IF j.again THEN Recovering(g, s, j, verdict)
        ELSE Established(g, s, verdict)

(* ----------------------------- recovery -------------------------------- *)

\* Is the answer of a recovery for the connection the subscription is on?
StillRecovering(g, s, r) ==
    Active(g, s) /\ Connected(g, s) /\ g.subs[s].revision = r.revision

\* Faulty: REST has the last word.
NeverSuperseded(g, s, r, f) == FALSE

\* A realtime observation made since the connection came up is newer.
Superseded(g, s, r, f) == g.subs[s].touched[f] > r.base[f]

\* The run read by REST is published only if it is not the one remembered.
RunRead(g, s, r) ==
    LET c == ConversationOf(s)
        h == [g EXCEPT !.runs[c] = r.read["run"]]
    IN  IF "run" \notin Facts \/ Superseded(g, s, r, "run") THEN g
        ELSE IF g.runs[c] = r.read["run"] THEN h
        ELSE [h EXCEPT !.subs[s].seen["run"] = r.read["run"]]

ItemsRead(g, s, r) ==
    IF ~r.rebase \/ "item" \notin Facts \/ Superseded(g, s, r, "item") THEN g
    ELSE [g EXCEPT !.subs[s].seen["item"] = r.read["item"]]

Recovered(g, s, status) ==
    Lifecycle(With(g, s, [attempted |-> FALSE, manual |-> FALSE,
                          authRequired |-> FALSE, terminal |-> FALSE]), s, status)

\* A rebase ends degraded.  A read of the run ends active only if the server
\* vouches for its replay, and is not needed when a newer run was seen.
RecoverySettled(g, s, r, outcome) ==
    IF ~StillRecovering(g, s, r) THEN g
    ELSE IF outcome \in {"authentication", "authorization"}
    THEN EnterAuthRequired(g, s, outcome)
    ELSE IF outcome = "failure"
    THEN IF /\ ~r.rebase
            /\ r.complete
            /\ "run" \in Facts
            /\ Superseded(g, s, r, "run")
         THEN Recovered(g, s, "active") ELSE g
    ELSE LET h == RunRead(ItemsRead(g, s, r), s, r)
         IN  IF r.rebase THEN Recovered(h, s, "degraded")
             ELSE IF r.complete THEN Recovered(h, s, "active") ELSE h

(* --------------------------- lost connections -------------------------- *)

\* A failed connection attempt.
ConnectError(g, s, code) ==
    IF ~Active(g, s) \/ g.subs[s].terminal THEN g
    ELSE IF g.subs[s].phase = "opening" THEN Fail(g, s)
    ELSE IF g.subs[s].manual \/ code # "network"
    THEN EnterAuthRequired(g, s, "authentication")
    ELSE g

\* May the subscription reconnect by hand after the server dropped it?
MayReconnect(g, s) == ~g.subs[s].attempted

\* The disconnect handler.
Lost(g, s, forced) ==
    LET r == g.subs[s].revision + 1
        h == Lifecycle(With(g, s,
                 [accepting |-> FALSE, joinPending |-> FALSE, buffer |-> <<>>,
                  timer |-> 0, revision |-> r]), s, "reconnecting")
    IN  IF ~Active(g, s) \/ g.subs[s].terminal THEN g
        ELSE IF ~forced THEN h
        ELSE IF ~MayReconnect(h, s) THEN EnterAuthRequired(h, s, "authentication")
        ELSE With(h, s, [attempted |-> TRUE, manual |-> TRUE,
                         invalidations |-> h.subs[s].invalidations \cup {r}])

\* The deadline of a join.
JoinExpired(g, s) ==
    LET h == With(g, s, [revision |-> g.subs[s].revision + 1, timer |-> 0,
                         joinPending |-> FALSE, buffer |-> <<>>])
    IN  IF g.subs[s].phase = "opening"
        THEN Fail(Lifecycle(h, s, "subscription-failed"), s)
        ELSE IF g.subs[s].manual
        THEN EnterAuthRequired(h, s, "authentication")
        ELSE Disconnect(Lifecycle(With(h, s, [accepting |-> FALSE, terminal |-> TRUE]),
                                  s, "subscription-failed"), s)

(* ------------------------------ actions -------------------------------- *)

\* #cancelEstablishment: at most one subscription is being established.
Cancelled(g) ==
    FoldSet(LAMBDA s, h:
                IF h.subs[s].phase \in {"session", "preflight"}
                THEN [h EXCEPT !.subs[s] = Over]
                ELSE IF h.subs[s].phase = "opening" THEN Fail(h, s) ELSE h,
            g, Subs)

Subscribe(s) ==
    /\ ~socketDisposed
    /\ s \in socketSetup.subs
    /\ subs[s].phase = "unborn"
    /\ Become(With(Cancelled(State), s, [phase |-> "session"]))
    /\ UNCHANGED <<socketSetup, socketDisposed, world, faults>>

\* acquire: reuse a healthy connection, or create one.
Acquired(g, s, auth) ==
    LET h == Isolate(g, {auth})
        reusable == SelectHealthy(h)
        free == CHOOSE k \in Conns : h.conns[k].state = "closed"
        k == IF reusable = None THEN free ELSE reusable
        lease == [h EXCEPT !.current = k,
                           !.conns[k].leases = Append(@, s),
                           !.conns[k].auth = auth,
                           !.conns[k].state = IF reusable = None THEN "created" ELSE @]
    IN  Connect(Lifecycle(With(lease, s,
            [phase |-> "opening", conn |-> k, reused |-> reusable # None]),
            s, "connecting"), s)

\* There is a connection object left for an acquisition.
MayAcquire(auth) ==
    LET h == Isolate(State, {auth})
    IN  SelectHealthy(h) # None \/ \E k \in Conns : h.conns[k].state = "closed"

\* The session for the handshake; the current-server profile probes REST.
SessionObtained(s) ==
    /\ subs[s].phase = "session"
    /\ \E auth \in socketSetup.auths:
          /\ MayAcquire(auth)
          /\ Become(IF Verified THEN Acquired(State, s, auth)
                    ELSE With(Isolate(State, {auth}), s,
                              [phase |-> "preflight", auth |-> auth]))
    /\ UNCHANGED <<socketSetup, socketDisposed, world, faults>>

SessionFails(s) ==
    /\ subs[s].phase = "session"
    /\ faults < socketSetup.faults
    /\ \E expired \in BOOLEAN:
          Become([IF expired THEN State ELSE Isolate(State, {}) EXCEPT !.subs[s] = Over])
    /\ faults' = faults + 1
    /\ UNCHANGED <<socketSetup, socketDisposed, world>>

PreflightSucceeds(s) ==
    /\ subs[s].phase = "preflight"
    /\ MayAcquire(subs[s].auth)
    /\ Become(Acquired(State, s, subs[s].auth))
    /\ UNCHANGED <<socketSetup, socketDisposed, world, faults>>

\* A rejected probe is repeated once with another session.
PreflightRepeated(s) ==
    /\ subs[s].phase = "preflight"
    /\ ~subs[s].refreshed
    /\ faults < socketSetup.faults
    /\ \E auth \in socketSetup.auths:
          Become(With(Isolate(State, {auth}), s, [auth |-> auth, refreshed |-> TRUE]))
    /\ faults' = faults + 1
    /\ UNCHANGED <<socketSetup, socketDisposed, world>>

PreflightFails(s) ==
    /\ subs[s].phase = "preflight"
    /\ faults < socketSetup.faults
    /\ \E rejected \in BOOLEAN:
          Become([IF rejected THEN Isolate(State, {}) ELSE State EXCEPT !.subs[s] = Over])
    /\ faults' = faults + 1
    /\ UNCHANGED <<socketSetup, socketDisposed, world>>

\* The deadline of an establishment.
EstablishmentExpires(s) ==
    /\ subs[s].phase = "opening"
    /\ Become(Fail(State, s))
    /\ UNCHANGED <<socketSetup, socketDisposed, world, faults>>

\* A connection comes up; a reconnect has asked for a session again.
Connects(k) ==
    /\ conns[k].state \in {"connecting", "retrying"}
    /\ \E auth \in IF conns[k].state = "connecting" THEN {conns[k].auth}
                   ELSE socketSetup.auths:
          LET up == [State EXCEPT !.conns[k].state = "connected", !.conns[k].auth = auth]
          IN  Become(ForLeases(up, k, Joins))
    /\ UNCHANGED <<socketSetup, socketDisposed, world, faults>>

\* An attempt fails: Socket.IO retries, unless the server rejected it.
ConnectFails(k) ==
    /\ conns[k].state \in {"connecting", "retrying"}
    /\ faults < socketSetup.faults
    /\ \E code \in {"authentication", "authorization", "network"}:
          LET Hears(h, s) == ConnectError(h, s, code)
              down == [State EXCEPT !.conns[k].state =
                          IF code = "network" THEN "retrying" ELSE "dropped"]
          IN  Become(ForLeases(down, k, Hears))
    /\ faults' = faults + 1
    /\ UNCHANGED <<socketSetup, socketDisposed, world>>

\* A connection is lost, with its rooms and all that was under way on it.  An
\* idle one is closed instead of retried.
Drops(k) ==
    /\ conns[k].state = "connected"
    /\ faults < socketSetup.faults
    /\ \E forced \in BOOLEAN:
          LET Hears(h, s) == Lost(h, s, forced)
              down == [State EXCEPT !.conns[k].rooms = {}, !.conns[k].joins = {},
                                    !.conns[k].stream = <<>>,
                                    !.conns[k].state =
                                        IF forced THEN "dropped" ELSE "retrying"]
          IN  Become(IF conns[k].leases = <<>> THEN CloseConnection(State, k)
                     ELSE ForLeases(down, k, Hears))
    /\ faults' = faults + 1
    /\ UNCHANGED <<socketSetup, socketDisposed, world>>

\* The host has dropped the session, or could not: reconnect by hand, if
\* nothing else happened to the subscription.
InvalidationSettles(s) ==
    \E r \in subs[s].invalidations, done \in BOOLEAN:
        /\ done \/ faults < socketSetup.faults
        /\ LET g == [State EXCEPT !.subs[s].invalidations = @ \ {r}]
               usable == subs[s].conn # None
               concerns == /\ Active(g, s)
                           /\ ~Connected(g, s)
                           /\ ~subs[s].authRequired
                           /\ subs[s].manual
                           /\ subs[s].revision = r
           IN  Become(IF ~concerns THEN g
                      ELSE IF done /\ usable
                      THEN Connect(g, s)
                      ELSE EnterAuthRequired(g, s, "authentication"))
        /\ faults' = IF done THEN faults ELSE faults + 1
        /\ UNCHANGED <<socketSetup, socketDisposed, world>>

JoinTimesOut(s) ==
    /\ Active(State, s)
    /\ subs[s].timer # 0
    /\ subs[s].timer = subs[s].revision
    /\ subs[s].phase = "opening" \/ faults < socketSetup.faults
    /\ Become(JoinExpired(State, s))
    /\ faults' = IF subs[s].phase = "opening" THEN faults ELSE faults + 1
    /\ UNCHANGED <<socketSetup, socketDisposed, world>>

\* External: the server answers a join; what it vouches for was sent before.
ServerAnswers(k) ==
    /\ conns[k].state = "connected"
    /\ \E j \in conns[k].joins,
          verdict \in {"verified", "empty", "unauthorized", "forbidden", "invalid"}:
          LET c == ConversationOf(j.sub)
              replay == IF verdict = "verified" /\ j.again /\ "item" \in Facts
                        THEN <<[kind |-> "event", conversation |-> c, fact |-> "item",
                                version |-> world[c]["item"]]>>
                        ELSE <<>>
              joined == Accepted(verdict, j.again)
          IN  /\ joined \/ faults < socketSetup.faults
              /\ conns' = [conns EXCEPT
                    ![k].joins = @ \ {j},
                    ![k].rooms = IF joined THEN @ \cup {c} ELSE @,
                    ![k].stream = @ \o replay \o
                        <<[kind |-> "ack", join |-> j, verdict |-> verdict]>>]
              /\ faults' = IF joined THEN faults ELSE faults + 1
    /\ UNCHANGED <<socketSetup, socketDisposed, subs, current, runs, world>>

\* External: a fact changes and every room of the conversation is told.
ServerChanges(c, f) ==
    /\ world[c][f] < MaxVersion
    /\ world' = [world EXCEPT ![c][f] = @ + 1]
    /\ conns' = [k \in Conns |->
          IF c \in conns[k].rooms
          THEN [conns[k] EXCEPT !.stream = Append(@,
                   [kind |-> "event", conversation |-> c, fact |-> f,
                    version |-> world[c][f] + 1])]
          ELSE conns[k]]
    /\ UNCHANGED <<socketSetup, socketDisposed, subs, current, runs, faults>>

\* The next event or acknowledgement of a connection is handled.
Receives(k) ==
    /\ conns[k].state = "connected"
    /\ conns[k].stream # <<>>
    /\ LET e == Head(conns[k].stream)
           g == [State EXCEPT !.conns[k].stream = Tail(@)]
           Hears(h, s) == Realtime(h, s, e)
       IN  Become(IF e.kind = "ack" THEN SettleJoin(g, e.join, e.verdict)
                  ELSE ForLeases(g, k, Hears))
    /\ UNCHANGED <<socketSetup, socketDisposed, world, faults>>

\* External: the server answers the REST read of a recovery.
RestReads(s) ==
    \E r \in subs[s].recoveries:
        /\ r.read = <<>>
        /\ subs' = [subs EXCEPT ![s].recoveries =
                       (@ \ {r}) \cup {[r EXCEPT !.read = world[ConversationOf(s)]]}]
        /\ UNCHANGED <<socketSetup, socketDisposed, conns, current, runs, world, faults>>

RecoverySettles(s) ==
    \E r \in subs[s].recoveries,
       outcome \in {"success", "failure", "authentication", "authorization"}:
        /\ outcome = "success" => r.read # <<>>
        /\ outcome = "success" \/ faults < socketSetup.faults
        /\ Become(RecoverySettled([State EXCEPT !.subs[s].recoveries = @ \ {r}],
                                  s, r, outcome))
        /\ faults' = IF outcome = "success" THEN faults ELSE faults + 1
        /\ UNCHANGED <<socketSetup, socketDisposed, world>>

\* The consumer loads the snapshot of the conversation (rememberSnapshot).
SnapshotLoaded(s) ==
    /\ subs[s].phase = "live"
    /\ ~subs[s].loaded
    /\ LET c == ConversationOf(s)
           h == With(State, s, [loaded |-> TRUE, seen |-> world[c]])
       IN  Become(IF "run" \in Facts THEN [h EXCEPT !.runs[c] = world[c]["run"]] ELSE h)
    /\ UNCHANGED <<socketSetup, socketDisposed, world, faults>>

\* A page of history, or a snapshot nobody keeps: it is remembered all the same.
SnapshotRemembered(c) ==
    /\ ~socketDisposed
    /\ socketSetup.discards
    /\ "run" \in Facts
    /\ runs' = [runs EXCEPT ![c] = world[c]["run"]]
    /\ UNCHANGED <<socketSetup, socketDisposed, subs, conns, current, world, faults>>

\* dispose() of an established subscription
Unsubscribe(s) ==
    /\ subs[s].phase = "live"
    /\ Become(Cleanup(State, s, TRUE))
    /\ UNCHANGED <<socketSetup, socketDisposed, world, faults>>

\* forgetConversation: the conversation was deleted.
ForgetConversation(c) ==
    /\ ~socketDisposed
    /\ \E s \in Subs : ConversationOf(s) = c /\ subs[s].phase \notin {"unborn", "over"}
    /\ LET concerned == {s \in Subs : ConversationOf(s) = c}
           pending == \E s \in concerned :
                         subs[s].phase \in {"session", "preflight", "opening"}
           g == IF pending THEN Cancelled(State) ELSE State
           h == FoldSet(LAMBDA s, x: IF Active(x, s) THEN Cleanup(x, s, TRUE) ELSE x,
                        g, concerned)
       IN  Become([h EXCEPT !.runs[c] = Absent])
    /\ UNCHANGED <<socketSetup, socketDisposed, world, faults>>

\* dispose() of the client and of its transports
SocketDisposes ==
    /\ ~socketDisposed
    /\ socketDisposed' = TRUE
    /\ LET g == FoldSet(LAMBDA s, x: IF Active(x, s) THEN Cleanup(x, s, TRUE) ELSE x,
                        Cancelled(State), Subs)
           h == FoldSet(LAMBDA k, x: CloseConnection(x, k), g, Conns)
       IN  Become([h EXCEPT !.runs = [c \in Conversations |-> Absent]])
    /\ UNCHANGED <<socketSetup, world, faults>>

SocketInit ==
    /\ socketSetup \in SocketSetups
    /\ socketDisposed = FALSE
    /\ subs = [s \in Subs |-> Unborn]
    /\ conns = [k \in Conns |-> Closed]
    /\ current = None
    /\ runs = [c \in Conversations |-> Absent]
    /\ world = [c \in Conversations |-> Zero]
    /\ faults = 0

SocketNext ==
    \/ \E s \in Subs:
          \/ Subscribe(s)
          \/ SessionObtained(s)
          \/ SessionFails(s)
          \/ PreflightSucceeds(s)
          \/ PreflightRepeated(s)
          \/ PreflightFails(s)
          \/ EstablishmentExpires(s)
          \/ InvalidationSettles(s)
          \/ JoinTimesOut(s)
          \/ RestReads(s)
          \/ RecoverySettles(s)
          \/ SnapshotLoaded(s)
          \/ Unsubscribe(s)
    \/ \E k \in Conns:
          \/ Connects(k)
          \/ ConnectFails(k)
          \/ Drops(k)
          \/ ServerAnswers(k)
          \/ Receives(k)
    \/ \E c \in Conversations:
          \/ \E f \in Facts: ServerChanges(c, f)
          \/ SnapshotRemembered(c)
          \/ ForgetConversation(c)
    \/ SocketDisposes

SocketSpec == SocketInit /\ [][SocketNext]_socketVars

(* ----------------------------- properties ------------------------------ *)

Operable(s) == subs[s].status \in {"active", "degraded"}

\* Leases and connections keep books of each other: a connection is leased
\* exactly by the active subscriptions that hold it, and one that nobody
\* leases is the single healthy connection kept for the next subscription.
LeasesAccounted ==
    /\ \A s \in Subs: subs[s].conn # None =>
          /\ Active(State, s)
          /\ s \in ToSet(conns[subs[s].conn].leases)
    /\ \A k \in Conns: \A s \in ToSet(conns[k].leases): subs[s].conn = k
    /\ \A k \in Conns: conns[k].state # "closed" /\ conns[k].leases = <<>> =>
          /\ conns[k].state = "connected"
          /\ \A l \in Conns \ {k}: conns[l].state = "closed" \/ conns[l].leases # <<>>

\* A subscription that says it has recovered, when the events under way to it
\* were handled.
CaughtUpAgain(s) ==
    LET k == subs[s].conn
    IN  /\ subs[s].phase = "live" /\ subs[s].loaded /\ Operable(s)
        /\ Connected(State, s)
        /\ \A i \in DOMAIN conns[k].stream :
              conns[k].stream[i].kind = "event"
              => conns[k].stream[i].conversation # ConversationOf(s)

\* It shows what the server has: nothing missed while the connection was down,
\* nothing newer overwritten by a REST answer.  Excepted are consumers that
\* discard snapshots they had the gateway load (ReconciledRunIsCurrent).
RecoveredIsCurrent ==
    ~socketSetup.discards =>
        \A s \in Subs : CaughtUpAgain(s) => subs[s].seen = world[ConversationOf(s)]

\* "reconciles the run status through REST after reconnect"
\* (tests/chat-gateway-tfrobot.test.ts:5121): after it, the run on display is the
\* server's.
ReconciledRunIsCurrent ==
    "run" \in Facts =>
        \A s \in Subs : CaughtUpAgain(s) =>
            subs[s].seen["run"] = world[ConversationOf(s)]["run"]

\* The stage of a subscription as its consumer is told.
Life(s) ==
    LET sub == subs[s]
    IN  CASE sub.status \in {"auth-required", "subscription-failed"} -> "terminal"
          [] Operable(s) -> "operable"
          [] sub.status = "recovering" -> "recovering"
          [] sub.status = "joining" ->
                IF sub.phase = "opening" THEN "joining" ELSE "rejoining"
          [] sub.status = "connecting" -> "opening"
          [] sub.status = "reconnecting" ->
                IF sub.phase = "opening" THEN "opening" ELSE "lost"
          [] OTHER -> "none"

Consumer == INSTANCE SubscriptionLifecycle WITH life <- [s \in Subs |-> Life(s)]

\* The subscriptions implement the lifecycle their consumers rely on: after a
\* loss nothing is operable before it has joined again and recovered, and a
\* rejected, refused or expired subscription never comes back.
FollowsLifecycle == Consumer!Spec

=============================================================================
