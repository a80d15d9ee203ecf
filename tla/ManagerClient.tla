---------------------------- MODULE ManagerClient ----------------------------
(***************************************************************************)
(* The ManagerClient (chat-auth/src/manager.ts): the directory of robots,  *)
(* the connections to them and the exchange of a manager session for a     *)
(* robot's session, for the identity that an AuthClient has signed in.     *)
(*                                                                         *)
(* The AuthClient is abstracted to what AuthClient.tla shows of it: it     *)
(* tells its identity, tells its listeners when that changes, and gives a  *)
(* session of the identity that asked for it or rejects.  Its listeners    *)
(* are called one after the other: until the ManagerClient hears of a      *)
(* change (Hears), the host's other listeners run, and may call it.        *)
(* Connections and requests are never the same twice, so a provider is     *)
(* identified with the call that made it.  Parsing, routing, time limits   *)
(* and the wording of errors are left out.                                 *)
(***************************************************************************)
EXTENDS Integers, FiniteSets

CONSTANTS
    ManagerCalls,   \* the calls of a host, each given once
    Identities,
    NoIdentity,     \* `undefined`
    MaxLives,       \* bound on the changes of identity
    ManagerOps      \* the calls the host makes

VARIABLES
    identity,       \* the AuthClient's: who, and how many came before
    manager,        \* the fields of ManagerClient
    robot,          \* the provider each call made
    errand          \* the local variables of the calls

managerVars == <<identity, manager, robot, errand>>

\* cached and subject tell whose session was exchanged.
NoProvider == [made |-> FALSE, generation |-> 0, cached |-> NoIdentity,
               exchange |-> "none", subject |-> NoIdentity, revision |-> 0,
               disposed |-> FALSE, forbidden |-> FALSE]

NoErrand == [op |-> "none", phase |-> "idle", generation |-> 0, sequence |-> 0, page |-> 0,
             provider |-> NoIdentity, revision |-> 0, subject |-> NoIdentity]

ManagerInit ==
    /\ identity \in [who : {NoIdentity} \cup Identities, life : {0}]
    /\ manager = [scope |-> identity.who, generation |-> 0, sequence |-> 0,
                  status |-> "idle", items |-> {}, connections |-> {}, disposed |-> FALSE]
    /\ robot = [o \in ManagerCalls |-> NoProvider]
    /\ errand = [o \in ManagerCalls |-> NoErrand]

-----------------------------------------------------------------------------
(* Helpers.  A world is the state of the ManagerClient in the middle of    *)
(* synchronous code.                                                       *)

World == [manager |-> manager, robot |-> robot, errand |-> errand]

Becomes(w) == manager' = w.manager /\ robot' = w.robot /\ errand' = w.errand

InFlight(e) == e.phase \in {"authorizing", "fetching"}

\* Requests that are aborted reject at once.
Aborted(w, orders) ==
    [w EXCEPT !.errand = [o \in ManagerCalls |->
                             IF o \in orders THEN [w.errand[o] EXCEPT !.phase = "aborted"]
                             ELSE w.errand[o]]]

Waiting(w, p) == {o \in ManagerCalls : w.errand[o].phase = "awaiting"
                                       /\ w.errand[o].provider = p}

\* invalidate() of provider p: what it exchanges at the moment is aborted.
Invalidated(w, p) ==
    LET aborting == Aborted(w, Waiting(w, p))
    IN  [aborting EXCEPT !.robot[p].revision = @ + 1, !.robot[p].cached = NoIdentity,
                         !.robot[p].exchange = "none"]

\* dispose() of all its providers, and of the connections with them.
AllDisposed(w) ==
    LET made == {p \in ManagerCalls : w.robot[p].made}
        aborting == Aborted(w, UNION {Waiting(w, p) : p \in made})
    IN  [aborting EXCEPT
            !.robot = [p \in ManagerCalls |->
                          IF p \in made
                          THEN [w.robot[p] EXCEPT !.revision = @ + 1, !.cached = NoIdentity,
                                                  !.exchange = "none", !.disposed = TRUE]
                          ELSE w.robot[p]],
            !.manager.connections = {}]

\* cancel(): every request is aborted, those of exchanges included.
Cancelled(w) ==
    LET exchanging == {p \in ManagerCalls : w.robot[p].exchange = "exchanging"}
        aborting == Aborted(w, {o \in ManagerCalls : InFlight(w.errand[o])}
                               \cup UNION {Waiting(w, p) : p \in exchanging})
    IN  [aborting EXCEPT
            !.robot = [p \in ManagerCalls |->
                          IF p \in exchanging THEN [w.robot[p] EXCEPT !.exchange = "none"]
                          ELSE w.robot[p]],
            !.manager.sequence = @ + 1,
            !.manager.status = IF @ = "loading" THEN "idle" ELSE @]

\* Faulty: connections outlive the identity they were made for.
ForgetsDirectory(w, who) ==
    [Cancelled(w) EXCEPT !.manager.scope = who, !.manager.generation = @ + 1,
        !.manager.items = {},
        !.manager.status = IF who = NoIdentity THEN "auth_required" ELSE "idle"]

\* #changeScope: what belongs to the identity that left is given up.
ChangesScope(w, who) ==
    [AllDisposed(Cancelled(w)) EXCEPT !.manager.scope = who, !.manager.generation = @ + 1,
        !.manager.items = {},
        !.manager.status = IF who = NoIdentity THEN "auth_required" ELSE "idle"]

Unheard == ~manager.disposed /\ manager.scope # identity.who

\* What #assert() begins with.
CaughtUp == IF Unheard THEN ChangesScope(World, identity.who) ELSE World

\* #assert(generation).
Asserted(w, g) ==
    ~w.manager.disposed /\ g = w.manager.generation /\ w.manager.scope # NoIdentity

\* guard() of a provider.
Guarded(w, p) ==
    /\ Asserted(w, w.robot[p].generation)
    /\ ~w.robot[p].disposed /\ ~w.robot[p].forbidden

\* The call is over.
Over(w, o, phase) == [w EXCEPT !.errand[o].phase = phase]

-----------------------------------------------------------------------------
(* The host's calls.                                                       *)

Begins(o, op) == op \in ManagerOps /\ errand[o].op = "none"

\* loadPage(page): the load that went on is aborted.
LoadPage(o, page) ==
    LET w == CaughtUp
        n == w.manager.sequence + 1
        aborting == Aborted(w, {q \in ManagerCalls : w.errand[q].op = "load"
                                                     /\ InFlight(w.errand[q])})
    IN  /\ Begins(o, "load")
        /\ Becomes(IF Asserted(w, w.manager.generation)
                   THEN [aborting EXCEPT
                            !.manager.sequence = n, !.manager.status = "loading",
                            !.errand[o] = [NoErrand EXCEPT
                                !.op = "load", !.phase = "authorizing", !.sequence = n,
                                !.page = page, !.generation = w.manager.generation]]
                   ELSE [w EXCEPT !.errand[o].op = "load", !.errand[o].phase = "failed"])
        /\ UNCHANGED identity

\* connect(robot), up to the answer to getConnectionInfo.
Connect(o) ==
    LET w == CaughtUp
    IN  /\ Begins(o, "connect")
        /\ Becomes(IF Asserted(w, w.manager.generation)
                   THEN [w EXCEPT !.errand[o] = [NoErrand EXCEPT
                            !.op = "connect", !.phase = "authorizing",
                            !.generation = w.manager.generation]]
                   ELSE [w EXCEPT !.errand[o].op = "connect", !.errand[o].phase = "failed"])
        /\ UNCHANGED identity

\* provider.getSession() of provider p in world w, on behalf of call o: a cached
\* session, the exchange that goes on, or a new one.
AsksSession(w, o, p) ==
    LET r == w.robot[p]
    IN  IF ~Guarded(w, p) THEN Over(w, o, "failed")
        ELSE [w EXCEPT
                !.errand[o].phase = IF r.cached # NoIdentity THEN "given" ELSE "awaiting",
                !.errand[o].subject = r.cached, !.errand[o].provider = p,
                !.errand[o].revision = r.revision,
                !.robot[p].exchange = IF r.cached = NoIdentity /\ @ = "none"
                                      THEN "authorizing" ELSE @]

GetRobotSession(o, p) ==
    LET w == [CaughtUp EXCEPT !.errand[o].op = "session"]
    IN  /\ Begins(o, "session") /\ robot[p].made
        /\ Becomes(AsksSession(w, o, p))
        /\ UNCHANGED identity

\* onSessionInvalid() and invalidate() of a provider.
Invalidate(o, p, refused) ==
    LET w == Invalidated(World, p)
    IN  /\ Begins(o, "invalidate") /\ robot[p].made
        /\ Becomes([w EXCEPT !.robot[p].forbidden = @ \/ refused,
                             !.errand[o].op = "invalidate", !.errand[o].phase = "ok"])
        /\ UNCHANGED identity

\* dispose() of a connection.
Disconnect(o, p) ==
    LET w == Invalidated(World, p)
    IN  /\ Begins(o, "disconnect") /\ p \in manager.connections
        /\ Becomes([w EXCEPT !.robot[p].disposed = TRUE, !.manager.connections = @ \ {p},
                             !.errand[o].op = "disconnect", !.errand[o].phase = "ok"])
        /\ UNCHANGED identity

CancelRequests(o) ==
    /\ Begins(o, "cancel")
    /\ Becomes([Cancelled(World) EXCEPT !.errand[o].op = "cancel", !.errand[o].phase = "ok"])
    /\ UNCHANGED identity

DisposeManager(o) ==
    LET w == AllDisposed(Cancelled(World))
    IN  /\ Begins(o, "dispose") /\ ~manager.disposed
        /\ Becomes([w EXCEPT !.manager.generation = @ + 1, !.manager.status = "disposed",
                             !.manager.items = {}, !.manager.disposed = TRUE,
                             !.errand[o].op = "dispose", !.errand[o].phase = "ok"])
        /\ UNCHANGED identity

-----------------------------------------------------------------------------
(* Answers.  No promise settles between two listeners of the AuthClient.   *)

\* An error of call o: a load reports it when no newer one began, a connection
\* gives up the provider it made.
Fails(o, status) ==
    LET e == errand[o]
        w == Over(World, o, "failed")
    IN  IF e.op = "load" /\ e.sequence = manager.sequence
        THEN [w EXCEPT !.manager.status = status]
        ELSE IF e.op = "connect" /\ robot[o].made
        THEN [Over(Invalidated(w, o), o, "failed") EXCEPT !.robot[o].disposed = TRUE]
        ELSE w

\* The AuthClient gives the session a request needs.
Authorized(o) ==
    /\ ~Unheard /\ errand[o].phase = "authorizing"
    /\ Asserted(World, errand[o].generation)
    /\ Becomes([World EXCEPT !.errand[o].phase = "fetching",
                             !.errand[o].subject = identity.who])
    /\ UNCHANGED identity

\* sequence === this.#directoryGeneration.
InSequence(o) == errand[o].sequence = manager.sequence

\* A page arrives; the first one replaces what is listed.
PageArrives(o) ==
    LET e == errand[o]
    IN  /\ ~Unheard /\ e.op = "load" /\ e.phase = "fetching" /\ InSequence(o)
        /\ Becomes([Over(World, o, "ok") EXCEPT
                       !.manager.status = "ready",
                       !.manager.items = (IF e.page = 1 THEN {} ELSE @)
                                            \cup {<<e.page, e.subject, e.generation>>}])
        /\ UNCHANGED identity

\* The connection info arrives: a provider is made and its first session asked for.
InfoArrives(o) ==
    LET e == errand[o]
        w == [World EXCEPT !.robot[o].made = TRUE, !.robot[o].generation = manager.generation]
    IN  /\ ~Unheard /\ e.op = "connect" /\ e.phase = "fetching"
        /\ Asserted(World, e.generation)
        /\ Becomes(AsksSession(w, o, o))
        /\ UNCHANGED identity

\* exchange(): a session of the manager is given, then exchanged.
SubjectGiven(p) ==
    /\ ~Unheard /\ robot[p].exchange = "authorizing" /\ Guarded(World, p)
    /\ Becomes([World EXCEPT !.robot[p].exchange = "exchanging",
                             !.robot[p].subject = identity.who])
    /\ UNCHANGED identity

Exchanged(p) ==
    /\ ~Unheard /\ robot[p].exchange = "exchanging" /\ Guarded(World, p)
    /\ Becomes([World EXCEPT
                   !.robot[p].exchange = "none", !.robot[p].cached = robot[p].subject,
                   !.errand = [o \in ManagerCalls |->
                                  IF o \in Waiting(World, p)
                                  THEN [errand[o] EXCEPT !.phase = "given",
                                                         !.subject = robot[p].subject]
                                  ELSE errand[o]]])
    /\ UNCHANGED identity

\* It fails; the robot's server may forbid any further one.
ExchangeFails(p, refused) ==
    /\ ~Unheard /\ robot[p].exchange # "none"
    /\ refused => robot[p].exchange = "exchanging"
    /\ Becomes([Aborted(World, Waiting(World, p)) EXCEPT
                   !.robot[p].exchange = "none", !.robot[p].forbidden = @ \/ refused])
    /\ UNCHANGED identity

\* Faulty: what was exchanged is handed over whatever happened since.
StillMade(e) == robot[e.provider].made

\* `guard()` and `current !== revision` after the await.
StillValid(e) == Guarded(World, e.provider) /\ e.revision = robot[e.provider].revision

\* The session is handed over; a connection is complete with it.
SessionHandedOver(o) ==
    LET e == errand[o]
    IN  /\ ~Unheard /\ e.phase = "given"
        /\ Becomes(IF ~StillValid(e) THEN Fails(o, "error")
                   ELSE [Over(World, o, "ok") EXCEPT
                            !.manager.connections = IF e.op = "connect" THEN @ \cup {o} ELSE @])
        /\ UNCHANGED identity

\* A request is refused, or was aborted.
RequestFails(o) ==
    /\ ~Unheard
    /\ \/ errand[o].phase = "aborted" /\ Becomes(Fails(o, "idle"))
       \/ InFlight(errand[o]) /\ Becomes(Fails(o, "error"))
       \/ InFlight(errand[o]) /\ Becomes(Fails(o, "auth_required"))
    /\ UNCHANGED identity

-----------------------------------------------------------------------------
(* The AuthClient and time.                                                *)

IdentityChanges(who) ==
    /\ ~Unheard /\ identity.life < MaxLives /\ who # identity.who
    /\ identity' = [who |-> who, life |-> identity.life + 1]
    /\ UNCHANGED <<manager, robot, errand>>

Hears ==
    /\ Unheard
    /\ Becomes(ChangesScope(World, identity.who))
    /\ UNCHANGED identity

TokenExpires(p) ==
    /\ robot[p].cached # NoIdentity
    /\ robot' = [robot EXCEPT ![p].cached = NoIdentity]
    /\ UNCHANGED <<identity, manager, errand>>

ManagerNext ==
    \/ \E o \in ManagerCalls :
        \/ \E page \in {1, 2} : LoadPage(o, page)
        \/ Connect(o) \/ CancelRequests(o) \/ DisposeManager(o)
        \/ Authorized(o) \/ PageArrives(o) \/ InfoArrives(o)
        \/ SessionHandedOver(o) \/ RequestFails(o)
        \/ \E p \in ManagerCalls :
              \/ GetRobotSession(o, p) \/ Disconnect(o, p)
              \/ \E refused \in BOOLEAN : Invalidate(o, p, refused)
    \/ \E p \in ManagerCalls :
        \/ SubjectGiven(p) \/ Exchanged(p) \/ TokenExpires(p)
        \/ \E refused \in BOOLEAN : ExchangeFails(p, refused)
    \/ \E who \in Identities \cup {NoIdentity} : IdentityChanges(who)
    \/ Hears

ManagerSpec == ManagerInit /\ [][ManagerNext]_managerVars

-----------------------------------------------------------------------------
(* Properties.                                                             *)

\* A session of a robot is handed over only while the identity it was exchanged
\* for is signed in, whenever that identity changed or the provider was
\* invalidated meanwhile (guard, revision).
ExchangedForIdentity ==
    [][\A o \in ManagerCalls :
          errand[o].phase = "given" /\ errand'[o].phase = "ok"
          => /\ errand[o].subject = identity.who
             /\ errand[o].generation \in {0, manager.generation}]_managerVars

\* What the ManagerClient holds belongs to the identity that is signed in: the
\* robots it lists, and the connections it made (#changeScope).
HeldForIdentity ==
    ~Unheard /\ ~manager.disposed =>
        /\ \A item \in manager.items :
              item[2] = identity.who /\ item[3] = manager.generation
        /\ \A p \in manager.connections :
              robot[p].generation = manager.generation /\ ~robot[p].disposed

=============================================================================
