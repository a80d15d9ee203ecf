------------------------ MODULE ManagerClient_proofs ------------------------
(***************************************************************************)
(* Proofs about ManagerClient.  The invariant is stated of a world, as the *)
(* helpers of ManagerClient are: a call that catches up with a change of   *)
(* identity goes through several of them in one step.                      *)
(*                                                                         *)
(* HeldForIdentity is not inductive.  What a request brings is kept if the *)
(* generation it was begun in is the current one, so the invariant says of *)
(* everything that carries a generation, whether it is listed, connected,  *)
(* on its way, cached or being exchanged, whose it is while that           *)
(* generation lasts.                                                       *)
(***************************************************************************)
EXTENDS ManagerClient, TLAPS

Whoever == Identities \cup {NoIdentity}

Managers ==
    [scope : Whoever, generation : Nat, sequence : Nat,
     status : {"idle", "loading", "ready", "error", "auth_required", "disposed"},
     items : SUBSET ({1, 2} \X Whoever \X Nat), connections : SUBSET ManagerCalls,
     disposed : BOOLEAN]

Providers ==
    [made : BOOLEAN, generation : Nat, cached : Whoever,
     exchange : {"none", "authorizing", "exchanging"}, subject : Whoever, revision : Nat,
     disposed : BOOLEAN, forbidden : BOOLEAN]

Errands ==
    [op : {"none", "load", "connect", "session", "invalidate", "disconnect", "cancel", "dispose"},
     phase : {"idle", "authorizing", "fetching", "awaiting", "given", "aborted", "ok", "failed"},
     generation : Nat, sequence : Nat, page : {0, 1, 2},
     provider : ManagerCalls \cup {NoIdentity}, revision : Nat, subject : Whoever]

Worlds == [manager : Managers, robot : [ManagerCalls -> Providers],
           errand : [ManagerCalls -> Errands]]

\* Who is signed in, and the fields of the ManagerClient, have their types.
ManagerTypeOK ==
    /\ identity.who \in Whoever
    /\ World \in Worlds

-----------------------------------------------------------------------------
(* The invariant.                                                          *)

\* What is listed was listed for the identity of this generation.
ListedInScope(w) ==
    \A item \in w.manager.items :
        item[2] = w.manager.scope /\ item[3] = w.manager.generation

\* A connection was made in this generation, by a call that is over.
Connected(w) ==
    \A p \in w.manager.connections :
        /\ w.robot[p].made /\ ~w.robot[p].disposed
        /\ w.robot[p].generation = w.manager.generation
        /\ w.errand[p].op = "connect" /\ w.errand[p].phase = "ok"

\* A request on its way was begun in this generation.
FlightsCurrent(w) ==
    \A o \in ManagerCalls : InFlight(w.errand[o]) =>
        /\ w.errand[o].generation = w.manager.generation
        /\ w.errand[o].phase = "fetching" => w.errand[o].subject = w.manager.scope
        /\ w.errand[o].op \in {"load", "connect"}
        /\ w.errand[o].op = "load" => w.errand[o].page \in {1, 2}
        /\ ~w.robot[o].made

\* A provider of this generation exchanges, and caches, for its identity.
ProvidersCurrent(w) ==
    \A p \in ManagerCalls :
        /\ w.robot[p].generation <= w.manager.generation
        /\ ~w.robot[p].made => w.robot[p] = NoProvider
        /\ w.robot[p].generation = w.manager.generation =>
              /\ w.robot[p].cached \in {NoIdentity, w.manager.scope}
              /\ w.robot[p].exchange = "exchanging" => w.robot[p].subject = w.manager.scope

\* A call that waits for a session, or was given one, has it of its provider.
SessionOfProvider(w) ==
    \A o \in ManagerCalls : w.errand[o].phase \in {"awaiting", "given"} =>
        LET e == w.errand[o]
            p == e.provider
        IN  /\ p \in ManagerCalls /\ w.robot[p].made
            /\ \/ e.op = "connect" /\ p = o /\ e.generation = w.robot[o].generation
               \/ e.op = "session" /\ e.generation = 0
            /\ e.phase = "given" /\ w.robot[p].generation = w.manager.generation =>
                  e.subject = w.manager.scope

\* A call that is not made yet has no provider either.
NotBegun(w) ==
    \A o \in ManagerCalls : w.errand[o].op = "none" =>
        w.errand[o] = NoErrand /\ ~w.robot[o].made

WInv(w) ==
    /\ w \in Worlds
    /\ ListedInScope(w) /\ Connected(w) /\ FlightsCurrent(w)
    /\ ProvidersCurrent(w) /\ SessionOfProvider(w) /\ NotBegun(w)

IInv == identity.who \in Whoever /\ WInv(World)

-----------------------------------------------------------------------------
(* What the helpers of ManagerClient keep.                                 *)

\* The fields of a world are those of its parts.
LEMMA WorldFields ==
    ASSUME NEW w \in Worlds
    PROVE  /\ w.manager \in Managers
           /\ w.robot \in [ManagerCalls -> Providers]
           /\ w.errand \in [ManagerCalls -> Errands]
           /\ w = [manager |-> w.manager, robot |-> w.robot, errand |-> w.errand]
    BY DEF Worlds

\* Updates of a provider, and of the ManagerClient, within their types.
LEMMA ProviderTyped ==
    ASSUME NEW f \in Providers, NEW n \in Nat, NEW who \in Whoever,
           NEW x \in {"none", "authorizing", "exchanging"}, NEW b \in BOOLEAN
    PROVE  [f EXCEPT !.revision = n, !.cached = who, !.exchange = x, !.disposed = b] \in Providers
    BY DEF Providers

LEMMA StatusTyped ==
    ASSUME NEW m \in Managers, NEW n \in Nat,
           NEW s \in {"idle", "loading", "ready", "error", "auth_required", "disposed"}
    PROVE  LET v == [m EXCEPT !.sequence = n, !.status = s]
           IN  /\ v \in Managers /\ v.scope = m.scope /\ v.generation = m.generation
               /\ v.items = m.items /\ v.connections = m.connections
               /\ v.disposed = m.disposed
    BY DEF Managers

\* Aborting changes only the phases of the calls that are aborted.
LEMMA AbortedFields ==
    ASSUME NEW w \in Worlds, NEW orders \in SUBSET ManagerCalls
    PROVE  /\ Aborted(w, orders) \in Worlds
           /\ Aborted(w, orders).manager = w.manager
           /\ Aborted(w, orders).robot = w.robot
           /\ \A o \in ManagerCalls : Aborted(w, orders).errand[o] =
                 IF o \in orders THEN [w.errand[o] EXCEPT !.phase = "aborted"] ELSE w.errand[o]
<1> DEFINE f == [o \in ManagerCalls |->
                    IF o \in orders THEN [w.errand[o] EXCEPT !.phase = "aborted"] ELSE w.errand[o]]
<1>1. \A o \in ManagerCalls : w.errand[o] \in Errands
    BY WorldFields
<1>2. \A o \in ManagerCalls : [w.errand[o] EXCEPT !.phase = "aborted"] \in Errands
    BY <1>1 DEF Errands
<1>3. f \in [ManagerCalls -> Errands]
    BY <1>1, <1>2
<1>4. Aborted(w, orders) = [w EXCEPT !.errand = f]
    BY DEF Aborted
<1> HIDE DEF f
<1>5. /\ Aborted(w, orders) \in Worlds
      /\ Aborted(w, orders).manager = w.manager
      /\ Aborted(w, orders).robot = w.robot
      /\ Aborted(w, orders).errand = f
    BY <1>3, <1>4 DEF Worlds
<1> QED
    BY <1>5 DEF f

LEMMA NotAborted ==
    ASSUME NEW w \in Worlds, NEW orders \in SUBSET ManagerCalls,
           NEW o \in ManagerCalls, o \notin orders
    PROVE  Aborted(w, orders).errand[o] = w.errand[o]
    BY DEF Aborted, Worlds

\* The calls that are not aborted are where they were.
Aborts(w, v) ==
    \A o \in ManagerCalls : v.errand[o].phase \in {w.errand[o].phase, "aborted"}

LEMMA AbortedAborts ==
    ASSUME NEW w \in Worlds, NEW orders \in SUBSET ManagerCalls
    PROVE  Aborts(w, Aborted(w, orders))
<1>1. \A o \in ManagerCalls : w.errand[o] \in Errands
    BY WorldFields
<1>2. ASSUME NEW o \in ManagerCalls
      PROVE  Aborted(w, orders).errand[o].phase \in {w.errand[o].phase, "aborted"}
  <2>1. Aborted(w, orders).errand[o] =
           IF o \in orders THEN [w.errand[o] EXCEPT !.phase = "aborted"] ELSE w.errand[o]
      BY AbortedFields
  <2>2. [w.errand[o] EXCEPT !.phase = "aborted"].phase = "aborted"
      BY <1>1 DEF Errands
  <2> QED
      BY <2>1, <2>2, Zenon
<1> QED
    BY <1>2 DEF Aborts

\* A step keeps the invariant if it drops at most what is listed, connected or
\* cached, ends at most calls that are no connections, and stays in the
\* generation.
Relinquishes(w, v) ==
    /\ v.manager.scope = w.manager.scope /\ v.manager.generation = w.manager.generation
    /\ v.manager.items \subseteq w.manager.items
    /\ v.manager.connections \subseteq w.manager.connections
    /\ \A p \in ManagerCalls : v.robot[p] = w.robot[p] \/
          /\ v.robot[p].made /\ w.robot[p].made
          /\ v.robot[p].generation = w.robot[p].generation
          /\ v.robot[p].disposed => w.robot[p].disposed \/ p \notin v.manager.connections
          /\ v.robot[p].cached \in {NoIdentity, w.robot[p].cached}
          /\ v.robot[p].exchange = "exchanging" => w.robot[p].exchange = "exchanging"
          /\ v.robot[p].subject = w.robot[p].subject
    /\ \A o \in ManagerCalls : v.errand[o] = w.errand[o] \/
          /\ v.errand[o].phase \in {"aborted", "failed", "ok"}
          /\ v.errand[o].op # "none"
          /\ o \notin v.manager.connections

LEMMA RelinquishingKeeps ==
    ASSUME NEW w, WInv(w), NEW v \in Worlds, Relinquishes(w, v)
    PROVE  WInv(v)
<1>1. w \in Worlds
    BY DEF WInv
<1>2. \A o \in ManagerCalls : w.errand[o] \in Errands /\ w.robot[o] \in Providers
    BY <1>1, WorldFields
<1>3. v.manager.connections \subseteq ManagerCalls
    BY WorldFields DEF Managers
<1>4. ListedInScope(v)
    BY DEF Relinquishes, WInv, ListedInScope
<1>5. Connected(v)
    BY <1>3 DEF Relinquishes, WInv, Connected
<1>6. FlightsCurrent(v)
  <2> SUFFICES ASSUME NEW o \in ManagerCalls, InFlight(v.errand[o])
               PROVE  /\ v.errand[o].generation = v.manager.generation
                      /\ v.errand[o].phase = "fetching" => v.errand[o].subject = v.manager.scope
                      /\ v.errand[o].op \in {"load", "connect"}
                      /\ v.errand[o].op = "load" => v.errand[o].page \in {1, 2}
                      /\ ~v.robot[o].made
      BY DEF FlightsCurrent
  <2>1. v.errand[o] = w.errand[o]
      BY DEF Relinquishes, InFlight
  <2> QED
      BY <2>1 DEF Relinquishes, WInv, FlightsCurrent
<1>7. ProvidersCurrent(v)
    BY DEF Relinquishes, WInv, ProvidersCurrent, NoProvider
<1>8. SessionOfProvider(v)
  <2> SUFFICES ASSUME NEW o \in ManagerCalls, v.errand[o].phase \in {"awaiting", "given"}
               PROVE  LET e == v.errand[o]
                          p == e.provider
                      IN  /\ p \in ManagerCalls /\ v.robot[p].made
                          /\ \/ e.op = "connect" /\ p = o /\ e.generation = v.robot[o].generation
                             \/ e.op = "session" /\ e.generation = 0
                          /\ e.phase = "given" /\ v.robot[p].generation = v.manager.generation =>
                                e.subject = v.manager.scope
      BY DEF SessionOfProvider
  <2>1. v.errand[o] = w.errand[o]
      BY DEF Relinquishes
  <2>2. \A p \in ManagerCalls : /\ w.robot[p].made => v.robot[p].made
                                /\ v.robot[p].generation = w.robot[p].generation
      BY DEF Relinquishes
  <2> QED
      BY <2>1, <2>2 DEF WInv, SessionOfProvider, Relinquishes
<1>9. NotBegun(v)
    BY DEF Relinquishes, WInv, NotBegun
<1> QED
    BY <1>4, <1>5, <1>6, <1>7, <1>8, <1>9 DEF WInv

\* Aborting what is on its way, or awaits a session, ends only that.
LEMMA AbortedKeeps ==
    ASSUME NEW w, WInv(w), NEW orders \in SUBSET ManagerCalls,
           \A o \in orders : InFlight(w.errand[o]) \/ w.errand[o].phase = "awaiting"
    PROVE  WInv(Aborted(w, orders))
<1> DEFINE a == Aborted(w, orders)
<1>1. w \in Worlds
    BY DEF WInv
<1>2. /\ a \in Worlds /\ a.manager = w.manager /\ a.robot = w.robot
      /\ \A o \in ManagerCalls : a.errand[o] =
            IF o \in orders THEN [w.errand[o] EXCEPT !.phase = "aborted"] ELSE w.errand[o]
    BY <1>1, AbortedFields
<1> HIDE DEF a
<1>3. ASSUME NEW o \in orders
      PROVE  a.errand[o].phase = "aborted" /\ a.errand[o].op = w.errand[o].op
  <2>1. o \in ManagerCalls /\ w.errand[o] \in Errands
      BY <1>1, WorldFields
  <2> QED
      BY <2>1, <1>2 DEF Errands
<1>4. \A o \in orders : w.errand[o].op # "none" /\ o \notin w.manager.connections
    BY DEF WInv, NotBegun, NoErrand, InFlight, Connected
<1>5. \A o \in ManagerCalls : a.errand[o] = w.errand[o] \/
          /\ a.errand[o].phase \in {"aborted", "failed", "ok"}
          /\ a.errand[o].op # "none"
          /\ o \notin a.manager.connections
  <2> TAKE o \in ManagerCalls
  <2>1. CASE o \in orders
      BY <1>2, <1>3, <1>4, <2>1
  <2>2. CASE o \notin orders
      BY <1>2, <2>2
  <2> QED
      BY <2>1, <2>2
<1>6. Relinquishes(w, a)
    BY <1>2, <1>5 DEF Relinquishes
<1> QED
    BY <1>2, <1>6, RelinquishingKeeps DEF a

\* invalidate() gives up what a provider has cached and exchanges.
LEMMA InvalidatedKeeps ==
    ASSUME NEW w, WInv(w), NEW p \in ManagerCalls
    PROVE  /\ Invalidated(w, p) \in Worlds
           /\ Invalidated(w, p).manager = w.manager
           /\ Invalidated(w, p).robot = [w.robot EXCEPT ![p].revision = @ + 1,
                                            ![p].cached = NoIdentity, ![p].exchange = "none"]
           /\ Invalidated(w, p).errand = Aborted(w, Waiting(w, p)).errand
           /\ w.robot[p].made => WInv(Invalidated(w, p))
<1> DEFINE a == Aborted(w, Waiting(w, p))
           v == Invalidated(w, p)
           r == [w.robot EXCEPT ![p].revision = @ + 1, ![p].cached = NoIdentity,
                                ![p].exchange = "none"]
<1>1. w \in Worlds
    BY DEF WInv
<1>2. a \in Worlds /\ a.manager = w.manager /\ a.robot = w.robot
    BY <1>1, AbortedFields DEF Waiting
<1>3. WInv(a)
    BY AbortedKeeps DEF Waiting
<1>4. v = [a EXCEPT !.robot[p].revision = @ + 1, !.robot[p].cached = NoIdentity,
                    !.robot[p].exchange = "none"]
    BY DEF Invalidated
<1> HIDE DEF a, v
<1>5. w.robot \in [ManagerCalls -> Providers] /\ w.robot[p] \in Providers
    BY <1>1, WorldFields
<1>6. r \in [ManagerCalls -> Providers]
    BY <1>5 DEF Providers, Whoever
<1>7. v = [manager |-> a.manager, robot |-> r, errand |-> a.errand]
    BY <1>2, <1>4 DEF Worlds
<1> HIDE DEF r
<1>8. v \in Worlds /\ v.manager = w.manager /\ v.robot = r /\ v.errand = a.errand
    BY <1>2, <1>6, <1>7 DEF Worlds
<1>9. ASSUME w.robot[p].made PROVE Relinquishes(a, v)
    BY <1>2, <1>5, <1>8, <1>9 DEF Relinquishes, Providers, r
<1> QED
    BY <1>3, <1>8, <1>9, RelinquishingKeeps DEF a, v, r

\* cancel() aborts what is on its way, and stays in the generation.
LEMMA CancelledKeeps ==
    ASSUME NEW w, WInv(w)
    PROVE  /\ WInv(Cancelled(w))
           /\ \A o \in ManagerCalls : ~InFlight(Cancelled(w).errand[o])
           /\ Cancelled(w).manager.scope = w.manager.scope
           /\ Cancelled(w).manager.generation = w.manager.generation
           /\ Cancelled(w).manager.disposed = w.manager.disposed
           /\ \A o \in ManagerCalls : Cancelled(w).errand[o].op = w.errand[o].op
           /\ \A o \in ManagerCalls : w.errand[o].op = "none" =>
                                          Cancelled(w).errand[o] = w.errand[o]
           /\ \A p \in ManagerCalls : w.robot[p].made => Cancelled(w).robot[p].made
           /\ Aborts(w, Cancelled(w))
<1> DEFINE exchanging == {p \in ManagerCalls : w.robot[p].exchange = "exchanging"}
           orders == {o \in ManagerCalls : InFlight(w.errand[o])}
                     \cup UNION {Waiting(w, p) : p \in exchanging}
           a == Aborted(w, orders)
           c == Cancelled(w)
           m == [w.manager EXCEPT !.sequence = @ + 1,
                                  !.status = IF @ = "loading" THEN "idle" ELSE @]
           r == [p \in ManagerCalls |->
                    IF p \in exchanging THEN [w.robot[p] EXCEPT !.exchange = "none"]
                    ELSE w.robot[p]]
<1>1. /\ w \in Worlds /\ w.manager \in Managers
      /\ \A o \in ManagerCalls : w.errand[o] \in Errands /\ w.robot[o] \in Providers
    BY WorldFields DEF WInv
<1>2. /\ orders \in SUBSET ManagerCalls
      /\ \A o \in orders : InFlight(w.errand[o]) \/ w.errand[o].phase = "awaiting"
    BY DEF Waiting
<1> HIDE DEF orders
<1>3. /\ a \in Worlds /\ a.manager = w.manager /\ a.robot = w.robot
      /\ \A o \in ManagerCalls : a.errand[o] =
            IF o \in orders THEN [w.errand[o] EXCEPT !.phase = "aborted"] ELSE w.errand[o]
    BY <1>1, <1>2, AbortedFields
<1>4. WInv(a)
    BY <1>2, AbortedKeeps
<1>5. c = [a EXCEPT !.robot = r, !.manager.sequence = @ + 1,
                    !.manager.status = IF @ = "loading" THEN "idle" ELSE @]
    BY <1>3 DEF Cancelled, orders
<1> HIDE DEF a, c
<1>6. /\ m \in Managers /\ m.scope = w.manager.scope /\ m.generation = w.manager.generation
      /\ m.items = w.manager.items /\ m.connections = w.manager.connections
      /\ m.disposed = w.manager.disposed
  <2> DEFINE st == IF w.manager.status = "loading" THEN "idle" ELSE w.manager.status
  <2>1. /\ w.manager.sequence + 1 \in Nat
        /\ st \in {"idle", "loading", "ready", "error", "auth_required", "disposed"}
      BY <1>1 DEF Managers
  <2>2. m = [w.manager EXCEPT !.sequence = w.manager.sequence + 1, !.status = st]
      OBVIOUS
  <2> HIDE DEF st, m
  <2> QED
      BY <1>1, <2>1, <2>2, StatusTyped
<1>7. /\ r \in [ManagerCalls -> Providers]
      /\ \A p \in ManagerCalls : r[p] = w.robot[p] \/
            /\ w.robot[p].exchange = "exchanging"
            /\ r[p] = [w.robot[p] EXCEPT !.exchange = "none"]
  <2>1. \A p \in ManagerCalls : [w.robot[p] EXCEPT !.exchange = "none"] \in Providers
      BY <1>1 DEF Providers
  <2> QED
      BY <1>1, <2>1
<1>8. c = [manager |-> m, robot |-> r, errand |-> a.errand]
    BY <1>3, <1>5 DEF Worlds
<1> HIDE DEF m, r
<1>9. c \in Worlds /\ c.manager = m /\ c.robot = r /\ c.errand = a.errand
    BY <1>3, <1>6, <1>7, <1>8 DEF Worlds
<1>10. Relinquishes(a, c)
  <2>1. ASSUME NEW p \in ManagerCalls, c.robot[p] # a.robot[p]
        PROVE  /\ c.robot[p].made /\ a.robot[p].made
               /\ c.robot[p].generation = a.robot[p].generation
               /\ c.robot[p].disposed => a.robot[p].disposed
               /\ c.robot[p].cached = a.robot[p].cached
               /\ c.robot[p].exchange = "none"
               /\ c.robot[p].subject = a.robot[p].subject
    <3>1. /\ w.robot[p].exchange = "exchanging"
          /\ c.robot[p] = [w.robot[p] EXCEPT !.exchange = "none"]
        BY <1>3, <1>7, <1>9, <2>1
    <3>2. w.robot[p].made
        BY <3>1 DEF WInv, ProvidersCurrent, NoProvider
    <3> QED
        BY <1>1, <1>3, <3>1, <3>2 DEF Providers
  <2> QED
      BY <1>3, <1>6, <1>9, <2>1 DEF Relinquishes
<1>11. WInv(c)
    BY <1>4, <1>9, <1>10, RelinquishingKeeps
<1>12. ASSUME NEW o \in ManagerCalls
       PROVE  /\ ~InFlight(c.errand[o]) /\ c.errand[o].op = w.errand[o].op
              /\ w.errand[o].op = "none" => c.errand[o] = w.errand[o]
  <2>1. CASE o \in orders
    <3>1. c.errand[o] = [w.errand[o] EXCEPT !.phase = "aborted"] /\ w.errand[o] \in Errands
        BY <1>1, <1>3, <1>9, <2>1
    <3>2. c.errand[o].phase = "aborted" /\ c.errand[o].op = w.errand[o].op
        BY <3>1 DEF Errands
    <3>3. w.errand[o].op # "none"
        BY <1>2, <2>1 DEF WInv, NotBegun, NoErrand, InFlight
    <3> QED
        BY <3>2, <3>3 DEF InFlight
  <2>2. CASE o \notin orders
    <3>1. c.errand[o] = w.errand[o]
        BY <1>3, <1>9, <2>2
    <3>2. ~InFlight(w.errand[o])
        BY <2>2 DEF orders
    <3> QED
        BY <3>1, <3>2
  <2> QED
      BY <2>1, <2>2
<1>13. \A p \in ManagerCalls : w.robot[p].made => c.robot[p].made
    BY <1>3, <1>10 DEF Relinquishes
<1>14. Aborts(w, c)
  <2>1. Aborts(w, a)
      BY <1>1, <1>2, AbortedAborts DEF a
  <2> QED
      BY <1>9, <2>1 DEF Aborts
<1> QED
    BY <1>14, <1>6, <1>9, <1>11, <1>12, <1>13 DEF c

\* dispose() of every provider leaves no connection.
LEMMA AllDisposedKeeps ==
    ASSUME NEW w, WInv(w)
    PROVE  /\ WInv(AllDisposed(w))
           /\ AllDisposed(w).manager = [w.manager EXCEPT !.connections = {}]
           /\ \A o \in ManagerCalls : AllDisposed(w).errand[o] = w.errand[o]
                                      \/ AllDisposed(w).errand[o].phase = "aborted"
           /\ \A o \in ManagerCalls : AllDisposed(w).errand[o].op = w.errand[o].op
           /\ \A o \in ManagerCalls : w.errand[o].op = "none" =>
                                          AllDisposed(w).errand[o] = w.errand[o]
           /\ \A p \in ManagerCalls : w.robot[p].made => AllDisposed(w).robot[p].made
           /\ Aborts(w, AllDisposed(w))
<1> DEFINE made == {p \in ManagerCalls : w.robot[p].made}
           orders == UNION {Waiting(w, p) : p \in made}
           a == Aborted(w, orders)
           c == AllDisposed(w)
           m == [w.manager EXCEPT !.connections = {}]
           gone(p) == [w.robot[p] EXCEPT !.revision = @ + 1, !.cached = NoIdentity,
                                         !.exchange = "none", !.disposed = TRUE]
           r == [p \in ManagerCalls |-> IF p \in made THEN gone(p) ELSE w.robot[p]]
<1>1. /\ w \in Worlds /\ w.manager \in Managers
      /\ \A o \in ManagerCalls : w.errand[o] \in Errands /\ w.robot[o] \in Providers
    BY WorldFields DEF WInv
<1>2. /\ orders \in SUBSET ManagerCalls
      /\ \A o \in orders : w.errand[o].phase = "awaiting"
    BY DEF Waiting
<1> HIDE DEF orders
<1>3. /\ a \in Worlds /\ a.manager = w.manager /\ a.robot = w.robot
      /\ \A o \in ManagerCalls : a.errand[o] =
            IF o \in orders THEN [w.errand[o] EXCEPT !.phase = "aborted"] ELSE w.errand[o]
    BY <1>1, <1>2, AbortedFields
<1>4. WInv(a)
    BY <1>2, AbortedKeeps
<1>5. c = [a EXCEPT !.robot = r, !.manager.connections = {}]
    BY <1>3 DEF AllDisposed, orders
<1> HIDE DEF a, c
<1>6. /\ m \in Managers /\ m.scope = w.manager.scope /\ m.generation = w.manager.generation
      /\ m.items = w.manager.items /\ m.connections = {}
    BY <1>1 DEF Managers
<1>7. /\ r \in [ManagerCalls -> Providers]
      /\ \A p \in ManagerCalls : r[p] = w.robot[p] \/ (w.robot[p].made /\ r[p] = gone(p))
  <2>1. ASSUME NEW p \in ManagerCalls PROVE gone(p) \in Providers
    <3>1. w.robot[p] \in Providers /\ w.robot[p].revision + 1 \in Nat
        BY <1>1 DEF Providers
    <3> QED
        BY <3>1, ProviderTyped DEF Whoever
  <2>2. \A p \in ManagerCalls : r[p] = IF w.robot[p].made THEN gone(p) ELSE w.robot[p]
      OBVIOUS
  <2> HIDE DEF gone
  <2>3. \A p \in ManagerCalls : r[p] \in Providers
      BY <1>1, <2>1, <2>2
  <2> QED
      BY <2>2, <2>3 DEF gone
<1>8. c = [manager |-> m, robot |-> r, errand |-> a.errand]
    BY <1>3, <1>5 DEF Worlds
<1> HIDE DEF m, r
<1>9. c \in Worlds /\ c.manager = m /\ c.robot = r /\ c.errand = a.errand
    BY <1>3, <1>6, <1>7, <1>8 DEF Worlds
<1>10. Relinquishes(a, c)
  <2>1. ASSUME NEW p \in ManagerCalls, c.robot[p] # a.robot[p]
        PROVE  /\ c.robot[p].made /\ a.robot[p].made
               /\ c.robot[p].generation = a.robot[p].generation
               /\ c.robot[p].cached = NoIdentity
               /\ c.robot[p].exchange = "none"
               /\ c.robot[p].subject = a.robot[p].subject
    <3>1. w.robot[p].made /\ c.robot[p] = gone(p)
        BY <1>3, <1>7, <1>9, <2>1
    <3> QED
        BY <1>1, <1>3, <3>1 DEF Providers
  <2> QED
      BY <1>3, <1>6, <1>9, <2>1 DEF Relinquishes
<1>11. WInv(c)
    BY <1>4, <1>9, <1>10, RelinquishingKeeps
<1>12. ASSUME NEW o \in ManagerCalls
       PROVE  /\ c.errand[o] = w.errand[o] \/ c.errand[o].phase = "aborted"
              /\ c.errand[o].op = w.errand[o].op
              /\ w.errand[o].op = "none" => c.errand[o] = w.errand[o]
  <2>1. CASE o \in orders
    <3>1. c.errand[o] = [w.errand[o] EXCEPT !.phase = "aborted"] /\ w.errand[o] \in Errands
        BY <1>1, <1>3, <1>9, <2>1
    <3>2. c.errand[o].phase = "aborted" /\ c.errand[o].op = w.errand[o].op
        BY <3>1 DEF Errands
    <3>3. w.errand[o].op # "none"
        BY <1>2, <2>1 DEF WInv, NotBegun, NoErrand
    <3> QED
        BY <3>2, <3>3
  <2>2. CASE o \notin orders
      BY <1>3, <1>9, <2>2
  <2> QED
      BY <2>1, <2>2
<1>13. \A p \in ManagerCalls : w.robot[p].made => c.robot[p].made
    BY <1>3, <1>10 DEF Relinquishes
<1>14. Aborts(w, c)
  <2>1. Aborts(w, a)
      BY <1>1, <1>2, AbortedAborts DEF a
  <2> QED
      BY <1>9, <2>1 DEF Aborts
<1> QED
    BY <1>14, <1>9, <1>11, <1>12, <1>13 DEF c, m

\* With nothing on its way and nothing connected a new generation may begin,
\* in which nothing is listed.
LEMMA NextGeneration ==
    ASSUME NEW w, WInv(w), \A o \in ManagerCalls : ~InFlight(w.errand[o]),
           NEW v \in Worlds, v.robot = w.robot,
           v.manager.generation = w.manager.generation + 1,
           v.manager.items = {}, v.manager.connections = {},
           \A o \in ManagerCalls :
               \/ v.errand[o] = w.errand[o]
               \/ v.errand[o].phase \in {"ok", "failed"} /\ v.errand[o].op # "none"
    PROVE  WInv(v)
<1>1. \A p \in ManagerCalls : /\ w.robot[p].generation \in Nat
                              /\ w.robot[p].generation <= w.manager.generation
                              /\ w.manager.generation \in Nat
    BY WorldFields DEF WInv, ProvidersCurrent, Providers, Managers
<1>2. \A p \in ManagerCalls : /\ v.robot[p].generation <= v.manager.generation
                              /\ v.robot[p].generation # v.manager.generation
    BY <1>1
<1>3. ListedInScope(v) /\ Connected(v)
    BY DEF ListedInScope, Connected
<1>4. FlightsCurrent(v)
    BY DEF FlightsCurrent, InFlight
<1>5. ProvidersCurrent(v)
    BY <1>2 DEF WInv, ProvidersCurrent
<1>6. SessionOfProvider(v)
    BY <1>2 DEF WInv, SessionOfProvider
<1>7. NotBegun(v)
    BY DEF WInv, NotBegun
<1> QED
    BY <1>3, <1>4, <1>5, <1>6, <1>7 DEF WInv

\* #changeScope() keeps the invariant, for whoever is signed in.
LEMMA ChangesScopeKeeps ==
    ASSUME NEW w, WInv(w), NEW who \in Whoever
    PROVE  /\ WInv(ChangesScope(w, who))
           /\ \A o \in ManagerCalls : w.errand[o].op = "none" =>
                                          ChangesScope(w, who).errand[o] = w.errand[o]
           /\ \A p \in ManagerCalls : w.robot[p].made => ChangesScope(w, who).robot[p].made
           /\ Aborts(w, ChangesScope(w, who))
<1> DEFINE c == Cancelled(w)
           d == AllDisposed(c)
           m == [d.manager EXCEPT !.scope = who, !.generation = @ + 1, !.items = {},
                    !.status = IF who = NoIdentity THEN "auth_required" ELSE "idle"]
           v == ChangesScope(w, who)
<1>1. /\ WInv(c)
      /\ \A o \in ManagerCalls : ~InFlight(c.errand[o])
      /\ \A o \in ManagerCalls : w.errand[o].op = "none" => c.errand[o] = w.errand[o]
    BY CancelledKeeps
<1>2. /\ \A o \in ManagerCalls : w.errand[o].op = "none" => c.errand[o].op = "none"
      /\ \A p \in ManagerCalls : w.robot[p].made => c.robot[p].made
      /\ Aborts(w, c)
    BY CancelledKeeps
<1> HIDE DEF c
<1>3. /\ WInv(d) /\ d.manager = [c.manager EXCEPT !.connections = {}]
      /\ \A o \in ManagerCalls : d.errand[o] = c.errand[o] \/ d.errand[o].phase = "aborted"
      /\ \A o \in ManagerCalls : c.errand[o].op = "none" => d.errand[o] = c.errand[o]
      /\ \A p \in ManagerCalls : c.robot[p].made => d.robot[p].made
      /\ Aborts(c, d)
    BY <1>1, AllDisposedKeeps
<1>4. v = [d EXCEPT !.manager.scope = who, !.manager.generation = @ + 1, !.manager.items = {},
              !.manager.status = IF who = NoIdentity THEN "auth_required" ELSE "idle"]
    BY DEF ChangesScope, c
<1> HIDE DEF d, v
<1>5. d \in Worlds /\ d.manager \in Managers /\ d.manager.connections = {}
    BY <1>1, <1>3, WorldFields DEF WInv, Managers
<1>6. /\ m \in Managers /\ m.generation = d.manager.generation + 1
      /\ m.items = {} /\ m.connections = {}
  <2> DEFINE st == IF who = NoIdentity THEN "auth_required" ELSE "idle"
             n == d.manager.generation + 1
  <2>1. st \in {"auth_required", "idle"} /\ n \in Nat
      BY <1>5 DEF Managers
  <2>2. m = [d.manager EXCEPT !.scope = who, !.generation = n, !.items = {}, !.status = st]
      OBVIOUS
  <2> HIDE DEF m, n, st
  <2>3. m \in Managers /\ m.generation = n /\ m.items = {} /\ m.connections = {}
      BY <1>5, <2>1, <2>2 DEF Managers
  <2> QED
      BY <2>3 DEF n
<1>7. v = [manager |-> m, robot |-> d.robot, errand |-> d.errand]
    BY <1>4, <1>5 DEF Worlds
<1> HIDE DEF m
<1>8. v \in Worlds /\ v.manager = m /\ v.robot = d.robot /\ v.errand = d.errand
    BY <1>5, <1>6, <1>7 DEF Worlds
<1>9. \A o \in ManagerCalls : ~InFlight(d.errand[o])
    BY <1>1, <1>3 DEF InFlight
<1>10. WInv(v)
  <2>1. /\ v.manager.generation = d.manager.generation + 1
        /\ v.manager.items = {} /\ v.manager.connections = {}
        /\ \A o \in ManagerCalls : v.errand[o] = d.errand[o]
      BY <1>6, <1>8
  <2> QED
      BY <1>3, <1>8, <1>9, <2>1, NextGeneration
<1>11. Aborts(w, v)
    BY <1>2, <1>3, <1>8 DEF Aborts
<1> QED
    BY <1>1, <1>2, <1>3, <1>8, <1>10, <1>11 DEF v

LEMMA CaughtUpKeeps ==
    ASSUME IInv
    PROVE  /\ WInv(CaughtUp)
           /\ \A o \in ManagerCalls : errand[o].op = "none" => CaughtUp.errand[o] = NoErrand
           /\ Aborts(World, CaughtUp)
<1>1. WInv(World) /\ World.errand = errand /\ identity.who \in Whoever
    BY DEF IInv, World
<1>2. \A o \in ManagerCalls : errand[o].op = "none" => errand[o] = NoErrand
    BY <1>1 DEF WInv, NotBegun
<1>3. Aborts(World, World)
    BY DEF Aborts
<1> QED
    BY <1>1, <1>2, <1>3, ChangesScopeKeeps DEF CaughtUp

\* Whoever is signed in, the providers are the same.
LEMMA CaughtUpMade ==
    ASSUME IInv, NEW p \in ManagerCalls, robot[p].made
    PROVE  CaughtUp.robot[p].made
<1>1. WInv(World) /\ World.robot = robot /\ identity.who \in Whoever
    BY DEF IInv, World
<1> QED
    BY <1>1, ChangesScopeKeeps DEF CaughtUp

\* A call begins: with a request, or with something that is over at once.
LEMMA BeginningKeeps ==
    ASSUME NEW w, WInv(w), NEW o \in ManagerCalls, w.errand[o].op = "none",
           NEW v \in Worlds, v.manager.scope = w.manager.scope,
           v.manager.generation = w.manager.generation, v.manager.items = w.manager.items,
           v.manager.connections = w.manager.connections, v.robot = w.robot,
           \A q \in ManagerCalls : q # o => v.errand[q] = w.errand[q],
           v.errand[o].op # "none",
           \/ v.errand[o].phase \in {"idle", "failed", "ok"}
           \/ /\ v.errand[o].phase = "authorizing"
              /\ v.errand[o].generation = w.manager.generation
              /\ v.errand[o].op \in {"load", "connect"}
              /\ v.errand[o].op = "load" => v.errand[o].page \in {1, 2}
    PROVE  WInv(v)
<1>1. w \in Worlds /\ w.manager.connections \subseteq ManagerCalls
    BY WorldFields DEF WInv, Managers
<1>3. o \notin w.manager.connections /\ ~w.robot[o].made
    BY DEF WInv, Connected, NotBegun
<1>4. ListedInScope(v) /\ ProvidersCurrent(v)
    BY DEF WInv, ListedInScope, ProvidersCurrent
<1>5. Connected(v)
    BY <1>1, <1>3 DEF WInv, Connected
<1>6. FlightsCurrent(v)
    BY <1>3 DEF WInv, FlightsCurrent, InFlight
<1>7. SessionOfProvider(v)
    BY DEF WInv, SessionOfProvider
<1>8. NotBegun(v)
    BY DEF WInv, NotBegun
<1> QED
    BY <1>4, <1>5, <1>6, <1>7, <1>8 DEF WInv

\* A call ends that is no connection.
LEMMA OverKeeps ==
    ASSUME NEW w, w \in Worlds, NEW o \in ManagerCalls, NEW phase \in {"failed", "ok"}
    PROVE  /\ Over(w, o, phase) \in Worlds
           /\ Over(w, o, phase).manager = w.manager
           /\ Over(w, o, phase).robot = w.robot
           /\ Over(w, o, phase).errand[o].op = w.errand[o].op
           /\ Over(w, o, phase).errand[o].phase = phase
           /\ \A q \in ManagerCalls : q # o => Over(w, o, phase).errand[q] = w.errand[q]
           /\ WInv(w) /\ w.errand[o].op # "none" /\ o \notin w.manager.connections =>
                  WInv(Over(w, o, phase))
<1> DEFINE v == Over(w, o, phase)
           e == [w.errand[o] EXCEPT !.phase = phase]
           f == [w.errand EXCEPT ![o] = e]
<1>1. w.errand \in [ManagerCalls -> Errands] /\ w.errand[o] \in Errands
    BY WorldFields
<1>2. e \in Errands /\ e.op = w.errand[o].op /\ e.phase = phase
    BY <1>1 DEF Errands
<1>3. v = [w EXCEPT !.errand = f]
    BY DEF Over
<1> HIDE DEF e
<1>4. f \in [ManagerCalls -> Errands] /\ f[o] = e
      /\ \A q \in ManagerCalls : q # o => f[q] = w.errand[q]
    BY <1>1, <1>2
<1> HIDE DEF f, v
<1>5. v \in Worlds /\ v.manager = w.manager /\ v.robot = w.robot /\ v.errand = f
    BY <1>3, <1>4 DEF Worlds
<1>6. ASSUME WInv(w), w.errand[o].op # "none", o \notin w.manager.connections
      PROVE  WInv(v)
  <2>1. Relinquishes(w, v)
      BY <1>2, <1>4, <1>5, <1>6 DEF Relinquishes
  <2> QED
      BY <1>5, <1>6, <2>1, RelinquishingKeeps
<1> QED
    BY <1>2, <1>4, <1>5, <1>6 DEF v, e

LEMMA OverOthers ==
    ASSUME NEW w \in Worlds, NEW o \in ManagerCalls, NEW phase \in {"failed", "ok"}
    PROVE  /\ Over(w, o, phase) \in Worlds
           /\ Over(w, o, phase).errand[o].phase = phase
           /\ \A q \in ManagerCalls : q # o => Over(w, o, phase).errand[q] = w.errand[q]
<1> DEFINE v == Over(w, o, phase)
           e == [w.errand[o] EXCEPT !.phase = phase]
           f == [w.errand EXCEPT ![o] = e]
<1>1. w.errand \in [ManagerCalls -> Errands] /\ w.errand[o] \in Errands
    BY WorldFields
<1>2. e \in Errands /\ e.phase = phase
    BY <1>1 DEF Errands
<1>3. v = [w EXCEPT !.errand = f]
    BY DEF Over
<1> HIDE DEF e
<1>4. f \in [ManagerCalls -> Errands] /\ f[o] = e
      /\ \A q \in ManagerCalls : q # o => f[q] = w.errand[q]
    BY <1>1, <1>2
<1> HIDE DEF f, v
<1>5. v \in Worlds /\ v.errand = f
    BY <1>3, <1>4 DEF Worlds
<1> QED
    BY <1>2, <1>4, <1>5 DEF v

\* The call and the provider after getSession(), unless the provider is
\* refused.
Entrusted(w, o, p) ==
    [w.errand[o] EXCEPT
        !.phase = IF w.robot[p].cached # NoIdentity THEN "given" ELSE "awaiting",
        !.subject = w.robot[p].cached, !.provider = p, !.revision = w.robot[p].revision]

Exchanging(r) ==
    [r EXCEPT !.exchange = IF r.cached = NoIdentity /\ r.exchange = "none"
                           THEN "authorizing" ELSE r.exchange]

LEMMA AsksSessionFields ==
    ASSUME NEW w \in Worlds, NEW o \in ManagerCalls, NEW p \in ManagerCalls, Guarded(w, p)
    PROVE  AsksSession(w, o, p) =
              [manager |-> w.manager, robot |-> [w.robot EXCEPT ![p] = Exchanging(w.robot[p])],
               errand |-> [w.errand EXCEPT ![o] = Entrusted(w, o, p)]]
<1> DEFINE r == w.robot[p]
           phase == IF r.cached # NoIdentity THEN "given" ELSE "awaiting"
           x == IF r.cached = NoIdentity /\ r.exchange = "none" THEN "authorizing" ELSE r.exchange
           subject == r.cached
           revision == r.revision
           e == [w.errand[o] EXCEPT !.phase = phase, !.subject = subject, !.provider = p,
                                    !.revision = revision]
           q == [w.robot[p] EXCEPT !.exchange = x]
<1>1. AsksSession(w, o, p) =
         [w EXCEPT !.errand[o].phase = phase, !.errand[o].subject = subject,
                   !.errand[o].provider = p, !.errand[o].revision = revision,
                   !.robot[p].exchange = x]
    BY DEF AsksSession, Worlds
<1>2. e = Entrusted(w, o, p) /\ q = Exchanging(w.robot[p])
    BY DEF Entrusted, Exchanging
<1> HIDE DEF r, phase, x, subject, revision
<1>3. [w EXCEPT !.errand[o].phase = phase, !.errand[o].subject = subject,
                !.errand[o].provider = p, !.errand[o].revision = revision,
                !.robot[p].exchange = x] =
      [w EXCEPT !.robot = [w.robot EXCEPT ![p] = [w.robot[p] EXCEPT !.exchange = x]],
                !.errand = [w.errand EXCEPT ![o] =
                   [w.errand[o] EXCEPT !.phase = phase, !.subject = subject, !.provider = p,
                                       !.revision = revision]]]
    BY DEF Worlds
<1>4. AsksSession(w, o, p) = [w EXCEPT !.robot = [w.robot EXCEPT ![p] = q],
                                       !.errand = [w.errand EXCEPT ![o] = e]]
    BY <1>1, <1>3, Zenon
<1> HIDE DEF e, q
<1> QED
    BY <1>2, <1>4 DEF Worlds

\* getSession() of a provider ends the call, gives it what is cached for the
\* identity, or makes it wait.
LEMMA AsksSessionKeeps ==
    ASSUME NEW w \in Worlds, NEW o \in ManagerCalls, NEW p \in ManagerCalls,
           WInv(Over(w, o, "failed")), w.robot[p].made, o \notin w.manager.connections,
           \/ w.errand[o].op = "connect" /\ p = o
              /\ w.errand[o].generation = w.robot[o].generation
           \/ w.errand[o].op = "session" /\ w.errand[o].generation = 0
    PROVE  WInv(AsksSession(w, o, p))
<1> DEFINE r == w.robot[p]
           u == Over(w, o, "failed")
           phase == IF r.cached # NoIdentity THEN "given" ELSE "awaiting"
           x == IF r.cached = NoIdentity /\ r.exchange = "none" THEN "authorizing" ELSE r.exchange
           e == [w.errand[o] EXCEPT !.phase = phase, !.subject = r.cached, !.provider = p,
                                    !.revision = r.revision]
           q == [r EXCEPT !.exchange = x]
           v == [manager |-> w.manager, robot |-> [w.robot EXCEPT ![p] = q],
                 errand |-> [w.errand EXCEPT ![o] = e]]
<1>1. /\ w.manager \in Managers
      /\ w.robot \in [ManagerCalls -> Providers] /\ r \in Providers
      /\ w.errand \in [ManagerCalls -> Errands] /\ w.errand[o] \in Errands
      /\ w = [manager |-> w.manager, robot |-> w.robot, errand |-> w.errand]
    BY WorldFields
<1>2. /\ u \in Worlds /\ u.manager = w.manager /\ u.robot = w.robot
      /\ u.errand[o].op = w.errand[o].op
      /\ \A n \in ManagerCalls : n # o => u.errand[n] = w.errand[n]
      /\ WInv(u)
  <2>1. "failed" \in {"failed", "ok"} /\ w \in Worlds /\ WInv(u)
      OBVIOUS
  <2> HIDE DEF u
  <2>2. /\ u \in Worlds /\ u.manager = w.manager /\ u.robot = w.robot
        /\ u.errand[o].op = w.errand[o].op
        /\ \A n \in ManagerCalls : n # o => u.errand[n] = w.errand[n]
      BY <2>1, OverKeeps DEF u
  <2> QED
      BY <2>1, <2>2
<1> HIDE DEF u
<1>3. CASE ~Guarded(w, p)
    BY <1>2, <1>3 DEF AsksSession, u
<1>4. CASE Guarded(w, p)
  <2>1. AsksSession(w, o, p) = v
      BY <1>4, AsksSessionFields DEF Entrusted, Exchanging
  <2>2. /\ phase \in {"given", "awaiting"} /\ x \in {"none", "authorizing", "exchanging"}
        /\ x = "exchanging" => r.exchange = "exchanging"
      BY <1>1 DEF Providers
  <2> HIDE DEF phase, x
  <2>3. /\ e \in Errands /\ e.op = w.errand[o].op /\ e.phase = phase /\ e.subject = r.cached
        /\ e.provider = p /\ e.generation = w.errand[o].generation
      BY <1>1, <2>2 DEF Errands, Providers
  <2>4. /\ q \in Providers /\ q.made = r.made /\ q.generation = r.generation
        /\ q.cached = r.cached /\ q.exchange = x /\ q.subject = r.subject
        /\ q.disposed = r.disposed
      BY <1>1, <2>2 DEF Providers
  <2> HIDE DEF e, q
  <2>5. /\ v \in Worlds /\ v.manager = w.manager
        /\ v.errand[o] = e /\ \A n \in ManagerCalls : n # o => v.errand[n] = w.errand[n]
        /\ v.robot[p] = q /\ \A n \in ManagerCalls : n # p => v.robot[n] = w.robot[n]
      BY <1>1, <2>3, <2>4 DEF Worlds
  <2> HIDE DEF v
  <2>6. /\ \A n \in ManagerCalls : /\ v.robot[n].made <=> w.robot[n].made
                                   /\ v.robot[n].generation = w.robot[n].generation
                                   /\ v.robot[n].cached = w.robot[n].cached
                                   /\ v.robot[n].subject = w.robot[n].subject
                                   /\ v.robot[n].disposed <=> w.robot[n].disposed
                                   /\ v.robot[n].exchange = "exchanging"
                                         => w.robot[n].exchange = "exchanging"
      BY <2>2, <2>4, <2>5
  <2>7. u.manager.connections \subseteq ManagerCalls
      BY <1>2, WorldFields DEF Managers
  <2>8. ListedInScope(v)
      BY <1>2, <2>5 DEF WInv, ListedInScope
  <2>9. Connected(v)
      BY <1>2, <2>5, <2>6, <2>7 DEF WInv, Connected
  <2>10. FlightsCurrent(v)
      BY <1>2, <2>2, <2>3, <2>5, <2>6 DEF WInv, FlightsCurrent, InFlight
  <2>11. ProvidersCurrent(v)
    <3>1. \A n \in ManagerCalls : ~v.robot[n].made => n # p /\ v.robot[n] = u.robot[n]
        BY <1>2, <2>5, <2>6
    <3> QED
        BY <1>2, <2>5, <2>6, <3>1 DEF WInv, ProvidersCurrent
  <2>12. SessionOfProvider(v)
    <3> SUFFICES ASSUME NEW n \in ManagerCalls, v.errand[n].phase \in {"awaiting", "given"}
                 PROVE  LET d == v.errand[n]
                            k == d.provider
                        IN  /\ k \in ManagerCalls /\ v.robot[k].made
                            /\ \/ d.op = "connect" /\ k = n
                                  /\ d.generation = v.robot[n].generation
                               \/ d.op = "session" /\ d.generation = 0
                            /\ d.phase = "given" /\ v.robot[k].generation = v.manager.generation =>
                                  d.subject = v.manager.scope
        BY DEF SessionOfProvider
    <3>1. CASE n # o
        BY <1>2, <2>5, <2>6, <3>1 DEF WInv, SessionOfProvider
    <3>2. CASE n = o
      <4>1. v.robot[p].generation = v.manager.generation /\ phase = "given"
               => r.cached = v.manager.scope
          BY <1>2, <2>5, <2>6 DEF WInv, ProvidersCurrent, phase
      <4> QED
          BY <2>3, <2>5, <2>6, <3>2, <4>1
    <3> QED
        BY <3>1, <3>2
  <2>13. NotBegun(v)
      BY <1>2, <2>3, <2>5, <2>6 DEF WInv, NotBegun
  <2> QED
      BY <2>1, <2>5, <2>8, <2>9, <2>10, <2>11, <2>12, <2>13 DEF WInv
<1> QED
    BY <1>3, <1>4

\* Disposing of a provider that is no connection gives up what it has.
Disposing(w, p, c) ==
    [Invalidated(w, p) EXCEPT !.robot[p].disposed = TRUE, !.manager.connections = c]

LEMMA DisposedKeeps ==
    ASSUME NEW w, WInv(w), NEW p \in ManagerCalls, w.robot[p].made,
           NEW c \in SUBSET w.manager.connections, p \notin c,
           NEW v, v = Disposing(w, p, c)
    PROVE  /\ WInv(v) /\ v.manager = [w.manager EXCEPT !.connections = c]
           /\ v.errand = Aborted(w, Waiting(w, p)).errand
<1> DEFINE u == Invalidated(w, p)
           m == [u.manager EXCEPT !.connections = c]
           q == [u.robot[p] EXCEPT !.disposed = TRUE]
           r == [u.robot EXCEPT ![p] = q]
<1>1. WInv(u) /\ u.manager = w.manager /\ u.robot[p].made
  <2>1. w.robot \in [ManagerCalls -> Providers] /\ w.robot[p] \in Providers
      BY WorldFields DEF WInv
  <2>2. u.robot = [w.robot EXCEPT ![p].revision = @ + 1, ![p].cached = NoIdentity,
                                  ![p].exchange = "none"]
      BY InvalidatedKeeps
  <2>3. u.robot[p].made
      BY <2>1, <2>2 DEF Providers
  <2> QED
      BY <2>3, InvalidatedKeeps
<1>2. u.errand = Aborted(w, Waiting(w, p)).errand
    BY InvalidatedKeeps
<1> HIDE DEF u
<1>3. /\ u \in Worlds /\ u.manager \in Managers
      /\ u.robot \in [ManagerCalls -> Providers] /\ u.robot[p] \in Providers
    BY <1>1, WorldFields DEF WInv
<1>4. /\ m \in Managers /\ m.scope = u.manager.scope /\ m.generation = u.manager.generation
      /\ m.items = u.manager.items /\ m.connections = c
    BY <1>1, <1>3 DEF Managers
<1>5. /\ q \in Providers /\ q.made /\ q.generation = u.robot[p].generation
      /\ q.cached = u.robot[p].cached /\ q.exchange = u.robot[p].exchange
      /\ q.subject = u.robot[p].subject
    BY <1>1, <1>3 DEF Providers
<1>6. v = [u EXCEPT !.robot[p].disposed = TRUE, !.manager.connections = c]
    BY DEF u, Disposing
<1>7. v = [u EXCEPT !.robot = r, !.manager = m]
    BY <1>3, <1>6 DEF Worlds
<1> HIDE DEF m, q
<1>8. r \in [ManagerCalls -> Providers] /\ r[p] = q
      /\ \A n \in ManagerCalls : n # p => r[n] = u.robot[n]
    BY <1>3, <1>5
<1> HIDE DEF r
<1>9. v \in Worlds /\ v.manager = m /\ v.robot = r /\ v.errand = u.errand
    BY <1>3, <1>4, <1>7, <1>8 DEF Worlds
<1>10. Relinquishes(u, v)
  <2>1. \A n \in ManagerCalls : v.robot[n] = u.robot[n] \/
          /\ v.robot[n].made /\ u.robot[n].made
          /\ v.robot[n].generation = u.robot[n].generation
          /\ v.robot[n].disposed => u.robot[n].disposed \/ n \notin v.manager.connections
          /\ v.robot[n].cached \in {NoIdentity, u.robot[n].cached}
          /\ v.robot[n].exchange = "exchanging" => u.robot[n].exchange = "exchanging"
          /\ v.robot[n].subject = u.robot[n].subject
      BY <1>1, <1>4, <1>5, <1>8, <1>9
  <2> QED
      BY <1>1, <1>4, <1>9, <2>1 DEF Relinquishes
<1> QED
    BY <1>1, <1>2, <1>9, <1>10, RelinquishingKeeps DEF m

\* A load that fails says so, a connection gives up its provider.
LEMMA FailsKeeps ==
    ASSUME IInv, NEW o \in ManagerCalls,
           errand[o].phase \in {"authorizing", "fetching", "given", "aborted"},
           NEW status \in {"idle", "error", "auth_required"}
    PROVE  WInv(Fails(o, status))
<1> DEFINE w == Over(World, o, "failed")
<1>1. /\ WInv(World) /\ World.errand = errand /\ World.manager = manager
      /\ World.robot = robot /\ World \in Worlds
    BY DEF IInv, World, WInv
<1>2. errand[o].op # "none" /\ o \notin manager.connections
    BY <1>1 DEF WInv, NotBegun, NoErrand, Connected
<1>3. /\ WInv(w) /\ w.manager = manager /\ w.robot = robot
      /\ w.errand[o].phase = "failed" /\ w.errand[o].op # "none"
  <2>1. "failed" \in {"failed", "ok"}
      OBVIOUS
  <2> QED
      BY <1>1, <1>2, <2>1, OverKeeps
<1> HIDE DEF w
<1>4. w \in Worlds /\ w.manager \in Managers
    BY <1>3, WorldFields DEF WInv
<1>5. CASE errand[o].op = "load" /\ errand[o].sequence = manager.sequence
  <2> DEFINE m == [w.manager EXCEPT !.status = status]
             v == [w EXCEPT !.manager = m]
  <2>1. Fails(o, status) = [w EXCEPT !.manager.status = status]
      BY <1>5 DEF Fails, w
  <2>2. Fails(o, status) = v
      BY <1>4, <2>1 DEF Worlds
  <2>3. /\ m \in Managers /\ m.scope = w.manager.scope /\ m.generation = w.manager.generation
        /\ m.items = w.manager.items /\ m.connections = w.manager.connections
      BY <1>4 DEF Managers
  <2> HIDE DEF m
  <2>4. v \in Worlds /\ v.manager = m /\ v.robot = w.robot /\ v.errand = w.errand
      BY <1>4, <2>3 DEF Worlds
  <2> HIDE DEF v
  <2>5. Relinquishes(w, v)
      BY <2>3, <2>4 DEF Relinquishes
  <2> QED
      BY <1>3, <2>2, <2>4, <2>5, RelinquishingKeeps
<1>6. CASE ~(errand[o].op = "load" /\ errand[o].sequence = manager.sequence)
           /\ errand[o].op = "connect" /\ robot[o].made
  <2> DEFINE i == Invalidated(w, o)
             f == Over(i, o, "failed")
             v == Fails(o, status)
             q == [f.robot[o] EXCEPT !.disposed = TRUE]
             r == [f.robot EXCEPT ![o] = q]
  <2>1. v = [f EXCEPT !.robot[o].disposed = TRUE]
      BY <1>6 DEF Fails, w
  <2>2. /\ WInv(i) /\ i.manager = manager
        /\ i.robot = [w.robot EXCEPT ![o].revision = @ + 1, ![o].cached = NoIdentity,
                                     ![o].exchange = "none"]
        /\ i.errand = Aborted(w, Waiting(w, o)).errand
      BY <1>3, <1>6, InvalidatedKeeps
  <2>3. i.robot[o].made /\ i.errand[o].op # "none"
    <3>1. w.robot \in [ManagerCalls -> Providers] /\ w.robot[o] \in Providers
        BY <1>4, WorldFields
    <3>2. i.robot[o].made
        BY <1>3, <1>6, <2>2, <3>1 DEF Providers
    <3>3. i.errand[o] = w.errand[o]
      <4>1. Waiting(w, o) \in SUBSET ManagerCalls /\ o \notin Waiting(w, o)
          BY <1>3 DEF Waiting
      <4>2. Aborted(w, Waiting(w, o)).errand[o] = w.errand[o]
          BY <1>4, <4>1, NotAborted
      <4> QED
          BY <2>2, <4>2
    <3> QED
        BY <1>3, <3>2, <3>3
  <2> HIDE DEF i
  <2>4. /\ WInv(f) /\ f.manager = manager /\ f.robot = i.robot
    <3>1. "failed" \in {"failed", "ok"} /\ i \in Worlds
        BY <2>2 DEF WInv
    <3> QED
        BY <1>2, <2>2, <2>3, <3>1, OverKeeps
  <2> HIDE DEF f
  <2>5. /\ f \in Worlds /\ f.robot \in [ManagerCalls -> Providers] /\ f.robot[o] \in Providers
      BY <2>4, WorldFields DEF WInv
  <2>6. v = [f EXCEPT !.robot = r]
      BY <2>1, <2>5 DEF Worlds
  <2> HIDE DEF v
  <2>7. /\ q \in Providers /\ q.made /\ q.generation = f.robot[o].generation
        /\ q.cached = f.robot[o].cached /\ q.exchange = f.robot[o].exchange
        /\ q.subject = f.robot[o].subject
      BY <2>3, <2>4, <2>5 DEF Providers
  <2> HIDE DEF q
  <2>8. /\ r \in [ManagerCalls -> Providers] /\ r[o] = q
        /\ \A n \in ManagerCalls : n # o => r[n] = f.robot[n]
      BY <2>5, <2>7
  <2> HIDE DEF r
  <2>9. v \in Worlds /\ v.manager = f.manager /\ v.robot = r /\ v.errand = f.errand
      BY <2>5, <2>6, <2>8 DEF Worlds
  <2>10. \A n \in ManagerCalls : v.robot[n] = f.robot[n] \/
          /\ v.robot[n].made /\ f.robot[n].made
          /\ v.robot[n].generation = f.robot[n].generation
          /\ v.robot[n].disposed => f.robot[n].disposed \/ n \notin v.manager.connections
          /\ v.robot[n].cached \in {NoIdentity, f.robot[n].cached}
          /\ v.robot[n].exchange = "exchanging" => f.robot[n].exchange = "exchanging"
          /\ v.robot[n].subject = f.robot[n].subject
      BY <1>2, <2>3, <2>4, <2>7, <2>8, <2>9
  <2>11. Relinquishes(f, v)
      BY <2>9, <2>10 DEF Relinquishes
  <2> QED
      BY <2>4, <2>9, <2>11, RelinquishingKeeps DEF v
<1>7. CASE ~(errand[o].op = "load" /\ errand[o].sequence = manager.sequence)
           /\ ~(errand[o].op = "connect" /\ robot[o].made)
    BY <1>3, <1>7 DEF Fails, w
<1> QED
    BY <1>5, <1>6, <1>7

-----------------------------------------------------------------------------
(* The steps.                                                              *)

\* A step is over when its world is.
LEMMA Becoming ==
    ASSUME IInv, NEW v, WInv(v), Becomes(v), identity'.who \in Whoever
    PROVE  IInv'
<1>1. World' = v
    BY DEF WInv, Worlds, Becomes, World
<1>2. WInv(World')
    BY <1>1
<1> QED
    BY <1>2 DEF IInv

LEMMA NoErrandTyped == NoErrand \in Errands
    BY DEF NoErrand, Errands, Whoever

\* What a call begins with.
LEMMA Beginning ==
    ASSUME IInv, NEW o \in ManagerCalls, NEW op, Begins(o, op)
    PROVE  /\ errand[o] = NoErrand /\ WInv(World)
           /\ World.errand = errand /\ World.manager = manager /\ World.robot = robot
           /\ WInv(CaughtUp) /\ CaughtUp.errand[o] = NoErrand
           /\ CaughtUp \in Worlds /\ World \in Worlds
<1>1. errand[o] = NoErrand
    BY DEF IInv, WInv, NotBegun, World, Begins
<1>2. errand[o].op = "none"
    BY DEF Begins
<1> QED
    BY <1>1, <1>2, CaughtUpKeeps DEF IInv, World, WInv

\* A call that is over as it begins.
Ended(op, phase) == [NoErrand EXCEPT !.op = op, !.phase = phase]

LEMMA EndedTyped ==
    ASSUME NEW op \in {"none", "load", "connect", "session", "invalidate", "disconnect",
                       "cancel", "dispose"},
           NEW phase \in {"idle", "authorizing", "fetching", "awaiting", "given", "aborted",
                          "ok", "failed"}
    PROVE  /\ Ended(op, phase) \in Errands /\ Ended(op, phase).op = op
           /\ Ended(op, phase).phase = phase /\ Ended(op, phase).generation = 0
    BY NoErrandTyped DEF Errands, NoErrand, Ended

Ending(w, o, op, phase) == [w EXCEPT !.errand[o].op = op, !.errand[o].phase = phase]

LEMMA EndingKeeps ==
    ASSUME NEW w, WInv(w), NEW o \in ManagerCalls, w.errand[o] = NoErrand,
           NEW op \in {"load", "connect", "invalidate", "disconnect", "cancel", "dispose",
                       "session"},
           NEW phase \in {"idle", "failed", "ok"}
    PROVE  /\ WInv(Ending(w, o, op, phase)) /\ Ending(w, o, op, phase).manager = w.manager
           /\ Ending(w, o, op, phase).robot = w.robot
           /\ Ending(w, o, op, phase).errand[o] = Ended(op, phase)
<1> DEFINE e == Ended(op, phase)
           v == Ending(w, o, op, phase)
<1>1. w \in Worlds
    BY DEF WInv
<1>2. e \in Errands /\ e.op = op /\ e.phase = phase
    BY EndedTyped
<1>3. w.errand[o].op = "none" /\ e.op # "none" /\ e.phase \in {"idle", "failed", "ok"}
    BY <1>2 DEF NoErrand
<1>4. v = [w EXCEPT !.errand[o] = e]
    BY <1>1 DEF Worlds, Ended, Ending
<1> HIDE DEF e, v
<1>5. /\ v \in Worlds /\ v.manager = w.manager /\ v.robot = w.robot
      /\ v.errand[o] = e
      /\ \A q \in ManagerCalls : q # o => v.errand[q] = w.errand[q]
    BY <1>1, <1>2, <1>4 DEF Worlds
<1>6. WInv(v)
    BY <1>3, <1>5, BeginningKeeps
<1> QED
    BY <1>5, <1>6 DEF v, e

\* loadPage() aborts the load that went on, and begins in the generation of
\* the identity it found.
LoadBegun(w, o, n, page, g) ==
    [w EXCEPT !.manager.sequence = n, !.manager.status = "loading",
              !.errand[o] = [NoErrand EXCEPT !.op = "load", !.phase = "authorizing",
                                             !.sequence = n, !.page = page, !.generation = g]]

LEMMA LoadBegunKeeps ==
    ASSUME NEW w, WInv(w), NEW o \in ManagerCalls, w.errand[o] = NoErrand,
           NEW n \in Nat, NEW page \in {1, 2}, NEW g, g = w.manager.generation
    PROVE  WInv(LoadBegun(w, o, n, page, g))
<1> DEFINE e == [NoErrand EXCEPT !.op = "load", !.phase = "authorizing", !.sequence = n,
                                 !.page = page, !.generation = g]
           v == LoadBegun(w, o, n, page, g)
<1>1. w \in Worlds /\ w.manager \in Managers /\ g \in Nat
    BY WorldFields DEF WInv, Managers
<1>2. e \in Errands /\ e.op = "load" /\ e.phase = "authorizing" /\ e.generation = g
      /\ e.page = page
    BY <1>1, NoErrandTyped DEF Errands
<1>3. v = [w EXCEPT !.manager.sequence = n, !.manager.status = "loading", !.errand[o] = e]
    BY DEF LoadBegun
<1> HIDE DEF e, v
<1>4. /\ v.manager.scope = w.manager.scope /\ v.manager.generation = w.manager.generation
      /\ v.manager.items = w.manager.items /\ v.manager.connections = w.manager.connections
      /\ v.robot = w.robot /\ v.errand[o] = e
      /\ \A q \in ManagerCalls : q # o => v.errand[q] = w.errand[q]
    BY <1>1, <1>3 DEF Worlds, Managers
<1>5. v \in Worlds
    BY <1>1, <1>2, <1>3 DEF Worlds, Managers
<1>6. w.errand[o].op = "none"
    BY DEF NoErrand
<1>7. WInv(v)
    BY <1>2, <1>4, <1>5, <1>6, BeginningKeeps
<1> QED
    BY <1>7 DEF v

LEMMA LoadPageKeeps ==
    ASSUME IInv, NEW o \in ManagerCalls, NEW page \in {1, 2}, LoadPage(o, page)
    PROVE  IInv'
<1> DEFINE w == CaughtUp
           n == w.manager.sequence + 1
           g == w.manager.generation
           orders == {q \in ManagerCalls : w.errand[q].op = "load" /\ InFlight(w.errand[q])}
           a == Aborted(w, orders)
<1>1. WInv(w) /\ w \in Worlds /\ w.errand[o] = NoErrand
    BY Beginning DEF LoadPage
<1>2. IF Asserted(w, g)
      THEN Becomes(LoadBegun(a, o, n, page, g))
      ELSE Becomes(Ending(w, o, "load", "failed"))
    BY DEF Ending, LoadPage, LoadBegun
<1>3. identity'.who \in Whoever
    BY DEF LoadPage, IInv
<1> HIDE DEF w
<1>4. w.manager \in Managers
    BY <1>1, WorldFields
<1>5. orders \in SUBSET ManagerCalls /\ o \notin orders
    BY <1>1 DEF NoErrand, InFlight
<1>6. \A q \in orders : InFlight(w.errand[q]) \/ w.errand[q].phase = "awaiting"
    OBVIOUS
<1> HIDE DEF orders
<1>7. /\ a \in Worlds /\ a.manager = w.manager /\ a.errand[o] = NoErrand
  <2>1. a \in Worlds /\ a.manager = w.manager
      BY <1>1, <1>5, AbortedFields
  <2>2. a.errand[o] = w.errand[o]
      BY <1>1, <1>5, NotAborted
  <2> QED
      BY <1>1, <2>1, <2>2
<1>8. WInv(a)
    BY <1>1, <1>5, <1>6, AbortedKeeps
<1> HIDE DEF a
<1>9. n \in Nat /\ g = a.manager.generation
    BY <1>4, <1>7 DEF Managers
<1> HIDE DEF n, g
<1>10. WInv(LoadBegun(a, o, n, page, g))
    BY <1>7, <1>8, <1>9, LoadBegunKeeps
<1>11. CASE ~Asserted(w, g)
  <2>1. WInv(Ending(w, o, "load", "failed"))
      BY <1>1, EndingKeeps
  <2> QED
      BY <1>2, <1>3, <1>11, <2>1, Becoming
<1> QED
    BY <1>2, <1>3, <1>10, <1>11, Becoming

\* connect() begins in the generation of the identity it found.
LEMMA ConnectKeeps ==
    ASSUME IInv, NEW o \in ManagerCalls, Connect(o)
    PROVE  IInv'
<1> DEFINE w == CaughtUp
           e == [NoErrand EXCEPT !.op = "connect", !.phase = "authorizing",
                                 !.generation = w.manager.generation]
<1>1. WInv(w) /\ w \in Worlds /\ w.errand[o] = NoErrand
    BY Beginning DEF Connect
<1>2. IF Asserted(w, w.manager.generation)
      THEN Becomes([w EXCEPT !.errand[o] = e])
      ELSE Becomes(Ending(w, o, "connect", "failed"))
    BY DEF Ending, Connect
<1>3. identity'.who \in Whoever
    BY DEF Connect, IInv
<1> HIDE DEF w
<1>4. w.manager \in Managers
    BY <1>1, WorldFields
<1>5. CASE Asserted(w, w.manager.generation)
  <2>1. e \in Errands /\ e.op = "connect" /\ e.phase = "authorizing"
        /\ e.generation = w.manager.generation
      BY <1>4, NoErrandTyped DEF Errands, Managers
  <2> HIDE DEF e
  <2> DEFINE v == [w EXCEPT !.errand[o] = e]
  <2>2. /\ v \in Worlds /\ v.manager = w.manager /\ v.robot = w.robot /\ v.errand[o] = e
        /\ \A q \in ManagerCalls : q # o => v.errand[q] = w.errand[q]
      BY <1>1, <2>1 DEF Worlds
  <2>3. w.errand[o].op = "none" /\ Becomes(v)
      BY <1>1, <1>2, <1>5 DEF NoErrand
  <2> HIDE DEF v
  <2>4. WInv(v)
      BY <1>1, <2>1, <2>2, <2>3, BeginningKeeps
  <2> QED
      BY <1>3, <2>3, <2>4, Becoming
<1>6. CASE ~Asserted(w, w.manager.generation)
  <2>1. WInv(Ending(w, o, "connect", "failed"))
      BY <1>1, EndingKeeps
  <2> QED
      BY <1>2, <1>3, <1>6, <2>1, Becoming
<1> QED
    BY <1>5, <1>6

\* getSession() of a provider, once it has caught up.
LEMMA GetRobotSessionKeeps ==
    ASSUME IInv, NEW o \in ManagerCalls, NEW p \in ManagerCalls, GetRobotSession(o, p)
    PROVE  IInv'
<1> DEFINE c == CaughtUp
           w == [c EXCEPT !.errand[o].op = "session"]
           u == Over(w, o, "failed")
<1>1. /\ WInv(c) /\ c \in Worlds /\ c.errand[o] = NoErrand /\ robot[p].made
      /\ Becomes(AsksSession(w, o, p)) /\ identity'.who \in Whoever
    BY Beginning DEF GetRobotSession, IInv
<1>2. c.robot[p].made
    BY CaughtUpMade, <1>1
<1> HIDE DEF c
<1>3. /\ w \in Worlds /\ w.manager = c.manager /\ w.robot = c.robot
      /\ w.errand[o].op = "session" /\ w.errand[o].generation = 0
  <2> DEFINE e == [NoErrand EXCEPT !.op = "session"]
  <2>1. e \in Errands /\ e.op = "session" /\ e.generation = 0
      BY NoErrandTyped DEF NoErrand, Errands
  <2>2. w = [c EXCEPT !.errand[o] = e]
      BY <1>1 DEF Worlds
  <2> HIDE DEF e, w
  <2>3. w \in Worlds /\ w.manager = c.manager /\ w.robot = c.robot /\ w.errand[o] = e
      BY <1>1, <2>1, <2>2 DEF Worlds
  <2> QED
      BY <2>1, <2>3
<1>4. WInv(u)
  <2>1. u = Ending(c, o, "session", "failed")
      BY <1>1 DEF Over, Ending, Worlds
  <2>2. WInv(Ending(c, o, "session", "failed"))
      BY <1>1, EndingKeeps
  <2> QED
      BY <2>1, <2>2
<1>5. o \notin c.manager.connections
    BY <1>1 DEF WInv, Connected, NoErrand
<1> HIDE DEF w
<1>6. WInv(AsksSession(w, o, p))
    BY <1>2, <1>3, <1>4, <1>5, AsksSessionKeeps
<1> QED
    BY <1>1, <1>6, Becoming

\* invalidate(), and a session that is refused.
LEMMA InvalidateKeeps ==
    ASSUME IInv, NEW o \in ManagerCalls, NEW p \in ManagerCalls, NEW refused \in BOOLEAN,
           Invalidate(o, p, refused)
    PROVE  IInv'
<1> DEFINE w == Invalidated(World, p)
           u == [w EXCEPT !.robot[p].forbidden = @ \/ refused]
           v == Ending(u, o, "invalidate", "ok")
<1>1. /\ WInv(World) /\ World.errand[o] = NoErrand /\ World.robot[p].made /\ World \in Worlds
      /\ identity'.who \in Whoever
    BY Beginning DEF Invalidate, IInv
<1>2. Becomes([w EXCEPT !.robot[p].forbidden = @ \/ refused,
                        !.errand[o].op = "invalidate", !.errand[o].phase = "ok"])
    BY DEF Invalidate
<1>3. /\ WInv(w) /\ w.errand = Aborted(World, Waiting(World, p)).errand
      /\ w.robot = [World.robot EXCEPT ![p].revision = @ + 1, ![p].cached = NoIdentity,
                                       ![p].exchange = "none"]
    BY <1>1, InvalidatedKeeps
<1>4. w.robot[p].made /\ w.errand[o] = NoErrand
  <2>1. World.robot \in [ManagerCalls -> Providers] /\ World.robot[p] \in Providers
      BY <1>1, WorldFields
  <2>2. w.robot[p].made
      BY <1>1, <1>3, <2>1 DEF Providers
  <2>3. Waiting(World, p) \in SUBSET ManagerCalls /\ o \notin Waiting(World, p)
      BY <1>1 DEF Waiting, NoErrand
  <2>4. Aborted(World, Waiting(World, p)).errand[o] = World.errand[o]
      BY <1>1, <2>3, NotAborted
  <2> QED
      BY <1>1, <1>3, <2>2, <2>4
<1> HIDE DEF w
<1>5. w \in Worlds /\ w.robot \in [ManagerCalls -> Providers] /\ w.robot[p] \in Providers
    BY <1>3, WorldFields DEF WInv
<1>6. WInv(u) /\ u \in Worlds /\ u.errand = w.errand
  <2> DEFINE q == [w.robot[p] EXCEPT !.forbidden = @ \/ refused]
             r == [w.robot EXCEPT ![p] = q]
  <2>1. /\ q \in Providers /\ q.made /\ q.generation = w.robot[p].generation
        /\ q.cached = w.robot[p].cached /\ q.exchange = w.robot[p].exchange
        /\ q.subject = w.robot[p].subject /\ (q.disposed <=> w.robot[p].disposed)
      BY <1>4, <1>5 DEF Providers
  <2>2. u = [w EXCEPT !.robot = r]
      BY <1>5 DEF Worlds
  <2> HIDE DEF q
  <2>3. /\ r \in [ManagerCalls -> Providers] /\ r[p] = q
        /\ \A n \in ManagerCalls : n # p => r[n] = w.robot[n]
      BY <1>5, <2>1
  <2> HIDE DEF r, u
  <2>4. u \in Worlds /\ u.manager = w.manager /\ u.robot = r /\ u.errand = w.errand
      BY <1>5, <2>2, <2>3 DEF Worlds
  <2>5. \A n \in ManagerCalls : u.robot[n] = w.robot[n] \/
          /\ u.robot[n].made /\ w.robot[n].made
          /\ u.robot[n].generation = w.robot[n].generation
          /\ u.robot[n].disposed => w.robot[n].disposed \/ n \notin u.manager.connections
          /\ u.robot[n].cached \in {NoIdentity, w.robot[n].cached}
          /\ u.robot[n].exchange = "exchanging" => w.robot[n].exchange = "exchanging"
          /\ u.robot[n].subject = w.robot[n].subject
      BY <1>4, <2>1, <2>3, <2>4
  <2>6. Relinquishes(w, u)
      BY <2>4, <2>5 DEF Relinquishes
  <2> QED
      BY <1>3, <2>4, <2>6, RelinquishingKeeps
<1>7. Becomes(v)
  <2>1. v = [w EXCEPT !.robot[p].forbidden = @ \/ refused,
                      !.errand[o].op = "invalidate", !.errand[o].phase = "ok"]
      BY <1>5 DEF Ending, Worlds
  <2> QED
      BY <1>2, <2>1
<1> HIDE DEF u
<1>8. WInv(v)
    BY <1>4, <1>6, EndingKeeps
<1> QED
    BY <1>1, <1>7, <1>8, Becoming

\* dispose() of a connection.
LEMMA DisconnectKeeps ==
    ASSUME IInv, NEW o \in ManagerCalls, NEW p \in ManagerCalls, Disconnect(o, p)
    PROVE  IInv'
<1> DEFINE w == Invalidated(World, p)
           c == manager.connections \ {p}
           u == [w EXCEPT !.robot[p].disposed = TRUE, !.manager.connections = c]
           v == Ending(u, o, "disconnect", "ok")
<1>1. /\ WInv(World) /\ World.errand[o] = NoErrand /\ World \in Worlds
      /\ World.manager = manager /\ World.robot = robot /\ World.errand = errand
      /\ identity'.who \in Whoever
    BY Beginning DEF Disconnect, IInv
<1>2. /\ p \in manager.connections
      /\ Becomes([w EXCEPT !.robot[p].disposed = TRUE, !.manager.connections = @ \ {p},
                           !.errand[o].op = "disconnect", !.errand[o].phase = "ok"])
    BY DEF Disconnect
<1>3. World.robot[p].made
    BY <1>1, <1>2 DEF WInv, Connected
<1>4. /\ WInv(w) /\ w.manager = manager /\ w.errand = Aborted(World, Waiting(World, p)).errand
    BY <1>1, <1>3, InvalidatedKeeps
<1> HIDE DEF w
<1>5. w \in Worlds
    BY <1>4 DEF WInv
<1>6. u = Disposing(World, p, c)
    BY DEF w, Disposing
<1> HIDE DEF u
<1>7. WInv(u) /\ u.errand[o] = NoErrand
  <2>1. c \in SUBSET World.manager.connections /\ p \notin c
      BY <1>1
  <2>2. WInv(u) /\ u.errand = Aborted(World, Waiting(World, p)).errand
    <3>1. WInv(World)
        BY <1>1
    <3> HIDE DEF c
    <3> QED
        BY <1>3, <1>6, <2>1, <3>1, DisposedKeeps, ZenonT(30)
  <2>3. Waiting(World, p) \in SUBSET ManagerCalls /\ o \notin Waiting(World, p)
      BY <1>1 DEF Waiting, NoErrand
  <2>4. Aborted(World, Waiting(World, p)).errand[o] = World.errand[o]
      BY <1>1, <2>3, NotAborted
  <2> QED
      BY <1>1, <2>2, <2>4
<1>8. Becomes(v)
  <2>1. ASSUME NEW b \in BOOLEAN
        PROVE  [w EXCEPT !.robot[p].disposed = b, !.manager.connections = @ \ {p},
                         !.errand[o].op = "disconnect", !.errand[o].phase = "ok"]
               = Ending([w EXCEPT !.robot[p].disposed = b, !.manager.connections = c],
                        o, "disconnect", "ok")
      BY <1>4, <1>5 DEF Ending, Worlds
  <2> QED
      BY <1>2, <2>1 DEF u
<1>9. WInv(v)
    BY <1>7, EndingKeeps
<1> QED
    BY <1>1, <1>8, <1>9, Becoming

\* cancelRequests().
LEMMA CancelRequestsKeeps ==
    ASSUME IInv, NEW o \in ManagerCalls, CancelRequests(o)
    PROVE  IInv'
<1> DEFINE c == Cancelled(World)
           v == Ending(c, o, "cancel", "ok")
<1>1. /\ WInv(World) /\ World.errand[o] = NoErrand /\ identity'.who \in Whoever
    BY Beginning DEF CancelRequests, IInv
<1>2. WInv(c) /\ c.errand[o] = NoErrand
    BY <1>1, CancelledKeeps DEF NoErrand
<1>3. Becomes(v)
    BY DEF CancelRequests, Ending
<1> HIDE DEF c
<1>4. WInv(v)
    BY <1>2, EndingKeeps
<1> QED
    BY <1>1, <1>3, <1>4, Becoming

\* dispose() begins a generation in which nothing is asked for.
LEMMA DisposeManagerKeeps ==
    ASSUME IInv, NEW o \in ManagerCalls, DisposeManager(o)
    PROVE  IInv'
<1> DEFINE c == Cancelled(World)
           d == AllDisposed(c)
           e == Ended("dispose", "ok")
           n == d.manager.generation + 1
           m(b) == [d.manager EXCEPT !.generation = n, !.status = "disposed",
                                     !.items = {}, !.disposed = b]
           v == [d EXCEPT !.manager = m(TRUE), !.errand = [d.errand EXCEPT ![o] = e]]
<1>1. WInv(World) /\ World.errand[o] = NoErrand /\ identity'.who \in Whoever
    BY Beginning DEF DisposeManager, IInv
<1>2. /\ WInv(c) /\ c.errand[o] = NoErrand
      /\ \A q \in ManagerCalls : ~InFlight(c.errand[q])
    BY <1>1, CancelledKeeps DEF NoErrand
<1> HIDE DEF c
<1>3. /\ WInv(d) /\ d.errand[o] = NoErrand /\ d.manager = [c.manager EXCEPT !.connections = {}]
      /\ \A q \in ManagerCalls : d.errand[q] = c.errand[q] \/ d.errand[q].phase = "aborted"
  <2>1. c.errand[o].op = "none"
      BY <1>2 DEF NoErrand
  <2> QED
      BY <1>2, <2>1, AllDisposedKeeps
<1>4. Becomes([d EXCEPT !.manager.generation = @ + 1, !.manager.status = "disposed",
                        !.manager.items = {}, !.manager.disposed = TRUE,
                        !.errand[o].op = "dispose", !.errand[o].phase = "ok"])
    BY DEF DisposeManager, c
<1> HIDE DEF d
<1>5. /\ d \in Worlds /\ d.manager \in Managers /\ d.manager.connections = {}
      /\ d.errand \in [ManagerCalls -> Errands]
  <2>1. c.manager \in Managers
      BY <1>2, WorldFields DEF WInv
  <2> QED
      BY <1>3, <2>1, WorldFields DEF WInv, Managers
<1>6. n \in Nat
    BY <1>5 DEF Managers
<1>9. ASSUME NEW b \in BOOLEAN
      PROVE  m(b) \in Managers /\ m(b).generation = n /\ m(b).items = {} /\ m(b).connections = {}
  <2> HIDE DEF n
  <2> QED
      BY <1>5, <1>6 DEF Managers
<1>10. e \in Errands /\ e.op = "dispose" /\ e.phase = "ok"
    BY EndedTyped
<1>7. ASSUME NEW b \in BOOLEAN
      PROVE  [d EXCEPT !.manager.generation = n, !.manager.status = "disposed",
                       !.manager.items = {}, !.manager.disposed = b,
                       !.errand[o].op = "dispose", !.errand[o].phase = "ok"]
             = [d EXCEPT !.manager = m(b), !.errand = [d.errand EXCEPT ![o] = e]]
  <2>1. e = [d.errand[o] EXCEPT !.op = "dispose", !.phase = "ok"]
      BY <1>3 DEF Ended
  <2> HIDE DEF n, e
  <2>2. d \in Worlds
      BY <1>5
  <2>3. [d EXCEPT !.manager.generation = n, !.manager.status = "disposed",
                  !.manager.items = {}, !.manager.disposed = b,
                  !.errand[o].op = "dispose", !.errand[o].phase = "ok"]
        = [d EXCEPT !.manager = m(b), !.errand = [d.errand EXCEPT ![o] =
              [d.errand[o] EXCEPT !.op = "dispose", !.phase = "ok"]]]
      BY <2>2 DEF Worlds
  <2> HIDE DEF m
  <2> QED
      BY <2>1, <2>3, Zenon
<1>8. Becomes(v)
    BY <1>4, <1>7, Zenon
<1> HIDE DEF m, e
<1>11. /\ v \in Worlds /\ v.robot = d.robot /\ v.manager.generation = n
       /\ v.manager.items = {} /\ v.manager.connections = {}
       /\ \A q \in ManagerCalls : v.errand[q] = IF q = o THEN e ELSE d.errand[q]
    BY <1>3, <1>5, <1>9, <1>10 DEF Worlds
<1> HIDE DEF v
<1>12. \A q \in ManagerCalls : ~InFlight(d.errand[q])
    BY <1>2, <1>3 DEF InFlight
<1>13. WInv(v)
  <2>1. \A q \in ManagerCalls :
            \/ v.errand[q] = d.errand[q]
            \/ v.errand[q].phase \in {"ok", "failed"} /\ v.errand[q].op # "none"
      BY <1>10, <1>11
  <2>2. v.manager.generation = d.manager.generation + 1
      BY <1>11 DEF n
  <2>3. WInv(d)
      BY <1>3
  <2>4. /\ v \in Worlds /\ v.robot = d.robot
        /\ v.manager.items = {} /\ v.manager.connections = {}
      BY <1>11
  <2> HIDE DEF n
  <2> QED
      BY <1>12, <2>1, <2>2, <2>3, <2>4, NextGeneration
<1> QED
    BY <1>1, <1>8, <1>13, Becoming

\* A call goes on, and nothing else changes.
LEMMA ErrandSet ==
    ASSUME NEW w \in Worlds, NEW o \in ManagerCalls, NEW e \in Errands,
           NEW v, v = [w EXCEPT !.errand[o] = e]
    PROVE  /\ v \in Worlds /\ v.manager = w.manager /\ v.robot = w.robot
           /\ v.errand[o] = e /\ \A q \in ManagerCalls : q # o => v.errand[q] = w.errand[q]
    BY DEF Worlds

\* A provider changes, and nothing else does.
LEMMA RobotSet ==
    ASSUME NEW w \in Worlds, NEW p \in ManagerCalls, NEW r \in Providers,
           NEW v, v = [w EXCEPT !.robot[p] = r]
    PROVE  /\ v \in Worlds /\ v.manager = w.manager /\ v.errand = w.errand
           /\ v.robot[p] = r /\ \A q \in ManagerCalls : q # p => v.robot[q] = w.robot[q]
    BY DEF Worlds

\* The world is that of a state of the invariant.
LEMMA Here ==
    ASSUME IInv
    PROVE  /\ WInv(World) /\ World \in Worlds
           /\ World.manager = manager /\ World.robot = robot /\ World.errand = errand
           /\ manager \in Managers
           /\ robot \in [ManagerCalls -> Providers] /\ errand \in [ManagerCalls -> Errands]
           /\ identity.who \in Whoever
           /\ ~Unheard /\ ~manager.disposed => manager.scope = identity.who
    BY WorldFields DEF IInv, World, WInv, Unheard

\* The AuthClient's session is that of the identity the request was begun for.
LEMMA AuthorizedKeeps ==
    ASSUME IInv, NEW o \in ManagerCalls, Authorized(o)
    PROVE  IInv'
<1> DEFINE w == World
           e == [w.errand[o] EXCEPT !.phase = "fetching", !.subject = identity.who]
           v == [w EXCEPT !.errand[o] = e]
<1>1. /\ WInv(w) /\ w \in Worlds /\ w.errand[o] \in Errands /\ identity.who \in Whoever
      /\ w.errand[o].phase = "authorizing"
      /\ w.manager.scope = identity.who /\ identity'.who \in Whoever
    BY Here DEF Authorized, Asserted
<1>2. Becomes([w EXCEPT !.errand[o].phase = "fetching", !.errand[o].subject = identity.who])
    BY DEF Authorized
<1> HIDE DEF w
<1>3. Becomes(v)
    BY <1>1, <1>2 DEF Worlds
<1>4. /\ e \in Errands /\ e.phase = "fetching" /\ e.subject = identity.who
      /\ e.op = w.errand[o].op /\ e.generation = w.errand[o].generation
      /\ e.page = w.errand[o].page
    BY <1>1 DEF Errands
<1> HIDE DEF e
<1>5. /\ v \in Worlds /\ v.manager = w.manager /\ v.robot = w.robot
      /\ v.errand[o] = e /\ \A q \in ManagerCalls : q # o => v.errand[q] = w.errand[q]
    BY <1>1, <1>4, ErrandSet
<1> HIDE DEF v
<1>6. w.errand[o].op # "none" /\ o \notin w.manager.connections
    BY <1>1 DEF WInv, NotBegun, NoErrand, Connected
<1>7. ListedInScope(v) /\ ProvidersCurrent(v)
    BY <1>1, <1>5 DEF WInv, ListedInScope, ProvidersCurrent
<1>8. Connected(v)
    BY <1>1, <1>5, <1>6 DEF WInv, Connected, Worlds, Managers
<1>9. FlightsCurrent(v)
    BY <1>1, <1>4, <1>5 DEF WInv, FlightsCurrent, InFlight
<1>10. SessionOfProvider(v)
    BY <1>1, <1>4, <1>5 DEF WInv, SessionOfProvider
<1>11. NotBegun(v)
    BY <1>1, <1>4, <1>5, <1>6 DEF WInv, NotBegun
<1>12. WInv(v)
    BY <1>5, <1>7, <1>8, <1>9, <1>10, <1>11 DEF WInv
<1> QED
    BY <1>1, <1>3, <1>12, Becoming

\* A page that arrives was asked for by the identity that is listed.
LEMMA PageArrivesKeeps ==
    ASSUME IInv, NEW o \in ManagerCalls, PageArrives(o)
    PROVE  IInv'
<1> DEFINE e == errand[o]
           w == Over(World, o, "ok")
           items == (IF e.page = 1 THEN {} ELSE manager.items)
                       \cup {<<e.page, e.subject, e.generation>>}
           m == [manager EXCEPT !.status = "ready", !.items = items]
           v == [w EXCEPT !.manager = m]
<1>1. /\ WInv(World) /\ World \in Worlds /\ e \in Errands /\ manager \in Managers
      /\ World.manager = manager /\ World.errand = errand /\ World.robot = robot
      /\ identity'.who \in Whoever
    BY Here DEF PageArrives
<1>2. e.op = "load" /\ e.phase = "fetching"
    BY DEF PageArrives
<1>3. /\ e.generation = manager.generation /\ e.subject = manager.scope
      /\ e.page \in {1, 2} /\ o \notin manager.connections
    BY <1>1, <1>2 DEF WInv, FlightsCurrent, InFlight, Connected
<1>4. WInv(w) /\ w.manager = manager
  <2>1. "ok" \in {"failed", "ok"}
      OBVIOUS
  <2> QED
      BY <1>1, <1>2, <1>3, <2>1, OverKeeps
<1>5. Becomes([w EXCEPT !.manager.status = "ready",
                        !.manager.items = (IF e.page = 1 THEN {} ELSE @)
                                             \cup {<<e.page, e.subject, e.generation>>}])
    BY DEF PageArrives
<1> HIDE DEF w
<1>6. w \in Worlds
    BY <1>4 DEF WInv
<1>7. Becomes(v)
    BY <1>4, <1>5, <1>6 DEF Worlds
<1>8. \A item \in items : item[2] = manager.scope /\ item[3] = manager.generation
    BY <1>1, <1>3 DEF WInv, ListedInScope
<1>9. items \in SUBSET ({1, 2} \X Whoever \X Nat)
    BY <1>1, <1>3 DEF Managers
<1> HIDE DEF items
<1>10. /\ m \in Managers /\ m.scope = manager.scope /\ m.generation = manager.generation
       /\ m.items = items /\ m.connections = manager.connections
    BY <1>1, <1>9 DEF Managers
<1> HIDE DEF m
<1>11. v \in Worlds /\ v.manager = m /\ v.robot = w.robot /\ v.errand = w.errand
    BY <1>6, <1>10 DEF Worlds
<1> HIDE DEF v
<1>12. ListedInScope(v)
    BY <1>8, <1>10, <1>11 DEF ListedInScope
<1>13. Connected(v) /\ FlightsCurrent(v)
    BY <1>4, <1>10, <1>11 DEF WInv, Connected, FlightsCurrent
<1>14. ProvidersCurrent(v)
    BY <1>4, <1>10, <1>11 DEF WInv, ProvidersCurrent
<1>15. SessionOfProvider(v) /\ NotBegun(v)
    BY <1>4, <1>10, <1>11 DEF WInv, SessionOfProvider, NotBegun
<1>16. WInv(v)
    BY <1>11, <1>12, <1>13, <1>14, <1>15 DEF WInv
<1> QED
    BY <1>1, <1>7, <1>16, Becoming

\* A connection gets a provider of this generation, and asks it for a session.
LEMMA InfoArrivesKeeps ==
    ASSUME IInv, NEW o \in ManagerCalls, InfoArrives(o)
    PROVE  IInv'
<1> DEFINE g == manager.generation
           made(b) == [NoProvider EXCEPT !.made = b, !.generation = g]
           w == [World EXCEPT !.robot[o].made = TRUE, !.robot[o].generation = g]
           q == made(TRUE)
           u == Over(w, o, "failed")
<1>1. /\ WInv(World) /\ World \in Worlds /\ g \in Nat /\ g = manager.generation
      /\ World.manager = manager /\ World.errand = errand /\ World.robot = robot
      /\ errand[o] \in Errands /\ identity'.who \in Whoever
    BY Here DEF InfoArrives, Managers
<1>2. errand[o].op = "connect" /\ errand[o].phase = "fetching" /\ Becomes(AsksSession(w, o, o))
    BY DEF InfoArrives
<1> HIDE DEF g
<1>3. errand[o].generation = g /\ robot[o] = NoProvider /\ o \notin manager.connections
    BY <1>1, <1>2 DEF WInv, FlightsCurrent, ProvidersCurrent, InFlight, Connected
<1>4. ASSUME NEW b \in BOOLEAN
      PROVE  /\ made(b) \in Providers /\ made(b).generation = g
             /\ made(b).cached = NoIdentity /\ made(b).exchange = "none"
             /\ (made(b).made <=> b) /\ ~made(b).disposed
             /\ [World EXCEPT !.robot[o].made = b, !.robot[o].generation = g]
                = [World EXCEPT !.robot[o] = made(b)]
    BY <1>1, <1>3 DEF NoProvider, Providers, Worlds, Whoever
<1>5. w = [World EXCEPT !.robot[o] = q]
    BY <1>4, Zenon
<1>6. /\ q \in Providers /\ q.generation = g /\ q.cached = NoIdentity
      /\ q.exchange = "none" /\ q.made
    BY <1>4
<1> HIDE DEF w, made, q
<1>7. /\ w \in Worlds /\ w.manager = manager /\ w.errand = errand
      /\ w.robot[o] = q /\ \A n \in ManagerCalls : n # o => w.robot[n] = robot[n]
  <2>1. /\ w \in Worlds /\ w.manager = World.manager /\ w.errand = World.errand
        /\ w.robot[o] = q /\ \A n \in ManagerCalls : n # o => w.robot[n] = World.robot[n]
    <3>1. World \in Worlds
        BY <1>1
    <3> HIDE DEF u
    <3> QED
        BY <1>5, <1>6, <3>1 DEF Worlds
  <2> QED
      BY <1>1, <2>1
<1>8. /\ u \in Worlds /\ u.manager = manager /\ u.robot = w.robot
      /\ u.errand[o].op = errand[o].op /\ u.errand[o].phase = "failed"
      /\ \A n \in ManagerCalls : n # o => u.errand[n] = errand[n]
  <2>1. "failed" \in {"failed", "ok"} /\ w \in Worlds
      BY <1>7
  <2> HIDE DEF u
  <2>2. /\ u \in Worlds /\ u.manager = w.manager /\ u.robot = w.robot
        /\ u.errand[o].op = w.errand[o].op /\ u.errand[o].phase = "failed"
        /\ \A n \in ManagerCalls : n # o => u.errand[n] = w.errand[n]
      BY <2>1, OverKeeps DEF u
  <2> QED
      BY <1>7, <2>2
<1> HIDE DEF u
<1>9. ListedInScope(u)
    BY <1>1, <1>8 DEF WInv, ListedInScope
<1>10. Connected(u)
    BY <1>1, <1>3, <1>7, <1>8 DEF WInv, Connected, Worlds, Managers
<1>11. FlightsCurrent(u)
    BY <1>1, <1>7, <1>8 DEF WInv, FlightsCurrent, InFlight
<1>12. ProvidersCurrent(u)
  <2>1. ASSUME NEW n \in ManagerCalls, n # o PROVE u.robot[n] = robot[n]
      BY <1>7, <1>8, <2>1
  <2>2. u.robot[o] = q /\ g <= g
      BY <1>1, <1>7, <1>8
  <2> QED
      BY <1>1, <1>6, <1>8, <2>1, <2>2 DEF WInv, ProvidersCurrent
<1>13. SessionOfProvider(u)
  <2>1. ASSUME NEW n \in ManagerCalls, u.errand[n].phase \in {"awaiting", "given"}
        PROVE  /\ n # o /\ u.errand[n] = errand[n] /\ errand[n].provider # o
               /\ errand[n].provider \in ManagerCalls
               /\ u.robot[errand[n].provider] = robot[errand[n].provider]
    <3>1. n # o /\ u.errand[n] = errand[n]
        BY <1>8, <2>1
    <3>2. errand[n].provider \in ManagerCalls /\ robot[errand[n].provider].made
        BY <1>1, <2>1, <3>1 DEF WInv, SessionOfProvider
    <3>3. errand[n].provider # o
        BY <1>3, <3>2 DEF NoProvider
    <3> QED
        BY <1>7, <1>8, <3>1, <3>2, <3>3
  <2> QED
      BY <1>1, <1>7, <1>8, <2>1 DEF WInv, SessionOfProvider
<1>14. NotBegun(u)
    BY <1>1, <1>2, <1>7, <1>8 DEF WInv, NotBegun
<1>15. WInv(u)
    BY <1>8, <1>9, <1>10, <1>11, <1>12, <1>13, <1>14 DEF WInv
<1>16. WInv(AsksSession(w, o, o))
  <2>1. /\ WInv(Over(w, o, "failed")) /\ w.robot[o].made /\ o \notin w.manager.connections
        /\ w.errand[o].op = "connect" /\ w.errand[o].generation = w.robot[o].generation
      BY <1>2, <1>3, <1>6, <1>7, <1>15 DEF u
  <2> QED
      BY <1>7, <2>1, AsksSessionKeeps
<1> QED
    BY <1>1, <1>2, <1>16, Becoming

\* The session that is exchanged is that of the identity that is signed in.
LEMMA SubjectGivenKeeps ==
    ASSUME IInv, NEW p \in ManagerCalls, SubjectGiven(p)
    PROVE  IInv'
<1> DEFINE r == [robot[p] EXCEPT !.exchange = "exchanging", !.subject = identity.who]
           v == [World EXCEPT !.robot[p] = r]
<1>1. /\ WInv(World) /\ World \in Worlds /\ identity.who \in Whoever
      /\ World.manager = manager /\ World.errand = errand /\ World.robot = robot
      /\ robot[p] \in Providers /\ manager.scope = identity.who /\ identity'.who \in Whoever
    BY Here DEF SubjectGiven, Guarded, Asserted
<1>2. /\ robot[p].exchange = "authorizing"
      /\ Becomes([World EXCEPT !.robot[p].exchange = "exchanging",
                               !.robot[p].subject = identity.who])
    BY DEF SubjectGiven
<1>3. Becomes(v)
    BY <1>1, <1>2 DEF Worlds
<1>4. /\ r \in Providers /\ r.subject = identity.who /\ (r.made <=> robot[p].made)
      /\ r.generation = robot[p].generation /\ r.cached = robot[p].cached
      /\ (r.disposed <=> robot[p].disposed)
    BY <1>1 DEF Providers
<1>5. robot[p].made
    BY <1>1, <1>2 DEF WInv, ProvidersCurrent, NoProvider
<1> HIDE DEF r
<1>6. /\ v \in Worlds /\ v.manager = manager /\ v.errand = errand
      /\ v.robot[p] = r /\ \A q \in ManagerCalls : q # p => v.robot[q] = robot[q]
    BY <1>1, <1>4, RobotSet
<1> HIDE DEF v
<1>7. /\ \A q \in ManagerCalls : /\ v.robot[q].made <=> robot[q].made
                                 /\ v.robot[q].generation = robot[q].generation
                                 /\ v.robot[q].disposed <=> robot[q].disposed
    BY <1>4, <1>6
<1>8. ListedInScope(v)
    BY <1>1, <1>6 DEF WInv, ListedInScope
<1>9. Connected(v)
    BY <1>1, <1>6, <1>7 DEF WInv, Connected, Worlds, Managers
<1>10. FlightsCurrent(v)
    BY <1>1, <1>6, <1>7 DEF WInv, FlightsCurrent
<1>11. ProvidersCurrent(v)
    BY <1>1, <1>4, <1>5, <1>6 DEF WInv, ProvidersCurrent
<1>12. SessionOfProvider(v) /\ NotBegun(v)
    BY <1>1, <1>6, <1>7 DEF WInv, SessionOfProvider, NotBegun
<1>13. WInv(v)
    BY <1>6, <1>8, <1>9, <1>10, <1>11, <1>12 DEF WInv
<1> QED
    BY <1>1, <1>3, <1>13, Becoming

\* What was exchanged is given to the calls that wait for it, and cached.
LEMMA ExchangedKeeps ==
    ASSUME IInv, NEW p \in ManagerCalls, Exchanged(p)
    PROVE  IInv'
<1> DEFINE subject == robot[p].subject
           r == [robot[p] EXCEPT !.exchange = "none", !.cached = subject]
           f == [o \in ManagerCalls |->
                    IF o \in Waiting(World, p)
                    THEN [errand[o] EXCEPT !.phase = "given", !.subject = subject]
                    ELSE errand[o]]
           w == [World EXCEPT !.robot[p] = r]
           v == [w EXCEPT !.errand = f]
<1>1. /\ WInv(World) /\ World \in Worlds
      /\ World.manager = manager /\ World.errand = errand /\ World.robot = robot
      /\ robot[p] \in Providers /\ errand \in [ManagerCalls -> Errands]
      /\ identity'.who \in Whoever
    BY Here DEF Exchanged
<1>2. /\ robot[p].exchange = "exchanging" /\ robot[p].generation = manager.generation
      /\ Becomes([World EXCEPT !.robot[p].exchange = "none", !.robot[p].cached = subject,
                               !.errand = f])
    BY <1>1 DEF Exchanged, Guarded, Asserted
<1>3. subject = manager.scope /\ robot[p].made
    BY <1>1, <1>2 DEF WInv, ProvidersCurrent, NoProvider
<1>4. /\ r \in Providers /\ r.cached = subject /\ r.exchange = "none" /\ r.made
      /\ r.generation = robot[p].generation /\ (r.disposed <=> robot[p].disposed)
    BY <1>1, <1>3 DEF Providers
<1>5. /\ f \in [ManagerCalls -> Errands]
      /\ \A o \in ManagerCalls : f[o] = errand[o] \/
            /\ errand[o].phase = "awaiting" /\ errand[o].provider = p
            /\ f[o].phase = "given" /\ f[o].subject = subject /\ f[o].provider = p
            /\ f[o].op = errand[o].op /\ f[o].generation = errand[o].generation
  <2>1. subject \in Whoever /\ \A o \in ManagerCalls : errand[o] \in Errands
      BY <1>1 DEF Providers
  <2> HIDE DEF subject
  <2>2. \A o \in ManagerCalls :
           LET e == [errand[o] EXCEPT !.phase = "given", !.subject = subject]
           IN  /\ e \in Errands /\ e.phase = "given" /\ e.subject = subject
               /\ e.provider = errand[o].provider
               /\ e.op = errand[o].op /\ e.generation = errand[o].generation
      BY <2>1 DEF Errands
  <2>3. \A o \in Waiting(World, p) : errand[o].phase = "awaiting" /\ errand[o].provider = p
      BY <1>1 DEF Waiting
  <2> QED
      BY <2>1, <2>2, <2>3
<1> HIDE DEF subject, f
<1>6. Becomes(v)
    BY <1>1, <1>2 DEF Worlds
<1> HIDE DEF r
<1>7. /\ w \in Worlds /\ w.manager = manager /\ w.errand = errand
      /\ w.robot[p] = r /\ \A q \in ManagerCalls : q # p => w.robot[q] = robot[q]
    BY <1>1, <1>4, RobotSet
<1> HIDE DEF w
<1>8. /\ v \in Worlds /\ v.manager = manager /\ v.robot = w.robot /\ v.errand = f
    BY <1>5, <1>7 DEF Worlds
<1> HIDE DEF v
<1>9. /\ \A q \in ManagerCalls : /\ v.robot[q].made <=> robot[q].made
                                 /\ v.robot[q].generation = robot[q].generation
                                 /\ v.robot[q].disposed <=> robot[q].disposed
    BY <1>3, <1>4, <1>7, <1>8
<1>10. ListedInScope(v)
    BY <1>1, <1>8 DEF WInv, ListedInScope
<1>11. Connected(v)
  <2>1. \A q \in manager.connections : q \in ManagerCalls /\ f[q] = errand[q]
      BY <1>1, <1>5 DEF WInv, Connected, Worlds, Managers
  <2> QED
      BY <1>1, <1>8, <1>9, <2>1 DEF WInv, Connected
<1>12. FlightsCurrent(v)
  <2>1. \A q \in ManagerCalls : InFlight(f[q]) => f[q] = errand[q]
      BY <1>5 DEF InFlight
  <2> QED
      BY <1>1, <1>8, <1>9, <2>1 DEF WInv, FlightsCurrent
<1>13. ProvidersCurrent(v)
    BY <1>1, <1>3, <1>4, <1>7, <1>8 DEF WInv, ProvidersCurrent
<1>14. SessionOfProvider(v)
  <2> SUFFICES ASSUME NEW n \in ManagerCalls, v.errand[n].phase \in {"awaiting", "given"}
               PROVE  LET d == v.errand[n]
                          k == d.provider
                      IN  /\ k \in ManagerCalls /\ v.robot[k].made
                          /\ \/ d.op = "connect" /\ k = n
                                /\ d.generation = v.robot[n].generation
                             \/ d.op = "session" /\ d.generation = 0
                          /\ d.phase = "given" /\ v.robot[k].generation = v.manager.generation =>
                                d.subject = v.manager.scope
      BY DEF SessionOfProvider
  <2>1. CASE v.errand[n] = errand[n]
      BY <1>1, <1>8, <1>9, <2>1 DEF WInv, SessionOfProvider
  <2>2. CASE v.errand[n] # errand[n]
      BY <1>1, <1>3, <1>5, <1>8, <1>9, <2>2 DEF WInv, SessionOfProvider
  <2> QED
      BY <2>1, <2>2
<1>15. NotBegun(v)
  <2>1. \A q \in ManagerCalls : f[q].op = "none" => f[q] = errand[q]
      BY <1>1, <1>5 DEF WInv, NotBegun, NoErrand
  <2> QED
      BY <1>1, <1>8, <1>9, <2>1 DEF WInv, NotBegun
<1>16. WInv(v)
    BY <1>8, <1>10, <1>11, <1>12, <1>13, <1>14, <1>15 DEF WInv
<1> QED
    BY <1>1, <1>6, <1>16, Becoming

\* A provider may always give up what it caches or exchanges.
LEMMA ProviderRelinquishes ==
    ASSUME NEW w, WInv(w), NEW p \in ManagerCalls, w.robot[p].made,
           NEW r \in Providers, r.made, r.generation = w.robot[p].generation,
           r.disposed => w.robot[p].disposed, r.cached \in {NoIdentity, w.robot[p].cached},
           r.exchange \in {"none", w.robot[p].exchange}, r.subject = w.robot[p].subject
    PROVE  /\ WInv([w EXCEPT !.robot[p] = r])
           /\ [w EXCEPT !.robot[p] = r].errand = w.errand
<1> DEFINE v == [w EXCEPT !.robot[p] = r]
<1>1. w \in Worlds
    BY DEF WInv
<1>2. /\ v \in Worlds /\ v.manager = w.manager /\ v.errand = w.errand
      /\ v.robot[p] = r /\ \A q \in ManagerCalls : q # p => v.robot[q] = w.robot[q]
    BY <1>1 DEF Worlds
<1> HIDE DEF v
<1>3. Relinquishes(w, v)
  <2>1. r.exchange = "exchanging" => w.robot[p].exchange = "exchanging"
      OBVIOUS
  <2>2. \A n \in ManagerCalls : v.robot[n] = w.robot[n] \/
          /\ v.robot[n].made /\ w.robot[n].made
          /\ v.robot[n].generation = w.robot[n].generation
          /\ v.robot[n].disposed => w.robot[n].disposed \/ n \notin v.manager.connections
          /\ v.robot[n].cached \in {NoIdentity, w.robot[n].cached}
          /\ v.robot[n].exchange = "exchanging" => w.robot[n].exchange = "exchanging"
          /\ v.robot[n].subject = w.robot[n].subject
      BY <1>2, <2>1
  <2> QED
      BY <1>2, <2>2 DEF Relinquishes
<1>4. WInv(v)
    BY <1>2, <1>3, RelinquishingKeeps
<1> QED
    BY <1>2, <1>4 DEF v

\* An exchange fails.
LEMMA ExchangeFailsKeeps ==
    ASSUME IInv, NEW p \in ManagerCalls, NEW refused \in BOOLEAN, ExchangeFails(p, refused)
    PROVE  IInv'
<1> DEFINE a == Aborted(World, Waiting(World, p))
           r == [robot[p] EXCEPT !.exchange = "none", !.forbidden = @ \/ refused]
           v == [a EXCEPT !.robot[p] = r]
<1>1. /\ WInv(World) /\ World \in Worlds /\ World.robot = robot /\ World.errand = errand
      /\ robot[p] \in Providers /\ robot[p].exchange # "none" /\ identity'.who \in Whoever
    BY Here DEF ExchangeFails
<1>2. robot[p].made
    BY <1>1 DEF WInv, ProvidersCurrent, NoProvider
<1>3. WInv(a) /\ a \in Worlds /\ a.robot = robot
  <2>1. Waiting(World, p) \in SUBSET ManagerCalls
      BY DEF Waiting
  <2>2. \A o \in Waiting(World, p) : World.errand[o].phase = "awaiting"
      BY DEF Waiting
  <2>3. a \in Worlds /\ a.robot = robot
      BY <1>1, <2>1, AbortedFields
  <2> QED
      BY <1>1, <2>1, <2>2, <2>3, AbortedKeeps
<1>4. Becomes([a EXCEPT !.robot[p].exchange = "none", !.robot[p].forbidden = @ \/ refused])
    BY DEF ExchangeFails
<1> HIDE DEF a
<1>5. Becomes(v)
    BY <1>3, <1>4 DEF Worlds
<1>6. /\ r \in Providers /\ r.made /\ r.generation = robot[p].generation
      /\ r.disposed => robot[p].disposed
      /\ r.cached = robot[p].cached /\ r.exchange = "none" /\ r.subject = robot[p].subject
    BY <1>1, <1>2 DEF Providers
<1> HIDE DEF r
<1>7. WInv(v)
    BY <1>2, <1>3, <1>6, ProviderRelinquishes
<1> QED
    BY <1>1, <1>5, <1>7, Becoming

\* A session expires.
LEMMA TokenExpiresKeeps ==
    ASSUME IInv, NEW p \in ManagerCalls, TokenExpires(p)
    PROVE  IInv'
<1> DEFINE r == [robot[p] EXCEPT !.cached = NoIdentity]
           v == [World EXCEPT !.robot[p] = r]
<1>1. /\ WInv(World) /\ World \in Worlds /\ World.manager = manager /\ World.robot = robot
      /\ World.errand = errand /\ robot \in [ManagerCalls -> Providers]
      /\ robot[p] \in Providers /\ robot[p].cached # NoIdentity /\ identity'.who \in Whoever
    BY Here DEF TokenExpires
<1>2. robot[p].made
    BY <1>1 DEF WInv, ProvidersCurrent, NoProvider
<1>3. /\ r \in Providers /\ r.made /\ r.generation = robot[p].generation
      /\ r.disposed => robot[p].disposed
      /\ r.cached = NoIdentity /\ r.exchange = robot[p].exchange /\ r.subject = robot[p].subject
    BY <1>1, <1>2 DEF Providers, Whoever
<1>4. Becomes(v)
  <2>1. /\ robot' = [robot EXCEPT ![p].cached = NoIdentity]
        /\ manager' = manager /\ errand' = errand
      BY DEF TokenExpires
  <2>2. [robot EXCEPT ![p].cached = NoIdentity] = [robot EXCEPT ![p] = r]
      BY <1>1
  <2> HIDE DEF r
  <2>3. v.manager = manager /\ v.errand = errand /\ v.robot = [robot EXCEPT ![p] = r]
      BY DEF World
  <2> QED
      BY <2>1, <2>2, <2>3 DEF Becomes
<1> HIDE DEF r
<1>5. WInv(v)
    BY <1>1, <1>2, <1>3, ProviderRelinquishes
<1> QED
    BY <1>1, <1>4, <1>5, Becoming

\* A request is refused, or was aborted.
LEMMA RequestFailsKeeps ==
    ASSUME IInv, NEW o \in ManagerCalls, RequestFails(o)
    PROVE  IInv'
<1>1. identity'.who \in Whoever
    BY DEF IInv, RequestFails
<1>2. PICK status \in {"idle", "error", "auth_required"} :
          /\ Becomes(Fails(o, status))
          /\ errand[o].phase \in {"authorizing", "fetching", "aborted"}
    BY DEF RequestFails, InFlight
<1>3. WInv(Fails(o, status))
    BY <1>2, FailsKeeps
<1> QED
    BY <1>1, <1>2, <1>3, Becoming

\* A connection is complete with the session of a provider of this generation.
LEMMA SessionHandedOverKeeps ==
    ASSUME IInv, NEW o \in ManagerCalls, SessionHandedOver(o)
    PROVE  IInv'
<1> DEFINE e == errand[o]
           w == Over(World, o, "ok")
           c == IF e.op = "connect" THEN manager.connections \cup {o} ELSE manager.connections
           m == [manager EXCEPT !.connections = c]
           v == [w EXCEPT !.manager = m]
<1>1. /\ WInv(World) /\ World \in Worlds /\ e \in Errands /\ manager \in Managers
      /\ World.manager = manager /\ World.errand = errand /\ World.robot = robot
      /\ e.phase = "given" /\ identity'.who \in Whoever
    BY Here DEF SessionHandedOver
<1>2. CASE ~StillValid(e)
  <2>1. Becomes(Fails(o, "error"))
      BY <1>2 DEF SessionHandedOver
  <2>2. WInv(Fails(o, "error"))
      BY <1>1, FailsKeeps
  <2> QED
      BY <1>1, <2>1, <2>2, Becoming
<1>3. CASE StillValid(e)
  <2>1. /\ o \notin manager.connections /\ e.op \in {"connect", "session"}
        /\ e.op = "connect" => e.provider = o
        /\ robot[e.provider].made
      BY <1>1 DEF WInv, Connected, SessionOfProvider
  <2>2. e.op = "connect" => /\ robot[o].made /\ ~robot[o].disposed
                            /\ robot[o].generation = manager.generation
      BY <1>1, <1>3, <2>1 DEF StillValid, Guarded, Asserted
  <2>3. /\ WInv(w) /\ w.manager = manager /\ w.robot = robot
        /\ w.errand[o].op = e.op /\ w.errand[o].phase = "ok"
    <3>1. "ok" \in {"failed", "ok"} /\ World.errand[o].op # "none"
          /\ o \notin World.manager.connections
        BY <1>1, <2>1
    <3> HIDE DEF w
    <3>2. /\ WInv(w) /\ w.manager = World.manager /\ w.robot = World.robot
          /\ w.errand[o].op = World.errand[o].op /\ w.errand[o].phase = "ok"
        BY <1>1, <3>1, OverKeeps DEF w
    <3> QED
        BY <1>1, <3>2
  <2>4. Becomes([w EXCEPT !.manager.connections = IF e.op = "connect" THEN @ \cup {o} ELSE @])
      BY <1>3 DEF SessionHandedOver
  <2> HIDE DEF w
  <2>5. w \in Worlds
      BY <2>3 DEF WInv
  <2>6. Becomes(v)
      BY <2>3, <2>4, <2>5 DEF Worlds
  <2>7. c \in SUBSET ManagerCalls
      BY <1>1 DEF Managers
  <2>8. \A p \in c : p \in manager.connections \/ (p = o /\ e.op = "connect")
      OBVIOUS
  <2> HIDE DEF c
  <2>9. /\ m \in Managers /\ m.scope = manager.scope /\ m.generation = manager.generation
        /\ m.items = manager.items /\ m.connections = c
      BY <1>1, <2>7 DEF Managers
  <2> HIDE DEF m
  <2>10. v \in Worlds /\ v.manager = m /\ v.robot = w.robot /\ v.errand = w.errand
      BY <2>5, <2>9 DEF Worlds
  <2> HIDE DEF v, e
  <2>11. Connected(v)
    <3>1. ASSUME NEW p \in c
          PROVE  /\ w.robot[p].made /\ ~w.robot[p].disposed
                 /\ w.robot[p].generation = manager.generation
                 /\ w.errand[p].op = "connect" /\ w.errand[p].phase = "ok"
      <4>1. CASE p \in manager.connections
          BY <2>3, <4>1 DEF WInv, Connected
      <4>2. CASE p = o /\ e.op = "connect"
          BY <2>2, <2>3, <4>2
      <4> QED
          BY <2>8, <4>1, <4>2
    <3> QED
        BY <2>9, <2>10, <3>1 DEF Connected
  <2>12. ListedInScope(v) /\ FlightsCurrent(v)
      BY <2>3, <2>9, <2>10 DEF WInv, ListedInScope, FlightsCurrent
  <2>13. ProvidersCurrent(v)
      BY <2>3, <2>9, <2>10 DEF WInv, ProvidersCurrent
  <2>14. SessionOfProvider(v) /\ NotBegun(v)
      BY <2>3, <2>9, <2>10 DEF WInv, SessionOfProvider, NotBegun
  <2>15. WInv(v)
      BY <2>10, <2>11, <2>12, <2>13, <2>14 DEF WInv
  <2> QED
      BY <1>1, <2>6, <2>15, Becoming
<1> QED
    BY <1>2, <1>3

\* The identity changes, and the ManagerClient hears of it.
LEMMA IdentityChangesKeeps ==
    ASSUME IInv, NEW who \in Whoever, IdentityChanges(who)
    PROVE  IInv'
<1>1. World' = World /\ identity'.who = who
    BY DEF IdentityChanges, World
<1>2. WInv(World')
    BY <1>1 DEF IInv
<1> QED
    BY <1>1, <1>2 DEF IInv

LEMMA HearsKeeps ==
    ASSUME IInv, Hears
    PROVE  IInv'
<1> DEFINE v == ChangesScope(World, identity.who)
<1>1. Becomes(v) /\ identity'.who \in Whoever
    BY DEF Hears, IInv
<1>2. WInv(v)
    BY ChangesScopeKeeps DEF IInv
<1> HIDE DEF v
<1> QED
    BY <1>1, <1>2, Becoming

\* Nothing is listed, connected or asked for when the ManagerClient is made.
LEMMA InitHolds ==
    ASSUME ManagerInit
    PROVE  IInv
<1>1. identity.who \in Whoever
    BY DEF ManagerInit, Whoever
<1>2. /\ manager \in Managers /\ manager.items = {} /\ manager.connections = {}
    BY <1>1 DEF ManagerInit, Managers
<1>3. NoProvider \in Providers
    BY DEF NoProvider, Providers, Whoever
<1>4. World \in Worlds
    BY <1>2, <1>3, NoErrandTyped DEF ManagerInit, World, Worlds
<1>5. /\ World.manager = manager
      /\ \A o \in ManagerCalls : World.robot[o] = NoProvider /\ World.errand[o] = NoErrand
    BY DEF ManagerInit, World
<1>6. manager.generation \in Nat /\ manager.generation = 0
    BY <1>2 DEF Managers, ManagerInit
<1>7. ListedInScope(World) /\ Connected(World)
    BY <1>2, <1>5 DEF ListedInScope, Connected
<1>8. FlightsCurrent(World) /\ SessionOfProvider(World)
    BY <1>5 DEF FlightsCurrent, SessionOfProvider, InFlight, NoErrand
<1>9. ProvidersCurrent(World)
  <2>1. /\ NoProvider.generation = 0 /\ NoProvider.cached = NoIdentity
        /\ NoProvider.exchange = "none"
      BY DEF NoProvider
  <2> QED
      BY <1>5, <1>6, <2>1 DEF ProvidersCurrent
<1>10. NotBegun(World)
    BY <1>5 DEF NotBegun, NoProvider
<1> QED
    BY <1>1, <1>4, <1>7, <1>8, <1>9, <1>10 DEF IInv, WInv

\* Every step keeps the invariant.
LEMMA StepKeeps ==
    ASSUME IInv, [ManagerNext]_managerVars
    PROVE  IInv'
<1>1. CASE UNCHANGED managerVars
  <2>1. World' = World /\ identity' = identity
      BY <1>1 DEF managerVars, World
  <2>2. WInv(World')
      BY <2>1 DEF IInv
  <2> QED
      BY <2>1, <2>2 DEF IInv
<1>2. ASSUME NEW o \in ManagerCalls, NEW page \in {1, 2}, LoadPage(o, page) PROVE IInv'
    BY <1>2, LoadPageKeeps
<1>3. ASSUME NEW o \in ManagerCalls, Connect(o) PROVE IInv'
    BY <1>3, ConnectKeeps
<1>4. ASSUME NEW o \in ManagerCalls, CancelRequests(o) PROVE IInv'
    BY <1>4, CancelRequestsKeeps
<1>5. ASSUME NEW o \in ManagerCalls, DisposeManager(o) PROVE IInv'
    BY <1>5, DisposeManagerKeeps
<1>6. ASSUME NEW o \in ManagerCalls, Authorized(o) PROVE IInv'
    BY <1>6, AuthorizedKeeps
<1>7. ASSUME NEW o \in ManagerCalls, PageArrives(o) PROVE IInv'
    BY <1>7, PageArrivesKeeps
<1>8. ASSUME NEW o \in ManagerCalls, InfoArrives(o) PROVE IInv'
    BY <1>8, InfoArrivesKeeps
<1>9. ASSUME NEW o \in ManagerCalls, SessionHandedOver(o) PROVE IInv'
    BY <1>9, SessionHandedOverKeeps
<1>10. ASSUME NEW o \in ManagerCalls, RequestFails(o) PROVE IInv'
    BY <1>10, RequestFailsKeeps
<1>11. ASSUME NEW o \in ManagerCalls, NEW p \in ManagerCalls, GetRobotSession(o, p)
       PROVE  IInv'
    BY <1>11, GetRobotSessionKeeps
<1>12. ASSUME NEW o \in ManagerCalls, NEW p \in ManagerCalls, Disconnect(o, p) PROVE IInv'
    BY <1>12, DisconnectKeeps
<1>13. ASSUME NEW o \in ManagerCalls, NEW p \in ManagerCalls, NEW refused \in BOOLEAN,
              Invalidate(o, p, refused)
       PROVE  IInv'
    BY <1>13, InvalidateKeeps
<1>14. ASSUME NEW p \in ManagerCalls, SubjectGiven(p) PROVE IInv'
    BY <1>14, SubjectGivenKeeps
<1>15. ASSUME NEW p \in ManagerCalls, Exchanged(p) PROVE IInv'
    BY <1>15, ExchangedKeeps
<1>16. ASSUME NEW p \in ManagerCalls, TokenExpires(p) PROVE IInv'
    BY <1>16, TokenExpiresKeeps
<1>17. ASSUME NEW p \in ManagerCalls, NEW refused \in BOOLEAN, ExchangeFails(p, refused)
       PROVE  IInv'
    BY <1>17, ExchangeFailsKeeps
<1>18. ASSUME NEW who \in Identities \cup {NoIdentity}, IdentityChanges(who) PROVE IInv'
    BY <1>18, IdentityChangesKeeps DEF Whoever
<1>19. CASE Hears
    BY <1>19, HearsKeeps
<1> QED
    BY <1>1, <1>2, <1>3, <1>4, <1>5, <1>6, <1>7, <1>8, <1>9, <1>10, <1>11, <1>12, <1>13, <1>14,
       <1>15, <1>16, <1>17, <1>18, <1>19 DEF ManagerNext

LEMMA Invariance == ManagerSpec => []IInv
<1>1. ManagerInit => IInv
    BY InitHolds
<1>2. IInv /\ [ManagerNext]_managerVars => IInv'
    BY StepKeeps
<1> QED
    BY <1>1, <1>2, PTL DEF ManagerSpec

\* The fields of the ManagerClient, of its providers and of the calls keep
\* their types.
THEOREM TypeCorrect == ManagerSpec => []ManagerTypeOK
<1>1. IInv => ManagerTypeOK
    BY DEF IInv, WInv, ManagerTypeOK
<1> QED
    BY <1>1, Invariance, PTL

\* What the ManagerClient lists, and the connections it has, belong to the
\* identity that is signed in, whatever changed while they were asked for
\* (#changeScope, #assert, guard).
THEOREM HeldForTheIdentity == ManagerSpec => []HeldForIdentity
<1>1. ASSUME IInv PROVE HeldForIdentity
  <2>1. SUFFICES ASSUME ~Unheard, ~manager.disposed
                 PROVE  /\ \A item \in manager.items :
                              item[2] = identity.who /\ item[3] = manager.generation
                        /\ \A p \in manager.connections :
                              robot[p].generation = manager.generation /\ ~robot[p].disposed
      BY DEF HeldForIdentity
  <2>2. /\ WInv(World) /\ World.manager = manager /\ World.robot = robot
        /\ manager.scope = identity.who
      BY <1>1, <2>1, Here
  <2> QED
      BY <2>2 DEF WInv, ListedInScope, Connected
<1> QED
    BY <1>1, Invariance, PTL

-----------------------------------------------------------------------------
(* Who is handed a session.                                                *)

\* A call that ends in world v was not given a session in world w.
Withholds(w, v) ==
    \A q \in ManagerCalls : w.errand[q].phase = "given" => v.errand[q].phase # "ok"

LEMMA NothingHandedOver ==
    ASSUME NEW v, Becomes(v), Withholds(World, v),
           NEW o \in ManagerCalls, errand[o].phase = "given", errand'[o].phase = "ok"
    PROVE  FALSE
    BY DEF Becomes, Withholds, World

\* A call that begins was not given a session.
LEMMA BeginningWithholds ==
    ASSUME NEW w \in Worlds, Aborts(World, w), NEW o \in ManagerCalls,
           World.errand[o] = NoErrand, NEW v,
           \A q \in ManagerCalls : q # o => v.errand[q] = w.errand[q]
    PROVE  Withholds(World, v)
    BY DEF Withholds, Aborts, NoErrand

LEMMA LoadPageWithholds ==
    ASSUME IInv, NEW o \in ManagerCalls, NEW page \in {1, 2}, LoadPage(o, page),
           NEW q \in ManagerCalls, errand[q].phase = "given"
    PROVE  errand'[q].phase # "ok"
<1> DEFINE w == CaughtUp
           orders == {n \in ManagerCalls : w.errand[n].op = "load" /\ InFlight(w.errand[n])}
           a == Aborted(w, orders)
<1>1. /\ WInv(w) /\ w \in Worlds /\ Aborts(World, w) /\ World.errand = errand
      /\ errand[o] = NoErrand
    BY Beginning, CaughtUpKeeps DEF LoadPage
<1>2. q # o
    BY <1>1 DEF NoErrand
<1>3. IF Asserted(w, w.manager.generation)
      THEN Becomes(LoadBegun(a, o, w.manager.sequence + 1, page, w.manager.generation))
      ELSE Becomes(Ending(w, o, "load", "failed"))
    BY DEF Ending, LoadPage, LoadBegun
<1> HIDE DEF w
<1>4. /\ a \in Worlds /\ Aborts(w, a)
    BY <1>1, AbortedFields, AbortedAborts
<1> HIDE DEF a
<1>5. \/ errand'[q] = a.errand[q]
      \/ errand'[q] = w.errand[q]
    BY <1>1, <1>2, <1>3, <1>4 DEF Becomes, LoadBegun, Ending, Worlds
<1> QED
    BY <1>1, <1>4, <1>5 DEF Aborts

LEMMA AsksSessionOthers ==
    ASSUME NEW w \in Worlds, NEW o \in ManagerCalls, NEW p \in ManagerCalls,
           NEW q \in ManagerCalls, q # o
    PROVE  AsksSession(w, o, p).errand[q] = w.errand[q]
<1>1. CASE ~Guarded(w, p)
  <2>1. "failed" \in {"failed", "ok"}
      OBVIOUS
  <2> QED
      BY <1>1, <2>1, OverKeeps DEF AsksSession
<1>2. CASE Guarded(w, p)
  <2>1. AsksSession(w, o, p).errand = [w.errand EXCEPT ![o] = Entrusted(w, o, p)]
      BY <1>2, AsksSessionFields
  <2> QED
      BY <2>1, WorldFields
<1> QED
    BY <1>1, <1>2

LEMMA CaughtUpWithholds ==
    ASSUME IInv, NEW o \in ManagerCalls, NEW q \in ManagerCalls, errand[q].phase = "given",
           \/ Connect(o)
           \/ \E p \in ManagerCalls : GetRobotSession(o, p)
    PROVE  errand'[q].phase # "ok"
<1> DEFINE w == CaughtUp
<1>1. /\ WInv(w) /\ w \in Worlds /\ Aborts(World, w) /\ World.errand = errand
      /\ errand[o] = NoErrand
    BY Beginning, CaughtUpKeeps DEF Connect, GetRobotSession
<1>2. q # o
    BY <1>1 DEF NoErrand
<1>3. CASE Connect(o)
  <2>1. \/ Becomes([w EXCEPT !.errand[o] = [NoErrand EXCEPT
                                !.op = "connect", !.phase = "authorizing",
                                !.generation = w.manager.generation]])
        \/ Becomes([w EXCEPT !.errand[o].op = "connect", !.errand[o].phase = "failed"])
      BY <1>3 DEF Connect
  <2> HIDE DEF w
  <2>2. errand'[q] = w.errand[q]
      BY <1>1, <1>2, <2>1 DEF Becomes, Worlds
  <2> QED
      BY <1>1, <2>2 DEF Aborts
<1>4. ASSUME NEW p \in ManagerCalls, GetRobotSession(o, p)
      PROVE  errand'[q].phase # "ok"
  <2> DEFINE v == [w EXCEPT !.errand[o].op = "session"]
  <2>1. Becomes(AsksSession(v, o, p))
      BY <1>4 DEF GetRobotSession
  <2> HIDE DEF w
  <2>2. v.errand = [w.errand EXCEPT ![o].op = "session"]
      BY <1>1 DEF Worlds
  <2>3. v.errand[q] = w.errand[q]
      BY <1>1, <1>2, <2>2 DEF Worlds
  <2>5. v \in Worlds
    <3>1. [w.errand EXCEPT ![o].op = "session"] \in [ManagerCalls -> Errands]
        BY <1>1, WorldFields DEF Errands
    <3> QED
        BY <1>1, <2>2, <3>1 DEF Worlds
  <2> HIDE DEF v
  <2>4. errand'[q] = v.errand[q]
      BY <1>2, <2>1, <2>5, AsksSessionOthers DEF Becomes
  <2> QED
      BY <1>1, <2>3, <2>4 DEF Aborts
<1> QED
    BY <1>3, <1>4

LEMMA EndingWithholds ==
    ASSUME IInv, NEW o \in ManagerCalls, NEW q \in ManagerCalls, errand[q].phase = "given",
           \/ CancelRequests(o) \/ DisposeManager(o)
           \/ \E p \in ManagerCalls :
                 Disconnect(o, p) \/ \E refused \in BOOLEAN : Invalidate(o, p, refused)
    PROVE  errand'[q].phase # "ok"
<1>1. /\ WInv(World) /\ World \in Worlds /\ World.errand = errand /\ World.manager = manager
      /\ errand[o] = NoErrand
    BY Beginning DEF CancelRequests, DisposeManager, Disconnect, Invalidate
<1>2. q # o
    BY <1>1 DEF NoErrand
<1>3. CASE CancelRequests(o)
  <2> DEFINE w == Cancelled(World)
  <2>1. w \in Worlds /\ Aborts(World, w)
      BY <1>1, CancelledKeeps DEF WInv
  <2>2. Becomes([w EXCEPT !.errand[o].op = "cancel", !.errand[o].phase = "ok"])
      BY <1>3 DEF CancelRequests
  <2> HIDE DEF w
  <2>3. errand'[q] = w.errand[q]
      BY <1>2, <2>1, <2>2 DEF Becomes, Worlds
  <2> QED
      BY <1>1, <2>1, <2>3 DEF Aborts
<1>4. CASE DisposeManager(o)
  <2> DEFINE c == Cancelled(World)
             w == AllDisposed(c)
  <2>1. WInv(c) /\ Aborts(World, c)
      BY <1>1, CancelledKeeps
  <2> HIDE DEF c
  <2>2. w \in Worlds /\ Aborts(c, w)
      BY <2>1, AllDisposedKeeps DEF WInv
  <2>3. errand' = [w EXCEPT !.manager.generation = @ + 1, !.manager.status = "disposed",
                            !.manager.items = {}, !.manager.disposed = TRUE,
                            !.errand[o].op = "dispose", !.errand[o].phase = "ok"].errand
      BY <1>4 DEF DisposeManager, Becomes, c
  <2> HIDE DEF w
  <2>4. errand' = [w.errand EXCEPT ![o].op = "dispose", ![o].phase = "ok"]
      BY <2>2, <2>3 DEF Worlds
  <2>5. errand'[q] = w.errand[q]
      BY <1>2, <2>2, <2>4 DEF Worlds
  <2> QED
      BY <1>1, <2>1, <2>2, <2>5 DEF Aborts
<1>5. ASSUME NEW p \in ManagerCalls,
             Disconnect(o, p) \/ \E refused \in BOOLEAN : Invalidate(o, p, refused)
      PROVE  errand'[q].phase # "ok"
  <2> DEFINE w == Invalidated(World, p)
             a == Aborted(World, Waiting(World, p))
  <2>1. w \in Worlds /\ w.errand = a.errand
      BY <1>1, InvalidatedKeeps
  <2>2. Waiting(World, p) \in SUBSET ManagerCalls
      BY DEF Waiting
  <2>3. Aborts(World, a)
      BY <1>1, <2>2, AbortedAborts
  <2>4. PICK op : errand' = [w.errand EXCEPT ![o].op = op, ![o].phase = "ok"]
    <3>1. CASE Disconnect(o, p)
      <4>1. errand' = [w EXCEPT !.robot[p].disposed = TRUE, !.manager.connections = @ \ {p},
                                !.errand[o].op = "disconnect", !.errand[o].phase = "ok"].errand
          BY <3>1 DEF Disconnect, Becomes
      <4> HIDE DEF w
      <4>2. errand' = [w.errand EXCEPT ![o].op = "disconnect", ![o].phase = "ok"]
          BY <2>1, <4>1 DEF Worlds
      <4> QED
          BY <4>2
    <3>2. ASSUME NEW refused \in BOOLEAN, Invalidate(o, p, refused)
          PROVE  errand' = [w.errand EXCEPT ![o].op = "invalidate", ![o].phase = "ok"]
      <4>1. errand' = [w EXCEPT !.robot[p].forbidden = @ \/ refused,
                                !.errand[o].op = "invalidate", !.errand[o].phase = "ok"].errand
          BY <3>2 DEF Invalidate, Becomes
      <4> HIDE DEF w
      <4> QED
          BY <2>1, <4>1 DEF Worlds
    <3> QED
        BY <1>5, <3>1, <3>2
  <2> HIDE DEF w, a
  <2>5. errand'[q] = w.errand[q]
      BY <1>2, <2>1, <2>4 DEF Worlds
  <2> QED
      BY <1>1, <2>1, <2>3, <2>5 DEF Aborts
<1> QED
    BY <1>3, <1>4, <1>5

LEMMA FailsWithholds ==
    ASSUME IInv, NEW o \in ManagerCalls,
           errand[o].phase \in {"authorizing", "fetching", "given", "aborted"},
           NEW status, NEW q \in ManagerCalls, errand[q].phase = "given"
    PROVE  Fails(o, status).errand[q].phase # "ok"
<1> DEFINE w == Over(World, o, "failed")
           i == Invalidated(w, o)
           f == Over(i, o, "failed")
<1>1. /\ WInv(World) /\ World.errand = errand /\ World.manager = manager
      /\ World.robot = robot /\ World \in Worlds
    BY Here
<1>2. errand[o].op # "none" /\ o \notin manager.connections
    BY <1>1 DEF WInv, NotBegun, NoErrand, Connected
<1>3. /\ WInv(w) /\ w.errand[o].phase = "failed"
      /\ \A n \in ManagerCalls : n # o => w.errand[n] = errand[n]
  <2>1. "failed" \in {"failed", "ok"} /\ World.errand[o].op # "none"
        /\ o \notin World.manager.connections
      BY <1>1, <1>2
  <2> HIDE DEF w
  <2>2. World \in Worlds
      BY <1>1
  <2>3. /\ w \in Worlds /\ w.errand[o].phase = "failed"
        /\ \A n \in ManagerCalls : n # o => w.errand[n] = World.errand[n]
      BY <2>1, <2>2, OverOthers, Zenon DEF w
  <2>4. WInv(w)
      BY <1>1, <2>1, OverKeeps DEF w
  <2> QED
      BY <1>1, <2>3, <2>4
<1> HIDE DEF w
<1>4. w \in Worlds /\ w.errand[q].phase # "ok"
    BY <1>3 DEF WInv
<1>5. /\ i \in Worlds /\ i.errand = Aborted(w, Waiting(w, o)).errand
  <2>1. WInv(w)
      BY <1>3
  <2> HIDE DEF f
  <2> QED
      BY <2>1, InvalidatedKeeps, Zenon DEF i
<1>6. Waiting(w, o) \in SUBSET ManagerCalls
    BY DEF Waiting
<1>7. Aborts(w, Aborted(w, Waiting(w, o)))
    BY <1>4, <1>6, AbortedAborts
<1>8. i.errand[q].phase # "ok"
    BY <1>4, <1>5, <1>7 DEF Aborts
<1> HIDE DEF i
<1>9. /\ f \in Worlds /\ f.errand[o].phase = "failed"
      /\ \A n \in ManagerCalls : n # o => f.errand[n] = i.errand[n]
  <2>1. "failed" \in {"failed", "ok"}
      OBVIOUS
  <2> QED
      BY <1>5, <2>1, OverOthers, Zenon DEF f
<1>10. f.errand[q].phase # "ok"
    BY <1>8, <1>9
<1> HIDE DEF f
<1>11. Fails(o, status).errand \in {w.errand, f.errand}
  <2>1. [w EXCEPT !.manager.status = status].errand = w.errand
      BY <1>4 DEF Worlds
  <2>2. [f EXCEPT !.robot[o].disposed = TRUE].errand = f.errand
      BY <1>9 DEF Worlds
  <2>3. \/ Fails(o, status) = [w EXCEPT !.manager.status = status]
        \/ Fails(o, status) = [f EXCEPT !.robot[o].disposed = TRUE]
        \/ Fails(o, status) = w
      BY DEF Fails, w, f, i
  <2> QED
      BY <2>1, <2>2, <2>3
<1> QED
    BY <1>4, <1>10, <1>11

\* The answers of other calls, and of the AuthClient, hand nothing over.
LEMMA AnswersWithhold ==
    ASSUME IInv, NEW q \in ManagerCalls, errand[q].phase = "given", NEW o \in ManagerCalls,
           Authorized(o) \/ PageArrives(o) \/ InfoArrives(o) \/ RequestFails(o)
    PROVE  errand'[q].phase # "ok"
<1>1. /\ WInv(World) /\ World.errand = errand /\ World.manager = manager
      /\ World.robot = robot /\ World \in Worlds
    BY Here
<1>2. CASE Authorized(o)
  <2>1. q # o
      BY <1>2 DEF Authorized
  <2>2. errand' = [World EXCEPT !.errand[o].phase = "fetching",
                                !.errand[o].subject = identity.who].errand
      BY <1>2 DEF Authorized, Becomes
  <2> QED
      BY <1>1, <2>1, <2>2 DEF Worlds
<1>3. CASE PageArrives(o)
  <2> DEFINE w == Over(World, o, "ok")
  <2>1. q # o
      BY <1>3 DEF PageArrives
  <2>2. PICK items : errand' = [w EXCEPT !.manager.status = "ready",
                                         !.manager.items = items].errand
      BY <1>3 DEF PageArrives, Becomes
  <2>3. "ok" \in {"failed", "ok"}
      OBVIOUS
  <2> HIDE DEF w
  <2>5. World \in Worlds
      BY <1>1
  <2>6. /\ w \in Worlds
        /\ \A n \in ManagerCalls : n # o => w.errand[n] = World.errand[n]
      BY <2>3, <2>5, OverOthers, Zenon DEF w
  <2>4. w \in Worlds /\ w.errand[q] = World.errand[q]
      BY <2>1, <2>6
  <2> QED
      BY <1>1, <2>2, <2>4 DEF Worlds
<1>4. CASE InfoArrives(o)
  <2> DEFINE g == manager.generation
             w(b) == [World EXCEPT !.robot[o].made = b, !.robot[o].generation = g]
  <2>1. q # o /\ Becomes(AsksSession(w(TRUE), o, o))
      BY <1>4 DEF InfoArrives
  <2>2. g \in Nat
      BY Here DEF Managers
  <2> HIDE DEF g
  <2>3. ASSUME NEW b \in BOOLEAN
        PROVE  w(b) \in Worlds /\ w(b).errand = World.errand
    <3> DEFINE r == [World.robot[o] EXCEPT !.made = b, !.generation = g]
    <3>1. World \in Worlds
        BY <1>1
    <3>2. r \in Providers
      <4>1. World.robot[o] \in Providers
          BY <3>1, WorldFields
      <4> QED
          BY <2>2, <4>1 DEF Providers
    <3>3. w(b) = [World EXCEPT !.robot[o] = r]
        BY <3>1 DEF Worlds
    <3> HIDE DEF r, w
    <3> QED
        BY <3>1, <3>2, <3>3 DEF Worlds
  <2>4. w(TRUE) \in Worlds /\ w(TRUE).errand = World.errand
      BY <2>3
  <2> HIDE DEF w
  <2>5. errand' = AsksSession(w(TRUE), o, o).errand
      BY <2>1 DEF Becomes
  <2>6. errand'[q] = w(TRUE).errand[q]
      BY <2>1, <2>4, <2>5, AsksSessionOthers
  <2> QED
      BY <1>1, <2>4, <2>6
<1>5. CASE RequestFails(o)
  <2>1. PICK status : errand' = Fails(o, status).errand
      BY <1>5 DEF RequestFails, Becomes
  <2>2. errand[o].phase \in {"authorizing", "fetching", "given", "aborted"}
      BY <1>5 DEF RequestFails, InFlight
  <2> QED
      BY <2>1, <2>2, FailsWithholds
<1> QED
    BY <1>2, <1>3, <1>4, <1>5

LEMMA ProvidersWithhold ==
    ASSUME IInv, NEW q \in ManagerCalls, errand[q].phase = "given",
           \/ \E p \in ManagerCalls :
                 \/ SubjectGiven(p) \/ Exchanged(p) \/ TokenExpires(p)
                 \/ \E refused \in BOOLEAN : ExchangeFails(p, refused)
           \/ \E who \in Identities \cup {NoIdentity} : IdentityChanges(who)
           \/ Hears
    PROVE  errand'[q].phase # "ok"
<1>1. /\ WInv(World) /\ World.errand = errand /\ World.manager = manager
      /\ World.robot = robot /\ World \in Worlds
      /\ errand \in [ManagerCalls -> Errands] /\ identity.who \in Whoever
    BY Here
<1>2. ASSUME NEW p \in ManagerCalls, SubjectGiven(p) PROVE errand'[q].phase # "ok"
  <2>1. errand' = [World EXCEPT !.robot[p].exchange = "exchanging",
                                !.robot[p].subject = identity.who].errand
      BY <1>2 DEF SubjectGiven, Becomes
  <2> QED
      BY <1>1, <2>1 DEF Worlds
<1>3. ASSUME NEW p \in ManagerCalls, Exchanged(p) PROVE errand'[q].phase # "ok"
  <2> DEFINE s == robot[p].subject
             f == [o \in ManagerCalls |->
                     IF o \in Waiting(World, p)
                     THEN [errand[o] EXCEPT !.phase = "given", !.subject = s]
                     ELSE errand[o]]
  <2>1. errand' = [World EXCEPT !.robot[p].exchange = "none", !.robot[p].cached = s,
                                !.errand = f].errand
      BY <1>3 DEF Exchanged, Becomes
  <2>2. q \notin Waiting(World, p)
      BY <1>1 DEF Waiting
  <2>3. f[q] = errand[q]
      BY <2>2
  <2> HIDE DEF f, s
  <2>4. errand' = f
      BY <1>1, <2>1 DEF Worlds
  <2> QED
      BY <2>3, <2>4
<1>4. ASSUME NEW p \in ManagerCalls, NEW refused \in BOOLEAN, ExchangeFails(p, refused)
      PROVE  errand'[q].phase # "ok"
  <2> DEFINE a == Aborted(World, Waiting(World, p))
  <2>1. errand' = [a EXCEPT !.robot[p].exchange = "none",
                            !.robot[p].forbidden = @ \/ refused].errand
      BY <1>4 DEF ExchangeFails, Becomes
  <2>2. Waiting(World, p) \in SUBSET ManagerCalls
      BY DEF Waiting
  <2>3. a \in Worlds /\ Aborts(World, a)
      BY <1>1, <2>2, AbortedFields, AbortedAborts
  <2> HIDE DEF a
  <2>4. errand' = a.errand
      BY <2>1, <2>3 DEF Worlds
  <2> QED
      BY <1>1, <2>3, <2>4 DEF Aborts
<1>5. CASE Hears
  <2> DEFINE v == ChangesScope(World, identity.who)
  <2>1. errand' = v.errand /\ Aborts(World, v)
      BY <1>1, <1>5, ChangesScopeKeeps DEF Hears, Becomes
  <2> HIDE DEF v
  <2> QED
      BY <1>1, <2>1 DEF Aborts
<1>6. ASSUME UNCHANGED errand PROVE errand'[q].phase # "ok"
    BY <1>6
<1> QED
    BY <1>2, <1>3, <1>4, <1>5, <1>6 DEF TokenExpires, IdentityChanges

\* A call that was given a session is handed it in one way.
LEMMA HandedOverByCall ==
    ASSUME IInv, ManagerNext, NEW q \in ManagerCalls,
           errand[q].phase = "given", errand'[q].phase = "ok"
    PROVE  SessionHandedOver(q) /\ StillValid(errand[q])
<1>1. ASSUME NEW o \in ManagerCalls, SessionHandedOver(o)
      PROVE  o = q /\ StillValid(errand[q])
  <2>1. /\ World.errand = errand /\ World.manager = manager /\ World \in Worlds
      BY Here
  <2>2. CASE ~StillValid(errand[o])
    <3>1. errand' = Fails(o, "error").errand /\ errand[o].phase = "given"
        BY <1>1, <2>2 DEF SessionHandedOver, Becomes
    <3> QED
        BY <3>1, FailsWithholds
  <2>3. CASE StillValid(errand[o])
    <3> DEFINE w == Over(World, o, "ok")
    <3>1. PICK c : errand' = [w EXCEPT !.manager.connections = c].errand
        BY <1>1, <2>3 DEF SessionHandedOver, Becomes
    <3>2. "ok" \in {"failed", "ok"}
        OBVIOUS
    <3> HIDE DEF w
    <3>5. World \in Worlds
        BY <2>1
    <3>3. w \in Worlds /\ \A n \in ManagerCalls : n # o => w.errand[n] = World.errand[n]
        BY <3>2, <3>5, OverOthers, Zenon DEF w
    <3>4. errand' = w.errand
        BY <3>1, <3>3 DEF Worlds
    <3> QED
        BY <2>1, <2>3, <3>3, <3>4
  <2> QED
      BY <2>2, <2>3
<1>2. \A o \in ManagerCalls, page \in {1, 2} : ~LoadPage(o, page)
    BY LoadPageWithholds
<1>3. \A o \in ManagerCalls : ~Connect(o) /\ \A p \in ManagerCalls : ~GetRobotSession(o, p)
    BY CaughtUpWithholds
<1>4. \A o \in ManagerCalls : ~CancelRequests(o) /\ ~DisposeManager(o)
    BY EndingWithholds
<1>5. \A o, p \in ManagerCalls :
         ~Disconnect(o, p) /\ \A refused \in BOOLEAN : ~Invalidate(o, p, refused)
    BY EndingWithholds
<1>6. \A o \in ManagerCalls :
         ~Authorized(o) /\ ~PageArrives(o) /\ ~InfoArrives(o) /\ ~RequestFails(o)
    BY AnswersWithhold
<1>7. /\ \A p \in ManagerCalls :
            /\ ~SubjectGiven(p) /\ ~Exchanged(p) /\ ~TokenExpires(p)
            /\ \A refused \in BOOLEAN : ~ExchangeFails(p, refused)
      /\ \A who \in Identities \cup {NoIdentity} : ~IdentityChanges(who)
      /\ ~Hears
    BY ProvidersWithhold
<1>8. \E o \in ManagerCalls : SessionHandedOver(o)
    BY <1>2, <1>3, <1>4, <1>5, <1>6, <1>7 DEF ManagerNext
<1> QED
    BY <1>1, <1>8

\* A session of a robot is handed over only while the identity it was exchanged
\* for is signed in, and to a connection only in the generation it was made in
\* (guard, revision).
THEOREM ExchangedForTheIdentity == ManagerSpec => ExchangedForIdentity
<1>1. ASSUME IInv, ManagerNext, NEW o \in ManagerCalls,
             errand[o].phase = "given", errand'[o].phase = "ok"
      PROVE  /\ errand[o].subject = identity.who
             /\ errand[o].generation \in {0, manager.generation}
  <2> DEFINE p == errand[o].provider
  <2>1. ~Unheard /\ StillValid(errand[o])
      BY <1>1, HandedOverByCall DEF SessionHandedOver
  <2>2. /\ WInv(World) /\ World.errand = errand /\ World.manager = manager
        /\ World.robot = robot
      BY <1>1, Here
  <2>3. ~manager.disposed /\ robot[p].generation = manager.generation
      BY <2>1, <2>2 DEF StillValid, Guarded, Asserted
  <2>4. manager.scope = identity.who
      BY <1>1, <2>1, <2>3, Here
  <2> QED
      BY <1>1, <2>2, <2>3, <2>4 DEF WInv, SessionOfProvider
<1>2. ASSUME IInv, UNCHANGED managerVars, NEW o \in ManagerCalls,
             errand[o].phase = "given", errand'[o].phase = "ok"
      PROVE  FALSE
    BY <1>2 DEF managerVars
<1>3. IInv /\ [ManagerNext]_managerVars =>
         [\A o \in ManagerCalls :
             errand[o].phase = "given" /\ errand'[o].phase = "ok"
             => /\ errand[o].subject = identity.who
                /\ errand[o].generation \in {0, manager.generation}]_managerVars
    BY <1>1, <1>2
<1> QED
    BY <1>3, Invariance, PTL DEF ManagerSpec, ExchangedForIdentity

=============================================================================
