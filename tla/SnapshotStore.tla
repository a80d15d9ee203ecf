---------------------------- MODULE SnapshotStore ----------------------------
(***************************************************************************)
(* The publication of snapshots to listeners                               *)
(* (chat-runtime/src/snapshot-store.ts).                                   *)
(*                                                                         *)
(* Everything is synchronous; what makes it hard is reentrancy.  A         *)
(* listener may commit, clear, close, subscribe and unsubscribe while it   *)
(* is being called.  `stack` holds the frames of the store that have not   *)
(* returned: a publication, which calls one listener after the other, or   *)
(* the call a new subscriber gets at once.  Host code runs when no frame   *)
(* is left, or inside the listener that the top frame is calling.          *)
(*                                                                         *)
(* The n-th accepted commit makes snapshot n; None is the null a clear     *)
(* publishes.                                                              *)
(***************************************************************************)
EXTENDS Integers, Sequences

CONSTANTS
    Listeners,          \* each subscribes at most once
    StateListeners,     \* those that use subscribeState and also hear of null
    None,
    MaxCommits          \* bound on the accepted commits and clears

ASSUME StoreAssumption ==
    /\ StateListeners \subseteq Listeners
    /\ None \notin Nat \cup Listeners
    /\ MaxCommits \in Nat

VARIABLES
    state,              \* what getSnapshot() returns
    pendingCommits,
    notifying,
    closed,
    registered,         \* the active registrations of both kinds
    listenerSequence,
    sequence,           \* of a registration; 0 before it is made
    lastSnapshot,       \* what a registration was handed last
    stack,
    log,                \* history: the accepted commits and clears
    published           \* history: how many of them became the state

vars == <<state, pendingCommits, notifying, closed, registered,
          listenerSequence, sequence, lastSnapshot, stack, log, published>>

Snapshots == 1..MaxCommits \cup {None}

Frames == [kind : {"publish", "subscribe"},
           snapshot : Snapshots,
           todo : SUBSET Listeners,             \* registrations still to visit
           calling : Listeners \cup {None}]     \* the listener being called

TypeOK ==
    /\ state \in Snapshots
    /\ pendingCommits \in Seq(Snapshots)
    /\ notifying \in BOOLEAN
    /\ closed \in BOOLEAN
    /\ registered \subseteq Listeners
    /\ listenerSequence \in Nat
    /\ sequence \in [Listeners -> 0..listenerSequence]
    /\ lastSnapshot \in [Listeners -> Snapshots]
    /\ stack \in Seq(Frames)
    /\ log \in Seq(Snapshots)
    /\ published \in Nat

Init ==
    /\ state = None
    /\ pendingCommits = <<>>
    /\ notifying = FALSE
    /\ closed = FALSE
    /\ registered = {}
    /\ listenerSequence = 0
    /\ sequence = [l \in Listeners |-> 0]
    /\ lastSnapshot = [l \in Listeners |-> None]
    /\ stack = <<>>
    /\ log = <<>>
    /\ published = 0

-----------------------------------------------------------------------------

Top == stack[Len(stack)]

Pop == SubSeq(stack, 1, Len(stack) - 1)

HostRuns == stack # <<>> => Top.calling # None

LatestState == IF pendingCommits = <<>> THEN state
               ELSE pendingCommits[Len(pendingCommits)]

\* The frame that publishes snapshot s to the registrations of the moment.
Publication(s) == [kind |-> "publish", snapshot |-> s, todo |-> registered,
                   calling |-> None]

\* Faulty: only the newest of the commits made during a publication is kept.
AcceptNewestOnly(s) ==
    /\ Len(log) < MaxCommits
    /\ log' = Append(log, s)
    /\ IF notifying
       THEN /\ pendingCommits' = <<s>>
            /\ UNCHANGED <<state, published, notifying, stack>>
       ELSE /\ state' = s
            /\ published' = published + 1
            /\ notifying' = TRUE
            /\ stack' = Append(stack, Publication(s))
            /\ UNCHANGED pendingCommits

\* The common body of commit and clear: s is queued, and published at once
\* unless a publication is going on.
Accept(s) ==
    /\ Len(log) < MaxCommits
    /\ log' = Append(log, s)
    /\ IF notifying
       THEN /\ pendingCommits' = Append(pendingCommits, s)
            /\ UNCHANGED <<state, published, notifying, stack>>
       ELSE /\ state' = s
            /\ published' = published + 1
            /\ notifying' = TRUE
            /\ stack' = Append(stack, Publication(s))
            /\ UNCHANGED pendingCommits

\* commit(next); the latest state itself is ignored.
Commit ==
    /\ HostRuns /\ ~closed
    /\ Accept(Len(log) + 1)
    /\ UNCHANGED <<closed, registered, listenerSequence, sequence, lastSnapshot>>

\* clear().
Clear ==
    /\ HostRuns /\ ~closed /\ LatestState # None
    /\ Accept(None)
    /\ UNCHANGED <<closed, registered, listenerSequence, sequence, lastSnapshot>>

\* close().
Close ==
    /\ HostRuns /\ ~closed
    /\ closed' = TRUE
    /\ pendingCommits' = <<>>
    /\ registered' = {}
    /\ state' = None
    /\ UNCHANGED <<notifying, listenerSequence, sequence, lastSnapshot, stack, log,
                   published>>

\* Faulty: a listener that subscribes during a publication is not called at
\* once, as if that publication were to reach it.
SubscribeQuietly(l) ==
    /\ HostRuns /\ ~closed /\ sequence[l] = 0
    /\ listenerSequence' = listenerSequence + 1
    /\ sequence' = [sequence EXCEPT ![l] = listenerSequence + 1]
    /\ registered' = registered \cup {l}
    /\ IF state # None /\ ~notifying
       THEN /\ lastSnapshot' = [lastSnapshot EXCEPT ![l] = state]
            /\ stack' = Append(stack, [kind |-> "subscribe", snapshot |-> state,
                                       todo |-> {}, calling |-> l])
       ELSE UNCHANGED <<lastSnapshot, stack>>
    /\ UNCHANGED <<state, pendingCommits, notifying, closed, log, published>>

\* subscribe(listener) and subscribeState(listener): the new listener is called
\* with the current state, if there is one, before the call returns.
Subscribe(l) ==
    /\ HostRuns /\ ~closed /\ sequence[l] = 0
    /\ listenerSequence' = listenerSequence + 1
    /\ sequence' = [sequence EXCEPT ![l] = listenerSequence + 1]
    /\ registered' = registered \cup {l}
    /\ IF state # None
       THEN /\ lastSnapshot' = [lastSnapshot EXCEPT ![l] = state]
            /\ stack' = Append(stack, [kind |-> "subscribe", snapshot |-> state,
                                       todo |-> {}, calling |-> l])
       ELSE UNCHANGED <<lastSnapshot, stack>>
    /\ UNCHANGED <<state, pendingCommits, notifying, closed, log, published>>

\* subscription.dispose().
Unsubscribe(l) ==
    /\ HostRuns /\ l \in registered
    /\ registered' = registered \ {l}
    /\ UNCHANGED <<state, pendingCommits, notifying, closed, listenerSequence, sequence,
                   lastSnapshot, stack, log, published>>

\* Registrations a publication of s passes over.
Skips(l, s) ==
    \/ l \notin registered
    \/ lastSnapshot[l] = s
    \/ s = None /\ l \notin StateListeners

\* The publication visits registration l: it calls its listener or passes on.
VisitOne(l) ==
    LET skip == Skips(l, Top.snapshot)
    IN  /\ stack' = [stack EXCEPT ![Len(stack)].todo = @ \ {l},
                                  ![Len(stack)].calling = IF skip THEN None ELSE l]
        /\ lastSnapshot' = IF skip THEN lastSnapshot
                           ELSE [lastSnapshot EXCEPT ![l] = Top.snapshot]
        /\ UNCHANGED <<state, pendingCommits, notifying, closed, registered,
                       listenerSequence, sequence, log, published>>

\* Registrations are visited by their sequence.
Visit(l) ==
    /\ stack # <<>> /\ Top.kind = "publish" /\ Top.calling = None
    /\ l \in Top.todo
    /\ \A other \in Top.todo : sequence[l] <= sequence[other]
    /\ VisitOne(l)

\* The listener returns, or throws, which is the same to the store.
ListenerReturns ==
    /\ stack # <<>> /\ Top.calling # None
    /\ stack' = IF Top.kind = "publish"
                THEN [stack EXCEPT ![Len(stack)].calling = None]
                ELSE Pop
    /\ UNCHANGED <<state, pendingCommits, notifying, closed, registered,
                   listenerSequence, sequence, lastSnapshot, log, published>>

\* Faulty: what was committed during the publication is left to the next commit.
PublicationEndsAtOnce ==
    /\ stack # <<>> /\ Top.kind = "publish" /\ Top.calling = None /\ Top.todo = {}
    /\ stack' = Pop
    /\ notifying' = FALSE
    /\ UNCHANGED <<state, pendingCommits, closed, registered, listenerSequence,
                   sequence, lastSnapshot, log, published>>

\* Every registration was visited: the next commit is published, if any.
PublicationEnds ==
    /\ stack # <<>> /\ Top.kind = "publish" /\ Top.calling = None /\ Top.todo = {}
    /\ IF closed \/ pendingCommits = <<>>
       THEN /\ stack' = Pop
            /\ notifying' = FALSE
            /\ UNCHANGED <<state, pendingCommits, published>>
       ELSE /\ state' = Head(pendingCommits)
            /\ pendingCommits' = Tail(pendingCommits)
            /\ published' = published + 1
            /\ stack' = [stack EXCEPT ![Len(stack)] = Publication(Head(pendingCommits))]
            /\ UNCHANGED notifying
    /\ UNCHANGED <<closed, registered, listenerSequence, sequence, lastSnapshot, log>>

-----------------------------------------------------------------------------

\* What the store does by itself, and listeners returning.
Run ==
    \/ \E l \in Listeners : Visit(l)
    \/ ListenerReturns
    \/ PublicationEnds

Next ==
    \/ Commit
    \/ Clear
    \/ Close
    \/ \E l \in Listeners : Subscribe(l) \/ Unsubscribe(l)
    \/ Run

\* Listeners are synchronous functions: they return.
Spec == Init /\ [][Next]_vars /\ WF_vars(Run)

-----------------------------------------------------------------------------

\* Accepted commits become the state one by one, in the order in which they
\* were accepted, and none is dropped, however listeners nest their writes.
PublishedInOrder ==
    ~closed =>
        /\ published <= Len(log)
        /\ state = IF published = 0 THEN None ELSE log[published]
        /\ Len(pendingCommits) = Len(log) - published
        /\ \A i \in 1..Len(pendingCommits) : pendingCommits[i] = log[published + i]

\* While a publication runs, every listener is handed the snapshot that
\* getSnapshot() returns, to the end, unless the store is closed.
StableWhilePublishing ==
    \A i \in 1..Len(stack) :
        stack[i].kind = "publish" /\ ~closed => stack[i].snapshot = state

\* When the host is back in control everybody is up to date: the state
\* listeners have heard of the present state, the others of the present
\* snapshot, no matter who subscribed or wrote in the middle of a publication.
ListenersCaughtUp ==
    stack = <<>> =>
        \A l \in registered : lastSnapshot[l] # state =>
            state = None /\ l \notin StateListeners

\* Every accepted commit is published eventually, unless the store is closed.
EventuallyPublished ==
    \A n \in 1..MaxCommits : (Len(log) >= n) ~> (published >= n \/ closed)

=============================================================================
