-------------------------- MODULE ConversationLoad --------------------------
(***************************************************************************)
(* How a ChatClient loads, switches, pages, deletes and releases           *)
(* conversations (chat-runtime/src/chat-client.ts).                        *)
(*                                                                         *)
(* The client is single-threaded, so what competes are public calls that   *)
(* are suspended at an `await`, gateway notifications, and host code that  *)
(* runs in the middle of a call because the call published a snapshot or a *)
(* cache state to a listener.  Every public call is an element of Calls;   *)
(* pc[o] says at which await, or in which synchronous publication, call o  *)
(* stands.  `stack` holds the calls that are in a publication: while it is *)
(* not empty no promise settles and no notification arrives, but the host  *)
(* may start further calls.                                                *)
(*                                                                         *)
(* A snapshot is abstracted to the conversation it shows, the live events  *)
(* and the pages of history in its timeline, its paging cursor and the     *)
(* load it comes from.  Events of a conversation are numbered in the order *)
(* in which the server emits them; page 1 is the latest page.              *)
(***************************************************************************)
EXTENDS Integers, Sequences, FiniteSets

CONSTANTS
    Calls,          \* public calls made on the client, each at most once
    Conversations,
    None,           \* `undefined` and `null`
    Setups          \* the hosts and conversations to consider

\* The snapshots of a setup.
ViewsOf(s) ==
    [conversation : Conversations, load : Calls \cup {None},
     events : SUBSET (1..s.maxEvents), pages : SUBSET (1..s.maxPages),
     cursor : 1..s.maxPages]

\* `undefined` is no call, conversation or snapshot.
ASSUME LoadAssumption ==
    /\ None \notin Calls \cup Conversations
    /\ \A s \in Setups : None \notin ViewsOf(s)
    /\ Setups \subseteq
          [kinds : SUBSET {"load", "history", "delete", "cancel", "clear", "dispose"},
           cacheEnabled : BOOLEAN, known : SUBSET Conversations,
           stored : SUBSET Conversations, maxEvents : Nat, maxPages : Nat \ {0}]

VARIABLES
    setup,                  \* the chosen element of Setups
    \* fields of ChatClient
    disposed,
    generation,
    conversationEpoch,
    historyRequestId,
    loadRequestId,
    pendingLoad,            \* pendingLoadConversationId, pendingLoadRequestId
    pendingHandoff,
    gatewaySubscription,    \* the call whose subscription is owned, or None
    \* fields about the cache, and the cache itself
    cacheRequestId,
    cacheReadOnly,
    cacheState,             \* its conversationId and status
    cleared,                \* the current snapshot is #clearedSnapshot
    cacheEpoch,             \* epochFor(c)
    entry,                  \* the memory entry of a conversation, or None
    stored,                 \* conversations host storage can still restore
    \* the snapshot store
    snapshot,
    pendingCommits,
    \* the calls
    pc,
    local,                  \* local variables of a call
    stack,
    result,
    \* the gateway and each load's subscription
    events,                 \* events emitted per conversation
    sub,                    \* state of the subscription a load asked for
    delivered,              \* the last event handed to it
    queue,                  \* the pending notifications of its queue
    phase,                  \* the phase of its queue
    \* history
    retired                 \* loads whose conversation was deleted or cleared, or
                            \* whose client was disposed, before they committed

clientVars == <<disposed, generation, conversationEpoch, historyRequestId,
                loadRequestId, pendingLoad, pendingHandoff, gatewaySubscription>>
cacheVars == <<cacheRequestId, cacheReadOnly, cacheState, cleared, cacheEpoch,
               entry, stored>>
storeVars == <<snapshot, pendingCommits>>
callVars == <<pc, local, stack, result>>
gatewayVars == <<events, sub, delivered, queue, phase>>

vars == <<setup, clientVars, cacheVars, storeVars, callVars, gatewayVars, retired>>

Kinds == setup.kinds                \* the kinds of calls the host makes
CacheEnabled == setup.cacheEnabled  \* FALSE: `cache: false`
Known == setup.known                \* the conversations calls are about
Stored == setup.stored              \* those with a usable record in host storage
MaxEvents == setup.maxEvents        \* bound on the events of a conversation
MaxPages == setup.maxPages          \* pages of history of a conversation

-----------------------------------------------------------------------------
(* Values.                                                                 *)

View == ViewsOf(setup)

NoLoad == [conversation |-> None, requestId |-> 0]

NoHandoff == [call |-> None, conversation |-> None, generation |-> 0,
              baseline |-> None]

Locals == [conversation : Conversations \cup {None},
           requestId : Nat,                     \* loadRequestId or historyRequestId
           generation : Nat,                    \* of the commit, or of the history baseline
           previous : Calls \cup {None},        \* subscription to dispose after the commit
           ticket : Nat,                        \* cacheRequestId at the start
           epoch : Nat,                         \* epochFor(conversation) at the start
           since : Nat,                         \* events emitted when the snapshot was requested
           content : View \cup {None},          \* a loaded snapshot not yet committed
           cursor : 0..MaxPages]                \* the baseline cursor of a history call

NoLocals == [conversation |-> None, requestId |-> 0, generation |-> 0,
             previous |-> None, ticket |-> 0, epoch |-> 0, since |-> 0,
             content |-> None, cursor |-> 0]

PCs == {"idle", "restoring", "announced", "displayed", "subscribing", "loading",
        "discarding", "nonlive", "committed", "draining", "cleaning", "settling",
        "reported", "clearing", "paging", "deleting", "deleted", "done"}

\* How the gateway refuses a load; only the cache tells the reasons apart:
\* "notFound" stands for not-found, authorization and authentication errors.
Failures == IF CacheEnabled THEN {"rejected", "notFound"} ELSE {"rejected"}

\* Calls in the middle of which the listeners of the snapshot store run, and
\* those of the cache state or of the composer draft.
StorePublishing == {"displayed", "committed", "draining"}
Publishing == StorePublishing \cup {"announced", "reported", "clearing", "deleted"}

TypeOK ==
    /\ setup \in Setups
    /\ disposed \in BOOLEAN
    /\ generation \in Nat
    /\ conversationEpoch \in Nat
    /\ historyRequestId \in Nat
    /\ loadRequestId \in Nat
    /\ pendingLoad \in [conversation : Conversations \cup {None}, requestId : Nat]
    /\ pendingHandoff \in [call : Calls \cup {None},
                           conversation : Conversations \cup {None},
                           generation : Nat, baseline : View \cup {None}]
    /\ gatewaySubscription \in Calls \cup {None}
    /\ cacheRequestId \in Nat
    /\ cacheReadOnly \in BOOLEAN
    /\ cacheState \in [conversation : Conversations \cup {None},
                       status : {"idle", "syncing", "ready", "error"}]
    /\ cleared \in BOOLEAN
    /\ cacheEpoch \in [Conversations -> Nat]
    /\ entry \in [Conversations -> View \cup {None}]
    /\ stored \subseteq Conversations
    /\ snapshot \in View \cup {None}
    /\ pendingCommits \in Seq(View)
    /\ pc \in [Calls -> PCs]
    /\ local \in [Calls -> Locals]
    /\ stack \in Seq(Calls)
    /\ result \in [Calls -> {"none", "ok", "rejected", "notFound"}]
    /\ events \in [Conversations -> 0..MaxEvents]
    /\ sub \in [Calls -> {"none", "open", "closing", "closed"}]
    /\ delivered \in [Calls -> 0..MaxEvents]
    /\ queue \in [Calls -> Seq(1..MaxEvents)]
    /\ phase \in [Calls -> {"buffering", "draining", "active"}]
    /\ retired \subseteq Calls

Init ==
    /\ setup \in Setups
    /\ disposed = FALSE
    /\ generation = 0
    /\ conversationEpoch = 0
    /\ historyRequestId = 0
    /\ loadRequestId = 0
    /\ pendingLoad = NoLoad
    /\ pendingHandoff = NoHandoff
    /\ gatewaySubscription = None
    /\ cacheRequestId = 0
    /\ cacheReadOnly = FALSE
    /\ cacheState = [conversation |-> None, status |-> "idle"]
    /\ cleared = FALSE
    /\ cacheEpoch = [c \in Conversations |-> 0]
    /\ entry = [c \in Conversations |-> None]
    /\ stored = Stored
    /\ snapshot = None
    /\ pendingCommits = <<>>
    /\ pc = [o \in Calls |-> "idle"]
    /\ local = [o \in Calls |-> NoLocals]
    /\ stack = <<>>
    /\ result = [o \in Calls |-> "none"]
    /\ events = [c \in Conversations |-> 0]
    /\ sub = [o \in Calls |-> "none"]
    /\ delivered = [o \in Calls |-> 0]
    /\ queue = [o \in Calls |-> <<>>]
    /\ phase = [o \in Calls |-> "buffering"]
    /\ retired = {}

-----------------------------------------------------------------------------
(* Helpers.                                                                *)

Shows(state, c) == state # None /\ state.conversation = c

\* A promise settles or a notification arrives only when no code is running.
Settled == stack = <<>>

Top == stack[Len(stack)]

\* The store is calling its listeners: a commit made now is queued.
Notifying == \E i \in 1..Len(stack) : pc[stack[i]] \in StorePublishing

LatestState == IF pendingCommits = <<>> THEN snapshot
               ELSE pendingCommits[Len(pendingCommits)]

\* SnapshotStore.commit; a new snapshot is never the one that was cleared.
Commit(view, nested) ==
    IF disposed \/ view = LatestState
    THEN UNCHANGED <<storeVars, cleared>>
    ELSE IF nested
    THEN /\ pendingCommits' = Append(pendingCommits, view)
         /\ UNCHANGED <<snapshot, cleared>>
    ELSE /\ snapshot' = view
         /\ cleared' = FALSE
         /\ UNCHANGED pendingCommits

\* subscription?.dispose(): asks the gateway to close; it closes later.
Closing(subs, o) ==
    IF o # None /\ subs[o] = "open" THEN [subs EXCEPT ![o] = "closing"] ELSE subs

\* cancelPendingConversationLoad.
CancelPending ==
    /\ cacheRequestId' = cacheRequestId + 1
    /\ IF disposed \/ pendingLoad.requestId = 0
       THEN UNCHANGED <<loadRequestId, pendingLoad, pendingHandoff>>
       ELSE /\ loadRequestId' = loadRequestId + 1
            /\ pendingLoad' = NoLoad
            /\ pendingHandoff' = NoHandoff

\* #clearPendingLoad(requestId).
ClearPendingLoad(o) ==
    /\ pendingLoad' = IF pendingLoad.requestId = local[o].requestId
                      THEN NoLoad ELSE pendingLoad
    /\ pendingHandoff' = IF pendingHandoff.call = o THEN NoHandoff ELSE pendingHandoff

\* Faulty: a newer load is not noticed.
LoadSupersededByDispose(o) == disposed

\* `this.#disposed || requestId !== this.#loadRequestId`.
LoadSuperseded(o) == disposed \/ local[o].requestId # loadRequestId

\* Faulty: only the clearing of the conversation is noticed.
TicketSupersededByClear(o) ==
    disposed \/ local[o].epoch # cacheEpoch[local[o].conversation]

\* The check loadConversation repeats around its cached path.
TicketSuperseded(o) ==
    \/ disposed
    \/ local[o].ticket # cacheRequestId
    \/ local[o].epoch # cacheEpoch[local[o].conversation]

\* #captureCache: the memory entries after the current snapshot was put.
CapturedEntries ==
    IF ~CacheEnabled \/ disposed \/ cacheReadOnly \/ snapshot = None \/ cleared
    THEN entry
    ELSE [entry EXCEPT ![snapshot.conversation] = snapshot]

\* ConversationCache.clear(c): its epoch moves on, memory and storage forget c.
ForgetInCache(c) ==
    IF CacheEnabled
    THEN /\ cacheEpoch' = [cacheEpoch EXCEPT ![c] = @ + 1]
         /\ entry' = [entry EXCEPT ![c] = None]
         /\ stored' = stored \ {c}
    ELSE UNCHANGED <<cacheEpoch, entry, stored>>

\* ConversationCache.mergeHistory: older pages and items of the cached
\* timeline are kept beside what the server sent.
MergeHistory(latest, cached) ==
    IF cached = None \/ latest.cursor = MaxPages
    THEN latest
    ELSE [latest EXCEPT !.events = @ \cup cached.events,
                        !.pages = @ \cup cached.pages,
                        !.cursor = IF cached.cursor > @ THEN cached.cursor ELSE @]

\* rebaseTimelineState: what changed since the baseline wins, otherwise the
\* loaded timeline, deletions included, is adopted.
RebaseSet(baseline, loaded, current) ==
    {x \in baseline \cup loaded \cup current :
        IF x \in current <=> x \in baseline THEN x \in loaded ELSE x \in current}

\* Faulty: the loaded snapshot replaces what was published meanwhile.
AdoptLoaded(baseline, loaded, current) == loaded

\* rebaseSnapshotState.
Rebase(baseline, loaded, current) ==
    [loaded EXCEPT
        !.events = RebaseSet(baseline.events, loaded.events, current.events),
        !.pages = RebaseSet(baseline.pages, loaded.pages, current.pages),
        !.cursor = IF current.cursor = baseline.cursor
                   THEN loaded.cursor ELSE current.cursor]

\* Return of #loadConversationFromGateway to its caller: the public call, or
\* the cached path of loadConversation that still has work to do.
Return(o, outcome) ==
    /\ result' = [result EXCEPT ![o] = outcome]
    /\ pc' = [pc EXCEPT ![o] = IF CacheEnabled THEN "settling" ELSE "done"]


-----------------------------------------------------------------------------
(* Starting a load.                                                        *)

\* The synchronous head of #loadConversationFromGateway, up to the await of
\* subscribe.  `loc` holds the locals of the call.
BeginGatewayLoad(o, loc, readOnly) ==
    LET c == loc.conversation
    IN  /\ loadRequestId' = loadRequestId + 1
        /\ pendingLoad' = [conversation |-> c, requestId |-> loadRequestId + 1]
        /\ pendingHandoff' = IF ~readOnly /\ Shows(snapshot, c)
                             THEN [call |-> o, conversation |-> c,
                                   generation |-> generation, baseline |-> snapshot]
                             ELSE pendingHandoff
        /\ local' = [local EXCEPT ![o] = [loc EXCEPT !.requestId = loadRequestId + 1]]
        /\ pc' = [pc EXCEPT ![o] = "subscribing"]

\* loadConversation(c) without a cache.
StartLoad(o, c) ==
    /\ "load" \in Kinds /\ ~CacheEnabled
    /\ pc[o] = "idle" /\ ~disposed
    /\ BeginGatewayLoad(o, [NoLocals EXCEPT !.conversation = c], cacheReadOnly)
    /\ UNCHANGED <<setup, disposed, generation, conversationEpoch, historyRequestId,
                   gatewaySubscription, cacheVars, storeVars, stack, result, gatewayVars, retired>>

\* loadConversation(c) with a cache: the pending load is cancelled and the
\* current view captured before the entry of c is looked up.  Without an entry
\* the host's storage is asked; otherwise the cache state is announced.
StartCachedLoad(o, c) ==
    /\ "load" \in Kinds /\ CacheEnabled
    /\ pc[o] = "idle" /\ ~disposed
    /\ CancelPending
    /\ entry' = CapturedEntries
    /\ local' = [local EXCEPT ![o] =
                    [NoLocals EXCEPT !.conversation = c, !.ticket = cacheRequestId + 1,
                                     !.epoch = cacheEpoch[c]]]
    /\ IF entry'[c] = None /\ Stored # {}
       THEN /\ pc' = [pc EXCEPT ![o] = "restoring"]
            /\ UNCHANGED <<cacheState, stack>>
       ELSE /\ pc' = [pc EXCEPT ![o] = "announced"]
            /\ cacheState' = [conversation |-> c, status |-> "syncing"]
            /\ stack' = Append(stack, o)
    /\ UNCHANGED <<setup, disposed, generation, conversationEpoch, historyRequestId,
                   gatewaySubscription, cacheReadOnly, cleared, cacheEpoch, stored,
                   storeVars, result, gatewayVars, retired>>

\* The storage read settles.  ConversationCache.restore puts the record it
\* found into memory unless c was cleared meanwhile; then the ticket is checked
\* and the cache state announced.
RestoreReturns(o) ==
    LET c == local[o].conversation
        disk == [conversation |-> c, load |-> None, events |-> {},
                 pages |-> {1}, cursor |-> 1]
    IN  /\ Settled /\ pc[o] = "restoring"
        /\ entry' = IF disposed \/ local[o].epoch # cacheEpoch[c] \/ c \notin stored
                    THEN entry ELSE [entry EXCEPT ![c] = disk]
        /\ IF TicketSuperseded(o)
           THEN /\ pc' = [pc EXCEPT ![o] = "done"]
                /\ result' = [result EXCEPT ![o] = "rejected"]
                /\ UNCHANGED <<cacheState, stack, local>>
           ELSE /\ pc' = [pc EXCEPT ![o] = "announced"]
                /\ cacheState' = [conversation |-> c, status |-> "syncing"]
                /\ stack' = <<o>>
                /\ UNCHANGED <<result, local>>
        /\ UNCHANGED <<setup, clientVars, cacheRequestId, cacheReadOnly, cleared, cacheEpoch,
                       stored, storeVars, gatewayVars, retired>>

\* The listeners of the cache state have returned: a cached view is displayed,
\* read-only, when the conversation is not on display already.  The old
\* subscription is disposed after the view was committed.
AnnouncedReturns(o) ==
    LET c == local[o].conversation
        display == entry[c] # None /\ (~Shows(snapshot, c) \/ cacheReadOnly)
    IN  /\ stack # <<>> /\ o = Top /\ pc[o] = "announced"
        /\ \/ /\ TicketSuperseded(o)
              /\ pc' = [pc EXCEPT ![o] = "done"]
              /\ result' = [result EXCEPT ![o] = "rejected"]
              /\ stack' = SubSeq(stack, 1, Len(stack) - 1)
              /\ UNCHANGED <<clientVars, cacheReadOnly, cleared, storeVars, local, sub>>
           \/ /\ ~TicketSuperseded(o) /\ ~display
              /\ BeginGatewayLoad(o, local[o], cacheReadOnly)
              /\ stack' = SubSeq(stack, 1, Len(stack) - 1)
              /\ UNCHANGED <<disposed, generation, conversationEpoch, historyRequestId,
                             gatewaySubscription, cacheReadOnly, cleared, storeVars,
                             result, sub>>
           \/ /\ ~TicketSuperseded(o) /\ display
              /\ gatewaySubscription' = None
              /\ generation' = generation + 1
              /\ conversationEpoch' = conversationEpoch + 1
              /\ historyRequestId' = historyRequestId + 1
              /\ cacheReadOnly' = TRUE
              /\ Commit([entry[c] EXCEPT !.load = o], Notifying)
              /\ IF Notifying
                 THEN /\ BeginGatewayLoad(o, local[o], TRUE)
                      /\ sub' = Closing(sub, gatewaySubscription)
                      /\ stack' = SubSeq(stack, 1, Len(stack) - 1)
                 ELSE /\ pc' = [pc EXCEPT ![o] = "displayed"]
                      /\ local' = [local EXCEPT ![o].previous = gatewaySubscription]
                      /\ UNCHANGED <<loadRequestId, pendingLoad, pendingHandoff, sub, stack>>
              /\ UNCHANGED <<disposed, result>>
        /\ UNCHANGED <<setup, cacheRequestId, cacheState, cacheEpoch, entry, stored,
                       events, delivered, queue, phase, retired>>

\* A commit made by a listener is published when the current publication is
\* over, before the code that published goes on.
PublishPending ==
    /\ stack # <<>> /\ pc[Top] \in StorePublishing
    /\ pendingCommits # <<>>
    /\ snapshot' = Head(pendingCommits)
    /\ pendingCommits' = Tail(pendingCommits)
    /\ cleared' = FALSE
    /\ UNCHANGED <<setup, clientVars, cacheRequestId, cacheReadOnly, cacheState, cacheEpoch,
                   entry, stored, callVars, gatewayVars, retired>>

\* The listeners of the cached view have returned.
DisplayedReturns(o) ==
    /\ stack # <<>> /\ o = Top /\ pc[o] = "displayed" /\ pendingCommits = <<>>
    /\ sub' = Closing(sub, local[o].previous)
    /\ stack' = SubSeq(stack, 1, Len(stack) - 1)
    /\ IF TicketSuperseded(o)
       THEN /\ pc' = [pc EXCEPT ![o] = "done"]
            /\ result' = [result EXCEPT ![o] = "rejected"]
            /\ UNCHANGED <<loadRequestId, pendingLoad, pendingHandoff, local>>
       ELSE /\ BeginGatewayLoad(o, local[o], cacheReadOnly)
            /\ UNCHANGED result
    /\ UNCHANGED <<setup, disposed, generation, conversationEpoch, historyRequestId,
                   gatewaySubscription, cacheVars, storeVars, events, delivered,
                   queue, phase, retired>>

-----------------------------------------------------------------------------
(* The gateway's answers to a load.                                        *)

\* The gateway registers the observer of a load; from here on the load is
\* handed every event of its conversation.
SubscriptionOpens(o) ==
    /\ Settled /\ pc[o] = "subscribing" /\ sub[o] = "none"
    /\ sub' = [sub EXCEPT ![o] = "open"]
    /\ delivered' = [delivered EXCEPT ![o] = events[local[o].conversation]]
    /\ UNCHANGED <<setup, clientVars, cacheVars, storeVars, callVars, events, queue, phase, retired>>

\* The server emits an event in conversation c.
EventHappens(c) ==
    /\ Settled /\ events[c] < MaxEvents
    /\ events' = [events EXCEPT ![c] = @ + 1]
    /\ UNCHANGED <<setup, clientVars, cacheVars, storeVars, callVars, sub, delivered, queue, phase, retired>>

\* Faulty: the subscription is not disposed.
AbandonWithoutDisposal(o, outcome) ==
    /\ ClearPendingLoad(o)
    /\ local' = [local EXCEPT ![o].since = 0, ![o].content = None]
    /\ Return(o, outcome)
    /\ UNCHANGED <<disposed, generation, conversationEpoch, historyRequestId,
                   loadRequestId, gatewaySubscription, cacheReadOnly, cleared,
                   storeVars, stack, sub>>

\* Faulty: a disposal is awaited that was never asked for.
AbandonAwaitingNothing(o, outcome) ==
    /\ ClearPendingLoad(o)
    /\ local' = [local EXCEPT ![o].since = 0, ![o].content = None]
    /\ pc' = [pc EXCEPT ![o] = "discarding"]
    /\ result' = [result EXCEPT ![o] = outcome]
    /\ UNCHANGED <<disposed, generation, conversationEpoch, historyRequestId,
                   loadRequestId, gatewaySubscription, cacheReadOnly, cleared,
                   storeVars, stack, sub>>

\* Leaving a load that has failed or was superseded: the subscription it
\* obtained is disposed and that disposal awaited before the call returns.
Abandon(o, outcome) ==
    /\ ClearPendingLoad(o)
    /\ local' = [local EXCEPT ![o].since = 0, ![o].content = None]
    /\ IF sub[o] = "open"
       THEN /\ sub' = Closing(sub, o)
            /\ pc' = [pc EXCEPT ![o] = "discarding"]
            /\ result' = [result EXCEPT ![o] = outcome]
       ELSE /\ Return(o, IF LoadSuperseded(o) THEN "rejected" ELSE outcome)
            /\ UNCHANGED sub
    /\ UNCHANGED <<disposed, generation, conversationEpoch, historyRequestId,
                   loadRequestId, gatewaySubscription, cacheReadOnly, cleared,
                   storeVars, stack>>

\* subscribe() settles: with a subscription, or with an error and none.
SubscribeReturns(o) ==
    /\ Settled /\ pc[o] = "subscribing"
    /\ IF LoadSuperseded(o)
       THEN Abandon(o, "rejected")
       ELSE /\ pc' = [pc EXCEPT ![o] = "loading"]
            /\ local' = [local EXCEPT ![o].since = events[local[o].conversation]]
            /\ UNCHANGED <<clientVars, cacheReadOnly, cleared, storeVars, result, stack, sub>>
    /\ UNCHANGED <<setup, cacheRequestId, cacheState, cacheEpoch, entry, stored, events,
                   delivered, queue, phase, retired>>

\* The epoch once conversation c is on display.
EpochOf(c) == conversationEpoch + (IF Shows(snapshot, c) THEN 0 ELSE 1)

\* The commit of a loaded snapshot (chat-client.ts:1447-1514): rebased onto what
\* was published since the load began, under a new generation, with the
\* subscription of this load as the owned one.  A rebased snapshot that differs
\* in nothing from the current one is the same object, and stays cleared.
CommitLoaded(o, loaded, live) ==
    LET c == loaded.conversation
        latest == MergeHistory(loaded, IF CacheEnabled THEN entry[c] ELSE None)
        rebased == pendingHandoff.call = o /\ snapshot # None
        next == IF rebased THEN Rebase(pendingHandoff.baseline, latest, snapshot)
                ELSE latest
    IN  /\ conversationEpoch' = EpochOf(c)
        /\ generation' = generation + 1
        /\ historyRequestId' = historyRequestId + 1
        /\ gatewaySubscription' = IF live THEN o ELSE None
        /\ ClearPendingLoad(o)
        /\ cacheReadOnly' = FALSE
        /\ snapshot' = next
        /\ cleared' = (cleared /\ rebased /\ next = [snapshot EXCEPT !.load = o])
        /\ UNCHANGED pendingCommits
        /\ local' = [local EXCEPT ![o].generation = generation + 1,
                                  ![o].previous = gatewaySubscription,
                                  ![o].since = 0, ![o].content = None]
        /\ pc' = [pc EXCEPT ![o] = "committed"]
        /\ stack' = <<o>>
        /\ UNCHANGED <<disposed, loadRequestId, result, sub>>

\* gateway.loadConversation (and the pages #bridgeCachedHistory asks for)
\* settles.  The load is abandoned on an error, when it was superseded, when the
\* snapshot is of another conversation, and when live updates are allowed and no
\* subscription was obtained.  A snapshot shows the events up to some moment
\* after it was asked for; whether it allows live updates is the gateway's choice.
LoadReturns(o) ==
    LET c == local[o].conversation
        Loaded(n) == [conversation |-> c, load |-> o, events |-> 1..n,
                      pages |-> {1}, cursor |-> 1]
    IN  /\ Settled /\ pc[o] = "loading"
        /\ \/ \E outcome \in Failures : Abandon(o, outcome)
           \/ \E n \in local[o].since..events[c] :      \* live updates
                 /\ ~LoadSuperseded(o) /\ sub[o] # "none"
                 /\ CommitLoaded(o, Loaded(n), TRUE)
           \/ \E n \in local[o].since..events[c] :      \* no live updates
                 /\ ~LoadSuperseded(o)
                 /\ sub' = Closing(sub, o)
                 /\ local' = [local EXCEPT ![o].since = 0, ![o].content = Loaded(n)]
                 /\ pc' = [pc EXCEPT ![o] = "nonlive"]
                 /\ UNCHANGED <<clientVars, cacheReadOnly, cleared, storeVars, result, stack>>
        /\ UNCHANGED <<setup, cacheRequestId, cacheState, cacheEpoch, entry, stored, events,
                       delivered, queue, phase, retired>>

\* The gateway has closed a subscription it was asked to close.
SubscriptionCloses(o) ==
    /\ Settled /\ sub[o] = "closing"
    /\ sub' = [sub EXCEPT ![o] = "closed"]
    /\ UNCHANGED <<setup, clientVars, cacheVars, storeVars, callVars, events, delivered, queue, phase, retired>>

\* The disposal an abandoned load waits for is over.  A failed load that was
\* superseded meanwhile reports the conflict instead of the failure.
DiscardingReturns(o) ==
    /\ Settled /\ pc[o] = "discarding" /\ sub[o] = "closed"
    /\ Return(o, IF LoadSuperseded(o) THEN "rejected" ELSE result[o])
    /\ UNCHANGED <<setup, clientVars, cacheVars, storeVars, local, stack, gatewayVars, retired>>

\* A snapshot without live updates is committed, or dropped if superseded, once
\* its subscription is closed.
NonliveReturns(o) ==
    /\ Settled /\ pc[o] = "nonlive" /\ sub[o] \in {"none", "closed"}
    /\ IF LoadSuperseded(o)
       THEN Abandon(o, "rejected")
       ELSE CommitLoaded(o, local[o].content, FALSE)
    /\ UNCHANGED <<setup, cacheRequestId, cacheState, cacheEpoch, entry, stored, events,
                   delivered, queue, phase, retired>>

-----------------------------------------------------------------------------
(* The rest of a load, after its snapshot was committed.                   *)

\* #captureHandoff: while a reload of the displayed conversation is pending,
\* what its present subscription delivers is also queued for the next one.
CaptureHandoff(queues, c, n, g) ==
    IF /\ pendingHandoff.call # None
       /\ pendingHandoff.generation = g
       /\ Shows(snapshot, pendingHandoff.conversation)
       /\ pendingHandoff.conversation = c
    THEN [queues EXCEPT ![pendingHandoff.call] = Append(@, n)]
    ELSE queues

\* #applyGatewayUpdate: event n of conversation c, dispatched by a queue that
\* was activated under generation g.
ApplyUpdate(c, n, g) ==
    IF ~disposed /\ g = generation /\ snapshot # None /\ Shows(LatestState, c)
    THEN Commit([LatestState EXCEPT !.events = @ \cup {n}], FALSE)
    ELSE UNCHANGED <<storeVars, cleared>>

\* Everything after the publications of a load: the subscription it replaced
\* is disposed, and that is awaited.
StartCleaning(o) ==
    /\ sub' = Closing(sub, local[o].previous)
    /\ pc' = [pc EXCEPT ![o] = "cleaning"]
    /\ stack' = <<>>

\* Faulty: the queue becomes active without its buffer being drained.
ActivateWithoutDraining(o) ==
    /\ stack = <<o>> /\ pc[o] = "committed" /\ pendingCommits = <<>>
    /\ phase' = [phase EXCEPT ![o] = "active"]
    /\ StartCleaning(o)
    /\ UNCHANGED <<setup, clientVars, cacheVars, storeVars, local, result, events,
                   delivered, queue, retired>>

\* The listeners of the committed snapshot have returned: the queue of the load
\* is activated under its generation, unless they disposed the client.
CommittedReturns(o) ==
    /\ stack = <<o>> /\ pc[o] = "committed" /\ pendingCommits = <<>>
    /\ IF disposed
       THEN /\ StartCleaning(o)
            /\ UNCHANGED phase
       ELSE /\ phase' = [phase EXCEPT ![o] = "draining"]
            /\ pc' = [pc EXCEPT ![o] = "draining"]
            /\ UNCHANGED <<stack, sub>>
    /\ UNCHANGED <<setup, clientVars, cacheVars, storeVars, local, result, events,
                   delivered, queue, retired>>

\* One notification of the buffer is dispatched.
DrainOne(o) ==
    /\ stack = <<o>> /\ pc[o] = "draining" /\ pendingCommits = <<>>
    /\ queue[o] # <<>>
    /\ LET c == local[o].conversation
           n == Head(queue[o])
           g == local[o].generation
       IN  /\ queue' = CaptureHandoff([queue EXCEPT ![o] = Tail(@)], c, n, g)
           /\ ApplyUpdate(c, n, g)
    /\ UNCHANGED <<setup, clientVars, cacheRequestId, cacheReadOnly, cacheState, cacheEpoch,
                   entry, stored, callVars, events, sub, delivered, phase, retired>>

\* The buffer is empty: from now on notifications are dispatched as they come.
DrainingReturns(o) ==
    /\ stack = <<o>> /\ pc[o] = "draining" /\ pendingCommits = <<>>
    /\ queue[o] = <<>>
    /\ phase' = [phase EXCEPT ![o] = "active"]
    /\ StartCleaning(o)
    /\ UNCHANGED <<setup, clientVars, cacheVars, storeVars, local, result, events,
                   delivered, queue, retired>>

\* Faulty: a load superseded after its commit reports the conflict.
CleaningReportsConflict(o) ==
    /\ Settled /\ pc[o] = "cleaning"
    /\ local[o].previous # None => sub[local[o].previous] = "closed"
    /\ local' = [local EXCEPT ![o].previous = None]
    /\ Return(o, IF LoadSuperseded(o) THEN "rejected" ELSE "ok")
    /\ UNCHANGED <<setup, clientVars, cacheVars, storeVars, stack, gatewayVars, retired>>

\* The replaced subscription is closed; the load reports success, whatever
\* happened since it committed.
CleaningReturns(o) ==
    /\ Settled /\ pc[o] = "cleaning"
    /\ local[o].previous # None => sub[local[o].previous] = "closed"
    /\ local' = [local EXCEPT ![o].previous = None]
    /\ Return(o, "ok")
    /\ UNCHANGED <<setup, clientVars, cacheVars, storeVars, stack, gatewayVars, retired>>

\* Loads of c that have not asked the server yet, and that have but did not
\* commit its answer.
WaitingLoads(c) ==
    {o \in Calls : /\ local[o].conversation = c
                   /\ pc[o] \in {"restoring", "announced", "displayed"}}
AskingLoads(c) ==
    {o \in Calls : /\ local[o].conversation = c
                   /\ pc[o] \in {"subscribing", "loading", "nonlive"}}

\* clearConversationCache(c) up to the listeners of the draft it discards:
\* the loads of c are cancelled, the view is marked, memory still has its entry.
BeginClear(o, c) ==
    /\ pc' = [pc EXCEPT ![o] = "clearing"]
    /\ IF cacheState.conversation = c
       THEN CancelPending
       ELSE UNCHANGED <<cacheRequestId, loadRequestId, pendingLoad, pendingHandoff>>
    /\ cleared' = (cleared \/ Shows(snapshot, c))
    /\ retired' = retired \cup AskingLoads(c)

\* These listeners have returned: the cache forgets c, and a cached view of c is
\* emptied.
ClearingReturns(o) ==
    LET c == local[o].conversation
    IN  /\ stack # <<>> /\ o = Top /\ pc[o] = "clearing"
        /\ pc' = [pc EXCEPT ![o] = "done"]
        /\ stack' = SubSeq(stack, 1, Len(stack) - 1)
        /\ ForgetInCache(c)
        /\ IF Shows(snapshot, c) /\ cacheReadOnly
           THEN Commit([snapshot EXCEPT !.events = {}, !.pages = {}, !.cursor = MaxPages],
                       Notifying)
           ELSE UNCHANGED <<storeVars, cleared>>
        /\ retired' = retired \cup WaitingLoads(c)
        /\ UNCHANGED <<setup, clientVars, cacheRequestId, cacheReadOnly, cacheState, local,
                       result, gatewayVars>>

\* Faulty: only success and loss are reported.
ReportedUnlessFailed(outcome) ==
    CASE outcome = "ok" -> "ready" [] outcome = "notFound" -> "error" [] OTHER -> "syncing"

\* The status the cache state takes when the load of the server ended.
Reported(outcome) == IF outcome = "ok" THEN "ready" ELSE "error"

\* The tail of loadConversation with a cache: how the load of the server ended is
\* published.  When the server says that the conversation is lost, the load goes on
\* after that.
LoadSettles(o) ==
    /\ Settled /\ pc[o] = "settling"
    /\ \/ /\ TicketSuperseded(o)
          /\ pc' = [pc EXCEPT ![o] = "done"]
          /\ UNCHANGED <<stack, cacheReadOnly, cacheState, entry>>
       \/ /\ ~TicketSuperseded(o) /\ result[o] = "ok"
          /\ pc' = [pc EXCEPT ![o] = "done"]
          /\ cacheReadOnly' = FALSE
          /\ entry' = IF snapshot = None \/ cleared THEN entry
                      ELSE [entry EXCEPT ![snapshot.conversation] = snapshot]
          /\ cacheState' = [cacheState EXCEPT !.status = Reported(result[o])]
          /\ UNCHANGED stack
       \/ /\ ~TicketSuperseded(o) /\ result[o] # "ok"
          /\ cacheState' = [cacheState EXCEPT !.status = Reported(result[o])]
          /\ IF result[o] = "notFound"
             THEN /\ pc' = [pc EXCEPT ![o] = "reported"]
                  /\ stack' = <<o>>
             ELSE /\ pc' = [pc EXCEPT ![o] = "done"]
                  /\ UNCHANGED stack
          /\ UNCHANGED <<cacheReadOnly, entry>>
    /\ UNCHANGED <<setup, clientVars, cacheRequestId, cleared, cacheEpoch, stored, storeVars,
                   local, result, gatewayVars, retired>>

\* The listeners of the error have returned: the lost conversation is cleared,
\* whatever they have asked for, unless they disposed the client.
ReportedReturns(o) ==
    /\ stack = <<o>> /\ pc[o] = "reported"
    /\ \/ /\ disposed
          /\ pc' = [pc EXCEPT ![o] = "done"]
          /\ stack' = <<>>
          /\ UNCHANGED <<cacheRequestId, loadRequestId, pendingLoad, pendingHandoff,
                         cleared, retired>>
       \/ /\ ~disposed
          /\ BeginClear(o, local[o].conversation)
          /\ UNCHANGED stack
    /\ UNCHANGED <<setup, disposed, generation, conversationEpoch, historyRequestId,
                   gatewaySubscription, cacheReadOnly, cacheState, cacheEpoch, entry, stored,
                   storeVars, local, result, gatewayVars>>

-----------------------------------------------------------------------------
(* Notifications.                                                          *)

\* The gateway hands the next event to an observer it has not closed yet, also
\* to one of a load that is over or of a subscription that is being disposed.
Deliver(o) ==
    LET c == local[o].conversation
        n == delivered[o] + 1
        g == local[o].generation
    IN  /\ Settled /\ sub[o] \in {"open", "closing"}
        /\ n <= events[c]
        /\ delivered' = [delivered EXCEPT ![o] = n]
        /\ \/ /\ phase[o] # "active"
              /\ queue' = [queue EXCEPT ![o] = Append(@, n)]
              /\ UNCHANGED <<storeVars, cleared>>
           \/ /\ phase[o] = "active"
              /\ queue' = CaptureHandoff(queue, c, n, g)
              /\ ApplyUpdate(c, n, g)
        /\ UNCHANGED <<setup, clientVars, cacheRequestId, cacheReadOnly, cacheState, cacheEpoch,
                       entry, stored, callVars, events, sub, phase, retired>>

-----------------------------------------------------------------------------
(* The other public calls.                                                 *)

\* loadConversation(c, previousCursor) with the current cursor, on a
\* conversation that is displayed and not read-only (#loadHistory).
StartHistory(o) ==
    /\ "history" \in Kinds
    /\ pc[o] = "idle" /\ ~disposed
    /\ snapshot # None /\ ~cacheReadOnly
    /\ snapshot.cursor < MaxPages
    /\ historyRequestId' = historyRequestId + 1
    /\ local' = [local EXCEPT ![o] =
                    [NoLocals EXCEPT !.conversation = snapshot.conversation,
                                     !.requestId = historyRequestId + 1,
                                     !.generation = generation,
                                     !.cursor = snapshot.cursor]]
    /\ pc' = [pc EXCEPT ![o] = "paging"]
    /\ UNCHANGED <<setup, disposed, generation, conversationEpoch, loadRequestId, pendingLoad,
                   pendingHandoff, gatewaySubscription, cacheVars, storeVars, stack,
                   result, gatewayVars, retired>>

\* `this.#disposed || generation ... || requestId ... || cursor ...`
HistorySuperseded(o) ==
    \/ disposed
    \/ local[o].generation # generation
    \/ local[o].requestId # historyRequestId
    \/ ~Shows(snapshot, local[o].conversation)
    \/ snapshot.cursor # local[o].cursor

\* The page settles: it is merged into the current timeline, and the cursor
\* moves to the next older page.
HistoryReturns(o) ==
    LET page == local[o].cursor + 1
    IN  /\ Settled /\ pc[o] = "paging"
        /\ pc' = [pc EXCEPT ![o] = "done"]
        /\ \/ /\ result' = [result EXCEPT ![o] = "rejected"]
              /\ UNCHANGED <<storeVars, cleared>>
           \/ /\ ~HistorySuperseded(o)
              /\ Commit([snapshot EXCEPT !.pages = @ \cup {page}, !.cursor = page], FALSE)
              /\ result' = [result EXCEPT ![o] = "ok"]
        /\ UNCHANGED <<setup, clientVars, cacheRequestId, cacheReadOnly, cacheState, cacheEpoch,
                       entry, stored, local, stack, gatewayVars, retired>>

\* deleteConversation(c), up to its await.
StartDelete(o, c) ==
    /\ "delete" \in Kinds
    /\ pc[o] = "idle" /\ ~disposed
    /\ local' = [local EXCEPT ![o] = [NoLocals EXCEPT !.conversation = c]]
    /\ pc' = [pc EXCEPT ![o] = "deleting"]
    /\ UNCHANGED <<setup, clientVars, cacheVars, storeVars, stack, result, gatewayVars, retired>>

\* The view on display and its subscription are given up.
GiveUpView ==
    /\ sub' = Closing(sub, gatewaySubscription)
    /\ gatewaySubscription' = None
    /\ conversationEpoch' = conversationEpoch + 1
    /\ generation' = generation + 1
    /\ historyRequestId' = historyRequestId + 1
    /\ snapshot' = None
    /\ pendingCommits' = <<>>
    /\ cleared' = FALSE

\* The deletion settles: the cache forgets c, and the draft is discarded.
DeleteReturns(o) ==
    LET c == local[o].conversation
    IN  /\ Settled /\ pc[o] = "deleting"
        /\ \/ /\ pc' = [pc EXCEPT ![o] = "done"]
              /\ result' = [result EXCEPT ![o] = "rejected"]
              /\ UNCHANGED <<cacheRequestId, cacheEpoch, entry, stored, stack, retired>>
           \/ /\ ~disposed
              /\ pc' = [pc EXCEPT ![o] = "deleted"]
              /\ stack' = <<o>>
              /\ ForgetInCache(c)
              /\ cacheRequestId' = IF cacheState.conversation = c
                                   THEN cacheRequestId + 1 ELSE cacheRequestId
              /\ retired' = retired \cup WaitingLoads(c)
              /\ UNCHANGED result
        /\ UNCHANGED <<setup, clientVars, cacheReadOnly, cacheState, cleared, storeVars, local,
                       gatewayVars>>

\* The listeners of the draft have returned.  A pending load of the conversation is
\* superseded; if the conversation is displayed, every pending load is, and the
\* view and its subscription are given up.
DeletedReturns(o) ==
    LET c == local[o].conversation
        active == Shows(snapshot, c)
        pending == pendingLoad.conversation = c
    IN  /\ stack = <<o>> /\ pc[o] = "deleted"
        /\ pc' = [pc EXCEPT ![o] = "done"]
        /\ stack' = <<>>
        /\ result' = [result EXCEPT ![o] = "ok"]
        /\ loadRequestId' = loadRequestId + (IF pending THEN 1 ELSE 0)
                                          + (IF active THEN 1 ELSE 0)
        /\ pendingLoad' = IF pending \/ active THEN NoLoad ELSE pendingLoad
        /\ pendingHandoff' = IF pending \/ active THEN NoHandoff ELSE pendingHandoff
        /\ IF active
           THEN GiveUpView
           ELSE UNCHANGED <<sub, gatewaySubscription, conversationEpoch, generation,
                            historyRequestId, storeVars, cleared>>
        /\ retired' = retired \cup AskingLoads(c)
        /\ UNCHANGED <<setup, disposed, cacheRequestId, cacheReadOnly, cacheState, cacheEpoch,
                       entry, stored, local, events, delivered, queue, phase>>

\* cancelPendingConversationLoad().
Cancel(o) ==
    /\ "cancel" \in Kinds
    /\ pc[o] = "idle" /\ ~disposed
    /\ pc' = [pc EXCEPT ![o] = "done"]
    /\ CancelPending
    /\ UNCHANGED <<setup, disposed, generation, conversationEpoch, historyRequestId,
                   gatewaySubscription, cacheReadOnly, cacheState, cleared, cacheEpoch,
                   entry, stored, storeVars, local, stack, result, gatewayVars, retired>>

\* clearConversationCache(c).
ClearCache(o, c) ==
    /\ "clear" \in Kinds /\ CacheEnabled
    /\ pc[o] = "idle" /\ ~disposed
    /\ BeginClear(o, c)
    /\ local' = [local EXCEPT ![o] = [NoLocals EXCEPT !.conversation = c]]
    /\ stack' = Append(stack, o)
    /\ UNCHANGED <<setup, disposed, generation, conversationEpoch, historyRequestId,
                   gatewaySubscription, cacheReadOnly, cacheState, cacheEpoch, entry, stored,
                   storeVars, result, gatewayVars>>

\* dispose(): the view is captured and everything is given up at once.
Dispose(o) ==
    /\ "dispose" \in Kinds
    /\ pc[o] = "idle" /\ ~disposed
    /\ pc' = [pc EXCEPT ![o] = "done"]
    /\ disposed' = TRUE
    /\ cacheRequestId' = cacheRequestId + 1
    /\ loadRequestId' = loadRequestId + 1
    /\ pendingLoad' = NoLoad
    /\ pendingHandoff' = NoHandoff
    /\ GiveUpView
    /\ entry' = CapturedEntries
    /\ retired' = retired \cup UNION {WaitingLoads(c) \cup AskingLoads(c) : c \in Conversations}
    /\ UNCHANGED <<setup, cacheReadOnly, cacheState, cacheEpoch, stored, local, stack,
                   result, events, delivered, queue, phase>>

\* The write a publication schedules when the host gave the cache a storage.
CacheWrite ==
    /\ Settled /\ Stored # {}
    /\ entry' = CapturedEntries
    /\ UNCHANGED <<setup, clientVars, cacheRequestId, cacheReadOnly, cacheState, cleared,
                   cacheEpoch, stored, storeVars, callVars, gatewayVars, retired>>

-----------------------------------------------------------------------------

\* What the running code and the gateway do with call o.
Continue(o) ==
    \/ RestoreReturns(o)
    \/ AnnouncedReturns(o)
    \/ DisplayedReturns(o)
    \/ SubscribeReturns(o)
    \/ LoadReturns(o)
    \/ SubscriptionCloses(o)
    \/ DiscardingReturns(o)
    \/ NonliveReturns(o)
    \/ CommittedReturns(o)
    \/ DrainOne(o)
    \/ DrainingReturns(o)
    \/ CleaningReturns(o)
    \/ LoadSettles(o)
    \/ ReportedReturns(o)
    \/ ClearingReturns(o)
    \/ Deliver(o)
    \/ HistoryReturns(o)
    \/ DeleteReturns(o)
    \/ DeletedReturns(o)

\* What the host may do, also from a listener.
Host(o) ==
    \/ \E c \in Known : \/ StartLoad(o, c)
                        \/ StartCachedLoad(o, c)
                        \/ StartDelete(o, c)
                        \/ ClearCache(o, c)
    \/ StartHistory(o)
    \/ Cancel(o)
    \/ Dispose(o)

Next ==
    \/ PublishPending
    \/ CacheWrite
    \/ \E o \in Calls : Continue(o) \/ Host(o) \/ SubscriptionOpens(o)
    \/ \E c \in Known : EventHappens(c)

\* Synchronous code runs on, and the gateway settles every promise: each
\* request carries a deadline (deadlineAt) that every gateway must honour.
Fairness ==
    /\ WF_vars(PublishPending)
    /\ \A o \in Calls : WF_vars(Continue(o))

Spec == Init /\ [][Next]_vars /\ Fairness

-----------------------------------------------------------------------------
(* Properties.                                                             *)

\* The order in which loads were started.
StartOrder(o) == IF CacheEnabled THEN local[o].ticket ELSE local[o].requestId

\* Every subscription a load obtained is either the owned one, or still in the
\* hands of a call that will dispose it: the load itself before it commits, or
\* the load that replaced it until its publications are over.  No interleaving
\* of loads, deletions, cancellations and disposal leaks an observer.
NoSubscriptionLeak ==
    \A o \in Calls : sub[o] = "open" =>
        \/ gatewaySubscription = o
        \/ pc[o] \in {"subscribing", "loading"}
        \/ \E p \in Calls : /\ local[p].previous = o
                            /\ pc[p] \in {"displayed", "committed", "draining"}

\* The owned subscription is open, and it is that of the view the next
\* publication shows, under the current generation; a released client and a
\* read-only cached view own none.
OwnedMatchesView ==
    gatewaySubscription # None =>
        /\ sub[gatewaySubscription] = "open"
        /\ local[gatewaySubscription].generation = generation
        /\ Shows(LatestState, local[gatewaySubscription].conversation)
        /\ ~disposed
        /\ ~cacheReadOnly

\* What the client owns and what calls hold are all the subscriptions there are,
\* and the owned one serves the view.
SubscriptionsAccounted == NoSubscriptionLeak /\ OwnedMatchesView

\* A load whose conversation was deleted or cleared, or whose client was
\* disposed, before it committed never commits and never reports success.
RetiredNeverCommits ==
    \A o \in retired : /\ pc[o] \notin {"committed", "draining", "cleaning"}
                       /\ result[o] # "ok"

\* No notification is lost at the boundary between the loaded snapshot and the
\* subscription: once the buffer of the owned subscription is drained, the view
\* shows every event of the conversation up to the last one handed over.
NoNotificationLost ==
    \A o \in Calls :
        Settled /\ gatewaySubscription = o /\ phase[o] = "active"
            => 1..delivered[o] \subseteq snapshot.events

\* The pages of history on display have no hole: the cursor says which page
\* comes next, so a page missing before it can never be loaded.
HistoryContiguous ==
    snapshot # None /\ ~cacheReadOnly => snapshot.pages = 1..snapshot.cursor

\* The view never goes back to a load started earlier than the one on display,
\* in whatever order the gateway answers.  A view that is emptied is excepted:
\* clearConversationCache empties the one on display, also when a listener has
\* asked for another one before, which is published first.
ViewNeverRegresses ==
    [][\A o, p \in Calls :
          Shows(snapshot, local[p].conversation) /\ snapshot.load = p
          /\ snapshot' # None /\ snapshot'.load = o /\ o # p
          /\ snapshot'.pages # {}
              => StartOrder(p) < StartOrder(o)]_vars

\* A reload of the conversation on display never takes an event away that its
\* old subscription has shown meanwhile.
ReloadKeepsEvents ==
    [][snapshot # None /\ snapshot' # None /\ ~cacheReadOnly /\ ~cacheReadOnly'
       /\ snapshot.conversation = snapshot'.conversation
          => snapshot.events \subseteq snapshot'.events]_vars

\* When the cache reports a synchronized conversation, that conversation is the
\* one on display and its view is no longer a cached, read-only one.
ReadyShowsLive ==
    cacheState.status = "ready" /\ LatestState # None =>
        Shows(LatestState, cacheState.conversation) /\ ~cacheReadOnly

\* A load that committed completes successfully, also when it is cancelled,
\* superseded or the client disposed while its cleanup settles.
CommittedLoadSucceeds ==
    \A o \in Calls : (pc[o] = "committed") ~> (pc[o] = "done" /\ result[o] = "ok")

\* A synchronization that was announced is reported to have ended, well or badly,
\* unless no load is left to report it: every one was superseded, by a call of the
\* host or as NewerLoadStands forbids.
SyncingEnds ==
    (cacheState.status = "syncing")
        ~> \/ cacheState.status \in {"ready", "error"}
           \/ \A o \in Calls : local[o].ticket = 0 \/ TicketSuperseded(o)

\* Every call settles, with it the pending load it registered, and the
\* synchronization it announced.
CallsSettle ==
    /\ \A o \in Calls : (pc[o] # "idle") ~> (pc[o] = "done")
    /\ (pendingLoad.requestId # 0) ~> (pendingLoad.requestId = 0)
    /\ SyncingEnds

\* No load supersedes one that was started after it.  A listener may start the newer
\* one in the middle of the older.
NewerLoadStands ==
    [][\A o, p \in Calls :
          local[o].ticket # 0 /\ local[o].ticket < local[p].ticket /\ pc'[o] # pc[o]
              => TicketSuperseded(p) \/ ~TicketSuperseded(p)']_vars

=============================================================================
