---------------------- MODULE ConversationLoad_proofs ----------------------
(***************************************************************************)
(* Proofs of the safety properties of ConversationLoad, for any number of  *)
(* calls, conversations, events and pages, and any nesting of listeners.   *)
(*                                                                         *)
(* The properties are not inductive.  What makes them hold is that a call  *)
(* can tell, whenever it goes on, whether it was overtaken: request        *)
(* numbers, tickets and epochs only grow, and no two calls share one.  At  *)
(* most one load is current; the pending load, the handoff and the cache   *)
(* state are its own (CurrentHolds, TicketHolds), so nobody but the        *)
(* current load replaces the view.  A load that is not current will be     *)
(* abandoned.                                                              *)
(***************************************************************************)
EXTENDS ConversationLoad, SequenceTheorems, TLAPS

-----------------------------------------------------------------------------
(* The inductive invariant.                                                *)

\* A load before it has asked the server, while it does, and once its snapshot
\* is committed.
Waiting == {"restoring", "announced", "displayed"}
Asking == {"subscribing", "loading", "nonlive"}
Ending == {"committed", "draining", "cleaning"}

\* The rest of a load whose request is over, and of a call that clears the cache.
Settling == {"settling", "reported", "clearing"}

PastCommit == Ending \cup Settling \cup {"done"}

Elements(s) == {s[i] : i \in DOMAIN s}

\* Calls that stand in a publication of the store.
Showing == StorePublishing

\* The stack holds the calls that are in a publication, each once.
Stacked ==
    /\ \A o \in Calls : pc[o] \in Publishing <=> o \in Elements(stack)
    /\ \A i, j \in DOMAIN stack : stack[i] = stack[j] => i = j

\* A commit waits only while listeners are called, and only of a cached view;
\* while they are called there is a view, unless one of them disposed the client.
CommitsWait ==
    /\ pendingCommits # <<>> => cacheReadOnly /\ \E o \in Calls : pc[o] \in Showing
    /\ \A o \in Calls : pc[o] \in Showing => disposed \/ snapshot # None

StackHolds == Stacked /\ CommitsWait

\* What a call knows at each point.  The numbers it was given have been.
CallHolds(o) ==
    /\ pc[o] = "idle" => local[o] = NoLocals
    /\ pc[o] \notin {"idle", "done"} => local[o].conversation \in Conversations
    /\ pc[o] \in Waiting => CacheEnabled /\ local[o].requestId = 0
    /\ pc[o] \in Waiting \cup Asking \cup Ending \cup {"discarding", "settling"}
          => local[o].cursor = 0 /\ (CacheEnabled <=> local[o].ticket # 0)
    /\ pc[o] \in Asking \cup Ending \cup {"discarding", "settling"}
          => local[o].requestId # 0
    /\ pc[o] \in Settling => CacheEnabled
    /\ pc[o] = "paging" => local[o].cursor # 0 /\ local[o].cursor < MaxPages
    /\ local[o].ticket <= cacheRequestId
    /\ local[o].generation <= generation
    /\ local[o].cursor = 0 => local[o].requestId <= loadRequestId
    /\ local[o].ticket # 0 =>
          /\ local[o].conversation \in Conversations
          /\ local[o].epoch <= cacheEpoch[local[o].conversation]
    /\ pc[o] = "discarding" => result[o] \in {"rejected", "notFound"}
    /\ pc[o] = "settling" => result[o] # "none"
    /\ pc[o] \in {"reported", "clearing"} => result[o] # "ok"
    /\ pc[o] \notin {"discarding", "done"} \cup Settling => result[o] = "none"

\* No two loads have the same number.  (A call with a cursor asks for a page, and
\* these are numbered on their own.)
Distinct ==
    \A o, p \in Calls : o # p =>
        /\ local[o].ticket # 0 => local[o].ticket # local[p].ticket
        /\ local[o].cursor = 0 /\ local[p].cursor = 0 /\ local[o].requestId # 0
              => local[o].requestId # local[p].requestId

CallsHold == (\A o \in Calls : CallHolds(o)) /\ Distinct

\* What a subscription was handed is of its conversation; until the snapshot of
\* its load is committed, what the snapshot will not show is in its queue.
SubHolds(o) ==
    /\ pc[o] \in {"idle", "paging", "deleting"} \cup Waiting => sub[o] = "none"
    /\ pc[o] \in {"subscribing", "loading"} => sub[o] \in {"none", "open"}
    /\ pc[o] \in {"idle"} \cup Waiting \cup Asking => phase[o] = "buffering"
    /\ sub[o] # "none" => /\ local[o].conversation \in Conversations
                          /\ delivered[o] <= events[local[o].conversation]
    /\ \A n \in Elements(queue[o]) : /\ local[o].conversation \in Conversations
                                     /\ n <= events[local[o].conversation]
    /\ pc[o] = "loading" => /\ local[o].conversation \in Conversations
                            /\ local[o].since <= events[local[o].conversation]
    /\ pc[o] = "loading" /\ sub[o] # "none" =>
          \A n \in 1..delivered[o] : n <= local[o].since \/ n \in Elements(queue[o])

\* A load whose subscription is owned, or is held to be disposed, has committed;
\* the one that is owned is not held.
OwnedCommitted ==
    /\ gatewaySubscription # None => pc[gatewaySubscription] \in PastCommit
    /\ \A o \in Calls : local[o].previous # None =>
          pc[local[o].previous] \in PastCommit /\ local[o].previous # gatewaySubscription

\* What the owned subscription was handed is shown, or is in its queue until
\* that is drained.
OwnedDelivers ==
    gatewaySubscription # None =>
        \A n \in 1..delivered[gatewaySubscription] :
            \/ n \in snapshot.events
            \/ /\ phase[gatewaySubscription] # "active"
               /\ n \in Elements(queue[gatewaySubscription])

SubsHold == /\ \A o \in Calls : SubHolds(o)
            /\ OwnedCommitted /\ OwnedDelivers /\ OwnedMatchesView /\ NoSubscriptionLeak

\* A disposed client shows nothing.
NothingLeft == disposed => snapshot = None /\ pendingCommits = <<>>

\* Without a cache there are no cached views, and no announcements.
NoCache == ~CacheEnabled => cacheState.status = "idle" /\ ~cacheReadOnly

\* A snapshot shows events that have happened.
Content(v) == v.events \subseteq 1..events[v.conversation]

\* A view comes from a load that has its number.
FromLoad(v) ==
    /\ v.load \in Calls /\ local[v.load].cursor = 0
    /\ IF CacheEnabled THEN local[v.load].ticket # 0 ELSE local[v.load].requestId # 0

\* A view is of the same load as an earlier one, or of a later one, unless it
\* was emptied.
NotBefore(v, w) == w.pages # {} /\ w.load # v.load => StartOrder(v.load) < StartOrder(w.load)

\* A snapshot without live updates waits for the end of its subscription.
ContentHolds(o) ==
    pc[o] = "nonlive" =>
        /\ local[o].content # None /\ local[o].content.load = o
        /\ local[o].content.conversation = local[o].conversation
        /\ Content(local[o].content)

ShownHolds == snapshot # None => Content(snapshot) /\ FromLoad(snapshot)

\* The views that wait to be shown, in that order.
WaitingHold ==
    /\ \A i \in DOMAIN pendingCommits :
          /\ Content(pendingCommits[i]) /\ FromLoad(pendingCommits[i])
          /\ snapshot # None /\ NotBefore(snapshot, pendingCommits[i])
    /\ \A i, j \in DOMAIN pendingCommits :
          i < j => NotBefore(pendingCommits[i], pendingCommits[j])

EntriesHold ==
    \A c \in Conversations :
        entry[c] # None => entry[c].conversation = c /\ Content(entry[c])

ViewsHold == /\ ShownHolds /\ WaitingHold /\ EntriesHold
             /\ \A o \in Calls : ContentHolds(o)

\* The load that was not overtaken.
Current(o) == pc[o] \in Asking /\ ~LoadSuperseded(o)

\* The handoff of a load that reloads the view on display: nothing that was shown
\* when it began will be missing from its snapshot.
HandoffServes(o) ==
    /\ ~cacheReadOnly /\ Shows(snapshot, local[o].conversation)
    /\ pendingHandoff.baseline.events \subseteq snapshot.events
    /\ pc[o] = "loading" => pendingHandoff.baseline.events \subseteq 1..local[o].since
    /\ pc[o] = "nonlive" => pendingHandoff.baseline.events \subseteq local[o].content.events

Syncing(c) == [conversation |-> c, status |-> "syncing"]

\* The load that was started last.  (Its ticket may be overtaken by a deletion that
\* has yet to supersede the load.)
Newest(o) == \A p \in Calls : local[p].ticket <= local[o].ticket

\* The pending load, the cache state and the handoff are those of the current load.
CurrentHolds(o) ==
    Current(o) =>
        /\ pendingLoad.conversation = local[o].conversation
        /\ pendingLoad.requestId = loadRequestId
        /\ CacheEnabled => /\ Newest(o)
                           /\ cacheState = Syncing(local[o].conversation)
        /\ ~cacheReadOnly /\ Shows(snapshot, local[o].conversation)
              => pendingHandoff.call = o
        /\ pendingHandoff.call = o => HandoffServes(o)

HandoffHolds ==
    pendingHandoff.call # None =>
        /\ pc[pendingHandoff.call] \in Asking
        /\ pendingHandoff.conversation \in Conversations
        /\ local[pendingHandoff.call].conversation = pendingHandoff.conversation
        /\ pendingHandoff.baseline # None
        /\ pendingHandoff.baseline.conversation = pendingHandoff.conversation
        /\ Content(pendingHandoff.baseline)

\* A load whose ticket is the last one: nobody else has announced anything since,
\* and the view it committed is on display unless it was deleted.
TicketHolds(o) ==
    local[o].ticket # 0 /\ ~TicketSuperseded(o) =>
        /\ pc[o] \in Waiting => pendingLoad.requestId = 0
        /\ pc[o] \notin {"restoring", "reported", "clearing", "deleted", "done"}
              => cacheState = Syncing(local[o].conversation)
        /\ pc[o] \in Ending \/ (pc[o] = "settling" /\ result[o] = "ok") =>
              LatestState = None \/ (Shows(LatestState, local[o].conversation) /\ ~cacheReadOnly)

\* A retired load was overtaken, or has failed.
Doomed(o) ==
    \/ pc[o] \in Waiting /\ TicketSuperseded(o)
    \/ pc[o] \in Asking /\ LoadSuperseded(o)
    \/ pc[o] \in {"discarding", "done"} \cup Settling /\ result[o] # "ok"

LoadsHold ==
    /\ \A o \in Calls : CurrentHolds(o)
    /\ \A o \in Calls : TicketHolds(o)
    /\ HandoffHolds
    /\ \A o \in retired : Doomed(o)
    /\ ReadyShowsLive

IInv == /\ TypeOK /\ StackHolds /\ CallsHold /\ SubsHold /\ ViewsHold /\ LoadsHold
        /\ NothingLeft /\ NoCache

-----------------------------------------------------------------------------
(* The operators of the model.                                             *)

\* The sets of values depend on the setup only, which never changes.
LEMMA SameSets ==
    ASSUME setup' = setup
    PROVE  /\ View' = View /\ Locals' = Locals /\ MaxEvents' = MaxEvents
           /\ MaxPages' = MaxPages /\ CacheEnabled' = CacheEnabled
           /\ Known' = Known /\ Stored' = Stored
  BY DEF View, ViewsOf, Locals, MaxEvents, MaxPages, CacheEnabled, Known, Stored

\* `undefined` is no call, conversation or snapshot.
LEMMA NoneIsNothing ==
    ASSUME TypeOK
    PROVE  None \notin Calls /\ None \notin Conversations /\ None \notin View
  BY LoadAssumption DEF TypeOK, View

\* What a setup says.
LEMMA SetupFacts ==
    ASSUME TypeOK
    PROVE  /\ CacheEnabled \in BOOLEAN /\ Known \subseteq Conversations
           /\ Stored \subseteq Conversations
           /\ MaxEvents \in Nat /\ MaxPages \in Nat /\ MaxPages # 0
  BY LoadAssumption
     DEF TypeOK, CacheEnabled, Known, Stored, MaxEvents, MaxPages

\* The fields of a snapshot.
LEMMA ViewFields ==
    ASSUME NEW v \in View
    PROVE  /\ v.conversation \in Conversations /\ v.load \in Calls \cup {None}
           /\ v.events \in SUBSET (1..MaxEvents) /\ v.pages \in SUBSET (1..MaxPages)
           /\ v.cursor \in 1..MaxPages
           /\ v = [conversation |-> v.conversation, load |-> v.load, events |-> v.events,
                   pages |-> v.pages, cursor |-> v.cursor]
  BY DEF View, ViewsOf, MaxEvents, MaxPages

\* The local variables of a call.
LEMMA LocalFields ==
    ASSUME NEW k \in Locals
    PROVE  /\ k.conversation \in Conversations \cup {None} /\ k.requestId \in Nat
           /\ k.generation \in Nat /\ k.previous \in Calls \cup {None}
           /\ k.ticket \in Nat /\ k.epoch \in Nat /\ k.since \in Nat
           /\ k.content \in View \cup {None} /\ k.cursor \in 0..MaxPages
  BY DEF Locals

\* The locals of a call that was not given are of the right types.
LEMMA NoLocalsTyped ==
    ASSUME TypeOK
    PROVE  NoLocals \in Locals
  BY SetupFacts DEF Locals, NoLocals

\* The latest state is none only if none is shown and none waits.
LEMMA LatestFacts ==
    ASSUME TypeOK
    PROVE  /\ LatestState \in View \cup {None}
           /\ pendingCommits = <<>> => LatestState = snapshot
           /\ pendingCommits # <<>> =>
                 /\ LatestState \in Elements(pendingCommits)
                 /\ LatestState = pendingCommits[Len(pendingCommits)]
                 /\ Len(pendingCommits) \in DOMAIN pendingCommits
                 /\ LatestState # None
  <1>1. pendingCommits \in Seq(View) /\ snapshot \in View \cup {None}
    BY DEF TypeOK
  <1>2. pendingCommits # <<>> =>
           /\ Len(pendingCommits) \in DOMAIN pendingCommits
           /\ pendingCommits[Len(pendingCommits)] \in View
    BY <1>1
  <1> QED
    BY <1>1, <1>2, NoneIsNothing DEF LatestState, Elements

\* No promise settles in the middle of a publication, and then nothing waits.
LEMMA SettledFacts ==
    ASSUME TypeOK, StackHolds, Settled
    PROVE  /\ pendingCommits = <<>> /\ LatestState = snapshot
           /\ \A o \in Calls : pc[o] \notin Publishing
  <1>1. Elements(stack) = {}
    BY DEF Settled, Elements
  <1>2. \A o \in Calls : pc[o] \notin Publishing
    BY <1>1 DEF StackHolds, Stacked
  <1> QED
    BY <1>2 DEF StackHolds, CommitsWait, Showing, LatestState, Publishing, StorePublishing

\* Listeners of the store are being called.
LEMMA NotifyingFacts ==
    ASSUME TypeOK, StackHolds
    PROVE  /\ Notifying <=> \E o \in Calls : pc[o] \in StorePublishing
           /\ ~Notifying => pendingCommits = <<>>
           /\ ~cacheReadOnly => pendingCommits = <<>>
  <1>1. stack \in Seq(Calls) /\ DOMAIN stack = 1..Len(stack)
    BY DEF TypeOK
  <1>2. Notifying <=> \E o \in Calls : pc[o] \in StorePublishing
    BY <1>1 DEF Notifying, StackHolds, Stacked, Elements, Publishing
  <1> QED
    BY <1>2 DEF StackHolds, CommitsWait, Showing, StorePublishing

-----------------------------------------------------------------------------
(* Types, part by part.                                                    *)

ClientTyped ==
    /\ disposed \in BOOLEAN /\ generation \in Nat /\ conversationEpoch \in Nat
    /\ historyRequestId \in Nat /\ loadRequestId \in Nat
    /\ pendingLoad \in [conversation : Conversations \cup {None}, requestId : Nat]
    /\ pendingHandoff \in [call : Calls \cup {None},
                           conversation : Conversations \cup {None},
                           generation : Nat, baseline : View \cup {None}]
    /\ gatewaySubscription \in Calls \cup {None}

CacheTyped ==
    /\ cacheRequestId \in Nat /\ cacheReadOnly \in BOOLEAN /\ cleared \in BOOLEAN
    /\ cacheState \in [conversation : Conversations \cup {None},
                       status : {"idle", "syncing", "ready", "error"}]
    /\ cacheEpoch \in [Conversations -> Nat]
    /\ entry \in [Conversations -> View \cup {None}]
    /\ stored \subseteq Conversations

StoreTyped == snapshot \in View \cup {None} /\ pendingCommits \in Seq(View)

CallsTyped ==
    /\ pc \in [Calls -> PCs] /\ local \in [Calls -> Locals] /\ stack \in Seq(Calls)
    /\ result \in [Calls -> {"none", "ok", "rejected", "notFound"}]

GatewayTyped ==
    /\ events \in [Conversations -> 0..MaxEvents]
    /\ sub \in [Calls -> {"none", "open", "closing", "closed"}]
    /\ delivered \in [Calls -> 0..MaxEvents]
    /\ queue \in [Calls -> Seq(1..MaxEvents)]
    /\ phase \in [Calls -> {"buffering", "draining", "active"}]

\* The type invariant, part by part.
LEMMA TypeParts ==
    TypeOK <=> /\ setup \in Setups /\ ClientTyped /\ CacheTyped /\ StoreTyped /\ CallsTyped
               /\ GatewayTyped /\ retired \subseteq Calls
  BY DEF TypeOK, ClientTyped, CacheTyped, StoreTyped, CallsTyped, GatewayTyped

\* The types of the next state, when the setup is that of this one.
LEMMA TypePartsNext ==
    ASSUME TypeOK, setup' = setup, ClientTyped', CacheTyped', StoreTyped', CallsTyped',
           GatewayTyped', retired' \subseteq Calls
    PROVE  TypeOK'
  <1>1. setup' \in Setups
    BY DEF TypeOK
  <1> QED
    BY <1>1 DEF TypeOK, ClientTyped, CacheTyped, StoreTyped, CallsTyped, GatewayTyped

\* What is left alone keeps its type.
LEMMA TypesKept ==
    ASSUME TypeOK, setup' = setup
    PROVE  /\ UNCHANGED clientVars => ClientTyped'
           /\ UNCHANGED cacheVars => CacheTyped'
           /\ UNCHANGED storeVars => StoreTyped'
           /\ UNCHANGED callVars => CallsTyped'
           /\ UNCHANGED gatewayVars => GatewayTyped'
  <1>1. View' = View /\ Locals' = Locals /\ MaxEvents' = MaxEvents
    BY SameSets
  <1>2. UNCHANGED clientVars => ClientTyped'
    BY <1>1, TypeParts DEF ClientTyped, clientVars
  <1>3. UNCHANGED cacheVars => CacheTyped'
    BY <1>1, TypeParts DEF CacheTyped, cacheVars
  <1>4. UNCHANGED storeVars => StoreTyped'
    BY <1>1, TypeParts DEF StoreTyped, storeVars
  <1>5. UNCHANGED callVars => CallsTyped'
    BY <1>1, TypeParts DEF CallsTyped, callVars
  <1>6. UNCHANGED gatewayVars => GatewayTyped'
    BY <1>1, TypeParts DEF GatewayTyped, gatewayVars
  <1> QED
    BY <1>2, <1>3, <1>4, <1>5, <1>6

-----------------------------------------------------------------------------
(* What a step leaves alone.                                               *)

Kept(p) == pc'[p] = pc[p] /\ local'[p] = local[p] /\ result'[p] = result[p]

OthersKept(o) == \A p \in Calls : p # o => Kept(p)

\* No ticket is given out.
TicketsKept == \A p \in Calls : local'[p].ticket \in {0, local[p].ticket}

CountersGrow ==
    /\ disposed => disposed'
    /\ generation <= generation'
    /\ loadRequestId <= loadRequestId'
    /\ cacheRequestId <= cacheRequestId'
    /\ \A c \in Conversations : cacheEpoch[c] <= cacheEpoch'[c]

\* The parts of a call are of the right types.
LEMMA CallTypes ==
    ASSUME TypeOK, NEW p \in Calls
    PROVE  /\ local[p] \in Locals /\ pc[p] \in PCs
           /\ local[p].conversation \in Conversations \cup {None}
           /\ local[p].requestId \in Nat /\ local[p].generation \in Nat
           /\ local[p].previous \in Calls \cup {None} /\ local[p].ticket \in Nat
           /\ local[p].epoch \in Nat /\ local[p].since \in Nat
           /\ local[p].content \in View \cup {None} /\ local[p].cursor \in 0..MaxPages
           /\ sub[p] \in {"none", "open", "closing", "closed"}
           /\ delivered[p] \in 0..MaxEvents /\ queue[p] \in Seq(1..MaxEvents)
           /\ phase[p] \in {"buffering", "draining", "active"}
           /\ result[p] \in {"none", "ok", "rejected", "notFound"}
  <1>1. local[p] \in Locals
    BY DEF TypeOK
  <1>2. /\ pc[p] \in PCs
        /\ sub[p] \in {"none", "open", "closing", "closed"}
        /\ delivered[p] \in 0..MaxEvents /\ queue[p] \in Seq(1..MaxEvents)
        /\ phase[p] \in {"buffering", "draining", "active"}
        /\ result[p] \in {"none", "ok", "rejected", "notFound"}
    BY DEF TypeOK
  <1> QED
    BY <1>1, <1>2, LocalFields

\* The numbers and flags are of the right types.
LEMMA NumberTypes ==
    ASSUME TypeOK
    PROVE  /\ disposed \in BOOLEAN /\ generation \in Nat /\ conversationEpoch \in Nat
           /\ historyRequestId \in Nat /\ loadRequestId \in Nat /\ cacheRequestId \in Nat
           /\ cacheReadOnly \in BOOLEAN /\ cleared \in BOOLEAN
           /\ \A c \in Conversations : cacheEpoch[c] \in Nat
           /\ pendingLoad.conversation \in Conversations \cup {None}
           /\ pendingLoad.requestId \in Nat
           /\ \A c \in Conversations : events[c] \in 0..MaxEvents
           /\ snapshot \in View \cup {None}
           /\ \A c \in Conversations : entry[c] \in View \cup {None}
           /\ gatewaySubscription \in Calls \cup {None}
           /\ stack \in Seq(Calls) /\ pendingCommits \in Seq(View)
  BY DEF TypeOK

\* A call that was left alone knows what it knew.
LEMMA CallKept ==
    ASSUME TypeOK, TypeOK', setup' = setup, CountersGrow,
           NEW p \in Calls, Kept(p), CallHolds(p)
    PROVE  CallHolds(p)'
  <1> DEFINE k == local[p]
  <1>1. CacheEnabled' = CacheEnabled /\ MaxPages' = MaxPages
    BY SameSets
  <1>2. /\ k.ticket \in Nat /\ k.generation \in Nat /\ k.requestId \in Nat /\ k.epoch \in Nat
    BY CallTypes
  <1>3. /\ generation \in Nat /\ loadRequestId \in Nat /\ cacheRequestId \in Nat
        /\ \A c \in Conversations : cacheEpoch[c] \in Nat
    BY NumberTypes
  <1>4. /\ generation' \in Nat /\ loadRequestId' \in Nat /\ cacheRequestId' \in Nat
        /\ \A c \in Conversations : cacheEpoch'[c] \in Nat
    BY DEF TypeOK
  <1>5. pc'[p] = pc[p] /\ local'[p] = k /\ result'[p] = result[p]
    BY DEF Kept
  <1>6. k.ticket <= cacheRequestId' /\ k.generation <= generation'
    BY <1>2, <1>3, <1>4 DEF CallHolds, CountersGrow, Settling
  <1>7. k.cursor = 0 => k.requestId <= loadRequestId'
    BY <1>2, <1>3, <1>4 DEF CallHolds, CountersGrow, Settling
  <1>8. k.ticket # 0 => k.conversation \in Conversations
                        /\ k.epoch <= cacheEpoch'[k.conversation]
    <2>1. SUFFICES ASSUME k.ticket # 0
                   PROVE  k.conversation \in Conversations
                          /\ k.epoch <= cacheEpoch'[k.conversation]
      OBVIOUS
    <2>2. k.conversation \in Conversations /\ k.epoch <= cacheEpoch[k.conversation]
      BY <2>1 DEF CallHolds, Settling
    <2>3. /\ cacheEpoch[k.conversation] <= cacheEpoch'[k.conversation]
          /\ cacheEpoch[k.conversation] \in Nat /\ cacheEpoch'[k.conversation] \in Nat
      BY <2>2, <1>3, <1>4 DEF CountersGrow
    <2> HIDE DEF k
    <2> QED
      BY <2>2, <2>3, <1>2
  <1>9. /\ pc[p] = "idle" => k = NoLocals
        /\ pc[p] \notin {"idle", "done"} => k.conversation \in Conversations
        /\ pc[p] \in Waiting => CacheEnabled /\ k.requestId = 0
        /\ pc[p] \in Waiting \cup Asking \cup Ending \cup {"discarding", "settling"}
              => k.cursor = 0 /\ (CacheEnabled <=> k.ticket # 0)
        /\ pc[p] \in Asking \cup Ending \cup {"discarding", "settling"} => k.requestId # 0
        /\ pc[p] \in Settling => CacheEnabled
        /\ pc[p] = "paging" => k.cursor # 0 /\ k.cursor < MaxPages
        /\ pc[p] = "discarding" => result[p] \in {"rejected", "notFound"}
        /\ pc[p] = "settling" => result[p] # "none"
        /\ pc[p] \in {"reported", "clearing"} => result[p] # "ok"
        /\ pc[p] \notin {"discarding", "done"} \cup Settling => result[p] = "none"
    BY DEF CallHolds, Settling
  <1> HIDE DEF k
  <1> QED
    BY <1>1, <1>5, <1>6, <1>7, <1>8, <1>9 DEF CallHolds, Settling

\* The numbers a step gives out are new, so no two loads get the same.
LEMMA DistinctKept ==
    ASSUME TypeOK, TypeOK', CallsHold, NEW o \in Calls, OthersKept(o),
           local'[o].ticket \in {0, local[o].ticket} \/ local'[o].ticket > cacheRequestId,
           \/ local'[o].cursor # 0
           \/ local'[o].requestId = 0
           \/ local[o].cursor = 0 /\ local'[o].requestId = local[o].requestId
           \/ local'[o].requestId > loadRequestId
    PROVE  Distinct'
  <1>1. SUFFICES ASSUME NEW p \in Calls, NEW q \in Calls, p # q
                 PROVE  /\ local'[p].ticket # 0 => local'[p].ticket # local'[q].ticket
                        /\ local'[p].cursor = 0 /\ local'[q].cursor = 0
                           /\ local'[p].requestId # 0
                              => local'[p].requestId # local'[q].requestId
    BY DEF Distinct
  <1>2. \A r \in Calls : /\ local[r].ticket \in Nat /\ local[r].requestId \in Nat
                         /\ local[r].ticket <= cacheRequestId
                         /\ local[r].cursor = 0 => local[r].requestId <= loadRequestId
    BY CallTypes DEF CallsHold, CallHolds, Settling
  <1>3. loadRequestId \in Nat /\ cacheRequestId \in Nat
    BY NumberTypes
  <1>4. local'[o].ticket \in Nat /\ local'[o].requestId \in Nat
    <2>1. local'[o] \in Locals'
      BY DEF TypeOK
    <2> QED
      BY <2>1 DEF Locals
  <1>5. \A r \in Calls : r # o => local'[r] = local[r]
    BY DEF OthersKept, Kept
  <1>6. \A r, s \in Calls : r # s =>
           /\ local[r].ticket # 0 => local[r].ticket # local[s].ticket
           /\ local[r].cursor = 0 /\ local[s].cursor = 0 /\ local[r].requestId # 0
                 => local[r].requestId # local[s].requestId
    BY DEF CallsHold, Distinct, Settling
  <1>7. local'[p].ticket # 0 => local'[p].ticket # local'[q].ticket
    BY <1>1, <1>2, <1>3, <1>4, <1>5, <1>6
  <1>8. local'[p].cursor = 0 /\ local'[q].cursor = 0 /\ local'[p].requestId # 0
           => local'[p].requestId # local'[q].requestId
    BY <1>1, <1>2, <1>3, <1>4, <1>5, <1>6
  <1> QED
    BY <1>7, <1>8

\* A step of call o.
LEMMA CallsStep ==
    ASSUME TypeOK, TypeOK', CallsHold, setup' = setup, CountersGrow,
           NEW o \in Calls, OthersKept(o), CallHolds(o)',
           local'[o].ticket \in {0, local[o].ticket} \/ local'[o].ticket > cacheRequestId,
           \/ local'[o].cursor # 0
           \/ local'[o].requestId = 0
           \/ local[o].cursor = 0 /\ local'[o].requestId = local[o].requestId
           \/ local'[o].requestId > loadRequestId
    PROVE  CallsHold'
  <1>1. \A p \in Calls : CallHolds(p)'
    BY CallKept DEF CallsHold, OthersKept, Settling
  <1> QED
    BY <1>1, DistinctKept DEF CallsHold, Settling

\* A step of no call.
LEMMA CallsSame ==
    ASSUME TypeOK, TypeOK', CallsHold, setup' = setup, CountersGrow,
           UNCHANGED <<pc, local, result>>
    PROVE  CallsHold'
  <1>1. \A p \in Calls : CallHolds(p)'
    BY CallKept DEF CallsHold, Kept, Settling
  <1> QED
    BY <1>1 DEF CallsHold, Distinct, Settling

-----------------------------------------------------------------------------
(* The stack.                                                              *)

\* The call at the top of the stack is in a publication.
LEMMA TopFacts ==
    ASSUME TypeOK, Stacked, stack # <<>>
    PROVE  Top \in Calls /\ pc[Top] \in Publishing /\ Len(stack) \in DOMAIN stack
  <1>1. stack \in Seq(Calls)
    BY DEF TypeOK
  <1>2. Len(stack) \in DOMAIN stack /\ Top \in Calls
    BY <1>1 DEF Top
  <1> QED
    BY <1>2 DEF Stacked, Elements, Top

\* The same calls are in a publication.
LEMMA StackSame ==
    ASSUME Stacked, stack' = stack,
           \A p \in Calls : pc'[p] \in Publishing <=> pc[p] \in Publishing
    PROVE  Stacked'
  BY DEF Stacked, Elements, Publishing, StorePublishing

\* A call starts to publish.
LEMMA StackPush ==
    ASSUME TypeOK, Stacked, NEW o \in Calls, stack' = Append(stack, o),
           pc[o] \notin Publishing, pc'[o] \in Publishing,
           \A p \in Calls : p # o => pc'[p] = pc[p]
    PROVE  Stacked'
  <1>1. stack \in Seq(Calls)
    BY DEF TypeOK
  <1>2. /\ Len(stack') = Len(stack) + 1 /\ stack'[Len(stack) + 1] = o
        /\ DOMAIN stack' = 1..(Len(stack) + 1)
        /\ \A i \in 1..Len(stack) : stack'[i] = stack[i]
    BY <1>1
  <1>3. DOMAIN stack = 1..Len(stack) /\ Len(stack) \in Nat
    BY <1>1
  <1>4. Elements(stack') = Elements(stack) \cup {o}
    BY <1>2, <1>3 DEF Elements
  <1>5. o \notin Elements(stack)
    BY DEF Stacked
  <1>6. \A i \in 1..Len(stack) : stack[i] # o
    BY <1>5, <1>3 DEF Elements
  <1>7. \A p \in Calls : pc'[p] \in Publishing <=> p \in Elements(stack')
    BY <1>4 DEF Stacked
  <1>8. \A i, j \in DOMAIN stack' : stack'[i] = stack'[j] => i = j
    BY <1>2, <1>3, <1>6 DEF Stacked
  <1> QED
    BY <1>7, <1>8 DEF Stacked, Elements, Publishing, StorePublishing

\* The call at the top goes on.
LEMMA StackPop ==
    ASSUME TypeOK, Stacked, NEW o \in Calls, stack # <<>>, o = Top,
           stack' = SubSeq(stack, 1, Len(stack) - 1),
           pc'[o] \notin Publishing, \A p \in Calls : p # o => pc'[p] = pc[p]
    PROVE  Stacked'
  <1>1. stack \in Seq(Calls) /\ Len(stack) \in Nat /\ Len(stack) # 0
    BY DEF TypeOK
  <1>2. /\ DOMAIN stack' = 1..(Len(stack) - 1)
        /\ \A i \in 1..(Len(stack) - 1) : stack'[i] = stack[i]
    BY <1>1
  <1>3. DOMAIN stack = 1..Len(stack) /\ stack[Len(stack)] = o
    BY <1>1 DEF Top
  <1>4. \A i \in 1..(Len(stack) - 1) : stack[i] # o
    BY <1>1, <1>3 DEF Stacked
  <1>5. Elements(stack') = Elements(stack) \ {o}
    <2>1. DOMAIN stack = DOMAIN stack' \cup {Len(stack)}
      BY <1>1, <1>2, <1>3
    <2>2. \A i \in DOMAIN stack' : stack'[i] = stack[i] /\ stack[i] # o
      BY <1>2, <1>4
    <2>3. stack[Len(stack)] = o
      BY <1>3
    <2>4. \A x \in Elements(stack') : x \in Elements(stack) /\ x # o
      <3>1. SUFFICES ASSUME NEW i \in DOMAIN stack'
                     PROVE  stack'[i] \in Elements(stack) /\ stack'[i] # o
        BY DEF Elements
      <3>2. i \in DOMAIN stack /\ stack'[i] = stack[i] /\ stack[i] # o
        BY <2>1, <2>2
      <3> QED
        BY <3>2 DEF Elements
    <2>5. \A x \in Elements(stack) : x # o => x \in Elements(stack')
      <3>1. SUFFICES ASSUME NEW i \in DOMAIN stack, stack[i] # o
                     PROVE  stack[i] \in Elements(stack')
        BY DEF Elements
      <3>2. i \in DOMAIN stack' /\ stack'[i] = stack[i]
        BY <3>1, <2>1, <2>2, <2>3
      <3> QED
        BY <3>2 DEF Elements
    <2> QED
      BY <2>4, <2>5
  <1>6. \A p \in Calls : pc'[p] \in Publishing <=> p \in Elements(stack')
    BY <1>5 DEF Stacked
  <1>7. \A i, j \in DOMAIN stack' : stack'[i] = stack'[j] => i = j
    BY <1>1, <1>2, <1>3 DEF Stacked
  <1> QED
    BY <1>6, <1>7 DEF Stacked, Elements, Publishing, StorePublishing

\* The only publication ends.
LEMMA StackEmptied ==
    ASSUME TypeOK, Stacked, NEW o \in Calls, stack = <<o>>, stack' = <<>>,
           pc'[o] \notin Publishing, \A p \in Calls : p # o => pc'[p] = pc[p]
    PROVE  Stacked'
  <1>1. stack # <<>> /\ Top = o /\ SubSeq(stack, 1, Len(stack) - 1) = <<>>
    BY DEF Top
  <1> QED
    BY <1>1, StackPop

-----------------------------------------------------------------------------
(* Subscriptions.                                                          *)

EventsGrow == \A c \in Conversations : events[c] <= events'[c]

\* A subscription is as it was, or on its way to be closed.
SubStep(p) ==
    \/ sub'[p] = sub[p]
    \/ /\ sub[p] # "none" /\ sub'[p] \in {"closing", "closed"}
       /\ pc[p] \notin {"subscribing", "loading"}

\* A queue got only notifications of events that have happened.
QueueStep(p) ==
    /\ \A n \in Elements(queue[p]) : n \in Elements(queue'[p])
    /\ \A n \in Elements(queue'[p]) :
          \/ n \in Elements(queue[p])
          \/ local[p].conversation \in Conversations
             /\ n <= events'[local[p].conversation]

\* The elements of a sequence are in its set.
LEMMA ElementsTyped ==
    ASSUME NEW S, NEW s \in Seq(S)
    PROVE  /\ \A x \in Elements(s) : x \in S
           /\ DOMAIN s = 1..Len(s) /\ Len(s) \in Nat
           /\ \A i \in 1..Len(s) : s[i] \in S
  <1>1. DOMAIN s = 1..Len(s) /\ Len(s) \in Nat /\ \A i \in 1..Len(s) : s[i] \in S
    OBVIOUS
  <1> QED
    BY <1>1 DEF Elements

\* What a queue holds are numbers of events.
LEMMA QueueTypes ==
    ASSUME TypeOK, NEW p \in Calls
    PROVE  \A n \in Elements(queue[p]) : n \in 1..MaxEvents
  <1>1. queue[p] \in Seq(1..MaxEvents)
    BY CallTypes
  <1> QED
    BY <1>1, ElementsTyped

\* What is known of a subscription stays, while its call does not go on.
LEMMA SubKept ==
    ASSUME TypeOK, TypeOK', NEW p \in Calls, SubHolds(p), Kept(p),
           phase'[p] = phase[p], delivered'[p] = delivered[p],
           EventsGrow, SubStep(p), QueueStep(p)
    PROVE  SubHolds(p)'
  <1> DEFINE c == local[p].conversation
  <1>1. pc'[p] = pc[p] /\ local'[p] = local[p]
    BY DEF Kept
  <1>2. c \in Conversations => /\ events[c] \in Int /\ events'[c] \in Int
                               /\ events[c] <= events'[c]
    BY DEF TypeOK, EventsGrow
  <1>3. delivered[p] \in Int /\ local[p].since \in Int
    BY CallTypes
  <1>4. \A n \in Elements(queue[p]) : n \in Int
    <2>1. \A n \in 1..MaxEvents : n \in Int
      OBVIOUS
    <2> QED
      BY <2>1, QueueTypes
  <1>5. pc[p] \in {"idle", "paging", "deleting"} \cup Waiting => sub'[p] = "none"
    BY DEF SubHolds, SubStep
  <1>6. pc[p] \in {"subscribing", "loading"} => sub'[p] = sub[p]
    BY DEF SubStep
  <1>7. sub'[p] # "none" => sub[p] # "none"
    BY DEF SubStep
  <1>8. sub[p] # "none" => c \in Conversations /\ delivered[p] <= events'[c]
    <2>1. sub[p] # "none" => c \in Conversations /\ delivered[p] <= events[c]
      BY DEF SubHolds
    <2> HIDE DEF c
    <2> QED
      BY <2>1, <1>2, <1>3
  <1>9. \A n \in Elements(queue'[p]) : c \in Conversations /\ n <= events'[c]
    <2>1. \A n \in Elements(queue[p]) : c \in Conversations /\ n <= events[c]
      BY DEF SubHolds
    <2>2. \A n \in Elements(queue[p]) : c \in Conversations /\ n <= events'[c]
      <3> HIDE DEF c
      <3> QED
        BY <2>1, <1>2, <1>4
    <2> QED
      BY <2>2 DEF QueueStep
  <1>10. pc[p] = "loading" => c \in Conversations /\ local[p].since <= events'[c]
    <2>1. SUFFICES ASSUME pc[p] = "loading"
                   PROVE  c \in Conversations /\ local[p].since <= events'[c]
      OBVIOUS
    <2>2. c \in Conversations /\ local[p].since <= events[c]
      BY <2>1 DEF SubHolds
    <2>3. events[c] <= events'[c] /\ events[c] \in Int /\ events'[c] \in Int
      BY <2>2, <1>2
    <2> HIDE DEF c
    <2> QED
      BY <2>2, <2>3, <1>3
  <1>11. pc[p] = "loading" /\ sub[p] # "none" =>
            \A n \in 1..delivered[p] : n <= local[p].since \/ n \in Elements(queue'[p])
    BY DEF SubHolds, QueueStep
  <1> QED
    BY <1>1, <1>5, <1>6, <1>7, <1>8, <1>9, <1>10, <1>11 DEF SubHolds

\* A queue that was left alone, or got one more notification.
LEMMA QueueSame ==
    ASSUME TypeOK, NEW p \in Calls, SubHolds(p), EventsGrow, TypeOK', queue'[p] = queue[p]
    PROVE  QueueStep(p)
  BY DEF QueueStep, Elements

\* A notification that is queued has happened.
LEMMA QueueAppended ==
    ASSUME TypeOK, NEW p \in Calls, NEW n \in 1..MaxEvents,
           queue'[p] = Append(queue[p], n),
           local[p].conversation \in Conversations, n <= events'[local[p].conversation]
    PROVE  /\ QueueStep(p) /\ Elements(queue'[p]) = Elements(queue[p]) \cup {n}
           /\ queue'[p] \in Seq(1..MaxEvents)
  <1>1. queue[p] \in Seq(1..MaxEvents) /\ Len(queue[p]) \in Nat
        /\ DOMAIN queue[p] = 1..Len(queue[p])
    BY CallTypes
  <1>2. /\ DOMAIN queue'[p] = 1..(Len(queue[p]) + 1)
        /\ queue'[p][Len(queue[p]) + 1] = n
        /\ \A i \in 1..Len(queue[p]) : queue'[p][i] = queue[p][i]
        /\ queue'[p] \in Seq(1..MaxEvents)
    BY <1>1
  <1>3. Elements(queue'[p]) = Elements(queue[p]) \cup {n}
    <2>1. \A x \in Elements(queue'[p]) : x \in Elements(queue[p]) \/ x = n
      BY <1>1, <1>2 DEF Elements
    <2>2. n \in Elements(queue'[p])
      BY <1>1, <1>2 DEF Elements
    <2>3. \A x \in Elements(queue[p]) : x \in Elements(queue'[p])
      BY <1>1, <1>2 DEF Elements
    <2> QED
      BY <2>1, <2>2, <2>3
  <1> QED
    BY <1>2, <1>3 DEF QueueStep

\* What asking for the disposal of a subscription does.
LEMMA ClosingFacts ==
    ASSUME TypeOK, NEW q \in Calls \cup {None}, sub' = Closing(sub, q)
    PROVE  /\ sub' \in [Calls -> {"none", "open", "closing", "closed"}]
           /\ \A p \in Calls  :
                 sub'[p] = sub[p] \/ (p = q /\ sub[p] = "open" /\ sub'[p] = "closing")
           /\ q # None => sub'[q] # "open"
  <1>1. sub \in [Calls -> {"none", "open", "closing", "closed"}]
    BY DEF TypeOK
  <1>2. CASE q # None /\ sub[q] = "open"
    <2>1. q \in Calls /\ sub' = [sub EXCEPT ![q] = "closing"]
      BY <1>2 DEF Closing
    <2> QED
      BY <1>1, <1>2, <2>1
  <1>3. CASE ~(q # None /\ sub[q] = "open")
    <2>1. sub' = sub
      BY <1>3 DEF Closing
    <2> QED
      BY <1>1, <1>3, <2>1
  <1> QED
    BY <1>2, <1>3

\* Only an open or a closing subscription of a call that is no longer asking for
\* one changes.
LEMMA ClosingSteps ==
    ASSUME TypeOK, NEW q \in Calls \cup {None}, sub' = Closing(sub, q),
           q # None => pc[q] \notin {"subscribing", "loading"}
    PROVE  \A p \in Calls : SubStep(p) /\ (sub'[p] = "open" => sub[p] = "open")
  <1>1. \A p \in Calls  :
                 sub'[p] = sub[p] \/ (p = q /\ sub[p] = "open" /\ sub'[p] = "closing")
    BY ClosingFacts
  <1>2. q \in Calls => q # None
    BY NoneIsNothing
  <1> QED
    BY <1>1, <1>2 DEF SubStep

\* A step of call o does not disturb the subscriptions of the others.
LEMMA SubsKept ==
    ASSUME TypeOK, TypeOK', SubsHold, NEW o \in Calls, OthersKept(o), EventsGrow,
           \A p \in Calls : p # o => /\ phase'[p] = phase[p] /\ delivered'[p] = delivered[p]
                                     /\ SubStep(p) /\ QueueStep(p)
    PROVE  \A p \in Calls : p # o => SubHolds(p)'
  BY SubKept DEF SubsHold, OthersKept

\* Loads that own a subscription, or hold one, have committed.
LEMMA OwnedCommittedKept ==
    ASSUME TypeOK, OwnedCommitted, NEW o \in Calls, OthersKept(o),
           pc[o] \in PastCommit => pc'[o] \in PastCommit,
           \/ gatewaySubscription' \in {gatewaySubscription, None}
           \/ /\ gatewaySubscription' = o
              /\ pc'[o] \in PastCommit /\ pc[o] \notin PastCommit,
           local'[o].previous \in {None, local[o].previous, gatewaySubscription},
           local'[o].previous # None => local'[o].previous # gatewaySubscription'
    PROVE  OwnedCommitted'
  <1>1. \A q \in Calls : pc[q] \in PastCommit => pc'[q] \in PastCommit
    BY DEF OthersKept, Kept
  <1>2. gatewaySubscription \in Calls \cup {None}
    BY NumberTypes
  <1>3. \A q \in Calls : local[q].previous \in Calls \cup {None}
    BY CallTypes
  <1>4. gatewaySubscription' # None => pc'[gatewaySubscription'] \in PastCommit
    BY <1>1, <1>2 DEF OwnedCommitted
  <1>5. \A q \in Calls : local'[q].previous # None =>
           /\ pc'[local'[q].previous] \in PastCommit
           /\ local'[q].previous # gatewaySubscription'
    <2>1. SUFFICES ASSUME NEW q \in Calls, local'[q].previous # None
                   PROVE  /\ pc'[local'[q].previous] \in PastCommit
                          /\ local'[q].previous # gatewaySubscription'
      OBVIOUS
    <2>2. CASE q = o
      BY <2>1, <2>2, <1>1, <1>2, <1>3 DEF OwnedCommitted
    <2>3. CASE q # o
      <3>1. local'[q] = local[q]
        BY <2>3 DEF OthersKept, Kept
      <3>2. /\ pc[local[q].previous] \in PastCommit
            /\ local[q].previous # gatewaySubscription /\ local[q].previous \in Calls
        BY <2>1, <3>1, <1>3 DEF OwnedCommitted
      <3> QED
        BY <2>1, <3>1, <3>2, <1>1
    <2> QED
      BY <2>2, <2>3
  <1> QED
    BY <1>4, <1>5 DEF OwnedCommitted, PastCommit, Ending, Settling

\* The publications in which a load holds the subscription it replaces.
Holding == {"displayed", "committed", "draining"}

\* An open subscription stays in the hands of somebody.
LEMMA NoLeakKept ==
    ASSUME TypeOK, NoSubscriptionLeak, NEW o \in Calls, OthersKept(o),
           \A q \in Calls : sub'[q] = "open" => sub[q] = "open",
           gatewaySubscription # None /\ sub'[gatewaySubscription] = "open" =>
              \/ gatewaySubscription' = gatewaySubscription
              \/ local'[o].previous = gatewaySubscription /\ pc'[o] \in Holding,
           sub'[o] = "open" /\ pc[o] \in {"subscribing", "loading"} =>
              pc'[o] \in {"subscribing", "loading"} \/ gatewaySubscription' = o,
           pc[o] \in Holding /\ local[o].previous # None
              /\ sub'[local[o].previous] = "open" =>
                 pc'[o] \in Holding /\ local'[o].previous = local[o].previous
    PROVE  NoSubscriptionLeak'
  <1>1. SUFFICES ASSUME NEW q \in Calls, sub'[q] = "open"
                 PROVE  \/ gatewaySubscription' = q
                        \/ pc'[q] \in {"subscribing", "loading"}
                        \/ \E p \in Calls : local'[p].previous = q /\ pc'[p] \in Holding
    BY DEF NoSubscriptionLeak, Holding
  <1>2. \/ gatewaySubscription = q
        \/ pc[q] \in {"subscribing", "loading"}
        \/ \E p \in Calls : local[p].previous = q /\ pc[p] \in Holding
    BY <1>1 DEF NoSubscriptionLeak, Holding
  <1>3. q # None
    BY NoneIsNothing
  <1>4. \A p \in Calls : p # o => pc'[p] = pc[p] /\ local'[p] = local[p]
    BY DEF OthersKept, Kept
  <1>5. CASE gatewaySubscription = q
    BY <1>1, <1>3, <1>5
  <1>6. CASE pc[q] \in {"subscribing", "loading"}
    BY <1>1, <1>4, <1>6
  <1>7. CASE \E p \in Calls : local[p].previous = q /\ pc[p] \in Holding
    <2>1. PICK p \in Calls : local[p].previous = q /\ pc[p] \in Holding
      BY <1>7
    <2> QED
      BY <2>1, <1>1, <1>3, <1>4
  <1> QED
    BY <1>2, <1>5, <1>6, <1>7

\* A call that has nothing more to ask the server keeps its subscription.
LEMMA SubKeptPast ==
    ASSUME TypeOK, NEW o \in Calls, SubHolds(o),
           pc'[o] \notin {"idle", "paging", "deleting"} \cup Waiting \cup Asking,
           local'[o].conversation = local[o].conversation,
           sub'[o] # "none" => sub[o] # "none",
           UNCHANGED <<events, delivered, queue>>
    PROVE  SubHolds(o)'
  BY DEF SubHolds, Waiting, Asking

-----------------------------------------------------------------------------
(* Views.                                                                  *)

\* The view is left alone, or shows more of the same load.
ViewGrows ==
    \/ snapshot' = snapshot /\ pendingCommits' = pendingCommits
    \/ /\ pendingCommits = <<>> /\ pendingCommits' = <<>>
       /\ snapshot # None /\ snapshot' # None
       /\ snapshot'.conversation = snapshot.conversation
       /\ snapshot'.load = snapshot.load
       /\ snapshot.events \subseteq snapshot'.events

\* What a view that only grows leaves as it is.
LEMMA GrowsFacts ==
    ASSUME ViewGrows
    PROVE  /\ LatestState' = None <=> LatestState = None
           /\ snapshot' = None <=> snapshot = None
           /\ pendingCommits' = <<>> <=> pendingCommits = <<>>
           /\ \A c : Shows(LatestState, c)' <=> Shows(LatestState, c)
           /\ \A c : Shows(snapshot, c)' <=> Shows(snapshot, c)
           /\ snapshot.events \subseteq snapshot'.events
           /\ snapshot # None => /\ snapshot'.conversation = snapshot.conversation
                                 /\ snapshot'.load = snapshot.load
  BY DEF ViewGrows, LatestState, Shows

\* The numbers of the loads are left alone.
NumbersKept(o) ==
    pc[o] # "idle" => /\ local'[o].cursor = local[o].cursor
                      /\ local'[o].ticket = local[o].ticket
                      /\ CacheEnabled \/ local'[o].requestId = local[o].requestId

\* A view stays of a load that has its number.
LEMMA FromLoadKept ==
    ASSUME CallsHold, setup' = setup, NEW o \in Calls, OthersKept(o), NumbersKept(o),
           NEW v, FromLoad(v)
    PROVE  /\ v.load \in Calls
           /\ local'[v.load].cursor = 0
           /\ IF CacheEnabled THEN local'[v.load].ticket # 0 ELSE local'[v.load].requestId # 0
           /\ local'[v.load].ticket = local[v.load].ticket
           /\ CacheEnabled \/ local'[v.load].requestId = local[v.load].requestId
           /\ CacheEnabled' = CacheEnabled
  <1>1. CASE v.load # o
    BY <1>1, SameSets DEF FromLoad, OthersKept, Kept
  <1>2. CASE v.load = o
    <2>1. local[o] # NoLocals
      BY <1>2 DEF FromLoad, NoLocals
    <2>2. pc[o] # "idle"
      BY <2>1 DEF CallsHold, CallHolds, Settling
    <2> QED
      BY <2>2, <1>2, SameSets DEF FromLoad, NumbersKept
  <1> QED
    BY <1>1, <1>2

\* A snapshot keeps showing events that have happened.
LEMMA ContentKept ==
    ASSUME TypeOK, TypeOK', EventsGrow, NEW v, v.conversation \in Conversations, Content(v)
    PROVE  v.events \subseteq 1..events'[v.conversation]
  <1>1. /\ events[v.conversation] \in Int /\ events'[v.conversation] \in Int
        /\ events[v.conversation] <= events'[v.conversation]
    BY DEF TypeOK, EventsGrow
  <1>2. 1..events[v.conversation] \subseteq 1..events'[v.conversation]
    BY <1>1
  <1> QED
    BY <1>2 DEF Content

\* The view that is shown, given what it shows if it changed.
LEMMA ShownKept ==
    ASSUME TypeOK, TypeOK', CallsHold, ViewsHold, setup' = setup,
           NEW o \in Calls, OthersKept(o), NumbersKept(o), EventsGrow, ViewGrows,
           snapshot' = snapshot \/ Content(snapshot)'
    PROVE  ShownHolds'
  <1>1. SUFFICES ASSUME snapshot' # None
                 PROVE  Content(snapshot)' /\ FromLoad(snapshot)'
    BY DEF ShownHolds
  <1>2. snapshot # None /\ Content(snapshot) /\ FromLoad(snapshot)
    BY <1>1, GrowsFacts DEF ViewsHold, ShownHolds
  <1>3. FromLoad(snapshot)'
    <2>1. snapshot'.load = snapshot.load
      BY <1>2, GrowsFacts
    <2>2. /\ snapshot.load \in Calls
          /\ local'[snapshot.load].cursor = 0
          /\ IF CacheEnabled THEN local'[snapshot.load].ticket # 0
                             ELSE local'[snapshot.load].requestId # 0
          /\ CacheEnabled' = CacheEnabled
      BY <1>2, FromLoadKept
    <2> QED
      BY <2>1, <2>2 DEF FromLoad
  <1>4. Content(snapshot)'
    <2>1. CASE snapshot' = snapshot
      <3>1. snapshot \in View
        BY <1>2, NumberTypes
      <3>2. snapshot.conversation \in Conversations
        BY <3>1, ViewFields
      <3>3. snapshot.events \subseteq 1..events'[snapshot.conversation]
        BY <3>2, <1>2, ContentKept
      <3> QED
        BY <3>3, <2>1 DEF Content
    <2> QED
      BY <2>1
  <1> QED
    BY <1>3, <1>4

\* The views that wait.
LEMMA WaitingKept ==
    ASSUME TypeOK, TypeOK', CallsHold, ViewsHold, setup' = setup,
           NEW o \in Calls, OthersKept(o), NumbersKept(o), EventsGrow, ViewGrows
    PROVE  WaitingHold'
  <1>1. CASE pendingCommits' = <<>>
    BY <1>1 DEF WaitingHold
  <1>2. CASE pendingCommits' # <<>>
    <2>1. snapshot' = snapshot /\ pendingCommits' = pendingCommits
      BY <1>2 DEF ViewGrows
    <2>2. snapshot # None /\ FromLoad(snapshot)
      <3>1. pendingCommits \in Seq(View) /\ pendingCommits # <<>>
        BY <1>2, <2>1, NumberTypes
      <3>2. 1 \in DOMAIN pendingCommits
        BY <3>1
      <3> QED
        BY <3>2 DEF ViewsHold, WaitingHold, ShownHolds
    <2> DEFINE D == DOMAIN pendingCommits
               V(i) == pendingCommits[i]
               ok(v) == /\ local'[v.load].cursor = 0
                        /\ IF CacheEnabled THEN local'[v.load].ticket # 0
                                           ELSE local'[v.load].requestId # 0
                        /\ local'[v.load].ticket = local[v.load].ticket
                        /\ CacheEnabled \/ local'[v.load].requestId = local[v.load].requestId
    <2>3. \A i \in D : /\ V(i) \in View /\ V(i).conversation \in Conversations
      <3>1. pendingCommits \in Seq(View)
        BY NumberTypes
      <3>2. \A i \in D : V(i) \in View
        BY <3>1, ElementsTyped
      <3> QED
        BY <3>2, ViewFields
    <2>4. \A i \in D : /\ Content(V(i)) /\ FromLoad(V(i)) /\ NotBefore(snapshot, V(i))
      BY DEF ViewsHold, WaitingHold
    <2>5. \A i, j \in D : i < j => NotBefore(V(i), V(j))
      BY DEF ViewsHold, WaitingHold
    <2>6. /\ \A i \in D : V(i).load \in Calls /\ ok(V(i))
          /\ snapshot.load \in Calls /\ ok(snapshot)
          /\ CacheEnabled' = CacheEnabled
      BY <2>2, <2>4, FromLoadKept, SameSets
    <2>7. \A i \in D : V(i).events \subseteq 1..events'[V(i).conversation]
      BY <2>3, <2>4, ContentKept
    <2>8. /\ \A i \in D : StartOrder(V(i).load)' = StartOrder(V(i).load)
          /\ StartOrder(snapshot.load)' = StartOrder(snapshot.load)
      BY <2>1, <2>6 DEF StartOrder
    <2>9. \A i \in D : /\ Content(pendingCommits[i])' /\ FromLoad(pendingCommits[i])'
                       /\ NotBefore(snapshot, pendingCommits[i])'
      BY <2>1, <2>4, <2>6, <2>7, <2>8 DEF Content, FromLoad, NotBefore
    <2>10. \A i, j \in D : i < j => NotBefore(pendingCommits[i], pendingCommits[j])'
      BY <2>1, <2>5, <2>8 DEF NotBefore
    <2> HIDE DEF D, V, ok
    <2> QED
      BY <2>1, <2>2, <2>9, <2>10 DEF WaitingHold, D
  <1> QED
    BY <1>1, <1>2

\* The entries of the cache: an entry is left alone, dropped, or replaced by a
\* snapshot of its conversation.
LEMMA EntriesKept ==
    ASSUME TypeOK, TypeOK', ViewsHold, EventsGrow,
           \A c \in Conversations :
              \/ entry'[c] \in {entry[c], None}
              \/ /\ entry'[c].conversation = c
                 /\ entry'[c].events = {} \/ (entry'[c] = snapshot /\ snapshot # None)
    PROVE  EntriesHold'
  <1>1. SUFFICES ASSUME NEW c \in Conversations, entry'[c] # None
                 PROVE  entry'[c].conversation = c
                        /\ entry'[c].events \subseteq 1..events'[entry'[c].conversation]
    BY DEF EntriesHold, Content
  <1>2. CASE entry'[c] = entry[c]
    <2>1. entry[c].conversation = c /\ Content(entry[c])
      BY <1>1, <1>2 DEF ViewsHold, EntriesHold
    <2> QED
      BY <2>1, <1>2, ContentKept
  <1>3. CASE entry'[c].conversation = c /\ entry'[c].events = {}
    BY <1>3
  <1>4. CASE entry'[c].conversation = c /\ entry'[c] = snapshot /\ snapshot # None
    <2>1. Content(snapshot)
      BY <1>4 DEF ViewsHold, ShownHolds
    <2> QED
      BY <2>1, <1>4, ContentKept
  <1> QED
    BY <1>1, <1>2, <1>3, <1>4

\* What #captureCache does to the entries.
LEMMA CapturedFacts ==
    ASSUME TypeOK
    PROVE  /\ CapturedEntries \in [Conversations -> View \cup {None}]
           /\ \A c \in Conversations :
                 \/ CapturedEntries[c] = entry[c]
                 \/ /\ CapturedEntries[c] = snapshot /\ snapshot # None
                    /\ snapshot.conversation = c
  <1>1. entry \in [Conversations -> View \cup {None}] /\ snapshot \in View \cup {None}
    BY DEF TypeOK
  <1>2. CASE ~CacheEnabled \/ disposed \/ cacheReadOnly \/ snapshot = None \/ cleared
    <2>1. CapturedEntries = entry
      BY <1>2 DEF CapturedEntries
    <2> QED
      BY <2>1, <1>1
  <1>3. CASE ~(~CacheEnabled \/ disposed \/ cacheReadOnly \/ snapshot = None \/ cleared)
    <2>1. CapturedEntries = [entry EXCEPT ![snapshot.conversation] = snapshot]
      BY <1>3 DEF CapturedEntries
    <2>2. snapshot \in View /\ snapshot.conversation \in Conversations /\ snapshot # None
      BY <1>1, <1>3, ViewFields
    <2> QED
      BY <2>1, <2>2, <1>1
  <1> QED
    BY <1>2, <1>3

\* The snapshot a call holds.
LEMMA ContentHoldsKept ==
    ASSUME TypeOK, TypeOK', ViewsHold, EventsGrow, NEW p \in Calls, Kept(p)
    PROVE  ContentHolds(p)'
  <1>1. SUFFICES ASSUME pc[p] = "nonlive"
                 PROVE  /\ local[p].content # None /\ local[p].content.load = p
                        /\ local[p].content.conversation = local[p].conversation
                        /\ local[p].content.events
                              \subseteq 1..events'[local[p].content.conversation]
    BY DEF ContentHolds, Content, Kept
  <1>2. /\ local[p].content # None /\ local[p].content.load = p
        /\ local[p].content.conversation = local[p].conversation
        /\ Content(local[p].content)
    BY <1>1 DEF ViewsHold, ContentHolds
  <1>3. local[p].content \in View
    BY <1>2, CallTypes
  <1>4. local[p].content.conversation \in Conversations
    BY <1>3, ViewFields
  <1> QED
    BY <1>2, <1>4, ContentKept

-----------------------------------------------------------------------------
(* Loads that compete.                                                     *)

\* Nothing that tells loads apart has changed.
Quiet == UNCHANGED <<setup, disposed, generation, loadRequestId, pendingLoad, pendingHandoff,
                     gatewaySubscription, cacheRequestId, cacheReadOnly, cacheState, cacheEpoch>>

\* No counter moves in a quiet step.
LEMMA QuietGrows ==
    ASSUME TypeOK, Quiet
    PROVE  CountersGrow
  BY NumberTypes DEF Quiet, CountersGrow

\* The locals by which a call tells that it was overtaken.
NumbersSame(p) ==
    /\ local'[p].ticket = local[p].ticket /\ local'[p].epoch = local[p].epoch
    /\ local'[p].conversation = local[p].conversation
    /\ local'[p].requestId = local[p].requestId /\ local'[p].cursor = local[p].cursor

\* Once overtaken, always overtaken.
LEMMA OvertakenStays ==
    ASSUME TypeOK, TypeOK', CountersGrow, NEW p \in Calls, CallHolds(p), NumbersSame(p)
    PROVE  /\ LoadSuperseded(p) /\ local[p].cursor = 0 => LoadSuperseded(p)'
           /\ TicketSuperseded(p) /\ local[p].ticket # 0 => TicketSuperseded(p)'
  <1>1. /\ local[p].ticket \in Nat /\ local[p].requestId \in Nat /\ local[p].epoch \in Nat
    BY CallTypes
  <1>2. /\ loadRequestId \in Nat /\ cacheRequestId \in Nat
        /\ \A c \in Conversations : cacheEpoch[c] \in Nat
    BY NumberTypes
  <1>3. /\ loadRequestId' \in Nat /\ cacheRequestId' \in Nat
        /\ \A c \in Conversations : cacheEpoch'[c] \in Nat
    BY DEF TypeOK
  <1>4. LoadSuperseded(p) /\ local[p].cursor = 0 => LoadSuperseded(p)'
    <2>1. local[p].cursor = 0 => local[p].requestId <= loadRequestId
      BY DEF CallHolds, Settling
    <2> QED
      BY <2>1, <1>1, <1>2, <1>3 DEF LoadSuperseded, CountersGrow, NumbersSame
  <1>5. TicketSuperseded(p) /\ local[p].ticket # 0 => TicketSuperseded(p)'
    <2>1. SUFFICES ASSUME TicketSuperseded(p), local[p].ticket # 0
                   PROVE  TicketSuperseded(p)'
      OBVIOUS
    <2> DEFINE c == local[p].conversation
    <2>2. /\ c \in Conversations /\ local[p].epoch <= cacheEpoch[c]
          /\ local[p].ticket <= cacheRequestId
      BY <2>1 DEF CallHolds, Settling
    <2>3. /\ cacheEpoch[c] \in Nat /\ cacheEpoch'[c] \in Nat
          /\ cacheEpoch[c] <= cacheEpoch'[c]
      BY <2>2, <1>2, <1>3 DEF CountersGrow
    <2>4. \/ disposed \/ local[p].ticket # cacheRequestId \/ local[p].epoch # cacheEpoch[c]
      BY <2>1 DEF TicketSuperseded
    <2>5. \/ disposed' \/ local[p].ticket # cacheRequestId' \/ local[p].epoch # cacheEpoch'[c]
      <3> HIDE DEF c
      <3> QED
        BY <2>2, <2>3, <2>4, <1>1, <1>2, <1>3 DEF CountersGrow
    <2> QED
      BY <2>5 DEF TicketSuperseded, NumbersSame
  <1> QED
    BY <1>4, <1>5

\* A load that was overtaken does not come back into the race.
LEMMA OutOfRace ==
    ASSUME TypeOK, TypeOK', CountersGrow, NEW p \in Calls, CallHolds(p), Kept(p)
    PROVE  /\ ~Current(p) => ~Current(p)'
           /\ local[p].ticket # 0 /\ TicketSuperseded(p) => TicketSuperseded(p)'
           /\ ~Current(p)' => CurrentHolds(p)'
           /\ (local[p].ticket = 0 \/ TicketSuperseded(p)') => TicketHolds(p)'
  <1>1. NumbersSame(p) /\ pc'[p] = pc[p] /\ local'[p] = local[p]
    BY DEF Kept, NumbersSame
  <1>2. ~Current(p) => ~Current(p)'
    <2>1. pc[p] \in Asking => local[p].cursor = 0
      BY DEF CallHolds, Settling
    <2> QED
      BY <1>1, <2>1, OvertakenStays DEF Current, Asking
  <1> QED
    BY <1>1, <1>2, OvertakenStays DEF CurrentHolds, TicketHolds

\* The newest load stays so until a ticket is given out.
LEMMA NewestKept ==
    ASSUME TypeOK, TicketsKept, NEW p \in Calls, local'[p].ticket = local[p].ticket, Newest(p)
    PROVE  Newest(p)'
  <1>1. \A q \in Calls : local[q].ticket \in Nat
    BY CallTypes
  <1> QED
    BY <1>1 DEF Newest, TicketsKept

\* The last ticket that was given out is of the newest load.
LEMMA LastIsNewest ==
    ASSUME CallsHold, NEW o \in Calls, local[o].ticket = cacheRequestId
    PROVE  Newest(o)
  BY DEF CallsHold, CallHolds, Newest

\* When a call changes no ticket but its own, which it may forget.
LEMMA NoTicket ==
    ASSUME NEW o \in Calls, OthersKept(o), local'[o].ticket \in {0, local[o].ticket}
    PROVE  TicketsKept
  BY DEF OthersKept, Kept, TicketsKept

LEMMA SameTickets ==
    ASSUME NEW o \in Calls, OthersKept(o), Kept(o)
    PROVE  TicketsKept
  BY DEF OthersKept, Kept, TicketsKept

\* Only one load is current, and only one has the last ticket.
LEMMA OneCurrent ==
    ASSUME TypeOK, CallsHold, LoadsHold, NEW o \in Calls, NEW p \in Calls, p # o
    PROVE  /\ Current(o) => ~Current(p)
           /\ local[o].ticket # 0 /\ ~TicketSuperseded(o) =>
                 /\ local[p].ticket = 0 \/ TicketSuperseded(p)
                 /\ CacheEnabled => ~Current(p)
           /\ Current(o) /\ CacheEnabled => local[p].ticket = 0 \/ TicketSuperseded(p)
  <1>1. Current(o) => ~Current(p)
    <2>1. \A q \in Calls : Current(q) => /\ local[q].cursor = 0 /\ local[q].requestId # 0
                                         /\ local[q].requestId = loadRequestId
      BY DEF CallsHold, CallHolds, Current, LoadSuperseded, Settling
    <2> QED
      BY <2>1 DEF CallsHold, Distinct, Settling
  <1>2. local[o].ticket # 0 /\ ~TicketSuperseded(o) =>
           local[p].ticket = 0 \/ TicketSuperseded(p)
    BY DEF CallsHold, Distinct, TicketSuperseded, Settling
  <1>3. \A q \in Calls : CacheEnabled /\ Current(q) => Newest(q) /\ local[q].ticket # 0
    BY DEF LoadsHold, CurrentHolds, CallsHold, CallHolds, Current, Settling
  <1>4. \A q \in Calls : local[q].ticket \in Nat /\ local[q].ticket <= cacheRequestId
    BY CallTypes DEF CallsHold, CallHolds
  <1>5. \A q, r \in Calls : CacheEnabled /\ Current(q) /\ q # r /\ local[r].ticket # 0
                              => TicketSuperseded(r)
    <2>1. SUFFICES ASSUME NEW q \in Calls, NEW r \in Calls, CacheEnabled, Current(q), q # r,
                          local[r].ticket # 0, ~TicketSuperseded(r)
                   PROVE  FALSE
      OBVIOUS
    <2>2. local[r].ticket = cacheRequestId /\ local[r].ticket <= local[q].ticket
      BY <2>1, <1>3 DEF TicketSuperseded, Newest
    <2>3. local[r].ticket # local[q].ticket
      BY <2>1 DEF CallsHold, Distinct
    <2>4. cacheRequestId \in Nat
      BY NumberTypes
    <2> QED
      BY <2>2, <2>3, <2>4, <1>4
  <1> QED
    BY <1>1, <1>2, <1>5

\* What a call that was left alone stays in charge of.
LEMMA CurrentKept ==
    ASSUME TypeOK, LoadsHold, Quiet, ViewGrows, TicketsKept, NEW p \in Calls, Kept(p)
    PROVE  CurrentHolds(p)'
  <1>1. SUFFICES ASSUME Current(p)'
                 PROVE  CurrentHolds(p)'
    BY DEF CurrentHolds
  <1>2. /\ pc'[p] = pc[p] /\ local'[p] = local[p] /\ CacheEnabled' = CacheEnabled
    BY SameSets DEF Kept, Quiet
  <1>3. Current(p)
    BY <1>1, <1>2 DEF Current, LoadSuperseded, Quiet, Asking
  <1>4. /\ pendingLoad.conversation = local[p].conversation
        /\ pendingLoad.requestId = loadRequestId
        /\ CacheEnabled => /\ Newest(p)
                           /\ cacheState = Syncing(local[p].conversation)
        /\ ~cacheReadOnly /\ Shows(snapshot, local[p].conversation)
              => pendingHandoff.call = p
        /\ pendingHandoff.call = p => HandoffServes(p)
    BY <1>3 DEF LoadsHold, CurrentHolds
  <1>5. Shows(snapshot, local[p].conversation)' <=> Shows(snapshot, local[p].conversation)
    BY <1>2, GrowsFacts DEF Shows
  <1>6. pendingHandoff.call = p => HandoffServes(p)'
    BY <1>2, <1>4, <1>5, GrowsFacts DEF HandoffServes, Quiet
  <1>7. CacheEnabled => Newest(p)'
    BY <1>2, <1>4, NewestKept
  <1> QED
    BY <1>2, <1>4, <1>5, <1>6, <1>7 DEF CurrentHolds, Quiet, Syncing

\* A quiet step keeps what the last ticket says of the call that has it.
LEMMA TicketKept ==
    ASSUME TypeOK, LoadsHold, Quiet, ViewGrows, NEW p \in Calls, Kept(p)
    PROVE  TicketHolds(p)'
  <1>1. SUFFICES ASSUME local'[p].ticket # 0, ~TicketSuperseded(p)'
                 PROVE  TicketHolds(p)'
    BY DEF TicketHolds
  <1>2. /\ pc'[p] = pc[p] /\ local'[p] = local[p] /\ result'[p] = result[p]
    BY DEF Kept
  <1>3. local[p].ticket # 0 /\ ~TicketSuperseded(p)
    BY <1>1, <1>2 DEF TicketSuperseded, Quiet
  <1>4. /\ pc[p] \in Waiting => pendingLoad.requestId = 0
        /\ pc[p] \notin {"restoring", "reported", "clearing", "deleted", "done"}
              => cacheState = Syncing(local[p].conversation)
        /\ pc[p] \in Ending \/ (pc[p] = "settling" /\ result[p] = "ok") =>
              LatestState = None \/ (Shows(LatestState, local[p].conversation) /\ ~cacheReadOnly)
    BY <1>3 DEF LoadsHold, TicketHolds
  <1>5. /\ Shows(LatestState, local[p].conversation)' <=> Shows(LatestState, local[p].conversation)
        /\ LatestState' = None <=> LatestState = None
    <2>1. \A c : Shows(LatestState, c)' <=> Shows(LatestState, c)
      BY GrowsFacts
    <2> QED
      BY <2>1, <1>2, GrowsFacts DEF Shows
  <1> QED
    BY <1>2, <1>4, <1>5 DEF TicketHolds, Quiet, Syncing, Waiting, Ending

\* A quiet step keeps what the cache state says of the view.
LEMMA ReadyKept ==
    ASSUME TypeOK, LoadsHold, Quiet, ViewGrows
    PROVE  ReadyShowsLive'
  BY GrowsFacts DEF LoadsHold, ReadyShowsLive, Shows, Quiet

\* The handoff is still that of a load that asks the server.
LEMMA HandoffKept ==
    ASSUME TypeOK, TypeOK', LoadsHold, setup' = setup, EventsGrow,
           pendingHandoff' = pendingHandoff,
           pendingHandoff.call # None =>
              /\ pc'[pendingHandoff.call] \in Asking
              /\ local'[pendingHandoff.call].conversation
                    = local[pendingHandoff.call].conversation
    PROVE  HandoffHolds'
  <1>1. SUFFICES ASSUME pendingHandoff.call # None
                 PROVE  HandoffHolds'
    BY DEF HandoffHolds
  <1>2. /\ pendingHandoff.conversation \in Conversations
        /\ local[pendingHandoff.call].conversation = pendingHandoff.conversation
        /\ pendingHandoff.baseline # None
        /\ pendingHandoff.baseline.conversation = pendingHandoff.conversation
        /\ Content(pendingHandoff.baseline)
    BY <1>1 DEF LoadsHold, HandoffHolds
  <1>3. pendingHandoff.baseline.events
           \subseteq 1..events'[pendingHandoff.baseline.conversation]
    BY <1>2, ContentKept
  <1> QED
    BY <1>1, <1>2, <1>3 DEF HandoffHolds, Content, Asking

\* A retired load stays doomed.
LEMMA DoomedKept ==
    ASSUME TypeOK, TypeOK', CountersGrow, NEW p \in Calls, CallHolds(p), Kept(p), Doomed(p)
    PROVE  Doomed(p)'
  <1>1. NumbersSame(p) /\ pc'[p] = pc[p] /\ result'[p] = result[p]
    BY DEF Kept, NumbersSame
  <1>2. pc[p] \in Waiting => local[p].ticket # 0
    BY DEF CallHolds, Settling
  <1>3. pc[p] \in Asking => local[p].cursor = 0
    BY DEF CallHolds, Settling
  <1> QED
    BY <1>1, <1>2, <1>3, OvertakenStays DEF Doomed, Waiting, Asking, Settling

\* A quiet step of call o leaves the other loads in charge of what is theirs.
LEMMA QuietLoads ==
    ASSUME TypeOK, TypeOK', CallsHold, LoadsHold, Quiet, ViewGrows, EventsGrow,
           NEW o \in Calls, OthersKept(o), local'[o].ticket \in {0, local[o].ticket},
           CurrentHolds(o)', TicketHolds(o)', o \in retired => Doomed(o)',
           pendingHandoff.call = o => /\ pc'[o] \in Asking
                                      /\ local'[o].conversation = local[o].conversation,
           retired' = retired
    PROVE  LoadsHold'
  <1>1. \A p \in Calls : p # o => Kept(p)
    BY DEF OthersKept
  <1>2. \A p \in Calls : CurrentHolds(p)' /\ TicketHolds(p)'
    BY <1>1, CurrentKept, TicketKept, NoTicket
  <1>3. HandoffHolds'
    <2>1. pendingHandoff.call \in Calls \cup {None}
      BY DEF TypeOK
    <2>2. setup' = setup /\ pendingHandoff' = pendingHandoff
      BY DEF Quiet
    <2>3. pendingHandoff.call # None =>
              /\ pc'[pendingHandoff.call] \in Asking
              /\ local'[pendingHandoff.call].conversation
                    = local[pendingHandoff.call].conversation
      <3>1. pendingHandoff.call # None => pc[pendingHandoff.call] \in Asking
        BY DEF LoadsHold, HandoffHolds
      <3> QED
        BY <3>1, <2>1, <1>1 DEF Kept
    <2> QED
      BY <2>2, <2>3, HandoffKept
  <1>4. \A p \in retired' : Doomed(p)'
    <2>1. \A p \in retired : p \in Calls
      BY DEF TypeOK
    <2> QED
      BY <2>1, <1>1, DoomedKept, QuietGrows DEF LoadsHold, CallsHold, Settling
  <1>5. ReadyShowsLive'
    BY ReadyKept
  <1> QED
    BY <1>2, <1>3, <1>4, <1>5 DEF LoadsHold

-----------------------------------------------------------------------------
(* Steps in which no load overtakes another.                               *)

\* The action properties, of one step.
StepRegresses(o, p) ==
    Shows(snapshot, local[p].conversation) /\ snapshot.load = p
    /\ snapshot' # None /\ snapshot'.load = o /\ o # p
    /\ snapshot'.pages # {}
        => StartOrder(p) < StartOrder(o)

NoRegress == \A o, p \in Calls : StepRegresses(o, p)

KeepsEvents ==
    snapshot # None /\ snapshot' # None /\ ~cacheReadOnly /\ ~cacheReadOnly'
    /\ snapshot.conversation = snapshot'.conversation
       => snapshot.events \subseteq snapshot'.events

\* A view that only grows goes back to nothing, and loses nothing.
LEMMA GrowsForward ==
    ASSUME TypeOK, ViewGrows
    PROVE  NoRegress /\ KeepsEvents
  <1>1. snapshot # None => snapshot'.load = snapshot.load
    BY GrowsFacts
  <1>2. KeepsEvents
    BY GrowsFacts DEF KeepsEvents
  <1> QED
    BY <1>1, <1>2 DEF NoRegress, StepRegresses, Shows

\* The owned subscription still serves the view.
LEMMA QuietOwned ==
    ASSUME TypeOK, SubsHold, Quiet, ViewGrows,
           gatewaySubscription # None =>
              /\ sub'[gatewaySubscription] = sub[gatewaySubscription]
              /\ local'[gatewaySubscription].generation = local[gatewaySubscription].generation
              /\ local'[gatewaySubscription].conversation
                    = local[gatewaySubscription].conversation
    PROVE  OwnedMatchesView'
  <1>1. SUFFICES ASSUME gatewaySubscription # None
                 PROVE  OwnedMatchesView'
    BY DEF OwnedMatchesView, Quiet
  <1>2. /\ sub[gatewaySubscription] = "open"
        /\ local[gatewaySubscription].generation = generation
        /\ Shows(LatestState, local[gatewaySubscription].conversation)
        /\ ~disposed /\ ~cacheReadOnly
    BY <1>1 DEF SubsHold, OwnedMatchesView
  <1>3. \A c : Shows(LatestState, c)' <=> Shows(LatestState, c)
    BY GrowsFacts
  <1>4. Shows(LatestState, local[gatewaySubscription].conversation)'
    BY <1>1, <1>2, <1>3 DEF Shows, Quiet
  <1> QED
    BY <1>1, <1>2, <1>4 DEF OwnedMatchesView, Quiet

\* A quiet step keeps what the owned subscription was handed.
LEMMA QuietDelivers ==
    ASSUME TypeOK, SubsHold, Quiet, ViewGrows,
           gatewaySubscription # None =>
              /\ delivered'[gatewaySubscription] = delivered[gatewaySubscription]
              /\ phase'[gatewaySubscription] = phase[gatewaySubscription]
              /\ \A n \in Elements(queue[gatewaySubscription]) :
                    n \in Elements(queue'[gatewaySubscription])
    PROVE  OwnedDelivers'
  <1>1. SUFFICES ASSUME gatewaySubscription # None,
                        NEW n \in 1..delivered[gatewaySubscription]
                 PROVE  \/ n \in snapshot'.events
                        \/ /\ phase'[gatewaySubscription] # "active"
                           /\ n \in Elements(queue'[gatewaySubscription])
    BY DEF OwnedDelivers, Quiet
  <1>2. \/ n \in snapshot.events
        \/ /\ phase[gatewaySubscription] # "active"
           /\ n \in Elements(queue[gatewaySubscription])
    BY <1>1 DEF SubsHold, OwnedDelivers
  <1> QED
    BY <1>1, <1>2, GrowsFacts

\* Commits wait only while listeners are called.
LEMMA QuietWait ==
    ASSUME TypeOK, CommitsWait, Quiet, ViewGrows, NEW o \in Calls, OthersKept(o),
           pc[o] \in Showing => pc'[o] \in Showing \/ pendingCommits = <<>>,
           pc'[o] \in Showing => pc[o] \in Showing \/ disposed \/ snapshot # None
    PROVE  CommitsWait'
  <1>1. \A p \in Calls : p # o => pc'[p] = pc[p]
    BY DEF OthersKept, Kept
  <1>2. /\ pendingCommits' = <<>> <=> pendingCommits = <<>>
        /\ snapshot' = None <=> snapshot = None
        /\ cacheReadOnly' = cacheReadOnly /\ disposed' = disposed
    BY GrowsFacts DEF Quiet
  <1>3. pendingCommits' # <<>> => cacheReadOnly' /\ \E p \in Calls : pc'[p] \in Showing
    BY <1>1, <1>2 DEF CommitsWait
  <1>4. \A p \in Calls : pc'[p] \in Showing => disposed' \/ snapshot' # None
    BY <1>1, <1>2 DEF CommitsWait
  <1> QED
    BY <1>3, <1>4 DEF CommitsWait, Showing, Publishing, StorePublishing

\* A quiet step of call o.
LEMMA QuietStep ==
    ASSUME IInv, TypeOK', Quiet, ViewGrows, EventsGrow, retired' = retired,
           NEW o \in Calls, OthersKept(o), NumbersKept(o),
           Stacked',
           pc[o] \in Showing => pc'[o] \in Showing \/ pendingCommits = <<>>,
           pc'[o] \in Showing => pc[o] \in Showing \/ disposed \/ snapshot # None,
           CallHolds(o)',
           local'[o].ticket \in {0, local[o].ticket} \/ local'[o].ticket > cacheRequestId,
           \/ local'[o].cursor # 0
           \/ local'[o].requestId = 0
           \/ local[o].cursor = 0 /\ local'[o].requestId = local[o].requestId
           \/ local'[o].requestId > loadRequestId,
           SubHolds(o)', OwnedDelivers', OwnedMatchesView', NoSubscriptionLeak',
           \A p \in Calls : p # o => /\ phase'[p] = phase[p] /\ delivered'[p] = delivered[p]
                                     /\ SubStep(p) /\ QueueStep(p),
           pc[o] \in PastCommit => pc'[o] \in PastCommit,
           local'[o].previous \in {None, local[o].previous},
           snapshot' = snapshot \/ Content(snapshot)',
           \A c \in Conversations :
              \/ entry'[c] \in {entry[c], None}
              \/ /\ entry'[c].conversation = c
                 /\ entry'[c].events = {} \/ (entry'[c] = snapshot /\ snapshot # None),
           ContentHolds(o)', CurrentHolds(o)', TicketHolds(o)',
           o \in retired => Doomed(o)',
           pendingHandoff.call = o => /\ pc'[o] \in Asking
                                      /\ local'[o].conversation = local[o].conversation
    PROVE  IInv' /\ NoRegress /\ KeepsEvents
  <1>1. /\ TypeOK /\ Stacked /\ CommitsWait /\ CallsHold /\ SubsHold /\ ViewsHold
        /\ LoadsHold /\ NothingLeft /\ NoCache
    BY DEF IInv, StackHolds
  <1>2. setup' = setup /\ CountersGrow
    BY <1>1, QuietGrows DEF Quiet
  <1>3. StackHolds'
    <2>1. CommitsWait'
      BY <1>1, QuietWait
    <2> QED
      BY <2>1 DEF StackHolds
  <1>4. CallsHold'
    BY <1>1, <1>2, CallsStep
  <1>5. SubsHold'
    <2>1. \A p \in Calls : SubHolds(p)'
      BY <1>1, SubsKept
    <2>2. gatewaySubscription' = gatewaySubscription
      BY DEF Quiet
    <2>3. OwnedCommitted'
      <3>1. OwnedCommitted
        BY <1>1 DEF SubsHold
      <3>2. local'[o].previous # None => local'[o].previous # gatewaySubscription'
        BY <2>2, <3>1 DEF OwnedCommitted
      <3> QED
        BY <1>1, <2>2, <3>1, <3>2, OwnedCommittedKept
    <2> QED
      BY <2>1, <2>3 DEF SubsHold
  <1>6. ViewsHold'
    <2>1. ShownHolds' /\ WaitingHold' /\ EntriesHold'
      BY <1>1, <1>2, ShownKept, WaitingKept, EntriesKept
    <2>2. \A p \in Calls : ContentHolds(p)'
      BY <1>1, ContentHoldsKept DEF OthersKept
    <2> QED
      BY <2>1, <2>2 DEF ViewsHold
  <1>7. LoadsHold'
    <2>1. local'[o].ticket \in Nat /\ cacheRequestId \in Nat
      BY <1>1, NumberTypes, CallTypes DEF TypeOK, Locals
    <2>2. local'[o].ticket <= cacheRequestId
      BY DEF CallHolds, Quiet
    <2> QED
      BY <1>1, <2>1, <2>2, QuietLoads
  <1>8. NothingLeft'
    BY <1>1, GrowsFacts DEF NothingLeft, Quiet
  <1>9. NoCache'
    BY <1>1, <1>2, SameSets DEF NoCache, Quiet
  <1> QED
    BY <1>1, <1>3, <1>4, <1>5, <1>6, <1>7, <1>8, <1>9, GrowsForward DEF IInv

\* A quiet step of call o that leaves the view and all queues alone.
LEMMA CallStep ==
    ASSUME IInv, TypeOK', Quiet, retired' = retired,
           UNCHANGED <<snapshot, pendingCommits, events, delivered, queue>>,
           NEW o \in Calls, OthersKept(o), NumbersKept(o),
           Stacked',
           pc[o] \in Showing => pc'[o] \in Showing \/ pendingCommits = <<>>,
           pc'[o] \in Showing => pc[o] \in Showing,
           CallHolds(o)',
           local'[o].ticket \in {0, local[o].ticket},
           \/ local'[o].cursor # 0
           \/ local'[o].requestId = 0
           \/ local[o].cursor = 0 /\ local'[o].requestId = local[o].requestId,
           SubHolds(o)', NoSubscriptionLeak',
           \A p \in Calls : (p # o => phase'[p] = phase[p] /\ SubStep(p)),
           gatewaySubscription # None => sub'[gatewaySubscription] = sub[gatewaySubscription],
           gatewaySubscription = o =>
              /\ local'[o].generation = local[o].generation
              /\ local'[o].conversation = local[o].conversation
              /\ phase'[o] # "active" \/ phase'[o] = phase[o] \/ queue[o] = <<>>,
           pc[o] \in PastCommit => pc'[o] \in PastCommit,
           local'[o].previous \in {None, local[o].previous},
           \A c \in Conversations :
              \/ entry'[c] \in {entry[c], None}
              \/ /\ entry'[c].conversation = c
                 /\ entry'[c].events = {} \/ (entry'[c] = snapshot /\ snapshot # None),
           ContentHolds(o)', CurrentHolds(o)', TicketHolds(o)',
           o \in retired => Doomed(o)',
           pendingHandoff.call = o => /\ pc'[o] \in Asking
                                      /\ local'[o].conversation = local[o].conversation
    PROVE  IInv' /\ NoRegress /\ KeepsEvents
  <1>1. TypeOK /\ SubsHold /\ CallsHold
    BY DEF IInv
  <1>2. ViewGrows
    BY DEF ViewGrows
  <1>3. EventsGrow
    <2>1. \A c \in Conversations : events[c] \in Int
      BY <1>1, NumberTypes
    <2> QED
      BY <2>1 DEF EventsGrow
  <1>4. \A p \in Calls : SubHolds(p) /\ queue'[p] = queue[p] /\ delivered'[p] = delivered[p]
    BY <1>1 DEF SubsHold
  <1>5. \A p \in Calls : QueueStep(p)
    BY <1>1, <1>3, <1>4, QueueSame
  <1>6. gatewaySubscription \in Calls \cup {None}
    BY <1>1, NumberTypes
  <1>7. \A p \in Calls : p # o => pc'[p] = pc[p] /\ local'[p] = local[p]
    BY DEF OthersKept, Kept
  <1>8. OwnedMatchesView'
    BY <1>1, <1>2, <1>6, <1>7, QuietOwned
  <1>9. OwnedDelivers'
    <2>1. CASE gatewaySubscription # o \/ phase'[o] = phase[o]
      <3>1. gatewaySubscription # None =>
              /\ delivered'[gatewaySubscription] = delivered[gatewaySubscription]
              /\ phase'[gatewaySubscription] = phase[gatewaySubscription]
              /\ \A n \in Elements(queue[gatewaySubscription]) :
                    n \in Elements(queue'[gatewaySubscription])
        BY <2>1, <1>4, <1>6
      <3> QED
        BY <3>1, <1>1, <1>2, QuietDelivers
    <2>2. CASE gatewaySubscription = o /\ (phase'[o] # "active" \/ queue[o] = <<>>)
      <3>1. gatewaySubscription' = o /\ snapshot' = snapshot
            /\ queue'[o] = queue[o] /\ delivered'[o] = delivered[o] /\ o # None
        BY <2>2, <1>1, <1>4, NoneIsNothing DEF Quiet
      <3>2. \A n \in 1..delivered[o] : n \in snapshot.events \/ n \in Elements(queue[o])
        BY <2>2, <3>1, <1>1 DEF SubsHold, OwnedDelivers
      <3>3. queue[o] = <<>> => Elements(queue[o]) = {}
        BY DEF Elements
      <3> QED
        BY <2>2, <3>1, <3>2, <3>3 DEF OwnedDelivers
    <2> QED
      BY <2>1, <2>2
  <1>10. \A p \in Calls : p # o => /\ phase'[p] = phase[p] /\ delivered'[p] = delivered[p]
                                    /\ SubStep(p) /\ QueueStep(p)
    BY <1>4, <1>5
  <1> QED
    BY <1>2, <1>3, <1>8, <1>9, <1>10, QuietStep

-----------------------------------------------------------------------------
(* The steps.                                                              *)

\* The gateway has closed a subscription.
LEMMA SubscriptionClosesStep ==
    ASSUME IInv, NEW o \in Calls, SubscriptionCloses(o)
    PROVE  IInv' /\ NoRegress /\ KeepsEvents
  <1>1. /\ TypeOK /\ Stacked /\ CommitsWait /\ CallsHold /\ SubsHold /\ ViewsHold
        /\ LoadsHold
    BY DEF IInv, StackHolds
  <1> USE DEF clientVars, cacheVars, storeVars, callVars, gatewayVars
  <1>2. /\ UNCHANGED <<setup, clientVars, cacheVars, storeVars, callVars, events, delivered,
                       queue, phase, retired>>
        /\ sub[o] = "closing" /\ sub' = [sub EXCEPT ![o] = "closed"]
    BY DEF SubscriptionCloses
  <1>3. TypeOK'
    <2>1. GatewayTyped'
      BY <1>1, <1>2, SameSets, TypeParts DEF GatewayTyped
    <2> QED
      BY <2>1, <1>1, <1>2, TypesKept, TypePartsNext DEF TypeOK
  <1>4. /\ \A p \in Calls : Kept(p) /\ p # o => sub'[p] = sub[p]
        /\ sub'[o] = "closed"
    BY <1>1, <1>2 DEF TypeOK
  <1>5. Quiet /\ ViewGrows
    BY <1>2 DEF Quiet, ViewGrows
  <1>6. \A p \in Calls : Kept(p)
    BY <1>2 DEF Kept
  <1>7. OthersKept(o) /\ NumbersKept(o)
    BY <1>2 DEF OthersKept, Kept, NumbersKept
  <1>8. Stacked'
    BY <1>1, <1>2, StackSame
  <1>9. CallHolds(o)' /\ CountersGrow
    BY <1>1, <1>2, <1>3, <1>5, <1>6, QuietGrows, CallKept DEF CallsHold, Settling
  <1>10. SubHolds(o)
    BY <1>1 DEF SubsHold
  <1>11. \A p \in Calls : SubStep(p)
    <2>1. pc[o] \notin {"subscribing", "loading"}
      BY <1>2, <1>10 DEF SubHolds
    <2> QED
      BY <2>1, <1>2, <1>4, <1>6 DEF SubStep
  <1>12. EventsGrow
    BY <1>1, <1>2, NumberTypes DEF EventsGrow
  <1>13. SubHolds(o)'
    BY <1>1, <1>2, <1>3, <1>6, <1>10, <1>11, <1>12, SubKept, QueueSame
  <1>14. NoSubscriptionLeak'
    BY <1>1, <1>2, <1>4, <1>6, <1>7, NoLeakKept DEF SubsHold
  <1>15. CurrentHolds(o)' /\ TicketHolds(o)'
    BY <1>1, <1>5, <1>6, <1>7, CurrentKept, TicketKept, SameTickets
  <1>16. ContentHolds(o)'
    BY <1>1, <1>3, <1>6, <1>12, ContentHoldsKept
  <1>17. o \in retired => Doomed(o)'
    BY <1>1, <1>3, <1>6, <1>9, DoomedKept DEF LoadsHold, CallsHold, Settling
  <1>18. gatewaySubscription # None => sub'[gatewaySubscription] = sub[gatewaySubscription]
    <2>1. gatewaySubscription # None => /\ gatewaySubscription \in Calls
                                        /\ sub[gatewaySubscription] = "open"
      BY <1>1, NumberTypes DEF SubsHold, OwnedMatchesView
    <2> QED
      BY <2>1, <1>2, <1>4, <1>6
  <1>19. pendingHandoff.call = o => pc'[o] \in Asking
    BY <1>1, <1>2, NoneIsNothing DEF LoadsHold, HandoffHolds
  <1>20. CallsHold /\ local'[o] = local[o] /\ pc'[o] = pc[o] /\ entry' = entry
    BY <1>1, <1>2
  <1>21. local[o].cursor = 0 => local'[o].requestId = local[o].requestId
    BY <1>20
  <1>22. UNCHANGED <<snapshot, pendingCommits, events, delivered, queue, phase, retired>>
    BY <1>2
  <1>23. \A p \in Calls : (p # o => phase'[p] = phase[p] /\ SubStep(p))
    BY <1>2, <1>11
  <1> QED
    BY <1>3, <1>5, <1>7, <1>8, <1>9, <1>13, <1>14, <1>15, <1>16, <1>17, <1>18, <1>19,
       <1>20, <1>21, <1>22, <1>23, CallStep

\* The disposal an abandoned load waits for is over.
LEMMA DiscardingReturnsStep ==
    ASSUME IInv, NEW o \in Calls, DiscardingReturns(o)
    PROVE  IInv' /\ NoRegress /\ KeepsEvents
  <1>1. /\ TypeOK /\ Stacked /\ CommitsWait /\ CallsHold /\ SubsHold /\ ViewsHold
        /\ LoadsHold /\ CallHolds(o) /\ SubHolds(o)
    BY DEF IInv, StackHolds, CallsHold, SubsHold, Settling
  <1> DEFINE at == IF CacheEnabled THEN "settling" ELSE "done"
             r == IF LoadSuperseded(o) THEN "rejected" ELSE result[o]
  <1>2. /\ pc[o] = "discarding" /\ sub[o] = "closed"
        /\ pc' = [pc EXCEPT ![o] = at] /\ result' = [result EXCEPT ![o] = r]
        /\ UNCHANGED <<setup, clientVars, cacheVars, storeVars, local, stack, gatewayVars, retired>>
    BY DEF DiscardingReturns, Return
  <1>3. /\ r \in {"rejected", "notFound"} /\ at \in {"settling", "done"}
        /\ at = "settling" => CacheEnabled
    BY <1>1, <1>2 DEF CallHolds, Settling
  <1> HIDE DEF at, r
  <1>4. /\ CallsTyped' /\ pc'[o] = at /\ result'[o] = r /\ local'[o] = local[o]
        /\ OthersKept(o)
    <2>1. at \in PCs /\ r \in {"none", "ok", "rejected", "notFound"}
      BY <1>3 DEF PCs
    <2>2. CallsTyped
      BY <1>1, TypeParts
    <2>3. /\ pc' \in [Calls -> PCs] /\ pc'[o] = at /\ \A p \in Calls : p # o => pc'[p] = pc[p]
          /\ result' \in [Calls -> {"none", "ok", "rejected", "notFound"}] /\ result'[o] = r
          /\ \A p \in Calls : p # o => result'[p] = result[p]
      BY <2>1, <2>2, <1>2 DEF CallsTyped
    <2>4. local' = local /\ stack' = stack /\ Locals' = Locals
      BY <1>2, SameSets
    <2> QED
      BY <2>2, <2>3, <2>4 DEF CallsTyped, OthersKept, Kept
  <1>5. TypeOK'
    BY <1>1, <1>2, <1>4, TypesKept, TypePartsNext DEF TypeOK
  <1>6. Quiet /\ UNCHANGED <<snapshot, pendingCommits, events, delivered, queue, phase, sub,
                             retired, entry>>
    BY <1>2 DEF Quiet, clientVars, cacheVars, storeVars, gatewayVars
  <1>7. NumbersKept(o)
    BY <1>4 DEF NumbersKept
  <1>8. Stacked'
    BY <1>1, <1>2, <1>3, <1>4, StackSame DEF OthersKept, Kept, Publishing, StorePublishing
  <1>9. CallHolds(o)'
    BY <1>1, <1>2, <1>3, <1>4, <1>6, SameSets DEF CallHolds, Quiet, Waiting, Asking, Ending,
                                                  Settling
  <1>10. SubHolds(o)'
    BY <1>1, <1>3, <1>4, <1>6, SubKeptPast DEF Waiting, Asking
  <1>11. NoSubscriptionLeak'
    BY <1>1, <1>2, <1>4, <1>6, NoLeakKept DEF SubsHold, Quiet, Holding
  <1>12. CurrentHolds(o)'
    BY <1>3, <1>4 DEF CurrentHolds, Current, Asking
  <1>13. TicketHolds(o)'
    <2>1. TicketSuperseded(o)' <=> TicketSuperseded(o)
      BY <1>4, <1>6 DEF TicketSuperseded, Quiet
    <2> QED
      BY <2>1, <1>1, <1>2, <1>3, <1>4, <1>6
         DEF LoadsHold, TicketHolds, Waiting, Ending, Quiet, Syncing
  <1>14. ContentHolds(o)'
    BY <1>3, <1>4 DEF ContentHolds
  <1>15. Doomed(o)'
    BY <1>3, <1>4 DEF Doomed, Settling
  <1>16. pendingHandoff.call # o
    BY <1>1, <1>2, NoneIsNothing DEF LoadsHold, HandoffHolds, Asking
  <1>17. \A p \in Calls : (p # o => phase'[p] = phase[p] /\ SubStep(p))
    BY <1>6 DEF SubStep
  <1>18. pc[o] \notin Showing /\ pc'[o] \notin Showing /\ pc[o] \notin PastCommit
    BY <1>2, <1>3, <1>4 DEF Showing, Publishing, PastCommit, Ending, StorePublishing, Settling
  <1> QED
    BY <1>4, <1>5, <1>6, <1>7, <1>8, <1>9, <1>10, <1>11, <1>12, <1>13, <1>14, <1>15, <1>16,
       <1>17, <1>18, CallStep

\* The publications of a load are over: the subscription it replaced is disposed.
LEMMA StartCleaningStep ==
    ASSUME IInv, NEW o \in Calls, StartCleaning(o),
           stack = <<o>>, pc[o] \in {"committed", "draining"}, pendingCommits = <<>>,
           UNCHANGED <<setup, clientVars, cacheVars, storeVars, local, result, events,
                       delivered, queue, retired>>,
           phase' = phase \/ (phase' = [phase EXCEPT ![o] = "active"] /\ queue[o] = <<>>)
    PROVE  IInv' /\ NoRegress /\ KeepsEvents
  <1>1. /\ TypeOK /\ Stacked /\ CommitsWait /\ CallsHold /\ SubsHold /\ ViewsHold
        /\ LoadsHold /\ CallHolds(o) /\ SubHolds(o) /\ CallsTyped /\ GatewayTyped
        /\ OwnedCommitted /\ NoSubscriptionLeak
    BY TypeParts DEF IInv, StackHolds, CallsHold, SubsHold, Settling
  <1> DEFINE q == local[o].previous
  <1>2. /\ sub' = Closing(sub, q) /\ pc' = [pc EXCEPT ![o] = "cleaning"] /\ stack' = <<>>
    BY DEF StartCleaning
  <1>3. setup' = setup /\ local' = local /\ result' = result
    OBVIOUS
  <1>4. /\ pc' \in [Calls -> PCs] /\ pc'[o] = "cleaning"
        /\ \A p \in Calls : p # o => pc'[p] = pc[p]
    BY <1>1, <1>2 DEF CallsTyped, PCs
  <1>5. OthersKept(o) /\ CallsTyped'
    BY <1>1, <1>2, <1>3, <1>4, SameSets DEF OthersKept, Kept, CallsTyped
  <1>6. q \in Calls \cup {None} /\ (q # None => pc[q] \in PastCommit /\ q # gatewaySubscription)
    BY <1>1, CallTypes DEF OwnedCommitted
  <1>7. /\ sub' \in [Calls -> {"none", "open", "closing", "closed"}]
        /\ \A p \in Calls :
              sub'[p] = sub[p] \/ (p = q /\ sub[p] = "open" /\ sub'[p] = "closing")
        /\ q # None => sub'[q] # "open"
    BY <1>1, <1>2, <1>6, ClosingFacts
  <1>8. \A p \in Calls : SubStep(p) /\ (sub'[p] = "open" => sub[p] = "open")
    <2>1. q # None => pc[q] \notin {"subscribing", "loading"}
      BY <1>6 DEF PastCommit, Ending, Settling
    <2> HIDE DEF q
    <2> QED
      BY <2>1, <1>1, <1>2, <1>6, ClosingSteps
  <1>9. /\ phase' \in [Calls -> {"buffering", "draining", "active"}]
        /\ \A p \in Calls : p # o => phase'[p] = phase[p]
        /\ phase'[o] = phase[o] \/ queue[o] = <<>>
    BY <1>1 DEF GatewayTyped
  <1>10. TypeOK'
    <2>1. GatewayTyped'
      BY <1>1, <1>3, <1>7, <1>9, SameSets DEF GatewayTyped
    <2>2. retired' \subseteq Calls
      BY <1>1 DEF TypeOK
    <2> QED
      BY <2>1, <2>2, <1>1, <1>3, <1>5, TypesKept, TypePartsNext
  <1>11. Quiet /\ UNCHANGED <<snapshot, pendingCommits, events, delivered, queue, retired, entry>>
    BY DEF Quiet, clientVars, cacheVars, storeVars
  <1>12. NumbersKept(o)
    BY <1>3 DEF NumbersKept
  <1>13. Stacked'
    BY <1>1, <1>2, <1>4, StackEmptied DEF Publishing, StorePublishing
  <1>14. CallHolds(o)'
    BY <1>1, <1>3, <1>4, <1>11, SameSets DEF CallHolds, Quiet, Waiting, Asking, Ending, Settling
  <1>15. SubHolds(o)'
    <2>1. sub'[o] # "none" => sub[o] # "none"
      BY <1>7
    <2> QED
      BY <2>1, <1>1, <1>3, <1>4, <1>11, SubKeptPast DEF Waiting, Asking
  <1>16. NoSubscriptionLeak'
    BY <1>1, <1>3, <1>4, <1>5, <1>7, <1>8, <1>11, NoLeakKept DEF Quiet
  <1>17. CurrentHolds(o)'
    BY <1>4 DEF CurrentHolds, Current, Asking
  <1>18. TicketHolds(o)'
    <2>1. TicketSuperseded(o)' <=> TicketSuperseded(o)
      BY <1>3, <1>11 DEF TicketSuperseded, Quiet
    <2>2. LatestState' = LatestState
      BY <1>11 DEF LatestState
    <2> QED
      BY <2>1, <2>2, <1>1, <1>3, <1>4, <1>11
         DEF LoadsHold, TicketHolds, Waiting, Ending, Quiet, Syncing, Shows
  <1>19. ContentHolds(o)'
    BY <1>4 DEF ContentHolds
  <1>20. o \notin retired
    BY <1>1 DEF LoadsHold, Doomed, Waiting, Asking, Settling
  <1>21. pendingHandoff.call # o
    BY <1>1, NoneIsNothing DEF LoadsHold, HandoffHolds, Asking
  <1>22. gatewaySubscription # None => sub'[gatewaySubscription] = sub[gatewaySubscription]
    <2>1. gatewaySubscription \in Calls \cup {None}
      BY <1>1, NumberTypes
    <2> QED
      BY <2>1, <1>6, <1>7
  <1>23. pc[o] \in Showing /\ pc'[o] \notin Showing /\ pc'[o] \in PastCommit
    BY <1>4 DEF Showing, Publishing, PastCommit, Ending, StorePublishing, Settling
  <1>24. /\ local'[o] = local[o]
         /\ \A p \in Calls : (p # o => phase'[p] = phase[p] /\ SubStep(p))
    BY <1>3, <1>8, <1>9
  <1>25. local[o].cursor = 0
    BY <1>1 DEF CallHolds, Ending, Settling
  <1> HIDE DEF q
  <1> QED
    BY <1>5, <1>9, <1>10, <1>11, <1>12, <1>13, <1>14, <1>15, <1>16, <1>17, <1>18, <1>19,
       <1>20, <1>21, <1>22, <1>23, <1>24, <1>25, CallStep

\* The buffer is empty.
LEMMA DrainingReturnsStep ==
    ASSUME IInv, NEW o \in Calls, DrainingReturns(o)
    PROVE  IInv' /\ NoRegress /\ KeepsEvents
  BY StartCleaningStep DEF DrainingReturns

\* The listeners of the committed snapshot have returned.
LEMMA CommittedReturnsStep ==
    ASSUME IInv, NEW o \in Calls, CommittedReturns(o)
    PROVE  IInv' /\ NoRegress /\ KeepsEvents
  <1>1. CASE disposed
    <2>1. /\ stack = <<o>> /\ pc[o] = "committed" /\ pendingCommits = <<>> /\ StartCleaning(o)
          /\ phase' = phase
          /\ UNCHANGED <<setup, clientVars, cacheVars, storeVars, local, result, events,
                         delivered, queue, retired>>
      BY <1>1 DEF CommittedReturns
    <2> QED
      BY <2>1, StartCleaningStep
  <1>2. CASE ~disposed
    <2>1. /\ TypeOK /\ Stacked /\ CommitsWait /\ CallsHold /\ SubsHold /\ ViewsHold
          /\ LoadsHold /\ CallHolds(o) /\ SubHolds(o) /\ CallsTyped /\ GatewayTyped
          /\ OwnedCommitted /\ NoSubscriptionLeak
      BY TypeParts DEF IInv, StackHolds, CallsHold, SubsHold, Settling
    <2>2. /\ pc[o] = "committed" /\ pendingCommits = <<>>
          /\ phase' = [phase EXCEPT ![o] = "draining"]
          /\ pc' = [pc EXCEPT ![o] = "draining"]
          /\ UNCHANGED <<setup, clientVars, cacheVars, storeVars, local, result, events,
                         delivered, queue, retired, stack, sub>>
      BY <1>2 DEF CommittedReturns
    <2>3. setup' = setup /\ local' = local /\ result' = result /\ stack' = stack /\ sub' = sub
      BY <2>2
    <2>4. /\ pc' \in [Calls -> PCs] /\ pc'[o] = "draining"
          /\ \A p \in Calls : p # o => pc'[p] = pc[p]
      BY <2>1, <2>2 DEF CallsTyped, PCs
    <2>5. OthersKept(o) /\ CallsTyped'
      BY <2>1, <2>3, <2>4, SameSets DEF OthersKept, Kept, CallsTyped
    <2>6. /\ phase' \in [Calls -> {"buffering", "draining", "active"}]
          /\ \A p \in Calls : p # o => phase'[p] = phase[p]
          /\ phase'[o] = "draining"
      BY <2>1, <2>2 DEF GatewayTyped
    <2>7. Quiet /\ UNCHANGED <<snapshot, pendingCommits, events, delivered, queue, retired, entry>>
      BY <2>2 DEF Quiet, clientVars, cacheVars, storeVars
    <2>8. TypeOK'
      <3>1. GatewayTyped'
        BY <2>1, <2>3, <2>6, <2>7, SameSets DEF GatewayTyped
      <3>2. retired' \subseteq Calls
        BY <2>1, <2>7 DEF TypeOK
      <3> QED
        BY <3>1, <3>2, <2>1, <2>2, <2>3, <2>5, TypesKept, TypePartsNext
    <2>9. NumbersKept(o)
      BY <2>3 DEF NumbersKept
    <2>10. Stacked'
      BY <2>1, <2>2, <2>3, <2>4, StackSame DEF Publishing, StorePublishing
    <2>11. CallHolds(o)'
      BY <2>1, <2>2, <2>3, <2>4, <2>7, SameSets
         DEF CallHolds, Quiet, Waiting, Asking, Ending, Settling
    <2>12. SubHolds(o)'
      BY <2>1, <2>3, <2>4, <2>7, SubKeptPast DEF Waiting, Asking
    <2>13. NoSubscriptionLeak'
      BY <2>1, <2>2, <2>3, <2>4, <2>5, <2>7, NoLeakKept DEF Quiet, Holding
    <2>14. CurrentHolds(o)'
      BY <2>4 DEF CurrentHolds, Current, Asking
    <2>15. TicketHolds(o)'
      <3>1. TicketSuperseded(o)' <=> TicketSuperseded(o)
        BY <2>3, <2>7 DEF TicketSuperseded, Quiet
      <3>2. LatestState' = LatestState
        BY <2>7 DEF LatestState
      <3> QED
        BY <3>1, <3>2, <2>1, <2>2, <2>3, <2>4, <2>7
           DEF LoadsHold, TicketHolds, Waiting, Ending, Quiet, Syncing, Shows
    <2>16. ContentHolds(o)'
      BY <2>4 DEF ContentHolds
    <2>17. o \notin retired
      BY <2>1, <2>2 DEF LoadsHold, Doomed, Waiting, Asking, Settling
    <2>18. pendingHandoff.call # o
      BY <2>1, <2>2, NoneIsNothing DEF LoadsHold, HandoffHolds, Asking
    <2>19. pc[o] \in Showing /\ pc'[o] \in Showing /\ pc'[o] \in PastCommit
      BY <2>2, <2>4 DEF Showing, Publishing, PastCommit, Ending, StorePublishing, Settling
    <2>20. /\ local'[o] = local[o]
           /\ \A p \in Calls : (p # o => phase'[p] = phase[p] /\ SubStep(p))
           /\ sub'[gatewaySubscription] = sub[gatewaySubscription]
      BY <2>3, <2>6 DEF SubStep
    <2>21. local[o].cursor = 0
      BY <2>1, <2>2 DEF CallHolds, Ending, Settling
    <2> QED
      BY <2>5, <2>6, <2>7, <2>8, <2>9, <2>10, <2>11, <2>12, <2>13, <2>14, <2>15, <2>16,
         <2>17, <2>18, <2>19, <2>20, <2>21, CallStep
  <1> QED
    BY <1>1, <1>2

\* The replaced subscription is closed.
LEMMA CleaningReturnsStep ==
    ASSUME IInv, NEW o \in Calls, CleaningReturns(o)
    PROVE  IInv' /\ NoRegress /\ KeepsEvents
  <1>1. /\ TypeOK /\ Stacked /\ CommitsWait /\ CallsHold /\ SubsHold /\ ViewsHold
        /\ LoadsHold /\ CallHolds(o) /\ SubHolds(o) /\ CallsTyped /\ NoSubscriptionLeak
    BY TypeParts DEF IInv, StackHolds, CallsHold, SubsHold, Settling
  <1> DEFINE at == IF CacheEnabled THEN "settling" ELSE "done"
             k == [local[o] EXCEPT !.previous = None]
  <1>2. /\ pc[o] = "cleaning"
        /\ pc' = [pc EXCEPT ![o] = at] /\ result' = [result EXCEPT ![o] = "ok"]
        /\ local' = [local EXCEPT ![o] = k]
        /\ UNCHANGED <<setup, clientVars, cacheVars, storeVars, stack, gatewayVars, retired>>
    BY DEF CleaningReturns, Return
  <1>3. /\ at \in {"settling", "done"} /\ at \in PCs
        /\ at = "settling" => CacheEnabled
    BY DEF PCs
  <1>4. /\ k \in Locals /\ k.previous = None
        /\ k.conversation = local[o].conversation /\ k.requestId = local[o].requestId
        /\ k.generation = local[o].generation /\ k.ticket = local[o].ticket
        /\ k.epoch = local[o].epoch /\ k.cursor = local[o].cursor
    BY <1>1, CallTypes DEF Locals
  <1> HIDE DEF at, k
  <1>5. /\ CallsTyped' /\ pc'[o] = at /\ result'[o] = "ok" /\ local'[o] = k /\ OthersKept(o)
    <2>1. /\ pc' \in [Calls -> PCs] /\ pc'[o] = at /\ \A p \in Calls : p # o => pc'[p] = pc[p]
          /\ result' \in [Calls -> {"none", "ok", "rejected", "notFound"}] /\ result'[o] = "ok"
          /\ \A p \in Calls : p # o => result'[p] = result[p]
      BY <1>1, <1>2, <1>3 DEF CallsTyped
    <2>2. /\ local' \in [Calls -> Locals] /\ local'[o] = k
          /\ \A p \in Calls : p # o => local'[p] = local[p]
      BY <1>1, <1>2, <1>4 DEF CallsTyped
    <2>3. stack' = stack /\ Locals' = Locals
      BY <1>2, SameSets
    <2> QED
      BY <2>1, <2>2, <2>3, <1>1 DEF CallsTyped, OthersKept, Kept
  <1>6. TypeOK'
    BY <1>1, <1>2, <1>5, TypesKept, TypePartsNext DEF TypeOK
  <1>7. Quiet /\ UNCHANGED <<snapshot, pendingCommits, events, delivered, queue, phase, sub,
                             retired, entry, stack>>
    BY <1>2 DEF Quiet, clientVars, cacheVars, storeVars, gatewayVars
  <1>8. NumbersKept(o)
    BY <1>4, <1>5 DEF NumbersKept
  <1>9. Stacked'
    BY <1>1, <1>2, <1>3, <1>5, <1>7, StackSame DEF OthersKept, Kept, Publishing, StorePublishing
  <1>10. CallHolds(o)'
    BY <1>1, <1>2, <1>3, <1>4, <1>5, <1>7, SameSets
       DEF CallHolds, Quiet, Waiting, Asking, Ending, Settling
  <1>11. SubHolds(o)'
    BY <1>1, <1>3, <1>4, <1>5, <1>7, SubKeptPast DEF Waiting, Asking
  <1>12. NoSubscriptionLeak'
    BY <1>1, <1>2, <1>5, <1>7, NoLeakKept DEF Quiet, Holding
  <1>13. CurrentHolds(o)'
    BY <1>3, <1>5 DEF CurrentHolds, Current, Asking
  <1>14. TicketHolds(o)'
    <2>1. TicketSuperseded(o)' <=> TicketSuperseded(o)
      BY <1>4, <1>5, <1>7 DEF TicketSuperseded, Quiet
    <2>2. LatestState' = LatestState
      BY <1>7 DEF LatestState
    <2> QED
      BY <2>1, <2>2, <1>1, <1>2, <1>3, <1>4, <1>5, <1>7
         DEF LoadsHold, TicketHolds, Waiting, Ending, Quiet, Syncing, Shows
  <1>15. ContentHolds(o)'
    BY <1>3, <1>5 DEF ContentHolds
  <1>16. o \notin retired
    BY <1>1, <1>2 DEF LoadsHold, Doomed, Waiting, Asking, Settling
  <1>17. pendingHandoff.call # o
    BY <1>1, <1>2, NoneIsNothing DEF LoadsHold, HandoffHolds, Asking
  <1>18. \A p \in Calls : (p # o => phase'[p] = phase[p] /\ SubStep(p))
    BY <1>7 DEF SubStep
  <1>19. pc[o] \notin Showing /\ pc'[o] \notin Showing /\ pc'[o] \in PastCommit
    BY <1>2, <1>3, <1>5 DEF Showing, Publishing, PastCommit, Ending, StorePublishing, Settling
  <1>20. local[o].cursor = 0
    BY <1>1, <1>2 DEF CallHolds, Ending, Settling
  <1> QED
    BY <1>4, <1>5, <1>6, <1>7, <1>8, <1>9, <1>10, <1>11, <1>12, <1>13, <1>14, <1>15, <1>16,
       <1>17, <1>18, <1>19, <1>20, CallStep

\* A call that is no load starts.
LEMMA StartStep ==
    ASSUME IInv, TypeOK', Quiet, NEW o \in Calls, OthersKept(o),
           UNCHANGED <<snapshot, pendingCommits, events, delivered, queue, phase, sub,
                       retired, entry, stack>>,
           pc[o] = "idle", pc'[o] \in {"deleting", "paging"}, result' = result,
           local'[o].conversation \in Conversations, local'[o].ticket = 0,
           local'[o].previous = None, local'[o].generation <= generation,
           pc'[o] = "deleting" => local'[o].requestId = 0 /\ local'[o].cursor = 0,
           pc'[o] = "paging" => local'[o].cursor # 0 /\ local'[o].cursor < MaxPages
    PROVE  IInv' /\ NoRegress /\ KeepsEvents
  <1>1. /\ TypeOK /\ Stacked /\ CommitsWait /\ CallsHold /\ SubsHold /\ ViewsHold
        /\ LoadsHold /\ CallHolds(o) /\ SubHolds(o) /\ NoSubscriptionLeak /\ OwnedCommitted
    BY DEF IInv, StackHolds, CallsHold, SubsHold, Settling
  <1>2. local[o] = NoLocals /\ result[o] = "none" /\ sub[o] = "none" /\ phase[o] = "buffering"
    BY <1>1 DEF CallHolds, SubHolds, Settling
  <1>3. local[o].conversation = None /\ local[o].previous = None /\ local[o].ticket = 0
    BY <1>2 DEF NoLocals
  <1>4. Elements(queue[o]) = {}
    BY <1>1, <1>3, NoneIsNothing DEF SubHolds
  <1>5. NumbersKept(o)
    BY DEF NumbersKept
  <1>6. Stacked'
    BY <1>1, StackSame DEF OthersKept, Kept, Publishing, StorePublishing
  <1>7. CallHolds(o)'
    <2>1. generation \in Nat /\ loadRequestId \in Nat /\ cacheRequestId \in Nat
      BY <1>1, NumberTypes
    <2> QED
      BY <2>1, <1>2, SameSets DEF CallHolds, Quiet, Waiting, Asking, Ending, Settling
  <1>8. SubHolds(o)'
    BY <1>2, <1>4 DEF SubHolds, Waiting, Asking, Elements
  <1>9. NoSubscriptionLeak'
    BY <1>1, <1>2, NoLeakKept DEF Quiet, Holding
  <1>10. CurrentHolds(o)' /\ TicketHolds(o)' /\ ContentHolds(o)'
    BY DEF CurrentHolds, Current, Asking, TicketHolds, ContentHolds
  <1>11. o \notin retired
    BY <1>1 DEF LoadsHold, Doomed, Waiting, Asking, Settling
  <1>12. pendingHandoff.call # o
    BY <1>1, NoneIsNothing DEF LoadsHold, HandoffHolds, Asking
  <1>13. gatewaySubscription # o
    BY <1>1, NoneIsNothing DEF OwnedCommitted, PastCommit, Ending, Settling
  <1>14. \A p \in Calls : (p # o => phase'[p] = phase[p] /\ SubStep(p))
    BY DEF SubStep
  <1>15. pc[o] \notin Showing /\ pc'[o] \notin Showing /\ pc[o] \notin PastCommit
    BY DEF Showing, Publishing, PastCommit, Ending, StorePublishing, Settling
  <1>16. local'[o].cursor # 0 \/ local'[o].requestId = 0
    OBVIOUS
  <1> QED
    BY <1>5, <1>6, <1>7, <1>8, <1>9, <1>10, <1>11, <1>12, <1>13, <1>14, <1>15, <1>16, CallStep

\* deleteConversation starts.
LEMMA StartDeleteStep ==
    ASSUME IInv, NEW o \in Calls, NEW c \in Known, StartDelete(o, c)
    PROVE  IInv' /\ NoRegress /\ KeepsEvents
  <1>1. TypeOK /\ CallsTyped
    BY TypeParts DEF IInv
  <1> DEFINE k == [NoLocals EXCEPT !.conversation = c]
  <1>2. /\ pc[o] = "idle" /\ pc' = [pc EXCEPT ![o] = "deleting"]
        /\ local' = [local EXCEPT ![o] = k]
        /\ UNCHANGED <<setup, clientVars, cacheVars, storeVars, stack, result, gatewayVars, retired>>
    BY DEF StartDelete
  <1>3. c \in Conversations
    BY <1>1, SetupFacts
  <1>4. /\ k \in Locals /\ k.conversation = c /\ k.ticket = 0 /\ k.previous = None
        /\ k.generation = 0 /\ k.requestId = 0 /\ k.cursor = 0
    BY <1>1, <1>3, SetupFacts DEF Locals, NoLocals
  <1> HIDE DEF k
  <1>5. /\ pc' \in [Calls -> PCs] /\ pc'[o] = "deleting"
        /\ \A p \in Calls : p # o => pc'[p] = pc[p]
        /\ local' \in [Calls -> Locals] /\ local'[o] = k
        /\ \A p \in Calls : p # o => local'[p] = local[p]
    BY <1>1, <1>2, <1>4 DEF CallsTyped, PCs
  <1>6. stack' = stack /\ result' = result /\ Locals' = Locals
    BY <1>2, SameSets
  <1>7. CallsTyped' /\ OthersKept(o)
    BY <1>1, <1>5, <1>6 DEF CallsTyped, OthersKept, Kept
  <1>8. TypeOK'
    BY <1>1, <1>2, <1>7, TypesKept, TypePartsNext DEF TypeOK
  <1>9. Quiet /\ UNCHANGED <<snapshot, pendingCommits, events, delivered, queue, phase, sub,
                             retired, entry, stack>>
    BY <1>2 DEF Quiet, clientVars, cacheVars, storeVars, gatewayVars
  <1>10. 0 <= generation
    BY <1>1, NumberTypes
  <1> QED
    BY <1>2, <1>3, <1>4, <1>5, <1>6, <1>7, <1>8, <1>9, <1>10, StartStep

\* A page of history is asked for.
LEMMA StartHistoryStep ==
    ASSUME IInv, NEW o \in Calls, StartHistory(o)
    PROVE  IInv' /\ NoRegress /\ KeepsEvents
  <1>1. TypeOK /\ CallsTyped /\ ClientTyped
    BY TypeParts DEF IInv
  <1> DEFINE k == [NoLocals EXCEPT !.conversation = snapshot.conversation,
                                   !.requestId = historyRequestId + 1,
                                   !.generation = generation,
                                   !.cursor = snapshot.cursor]
  <1>2. /\ pc[o] = "idle" /\ pc' = [pc EXCEPT ![o] = "paging"]
        /\ local' = [local EXCEPT ![o] = k] /\ historyRequestId' = historyRequestId + 1
        /\ snapshot # None /\ snapshot.cursor < MaxPages
        /\ UNCHANGED <<setup, disposed, generation, conversationEpoch, loadRequestId, pendingLoad,
                   pendingHandoff, gatewaySubscription, cacheVars, storeVars, stack,
                   result, gatewayVars, retired>>
    BY DEF StartHistory
  <1>3. /\ snapshot.conversation \in Conversations /\ snapshot.cursor \in 1..MaxPages
        /\ MaxPages \in Nat /\ generation \in Nat /\ historyRequestId + 1 \in Nat
    BY <1>1, <1>2, NumberTypes, ViewFields, SetupFacts
  <1>4. /\ k \in Locals /\ k.conversation = snapshot.conversation /\ k.ticket = 0
        /\ k.previous = None /\ k.generation = generation /\ k.cursor = snapshot.cursor
    <2>1. PICK b \in Locals : b = NoLocals /\ b.ticket = 0 /\ b.previous = None
      BY <1>1, NoLocalsTyped DEF NoLocals
    <2>2. k = [b EXCEPT !.conversation = snapshot.conversation,
                        !.requestId = historyRequestId + 1, !.generation = generation,
                        !.cursor = snapshot.cursor]
      BY <2>1
    <2>3. snapshot.cursor \in 0..MaxPages
      BY <1>3
    <2> HIDE DEF k
    <2> QED
      BY <2>1, <2>2, <2>3, <1>3 DEF Locals
  <1> HIDE DEF k
  <1>5. /\ pc' \in [Calls -> PCs] /\ pc'[o] = "paging"
        /\ \A p \in Calls : p # o => pc'[p] = pc[p]
        /\ local' \in [Calls -> Locals] /\ local'[o] = k
        /\ \A p \in Calls : p # o => local'[p] = local[p]
    BY <1>1, <1>2, <1>4 DEF CallsTyped, PCs
  <1>6. stack' = stack /\ result' = result /\ Locals' = Locals /\ View' = View
    BY <1>2, SameSets
  <1>7. CallsTyped' /\ OthersKept(o)
    BY <1>1, <1>5, <1>6 DEF CallsTyped, OthersKept, Kept
  <1>8. TypeOK'
    <2>1. ClientTyped'
      BY <1>1, <1>2, <1>3, <1>6 DEF ClientTyped
    <2> QED
      BY <2>1, <1>1, <1>2, <1>7, TypesKept, TypePartsNext DEF TypeOK
  <1>9. Quiet /\ UNCHANGED <<snapshot, pendingCommits, events, delivered, queue, phase, sub,
                             retired, entry, stack>>
    BY <1>2 DEF Quiet, cacheVars, storeVars, gatewayVars
  <1>10. generation <= generation /\ snapshot.cursor # 0
    BY <1>3
  <1> QED
    BY <1>2, <1>3, <1>4, <1>5, <1>6, <1>7, <1>8, <1>9, <1>10, StartStep

\* A step of no call that leaves the view and the calls alone.
LEMMA StillStep ==
    ASSUME IInv, TypeOK', Quiet, EventsGrow,
           UNCHANGED <<snapshot, pendingCommits, pc, local, stack, result, sub, delivered, queue,
                       phase, retired>>,
           \A c \in Conversations :
              \/ entry'[c] \in {entry[c], None}
              \/ /\ entry'[c].conversation = c
                 /\ entry'[c].events = {} \/ (entry'[c] = snapshot /\ snapshot # None)
    PROVE  IInv' /\ NoRegress /\ KeepsEvents
  <1>1. /\ TypeOK /\ Stacked /\ CommitsWait /\ CallsHold /\ SubsHold /\ ViewsHold
        /\ LoadsHold /\ NothingLeft /\ NoCache
    BY DEF IInv, StackHolds
  <1>2. ViewGrows /\ \A p \in Calls : Kept(p) /\ SubStep(p)
    BY DEF ViewGrows, Kept, SubStep
  <1>3. \A p \in Calls : QueueStep(p)
    BY <1>1, QueueSame DEF SubsHold
  <1>4. CountersGrow /\ setup' = setup
    BY <1>1, QuietGrows DEF Quiet
  <1>5. Stacked'
    BY <1>1, StackSame
  <1>6. \A p \in Calls : SubHolds(p)'
    BY <1>1, <1>2, <1>3, SubKept DEF SubsHold
  <1>7. OwnedMatchesView' /\ OwnedDelivers'
    BY <1>1, <1>2, QuietOwned, QuietDelivers
  <1>8. NoSubscriptionLeak' /\ OwnedCommitted'
    BY <1>1 DEF SubsHold, NoSubscriptionLeak, OwnedCommitted, PastCommit, Ending, Quiet, Settling
  <1>9. \A p \in Calls : ContentHolds(p)' /\ CurrentHolds(p)' /\ TicketHolds(p)'
    <2>1. TicketsKept
      BY DEF TicketsKept
    <2> QED
      BY <2>1, <1>1, <1>2, ContentHoldsKept, CurrentKept, TicketKept
  <1>10. CallsHold'
    BY <1>1, <1>4, CallsSame
  <1>11. CommitsWait'
    BY <1>1 DEF CommitsWait, Quiet, Showing, Publishing, StorePublishing
  <1>12. EntriesHold'
    BY <1>1, EntriesKept
  <1>13. ShownHolds' /\ WaitingHold'
    <2>1. CASE Calls = {}
      <3>1. snapshot = None
        BY <2>1, <1>1 DEF ViewsHold, ShownHolds, FromLoad
      <3>2. DOMAIN pendingCommits = {}
        BY <3>1, <1>1 DEF ViewsHold, WaitingHold
      <3> QED
        BY <3>1, <3>2 DEF ShownHolds, WaitingHold
    <2>2. CASE Calls # {}
      <3>1. PICK o \in Calls : TRUE
        BY <2>2
      <3>2. OthersKept(o) /\ NumbersKept(o)
        BY <1>2 DEF OthersKept, NumbersKept, Kept
      <3> QED
        BY <3>1, <3>2, <1>1, <1>2, <1>4, ShownKept, WaitingKept
    <2> QED
      BY <2>1, <2>2
  <1>14. HandoffHolds'
    <2>1. pendingHandoff' = pendingHandoff
      BY DEF Quiet
    <2>2. pendingHandoff.call # None =>
              /\ pc'[pendingHandoff.call] \in Asking
              /\ local'[pendingHandoff.call].conversation
                    = local[pendingHandoff.call].conversation
      BY <1>1 DEF LoadsHold, HandoffHolds
    <2> QED
      BY <1>1, <1>4, <2>1, <2>2, HandoffKept
  <1>15. \A p \in retired' : Doomed(p)'
    <2>1. \A p \in retired : p \in Calls
      BY <1>1 DEF TypeOK
    <2> QED
      BY <2>1, <1>1, <1>2, <1>4, DoomedKept DEF LoadsHold, CallsHold, Settling
  <1>16. ReadyShowsLive'
    BY <1>1, <1>2, ReadyKept
  <1>17. NothingLeft'
    BY <1>1 DEF NothingLeft, Quiet
  <1>18. NoCache'
    BY <1>1, <1>4, SameSets DEF NoCache, Quiet
  <1>19. SubsHold'
    BY <1>6, <1>7, <1>8 DEF SubsHold
  <1>20. ViewsHold' /\ LoadsHold' /\ StackHolds'
    BY <1>5, <1>9, <1>11, <1>12, <1>13, <1>14, <1>15, <1>16
       DEF ViewsHold, LoadsHold, StackHolds
  <1> QED
    BY <1>1, <1>2, <1>10, <1>17, <1>18, <1>19, <1>20, GrowsForward DEF IInv

\* The current view is written to the cache.
LEMMA CacheWriteStep ==
    ASSUME IInv, CacheWrite
    PROVE  IInv' /\ NoRegress /\ KeepsEvents
  <1>1. TypeOK /\ CacheTyped
    BY TypeParts DEF IInv
  <1>2. /\ entry' = CapturedEntries
        /\ UNCHANGED <<setup, clientVars, cacheRequestId, cacheReadOnly, cacheState, cleared,
                   cacheEpoch, stored, storeVars, callVars, gatewayVars, retired>>
    BY DEF CacheWrite
  <1>3. View' = View /\ setup' = setup
    BY <1>2, SameSets
  <1>4. TypeOK'
    <2>1. CacheTyped'
      BY <1>1, <1>2, <1>3, CapturedFacts DEF CacheTyped
    <2> QED
      BY <2>1, <1>1, <1>2, TypesKept, TypePartsNext DEF TypeOK
  <1>5. /\ Quiet
        /\ UNCHANGED <<snapshot, pendingCommits, pc, local, stack, result, sub, delivered, queue,
                       phase, retired>>
        /\ events' = events
    BY <1>2 DEF Quiet, clientVars, storeVars, callVars, gatewayVars
  <1>6. EventsGrow
    BY <1>1, <1>5, NumberTypes DEF EventsGrow
  <1>7. \A c \in Conversations :
              \/ entry'[c] \in {entry[c], None}
              \/ /\ entry'[c].conversation = c
                 /\ entry'[c].events = {} \/ (entry'[c] = snapshot /\ snapshot # None)
    BY <1>1, <1>2, CapturedFacts
  <1> QED
    BY <1>4, <1>5, <1>6, <1>7, StillStep

\* The server emits an event.
LEMMA EventHappensStep ==
    ASSUME IInv, NEW c \in Known, EventHappens(c)
    PROVE  IInv' /\ NoRegress /\ KeepsEvents
  <1>1. TypeOK /\ GatewayTyped
    BY TypeParts DEF IInv
  <1>2. /\ events[c] < MaxEvents /\ events' = [events EXCEPT ![c] = @ + 1]
        /\ UNCHANGED <<setup, clientVars, cacheVars, storeVars, callVars, sub, delivered, queue,
                       phase, retired>>
    BY DEF EventHappens
  <1>3. MaxEvents' = MaxEvents /\ setup' = setup /\ MaxEvents \in Nat /\ c \in Conversations
    BY <1>1, <1>2, SameSets, SetupFacts
  <1>4. /\ events' \in [Conversations -> 0..MaxEvents]
        /\ \A d \in Conversations : events[d] <= events'[d]
    <2>1. events \in [Conversations -> 0..MaxEvents] /\ events[c] \in Int
      BY <1>1, <1>3 DEF GatewayTyped
    <2>2. events[c] + 1 \in 0..MaxEvents
      BY <2>1, <1>1, <1>2, <1>3 DEF GatewayTyped
    <2> QED
      BY <2>1, <2>2, <1>2, <1>3
  <1>5. TypeOK'
    <2>1. GatewayTyped'
      BY <1>1, <1>2, <1>3, <1>4 DEF GatewayTyped
    <2> QED
      BY <2>1, <1>1, <1>2, TypesKept, TypePartsNext DEF TypeOK
  <1>6. /\ Quiet
        /\ UNCHANGED <<snapshot, pendingCommits, pc, local, stack, result, sub, delivered, queue,
                       phase, retired>>
        /\ entry' = entry
    BY <1>2 DEF Quiet, clientVars, cacheVars, storeVars, callVars
  <1> QED
    BY <1>4, <1>5, <1>6, StillStep DEF EventsGrow

\* A step of call o that only its subscription, the queues and the view take part in.
LEMMA NotifyStep ==
    ASSUME IInv, TypeOK', Quiet, ViewGrows, NEW o \in Calls,
           UNCHANGED <<pc, local, stack, result, events, phase, retired, entry>>,
           snapshot' = snapshot \/ Content(snapshot)',
           SubHolds(o)', OwnedDelivers', OwnedMatchesView', NoSubscriptionLeak',
           \A p \in Calls : p # o => /\ delivered'[p] = delivered[p] /\ sub'[p] = sub[p]
                                     /\ QueueStep(p)
    PROVE  IInv' /\ NoRegress /\ KeepsEvents
  <1>1. /\ TypeOK /\ Stacked /\ CommitsWait /\ CallsHold /\ SubsHold /\ ViewsHold
        /\ LoadsHold /\ CallHolds(o)
    BY DEF IInv, StackHolds, CallsHold, Settling
  <1>2. OthersKept(o) /\ Kept(o) /\ NumbersKept(o)
    BY DEF OthersKept, Kept, NumbersKept
  <1>3. EventsGrow
    BY <1>1, NumberTypes DEF EventsGrow
  <1>4. CountersGrow /\ setup' = setup
    BY <1>1, QuietGrows DEF Quiet
  <1>5. Stacked'
    BY <1>1, StackSame
  <1>6. CallHolds(o)'
    BY <1>1, <1>2, <1>4, CallKept
  <1>7. ContentHolds(o)' /\ CurrentHolds(o)' /\ TicketHolds(o)'
    BY <1>1, <1>2, <1>3, ContentHoldsKept, CurrentKept, TicketKept, SameTickets
  <1>8. o \in retired => Doomed(o)'
    BY <1>1, <1>2, <1>4, DoomedKept DEF LoadsHold
  <1>9. pendingHandoff.call = o => pc'[o] \in Asking
    BY <1>1, NoneIsNothing DEF LoadsHold, HandoffHolds
  <1>10. \A p \in Calls : p # o => /\ phase'[p] = phase[p] /\ delivered'[p] = delivered[p]
                                    /\ SubStep(p) /\ QueueStep(p)
    BY DEF SubStep
  <1>11. local'[o] = local[o] /\ pc'[o] = pc[o]
    OBVIOUS
  <1>12. local'[o].cursor # 0 \/ local'[o].requestId = 0
         \/ (local[o].cursor = 0 /\ local'[o].requestId = local[o].requestId)
    BY <1>11
  <1> QED
    BY <1>2, <1>3, <1>5, <1>6, <1>7, <1>8, <1>9, <1>10, <1>11, <1>12, QuietStep

\* The gateway registers the observer of a load.
LEMMA SubscriptionOpensStep ==
    ASSUME IInv, NEW o \in Calls, SubscriptionOpens(o)
    PROVE  IInv' /\ NoRegress /\ KeepsEvents
  <1>1. /\ TypeOK /\ CallHolds(o) /\ SubHolds(o) /\ SubsHold /\ GatewayTyped
    BY TypeParts DEF IInv, CallsHold, SubsHold, Settling
  <1> DEFINE c == local[o].conversation
  <1>2. /\ pc[o] = "subscribing" /\ sub[o] = "none"
        /\ sub' = [sub EXCEPT ![o] = "open"]
        /\ delivered' = [delivered EXCEPT ![o] = events[c]]
        /\ UNCHANGED <<setup, clientVars, cacheVars, storeVars, callVars, events, queue, phase,
                       retired>>
    BY DEF SubscriptionOpens
  <1>3. c \in Conversations
    BY <1>1, <1>2 DEF CallHolds, Settling
  <1>4. events[c] \in 0..MaxEvents
    BY <1>1, <1>3, NumberTypes
  <1>5. /\ sub' \in [Calls -> {"none", "open", "closing", "closed"}] /\ sub'[o] = "open"
        /\ delivered' \in [Calls -> 0..MaxEvents] /\ delivered'[o] = events[c]
        /\ \A p \in Calls : p # o => sub'[p] = sub[p] /\ delivered'[p] = delivered[p]
    BY <1>1, <1>2, <1>4 DEF GatewayTyped
  <1>6. setup' = setup /\ MaxEvents' = MaxEvents
    BY <1>2, SameSets
  <1>7. TypeOK'
    <2>1. GatewayTyped'
      BY <1>1, <1>2, <1>5, <1>6 DEF GatewayTyped
    <2> QED
      BY <2>1, <1>1, <1>2, TypesKept, TypePartsNext DEF TypeOK
  <1>8. /\ Quiet /\ ViewGrows
        /\ UNCHANGED <<pc, local, stack, result, events, queue, phase, retired, entry, snapshot>>
    BY <1>2 DEF Quiet, clientVars, cacheVars, storeVars, callVars, ViewGrows
  <1>9. gatewaySubscription \in Calls \cup {None} /\ gatewaySubscription # o
    BY <1>1, <1>2, NumberTypes, NoneIsNothing DEF SubsHold, OwnedCommitted, PastCommit, Ending,
                                                  Settling
  <1>10. OwnedMatchesView' /\ OwnedDelivers'
    BY <1>1, <1>5, <1>8, <1>9, QuietOwned, QuietDelivers
  <1>11. NoSubscriptionLeak'
    <2>1. \A p \in Calls : p # o => (sub'[p] = "open" => sub[p] = "open")
      BY <1>5
    <2> QED
      BY <2>1, <1>1, <1>2, <1>8, <1>9 DEF SubsHold, NoSubscriptionLeak, Quiet
  <1>12. EventsGrow
    BY <1>1, <1>8, NumberTypes DEF EventsGrow
  <1>13. \A p \in Calls : QueueStep(p)
    BY <1>1, <1>7, <1>8, <1>12, QueueSame DEF SubsHold
  <1>14. SubHolds(o)'
    <2>1. events[c] <= events[c]
      BY <1>4
    <2> QED
      BY <2>1, <1>1, <1>2, <1>3, <1>5, <1>8 DEF SubHolds, Waiting, Asking
  <1> QED
    BY <1>5, <1>7, <1>8, <1>10, <1>11, <1>13, <1>14, NotifyStep

\* #applyGatewayUpdate: the view shows event n, when it is the view of c and the
\* generation of the subscription is the present one.
LEMMA ApplyFacts ==
    ASSUME TypeOK, setup' = setup, pendingCommits = <<>>, ShownHolds,
           NEW c \in Conversations, NEW n \in 1..MaxEvents, NEW g, n <= events[c],
           events' = events, ApplyUpdate(c, n, g)
    PROVE  /\ ViewGrows /\ StoreTyped' /\ cleared' \in BOOLEAN
           /\ snapshot' = snapshot \/ Content(snapshot)'
           /\ ~disposed /\ g = generation /\ Shows(snapshot, c) => n \in snapshot'.events
  <1>1. /\ View' = View /\ snapshot \in View \cup {None} /\ cleared \in BOOLEAN
        /\ LatestState = snapshot /\ pendingCommits \in Seq(View)
    BY SameSets, NumberTypes DEF LatestState
  <1> DEFINE w == [snapshot EXCEPT !.events = @ \cup {n}]
  <1>2. CASE ~(~disposed /\ g = generation /\ snapshot # None /\ Shows(LatestState, c))
    <2>1. snapshot' = snapshot /\ pendingCommits' = pendingCommits /\ cleared' = cleared
      BY <1>2 DEF ApplyUpdate, storeVars
    <2> QED
      BY <2>1, <1>1, <1>2 DEF ViewGrows, StoreTyped, Shows
  <1>3. CASE ~disposed /\ g = generation /\ snapshot # None /\ Shows(LatestState, c)
    <2>1. Commit(w, FALSE)
      BY <1>1, <1>3 DEF ApplyUpdate
    <2>2. snapshot \in View /\ snapshot.conversation = c
      BY <1>1, <1>3 DEF Shows
    <2>3. /\ w \in View /\ w.conversation = c /\ w.load = snapshot.load
          /\ w.events = snapshot.events \cup {n} /\ w.pages = snapshot.pages
          /\ w.cursor = snapshot.cursor
      BY <2>2 DEF View, ViewsOf, MaxEvents
    <2> HIDE DEF w
    <2>4. snapshot' = w /\ pendingCommits' = pendingCommits
      BY <2>1, <1>1, <1>3 DEF Commit, storeVars
    <2>5. cleared' \in BOOLEAN
      <3>1. CASE w = snapshot
        <4>1. cleared' = cleared
          BY <3>1, <2>1, <1>1, <1>3 DEF Commit, storeVars
        <4> QED
          BY <4>1, <1>1
      <3>2. CASE w # snapshot
        <4>1. cleared' = FALSE
          BY <3>2, <2>1, <1>1, <1>3 DEF Commit, storeVars
        <4> QED
          BY <4>1
      <3> QED
        BY <3>1, <3>2
    <2>6. w # None
      BY <2>3, NoneIsNothing
    <2>7. ViewGrows
      BY <2>2, <2>3, <2>4, <2>6, <1>3 DEF ViewGrows
    <2>8. StoreTyped'
      BY <2>3, <2>4, <1>1 DEF StoreTyped
    <2>9. Content(snapshot)'
      <3>1. snapshot.events \subseteq 1..events[c]
        BY <2>2, <1>3 DEF ShownHolds, Content
      <3>2. n \in 1..events[c]
        <4>1. events[c] \in Int
          BY NumberTypes
        <4> QED
          BY <4>1
      <3> QED
        BY <3>1, <3>2, <2>3, <2>4 DEF Content
    <2> QED
      BY <2>3, <2>4, <2>5, <2>7, <2>8, <2>9
  <1> QED
    BY <1>2, <1>3

\* #captureHandoff: only the queue of the load that has the handoff gets event n,
\* an event of its conversation.
LEMMA CaptureFacts ==
    ASSUME TypeOK, HandoffHolds, NEW queues \in [Calls -> Seq(1..MaxEvents)],
           NEW c, NEW n \in 1..MaxEvents, NEW g, queue' = CaptureHandoff(queues, c, n, g)
    PROVE  /\ queue' \in [Calls -> Seq(1..MaxEvents)]
           /\ \A p \in Calls : \/ queue'[p] = queues[p]
                              \/ /\ queue'[p] = Append(queues[p], n) /\ p = pendingHandoff.call
                                 /\ local[p].conversation = c
  <1>1. CASE queue' = queues
    BY <1>1
  <1>2. CASE queue' # queues
    <2> DEFINE h == pendingHandoff.call
    <2>1. /\ h # None /\ pendingHandoff.conversation = c
          /\ queue' = [queues EXCEPT ![h] = Append(@, n)]
      BY <1>2 DEF CaptureHandoff
    <2>2. h \in Calls
      BY <2>1 DEF TypeOK
    <2>3. local[h].conversation = c
      BY <2>1 DEF HandoffHolds
    <2> HIDE DEF h
    <2>4. Append(queues[h], n) \in Seq(1..MaxEvents)
      BY <2>2
    <2>5. /\ queue' \in [Calls -> Seq(1..MaxEvents)]
          /\ \A p \in Calls : p # h => queue'[p] = queues[p]
          /\ queue'[h] = Append(queues[h], n)
      BY <2>1, <2>2, <2>4
    <2> QED
      BY <2>3, <2>5 DEF h
  <1> QED
    BY <1>1, <1>2

\* What of a dispatched notification reaches a call that is not the one it is for:
\* at most another notification in its queue.
LEMMA OthersQueues ==
    ASSUME TypeOK, HandoffHolds, NEW c \in Conversations, NEW n \in 1..MaxEvents,
           NEW queues \in [Calls -> Seq(1..MaxEvents)], NEW g, TypeOK',
           events' = events, n <= events[c], \A p \in Calls : SubHolds(p),
           queue' = CaptureHandoff(queues, c, n, g)
    PROVE  \A p \in Calls : queues[p] = queue[p] =>
              QueueStep(p) /\ \A m \in Elements(queue'[p]) : m \in Elements(queue[p]) \/ m = n
  <1> SUFFICES ASSUME NEW p \in Calls, queues[p] = queue[p]
               PROVE  /\ QueueStep(p)
                      /\ \A m \in Elements(queue'[p]) : m \in Elements(queue[p]) \/ m = n
    OBVIOUS
  <1>1. CASE queue'[p] = queue[p]
    <2>1. EventsGrow
      BY NumberTypes DEF EventsGrow
    <2> QED
      BY <1>1, <2>1, QueueSame
  <1>2. CASE queue'[p] = Append(queue[p], n) /\ local[p].conversation = c
    BY <1>2, QueueAppended
  <1>3. \/ queue'[p] = queues[p]
        \/ queue'[p] = Append(queues[p], n) /\ local[p].conversation = c
    <2>1. \A q \in Calls : \/ queue'[q] = queues[q]
                           \/ /\ queue'[q] = Append(queues[q], n) /\ q = pendingHandoff.call
                              /\ local[q].conversation = c
      BY CaptureFacts
    <2> QED
      BY <2>1
  <1> QED
    BY <1>1, <1>2, <1>3

\* A subscription of which a load is past its commit holds its conversation's events.
LEMMA SubPast ==
    ASSUME TypeOK, NEW o \in Calls, SubHolds(o), pc'[o] = pc[o],
           pc[o] \notin {"idle", "paging", "deleting", "subscribing", "loading"} \cup Waiting,
           local'[o].conversation = local[o].conversation,
           local[o].conversation \in Conversations,
           phase' = phase, events' = events,
           delivered'[o] <= events[local[o].conversation],
           \A n \in Elements(queue'[o]) : n <= events[local[o].conversation]
    PROVE  SubHolds(o)'
  BY DEF SubHolds, Waiting, Asking

\* The gateway hands an event to an observer.
LEMMA DeliverStep ==
    ASSUME IInv, NEW o \in Calls, Deliver(o)
    PROVE  IInv' /\ NoRegress /\ KeepsEvents
  <1>1. /\ TypeOK /\ CallHolds(o) /\ SubHolds(o) /\ SubsHold /\ GatewayTyped /\ ViewsHold
        /\ LoadsHold /\ StackHolds /\ HandoffHolds /\ ShownHolds /\ CacheTyped
        /\ \A p \in Calls : SubHolds(p)
    BY TypeParts DEF IInv, CallsHold, SubsHold, LoadsHold, ViewsHold, Settling
  <1> DEFINE c == local[o].conversation
             n == delivered[o] + 1
             g == local[o].generation
  <1>2. /\ Settled /\ sub[o] \in {"open", "closing"} /\ n <= events[c]
        /\ delivered' = [delivered EXCEPT ![o] = n]
        /\ \/ /\ phase[o] # "active"
              /\ queue' = [queue EXCEPT ![o] = Append(@, n)]
              /\ UNCHANGED <<storeVars, cleared>>
           \/ /\ phase[o] = "active"
              /\ queue' = CaptureHandoff(queue, c, n, g)
              /\ ApplyUpdate(c, n, g)
        /\ UNCHANGED <<setup, clientVars, cacheRequestId, cacheReadOnly, cacheState, cacheEpoch,
                       entry, stored, callVars, events, sub, phase, retired>>
    BY DEF Deliver
  <1>3. c \in Conversations /\ events[c] \in 0..MaxEvents
    BY <1>1, <1>2, NumberTypes DEF SubHolds
  <1>4. n \in 1..MaxEvents
    <2>1. delivered[o] \in 0..MaxEvents /\ MaxEvents \in Nat
      BY <1>1, CallTypes, SetupFacts
    <2> QED
      BY <2>1, <1>2, <1>3
  <1>5. /\ delivered' \in [Calls -> 0..MaxEvents] /\ delivered'[o] = n
        /\ \A p \in Calls : p # o => delivered'[p] = delivered[p]
    <2>1. n \in 0..MaxEvents
      BY <1>4
    <2> HIDE DEF n
    <2> QED
      BY <2>1, <1>1, <1>2 DEF GatewayTyped
  <1>6. setup' = setup /\ MaxEvents' = MaxEvents /\ View' = View /\ pendingCommits = <<>>
    BY <1>1, <1>2, SameSets, SettledFacts
  <1>7. /\ UNCHANGED <<pc, local, stack, result, events, phase, retired, entry, sub>>
        /\ Quiet
    BY <1>2 DEF Quiet, clientVars, callVars
  <1> HIDE DEF n, c, g
  <1>8. /\ ViewGrows /\ StoreTyped' /\ cleared' \in BOOLEAN
        /\ snapshot' = snapshot \/ Content(snapshot)'
        /\ phase[o] = "active" /\ ~disposed /\ g = generation /\ Shows(snapshot, c)
              => n \in snapshot'.events
    <2>1. CASE phase[o] # "active"
      <3>1. snapshot' = snapshot /\ pendingCommits' = pendingCommits /\ cleared' = cleared
        BY <2>1, <1>2 DEF storeVars
      <3> QED
        BY <2>1, <3>1, <1>1, <1>6, TypeParts DEF ViewGrows, StoreTyped, CacheTyped
    <2>2. CASE phase[o] = "active"
      BY <2>2, <1>1, <1>2, <1>3, <1>4, <1>6, <1>7, ApplyFacts
    <2> QED
      BY <2>1, <2>2
  <1>9. /\ queue' \in [Calls -> Seq(1..MaxEvents)]
        /\ phase[o] = "active" => queue' = CaptureHandoff(queue, c, n, g)
        /\ phase[o] # "active" => /\ queue'[o] = Append(queue[o], n)
                                  /\ \A p \in Calls : p # o => queue'[p] = queue[p]
    <2>1. queue \in [Calls -> Seq(1..MaxEvents)] /\ queue[o] \in Seq(1..MaxEvents)
      BY <1>1 DEF GatewayTyped
    <2>2. CASE phase[o] # "active"
      <3>1. Append(queue[o], n) \in Seq(1..MaxEvents)
        BY <2>1, <1>4
      <3>2. queue' = [queue EXCEPT ![o] = Append(@, n)]
        BY <2>2, <1>2
      <3> QED
        BY <2>1, <2>2, <3>1, <3>2
    <2>3. CASE phase[o] = "active"
      <3>1. queue' = CaptureHandoff(queue, c, n, g)
        BY <2>3, <1>2
      <3> QED
        BY <2>1, <2>3, <3>1, <1>1, <1>4, CaptureFacts
    <2> QED
      BY <2>2, <2>3
  <1>10. TypeOK'
    <2>1. GatewayTyped'
      BY <1>1, <1>5, <1>6, <1>7, <1>9 DEF GatewayTyped
    <2>2. CacheTyped'
      <3>1. UNCHANGED <<cacheRequestId, cacheReadOnly, cacheState, cacheEpoch, entry, stored>>
        BY <1>2
      <3> QED
        BY <3>1, <1>1, <1>6, <1>8 DEF CacheTyped
    <2>3. UNCHANGED <<clientVars, callVars, retired>>
      BY <1>2
    <2> QED
      BY <2>1, <2>2, <2>3, <1>1, <1>6, <1>8, TypesKept, TypePartsNext DEF TypeOK
  <1>11. EventsGrow
    BY <1>1, <1>7, NumberTypes DEF EventsGrow
  <1>12. \A p \in Calls : /\ p # o \/ phase[o] # "active" => QueueStep(p)
                          /\ QueueStep(p)
    <2> SUFFICES ASSUME NEW p \in Calls PROVE QueueStep(p)
      OBVIOUS
    <2>1. CASE phase[o] = "active"
      BY <2>1, <1>1, <1>2, <1>3, <1>4, <1>7, <1>9, <1>10, OthersQueues DEF GatewayTyped
    <2>2. CASE phase[o] # "active" /\ p # o
      BY <2>2, <1>1, <1>9, <1>10, <1>11, QueueSame
    <2>3. CASE phase[o] # "active" /\ p = o
      <3>1. queue'[o] = Append(queue[o], n) /\ local[o].conversation = c /\ events'[c] = events[c]
        BY <2>3, <1>7, <1>9 DEF c
      <3> QED
        BY <2>3, <3>1, <1>1, <1>2, <1>3, <1>4, QueueAppended
    <2> QED
      BY <2>1, <2>2, <2>3
  <1>13. phase[o] # "active" => n \in Elements(queue'[o])
    <2> SUFFICES ASSUME phase[o] # "active" PROVE n \in Elements(queue'[o])
      OBVIOUS
    <2>1. queue'[o] = Append(queue[o], n) /\ local[o].conversation = c /\ events'[c] = events[c]
      BY <1>7, <1>9 DEF c
    <2>2. Elements(queue'[o]) = Elements(queue[o]) \cup {n}
      BY <2>1, <1>1, <1>2, <1>3, <1>4, QueueAppended
    <2> QED
      BY <2>2
  <1>14. SubHolds(o)'
    <2>1. \A m \in Elements(queue'[o]) : m <= events'[c] /\ m \in 1..MaxEvents
      <3>1. \A m \in Elements(queue[o]) : m <= events[c]
        BY <1>1 DEF SubHolds, c
      <3>2. queue'[o] \in Seq(1..MaxEvents)
        BY <1>9
      <3> QED
        BY <3>1, <3>2, <1>7, <1>12, ElementsTyped DEF QueueStep, c
    <2>2. pc[o] = "loading" => \A m \in 1..delivered'[o] :
              m <= local[o].since \/ m \in Elements(queue'[o])
      <3> SUFFICES ASSUME pc[o] = "loading", NEW m \in 1..n
                   PROVE  m <= local[o].since \/ m \in Elements(queue'[o])
        BY <1>5
      <3>1. phase[o] # "active"
        BY <1>1 DEF SubHolds, Asking
      <3>2. m = n \/ m \in 1..delivered[o]
        BY <1>1, CallTypes DEF n
      <3>3. sub[o] # "none"
        BY <1>2
      <3> QED
        BY <3>1, <3>2, <3>3, <1>1, <1>12, <1>13 DEF SubHolds, QueueStep
    <2> QED
      BY <2>1, <2>2, <1>1, <1>2, <1>3, <1>5, <1>7 DEF SubHolds, Waiting, Asking, c
  <1>15. OwnedMatchesView'
    BY <1>1, <1>7, <1>8, QuietOwned
  <1>16. OwnedDelivers'
    <2>1. CASE gatewaySubscription # o
      <3>1. gatewaySubscription # None => gatewaySubscription \in Calls
        BY <1>1, NumberTypes
      <3>2. gatewaySubscription # None =>
              /\ delivered'[gatewaySubscription] = delivered[gatewaySubscription]
              /\ phase'[gatewaySubscription] = phase[gatewaySubscription]
              /\ \A m \in Elements(queue[gatewaySubscription]) :
                    m \in Elements(queue'[gatewaySubscription])
        BY <2>1, <3>1, <1>5, <1>7, <1>12 DEF QueueStep
      <3> QED
        BY <3>2, <1>1, <1>7, <1>8, QuietDelivers
    <2>2. CASE gatewaySubscription = o
      <3>1. gatewaySubscription' = o /\ o # None
        BY <2>2, <1>1, <1>7, NoneIsNothing DEF Quiet
      <3>2. /\ ~disposed /\ g = generation /\ Shows(snapshot, c)
        BY <2>2, <3>1, <1>1, <1>6, LatestFacts DEF SubsHold, OwnedMatchesView, c, g
      <3>3. \A m \in 1..delivered[o] : \/ m \in snapshot.events
                                       \/ phase[o] # "active" /\ m \in Elements(queue[o])
        BY <2>2, <3>1, <1>1 DEF SubsHold, OwnedDelivers
      <3>4. snapshot.events \subseteq snapshot'.events
        BY <1>8, GrowsFacts
      <3>5. \A m \in 1..n : m = n \/ m \in 1..delivered[o]
        BY <1>1, CallTypes DEF n
      <3>6. \A m \in 1..n : \/ m \in snapshot'.events
                            \/ phase[o] # "active" /\ m \in Elements(queue'[o])
        BY <3>2, <3>3, <3>4, <3>5, <1>8, <1>12, <1>13 DEF QueueStep
      <3> QED
        BY <3>1, <3>6, <1>5, <1>7 DEF OwnedDelivers
    <2> QED
      BY <2>1, <2>2
  <1>17. NoSubscriptionLeak'
    BY <1>1, <1>7 DEF SubsHold, NoSubscriptionLeak, Quiet
  <1> QED
    BY <1>5, <1>7, <1>8, <1>10, <1>12, <1>14, <1>15, <1>16, <1>17, NotifyStep

\* The elements of a sequence are its first one and those of the rest.
LEMMA HeadAndTail ==
    ASSUME NEW S, NEW s \in Seq(S), s # <<>>
    PROVE  /\ Head(s) \in S /\ Tail(s) \in Seq(S) /\ Head(s) \in Elements(s)
           /\ \A x \in Elements(s) : x = Head(s) \/ x \in Elements(Tail(s))
           /\ \A x \in Elements(Tail(s)) : x \in Elements(s)
  <1> DEFINE t == Tail(s)
  <1>1. DOMAIN s = 1..Len(s) /\ Len(s) \in Nat /\ \A i \in 1..Len(s) : s[i] \in S
    BY ElementsTyped
  <1>2. Len(s) # 0
    BY EmptySeq
  <1>3. t \in Seq(S) /\ Len(t) = Len(s) - 1 /\ \A i \in 1..Len(t) : t[i] = s[i + 1]
    BY HeadTailProperties
  <1>4. DOMAIN t = 1..(Len(s) - 1)
    BY <1>3, ElementsTyped
  <1>5. Head(s) = s[1] /\ 1 \in 1..Len(s)
    BY <1>1, <1>2
  <1> HIDE DEF t
  <1>6. ASSUME NEW x \in Elements(s) PROVE x = Head(s) \/ x \in Elements(t)
    <2>1. PICK i \in 1..Len(s) : x = s[i]
      BY <1>1 DEF Elements
    <2>2. CASE i # 1
      <3>1. i - 1 \in 1..Len(t) /\ (i - 1) + 1 = i /\ i - 1 \in DOMAIN t
        BY <2>1, <2>2, <1>1, <1>3, <1>4
      <3>2. t[i - 1] = x
        BY <3>1, <2>1, <1>3
      <3> QED
        BY <3>1, <3>2 DEF Elements
    <2> QED
      BY <2>1, <2>2, <1>5
  <1>7. ASSUME NEW x \in Elements(t) PROVE x \in Elements(s)
    <2>1. PICK i \in 1..Len(t) : x = t[i]
      BY <1>3, <1>4 DEF Elements
    <2>2. i + 1 \in 1..Len(s) /\ x = s[i + 1]
      BY <2>1, <1>1, <1>3
    <2> QED
      BY <2>2, <1>1 DEF Elements
  <1> QED
    BY <1>1, <1>3, <1>5, <1>6, <1>7 DEF Elements, t

\* One notification of the buffer is dispatched.
LEMMA DrainOneStep ==
    ASSUME IInv, NEW o \in Calls, DrainOne(o)
    PROVE  IInv' /\ NoRegress /\ KeepsEvents
  <1>1. /\ TypeOK /\ CallHolds(o) /\ SubHolds(o) /\ SubsHold /\ GatewayTyped /\ ViewsHold
        /\ LoadsHold /\ StackHolds /\ HandoffHolds /\ ShownHolds /\ CacheTyped
        /\ \A p \in Calls : SubHolds(p)
    BY TypeParts DEF IInv, CallsHold, SubsHold, LoadsHold, ViewsHold, Settling
  <1> DEFINE c == local[o].conversation
             n == Head(queue[o])
             g == local[o].generation
             queues == [queue EXCEPT ![o] = Tail(@)]
  <1>2. /\ pc[o] = "draining" /\ pendingCommits = <<>> /\ queue[o] # <<>>
        /\ queue' = CaptureHandoff(queues, c, n, g)
        /\ ApplyUpdate(c, n, g)
        /\ UNCHANGED <<setup, clientVars, cacheRequestId, cacheReadOnly, cacheState, cacheEpoch,
                    entry, stored, callVars, events, sub, delivered, phase, retired>>
    BY DEF DrainOne
  <1>3. c \in Conversations /\ events[c] \in 0..MaxEvents
    BY <1>1, <1>2, NumberTypes DEF CallHolds, Settling
  <1>4. /\ queue[o] \in Seq(1..MaxEvents) /\ n \in 1..MaxEvents /\ Tail(queue[o]) \in Seq(1..MaxEvents)
        /\ n \in Elements(queue[o])
        /\ \A m \in Elements(queue[o]) : m = n \/ m \in Elements(Tail(queue[o]))
        /\ \A m \in Elements(Tail(queue[o])) : m \in Elements(queue[o])
    <2>1. queue[o] \in Seq(1..MaxEvents)
      BY <1>1 DEF GatewayTyped
    <2> QED
      BY <2>1, <1>2, HeadAndTail
  <1> HIDE DEF n
  <1>5. /\ queues \in [Calls -> Seq(1..MaxEvents)] /\ queues[o] = Tail(queue[o])
        /\ \A p \in Calls : p # o => queues[p] = queue[p]
    BY <1>1, <1>4 DEF GatewayTyped
  <1> HIDE DEF c, g, queues
  <1>6. setup' = setup /\ MaxEvents' = MaxEvents /\ View' = View
    BY <1>2, SameSets
  <1>7. /\ UNCHANGED <<pc, local, stack, result, events, phase, retired, entry, sub, delivered>>
        /\ Quiet
    BY <1>2 DEF Quiet, clientVars, callVars
  <1>8. n <= events[c]
    BY <1>1, <1>4 DEF SubHolds, c
  <1>9. /\ ViewGrows /\ StoreTyped' /\ cleared' \in BOOLEAN
        /\ snapshot' = snapshot \/ Content(snapshot)'
        /\ ~disposed /\ g = generation /\ Shows(snapshot, c) => n \in snapshot'.events
    BY <1>1, <1>2, <1>3, <1>4, <1>6, <1>7, <1>8, ApplyFacts
  <1>10. /\ queue' \in [Calls -> Seq(1..MaxEvents)]
         /\ \A p \in Calls : \/ queue'[p] = queues[p]
                            \/ /\ queue'[p] = Append(queues[p], n) /\ p = pendingHandoff.call
                               /\ local[p].conversation = c
    <2>1. TypeOK /\ HandoffHolds /\ queue' = CaptureHandoff(queues, c, n, g)
      BY <1>1, <1>2
    <2>2. n \in 1..MaxEvents /\ queues \in [Calls -> Seq(1..MaxEvents)]
      BY <1>4, <1>5
    <2> QED
      BY <2>1, <2>2, CaptureFacts
  <1>11. TypeOK'
    <2>1. GatewayTyped'
      BY <1>1, <1>6, <1>7, <1>10 DEF GatewayTyped
    <2>2. CacheTyped'
      <3>1. UNCHANGED <<cacheRequestId, cacheReadOnly, cacheState, cacheEpoch, entry, stored>>
        BY <1>2
      <3> QED
        BY <3>1, <1>1, <1>6, <1>9 DEF CacheTyped
    <2>3. UNCHANGED <<clientVars, callVars, retired>>
      BY <1>2
    <2> QED
      BY <2>1, <2>2, <2>3, <1>1, <1>6, <1>9, TypesKept, TypePartsNext DEF TypeOK
  <1>12. \A p \in Calls : p # o => QueueStep(p)
    <2> SUFFICES ASSUME NEW p \in Calls, p # o PROVE QueueStep(p)
      OBVIOUS
    <2>1. \A q \in Calls : queues[q] = queue[q] => QueueStep(q)
      BY <1>1, <1>2, <1>3, <1>4, <1>5, <1>7, <1>8, <1>11, OthersQueues
    <2> QED
      BY <2>1, <1>5
  <1>13. queue'[o] = Tail(queue[o])
    <2>1. pendingHandoff.call # o
      BY <1>1, <1>2, NoneIsNothing DEF HandoffHolds, Asking
    <2> QED
      BY <2>1, <1>5, <1>10
  <1>14. SubHolds(o)'
    BY <1>1, <1>2, <1>4, <1>7, <1>13 DEF SubHolds, Waiting, Asking
  <1>15. OwnedMatchesView'
    BY <1>1, <1>7, <1>9, QuietOwned
  <1>16. OwnedDelivers'
    <2>1. CASE gatewaySubscription # o
      <3>1. gatewaySubscription # None => gatewaySubscription \in Calls
        BY <1>1, NumberTypes
      <3>2. gatewaySubscription # None =>
              /\ delivered'[gatewaySubscription] = delivered[gatewaySubscription]
              /\ phase'[gatewaySubscription] = phase[gatewaySubscription]
              /\ \A m \in Elements(queue[gatewaySubscription]) :
                    m \in Elements(queue'[gatewaySubscription])
        BY <2>1, <3>1, <1>7, <1>12 DEF QueueStep
      <3> QED
        BY <3>2, <1>1, <1>7, <1>9, QuietDelivers
    <2>2. CASE gatewaySubscription = o
      <3>1. gatewaySubscription' = o /\ o # None
        BY <2>2, <1>1, <1>7, NoneIsNothing DEF Quiet
      <3>2. /\ ~disposed /\ g = generation /\ Shows(snapshot, c)
        BY <2>2, <3>1, <1>1, <1>2, LatestFacts DEF SubsHold, OwnedMatchesView, c, g
      <3>3. \A m \in 1..delivered[o] : \/ m \in snapshot.events
                                       \/ phase[o] # "active" /\ m \in Elements(queue[o])
        BY <2>2, <3>1, <1>1 DEF SubsHold, OwnedDelivers
      <3>4. snapshot.events \subseteq snapshot'.events
        BY <1>9, GrowsFacts
      <3>6. \A m \in 1..delivered[o] : \/ m \in snapshot'.events
                                       \/ phase[o] # "active" /\ m \in Elements(queue'[o])
        <4> SUFFICES ASSUME NEW m \in 1..delivered[o], m \notin snapshot'.events
                     PROVE  phase[o] # "active" /\ m \in Elements(queue'[o])
          OBVIOUS
        <4>1. m # n /\ m \notin snapshot.events
          BY <3>2, <3>4, <1>9
        <4>2. phase[o] # "active" /\ m \in Elements(queue[o])
          BY <3>3, <4>1
        <4> QED
          BY <4>1, <4>2, <1>4, <1>13
      <3> QED
        BY <3>1, <3>6, <1>7 DEF OwnedDelivers
    <2> QED
      BY <2>1, <2>2
  <1>17. NoSubscriptionLeak'
    BY <1>1, <1>7 DEF SubsHold, NoSubscriptionLeak, Quiet
  <1>18. \A p \in Calls : p # o => /\ delivered'[p] = delivered[p] /\ sub'[p] = sub[p]
                                    /\ QueueStep(p)
    BY <1>7, <1>12
  <1> QED
    BY <1>7, <1>9, <1>11, <1>14, <1>15, <1>16, <1>17, <1>18, NotifyStep

\* A page of history settles.
LEMMA HistoryReturnsStep ==
    ASSUME IInv, NEW o \in Calls, HistoryReturns(o)
    PROVE  IInv' /\ NoRegress /\ KeepsEvents
  <1>1. /\ TypeOK /\ CallHolds(o) /\ SubHolds(o) /\ SubsHold /\ CallsTyped /\ ViewsHold
        /\ LoadsHold /\ StackHolds /\ Stacked /\ HandoffHolds /\ ShownHolds /\ CacheTyped
        /\ CallsHold
    BY TypeParts DEF IInv, CallsHold, SubsHold, LoadsHold, ViewsHold, StackHolds, Settling
  <1> DEFINE page == local[o].cursor + 1
             w == [snapshot EXCEPT !.pages = @ \cup {page}, !.cursor = page]
  <1>2. /\ Settled /\ pc[o] = "paging" /\ pc' = [pc EXCEPT ![o] = "done"]
        /\ UNCHANGED <<setup, clientVars, cacheRequestId, cacheReadOnly, cacheState, cacheEpoch,
                       entry, stored, local, stack, gatewayVars, retired>>
    BY DEF HistoryReturns
  <1>3. /\ pendingCommits = <<>> /\ LatestState = snapshot
        /\ setup' = setup /\ MaxEvents' = MaxEvents /\ View' = View /\ Locals' = Locals
    BY <1>1, <1>2, SameSets, SettledFacts
  <1>4. page \in 1..MaxPages
    BY <1>1, <1>2, CallTypes, SetupFacts DEF CallHolds, Settling
  <1>5. \E x \in {"ok", "rejected"} :
           /\ result' = [result EXCEPT ![o] = x]
           /\ ViewGrows /\ StoreTyped' /\ cleared' \in BOOLEAN
           /\ snapshot' = snapshot \/ Content(snapshot)'
    <2>1. CASE /\ result' = [result EXCEPT ![o] = "rejected"]
               /\ UNCHANGED <<storeVars, cleared>>
      <3>1. snapshot' = snapshot /\ pendingCommits' = pendingCommits /\ cleared' = cleared
        BY <2>1 DEF storeVars
      <3> QED
        BY <3>1, <2>1, <1>1, <1>3, TypeParts DEF ViewGrows, StoreTyped, CacheTyped
    <2>2. CASE /\ ~HistorySuperseded(o) /\ Commit(w, FALSE)
               /\ result' = [result EXCEPT ![o] = "ok"]
      <3>1. snapshot \in View
        BY <2>2, <1>1, NumberTypes DEF HistorySuperseded, Shows
      <3>2. /\ w \in View /\ w.conversation = snapshot.conversation /\ w.load = snapshot.load
            /\ w.events = snapshot.events
        BY <3>1, <1>4 DEF View, ViewsOf, MaxEvents, MaxPages
      <3> HIDE DEF w
      <3>3. snapshot' = w /\ pendingCommits' = pendingCommits
        BY <2>2, <1>3 DEF Commit, storeVars, HistorySuperseded
      <3>4. cleared' \in BOOLEAN
        <4>1. CASE w = snapshot
          <5>1. cleared' = cleared
            BY <4>1, <2>2, <1>3 DEF Commit, storeVars
          <5> QED
            BY <5>1, <1>1, NumberTypes
        <4>2. CASE w # snapshot
          <5>1. cleared' = FALSE
            BY <4>2, <2>2, <1>3 DEF Commit, storeVars, HistorySuperseded
          <5> QED
            BY <5>1
        <4> QED
          BY <4>1, <4>2
      <3>5. w # None /\ snapshot # None
        BY <3>1, <3>2, <1>1, NoneIsNothing
      <3>6. ViewGrows
        BY <3>2, <3>3, <3>5, <1>3 DEF ViewGrows
      <3>7. StoreTyped'
        BY <3>2, <3>3, <1>1, <1>3, NumberTypes DEF StoreTyped
      <3>8. Content(snapshot)'
        BY <3>2, <3>3, <3>5, <1>1, <1>2 DEF ShownHolds, Content, gatewayVars
      <3> QED
        BY <2>2, <3>4, <3>6, <3>7, <3>8
    <2> QED
      BY <2>1, <2>2 DEF HistoryReturns
  <1>6. PICK x \in {"ok", "rejected"} :
           /\ result' = [result EXCEPT ![o] = x]
           /\ ViewGrows /\ StoreTyped' /\ cleared' \in BOOLEAN
           /\ snapshot' = snapshot \/ Content(snapshot)'
    BY <1>5
  <1> HIDE DEF w, page
  <1>7. /\ pc' \in [Calls -> PCs] /\ pc'[o] = "done"
        /\ \A p \in Calls : p # o => pc'[p] = pc[p] /\ result'[p] = result[p]
        /\ result' \in [Calls -> {"none", "ok", "rejected", "notFound"}] /\ result'[o] = x
    BY <1>1, <1>2, <1>6 DEF CallsTyped, PCs
  <1>8. local' = local /\ stack' = stack
    BY <1>2
  <1>9. TypeOK'
    <2>1. CallsTyped'
      BY <1>1, <1>3, <1>7, <1>8 DEF CallsTyped
    <2>2. CacheTyped'
      <3>1. UNCHANGED <<cacheRequestId, cacheReadOnly, cacheState, cacheEpoch, entry, stored>>
        BY <1>2
      <3> QED
        BY <3>1, <1>1, <1>3, <1>6 DEF CacheTyped
    <2>3. UNCHANGED <<clientVars, gatewayVars, retired>>
      BY <1>2
    <2> QED
      BY <2>1, <2>2, <2>3, <1>1, <1>3, <1>6, TypesKept, TypePartsNext DEF TypeOK
  <1>10. /\ Quiet /\ UNCHANGED <<local, stack, events, delivered, queue, phase, sub, retired, entry>>
    BY <1>2 DEF Quiet, clientVars, gatewayVars
  <1>11. OthersKept(o) /\ NumbersKept(o)
    BY <1>7, <1>8 DEF OthersKept, Kept, NumbersKept
  <1>12. EventsGrow
    BY <1>1, <1>10, NumberTypes DEF EventsGrow
  <1>13. Stacked' /\ pc'[o] \notin Showing
    <2>1. \A p \in Calls : pc'[p] \in Publishing <=> pc[p] \in Publishing
      BY <1>2, <1>7 DEF Publishing, StorePublishing
    <2> QED
      BY <2>1, <1>1, <1>7, <1>8, StackSame DEF Showing, Publishing, StorePublishing
  <1>14. CallHolds(o)'
    BY <1>1, <1>2, <1>7, <1>8, <1>10, SameSets DEF CallHolds, Waiting, Asking, Ending, Quiet,
                                                   Settling
  <1>15. SubHolds(o)'
    BY <1>1, <1>2, <1>7, <1>10, SubKeptPast DEF Waiting, Asking
  <1>16. /\ \A p \in Calls : SubStep(p) /\ QueueStep(p)
    BY <1>1, <1>9, <1>10, <1>12, QueueSame DEF SubStep, SubsHold
  <1>17. OwnedMatchesView' /\ OwnedDelivers'
    BY <1>1, <1>6, <1>10, QuietOwned, QuietDelivers
  <1>18. NoSubscriptionLeak'
    BY <1>1, <1>2, <1>7, <1>10, <1>11, NoLeakKept DEF SubsHold, Quiet, Holding
  <1>19. ContentHolds(o)' /\ CurrentHolds(o)' /\ TicketHolds(o)'
    BY <1>1, <1>7 DEF ContentHolds, CurrentHolds, Current, TicketHolds, Waiting, Asking, Ending
  <1>20. o \notin retired
    BY <1>1, <1>2 DEF LoadsHold, Doomed, Waiting, Asking, Settling
  <1>21. pendingHandoff.call # o
    BY <1>1, <1>2, NoneIsNothing DEF HandoffHolds, Asking
  <1>22. local'[o].ticket = local[o].ticket
         /\ (local'[o].cursor # 0 \/ local'[o].requestId = 0)
    BY <1>1, <1>2, <1>8 DEF CallHolds, Settling
  <1>23. pc'[o] \in PastCommit /\ local'[o].previous = local[o].previous /\ pc[o] \notin Showing
    BY <1>2, <1>7, <1>8 DEF PastCommit, Showing, Publishing, StorePublishing, Settling
  <1>24. \A p \in Calls : p # o => /\ phase'[p] = phase[p] /\ delivered'[p] = delivered[p]
                                    /\ SubStep(p) /\ QueueStep(p)
    BY <1>10, <1>16
  <1> QED
    BY <1>6, <1>9, <1>10, <1>11, <1>12, <1>13, <1>14, <1>15, <1>17, <1>18, <1>19, <1>20,
       <1>21, <1>22, <1>23, <1>24, QuietStep

-----------------------------------------------------------------------------
(* Steps that leave the view alone, but not the race of the loads.         *)

\* The view, its subscription and what was delivered are left alone.
Steady == UNCHANGED <<setup, disposed, generation, gatewaySubscription, cacheReadOnly,
                      snapshot, pendingCommits, events, delivered, queue, phase>>

\* A step of call o that leaves the view alone keeps all of the invariant, when it
\* keeps what is said of the race.
LEMMA SteadyStep ==
    ASSUME IInv, TypeOK', Steady, CountersGrow, NEW o \in Calls, OthersKept(o), NumbersKept(o),
           Stacked',
           pc[o] \in Showing => pc'[o] \in Showing \/ pendingCommits = <<>>,
           pc'[o] \in Showing => pc[o] \in Showing,
           CallHolds(o)',
           local'[o].ticket \in {0, local[o].ticket} \/ local'[o].ticket > cacheRequestId,
           \/ local'[o].cursor # 0
           \/ local'[o].requestId = 0
           \/ local[o].cursor = 0 /\ local'[o].requestId = local[o].requestId
           \/ local'[o].requestId > loadRequestId,
           SubHolds(o)', NoSubscriptionLeak',
           \A p \in Calls : p # o => SubStep(p),
           gatewaySubscription # None => sub'[gatewaySubscription] = sub[gatewaySubscription],
           gatewaySubscription = o =>
              /\ local'[o].generation = local[o].generation
              /\ local'[o].conversation = local[o].conversation,
           pc[o] \in PastCommit => pc'[o] \in PastCommit,
           local'[o].previous \in {None, local[o].previous},
           \A c \in Conversations :
              \/ entry'[c] \in {entry[c], None}
              \/ /\ entry'[c].conversation = c
                 /\ entry'[c].events = {} \/ (entry'[c] = snapshot /\ snapshot # None),
           ContentHolds(o)', LoadsHold', NoCache'
    PROVE  IInv' /\ NoRegress /\ KeepsEvents
  <1>1. /\ TypeOK /\ Stacked /\ CommitsWait /\ CallsHold /\ SubsHold /\ ViewsHold
        /\ NothingLeft /\ OwnedMatchesView /\ OwnedDelivers /\ OwnedCommitted
    BY DEF IInv, StackHolds, SubsHold
  <1>2. ViewGrows /\ setup' = setup /\ LatestState' = LatestState
    BY DEF ViewGrows, Steady, LatestState
  <1>3. EventsGrow
    BY <1>1, NumberTypes DEF EventsGrow, Steady
  <1>4. gatewaySubscription \in Calls \cup {None}
    BY <1>1, NumberTypes
  <1>5. \A p \in Calls : p # o => pc'[p] = pc[p] /\ local'[p] = local[p]
    BY DEF OthersKept, Kept
  <1>6. CommitsWait'
    BY <1>1, <1>5 DEF CommitsWait, Steady
  <1>7. CallsHold'
    BY <1>1, <1>2, CallsStep
  <1>8. \A p \in Calls : SubHolds(p)'
    <2>1. \A p \in Calls : p # o => /\ phase'[p] = phase[p] /\ delivered'[p] = delivered[p]
                                    /\ SubStep(p) /\ QueueStep(p)
      BY <1>1, <1>3, QueueSame DEF Steady, SubsHold
    <2> QED
      BY <2>1, <1>1, <1>3, SubsKept
  <1>9. OwnedMatchesView'
    BY <1>1, <1>2, <1>4, <1>5 DEF OwnedMatchesView, Steady, Shows
  <1>10. OwnedDelivers'
    BY <1>1 DEF OwnedDelivers, Steady, Elements
  <1>11. OwnedCommitted'
    <2>1. gatewaySubscription' = gatewaySubscription
      BY DEF Steady
    <2>2. local'[o].previous # None => local'[o].previous # gatewaySubscription'
      BY <2>1, <1>1 DEF OwnedCommitted
    <2> QED
      BY <2>1, <2>2, <1>1, OwnedCommittedKept
  <1>12. ViewsHold'
    <2>1. ShownHolds' /\ WaitingHold' /\ EntriesHold'
      BY <1>1, <1>2, <1>3, ShownKept, WaitingKept, EntriesKept DEF Steady
    <2>2. \A p \in Calls : ContentHolds(p)'
      BY <1>1, <1>3, ContentHoldsKept DEF OthersKept
    <2> QED
      BY <2>1, <2>2 DEF ViewsHold
  <1>13. NothingLeft'
    BY <1>1 DEF NothingLeft, Steady
  <1>14. StackHolds' /\ SubsHold'
    BY <1>6, <1>8, <1>9, <1>10, <1>11 DEF StackHolds, SubsHold
  <1> QED
    BY <1>1, <1>2, <1>7, <1>12, <1>13, <1>14, GrowsForward DEF IInv

\* A step that overtakes no load, and clears at most the pending load and the
\* handoff of the load it ends.
LEMMA EndedLoads ==
    ASSUME TypeOK, TypeOK', CallsHold, LoadsHold, NEW o \in Calls, OthersKept(o),
           UNCHANGED <<setup, disposed, generation, loadRequestId, cacheRequestId, cacheReadOnly,
                       cacheState, cacheEpoch, snapshot, pendingCommits, events, retired>>,
           local'[o].ticket \in {0, local[o].ticket}, pc[o] \in Asking, pc'[o] \notin Asking,
           ClearPendingLoad(o),
           TicketHolds(o)', o \in retired => Doomed(o)'
    PROVE  LoadsHold'
  <1>1. \A p \in Calls : /\ CurrentHolds(p) /\ TicketHolds(p) /\ CallHolds(p)
    BY DEF LoadsHold, CallsHold, Settling
  <1>2. HandoffHolds /\ ReadyShowsLive /\ \A p \in retired : Doomed(p)
    BY DEF LoadsHold
  <1>3. \A p \in Calls : p # o => Kept(p)
    BY DEF OthersKept
  <1>4. CountersGrow
    BY NumberTypes DEF CountersGrow
  <1>5. /\ pendingLoad' = IF pendingLoad.requestId = local[o].requestId
                          THEN NoLoad ELSE pendingLoad
        /\ pendingHandoff' = IF pendingHandoff.call = o THEN NoHandoff ELSE pendingHandoff
    BY DEF ClearPendingLoad
  <1>6. LatestState' = LatestState
    BY DEF LatestState
  <1>7. local[o].cursor = 0 /\ local[o].requestId # 0
    BY <1>1 DEF CallHolds, Asking, Settling
  <1>8. ASSUME NEW p \in Calls PROVE CurrentHolds(p)'
    <2>1. CASE p = o
      BY <2>1 DEF CurrentHolds, Current
    <2>2. CASE p # o
      <3> SUFFICES ASSUME Current(p)' PROVE CurrentHolds(p)'
        BY DEF CurrentHolds
      <3>1. Kept(p)
        BY <2>2, <1>3
      <3>2. Current(p) /\ pc[p] \in Asking
        BY <3>1, <1>1, <1>4, OutOfRace DEF Current
      <3>3. local[p].cursor = 0 /\ local[p].requestId # local[o].requestId
        BY <2>2, <3>2, <1>1, <1>7 DEF CallHolds, CallsHold, Distinct, Settling
      <3>4. local[p].requestId = loadRequestId
        BY <3>2 DEF Current, LoadSuperseded
      <3>5. pendingLoad' = pendingLoad
        BY <3>2, <3>3, <3>4, <1>1, <1>5 DEF CurrentHolds
      <3>6. pendingHandoff.call = p => pendingHandoff' = pendingHandoff
        BY <2>2, <1>5
      <3>7. pendingHandoff'.call = p => pendingHandoff.call = p
        BY <1>5, NoneIsNothing DEF NoHandoff
      <3>8. HandoffServes(p) /\ pendingHandoff' = pendingHandoff => HandoffServes(p)'
        BY <3>1 DEF HandoffServes, Shows, Kept
      <3>9. Newest(p) => Newest(p)'
        BY <3>1, NoTicket, NewestKept DEF Kept
      <3> QED
        BY <3>1, <3>2, <3>5, <3>6, <3>7, <3>8, <3>9, <1>1, SameSets
           DEF CurrentHolds, Shows, Kept, Syncing
    <2> QED
      BY <2>1, <2>2
  <1>9. ASSUME NEW p \in Calls PROVE TicketHolds(p)'
    <2>1. CASE p = o
      BY <2>1
    <2>2. CASE p # o
      <3>1. Kept(p)
        BY <2>2, <1>3
      <3>2. pendingLoad.requestId = 0 => pendingLoad'.requestId = 0
        BY <1>5 DEF NoLoad
      <3> QED
        BY <3>1, <3>2, <1>1, <1>6
           DEF TicketHolds, TicketSuperseded, Kept, Shows, Syncing
    <2> QED
      BY <2>1, <2>2
  <1>10. HandoffHolds'
    <2>1. CASE pendingHandoff.call = o
      BY <2>1, <1>5 DEF HandoffHolds, NoHandoff
    <2>2. CASE pendingHandoff.call # o
      <3>1. pendingHandoff' = pendingHandoff
        BY <2>2, <1>5
      <3>2. pendingHandoff.call # None => Kept(pendingHandoff.call) /\ pc[pendingHandoff.call] \in Asking
        BY <2>2, <1>2, <1>3 DEF HandoffHolds, TypeOK
      <3>3. EventsGrow
        BY NumberTypes DEF EventsGrow
      <3> QED
        BY <3>1, <3>2, <3>3, HandoffKept DEF Kept
    <2> QED
      BY <2>1, <2>2
  <1>11. \A p \in retired' : Doomed(p)'
    <2>1. \A p \in retired : p \in Calls
      BY DEF TypeOK
    <2> QED
      BY <2>1, <1>1, <1>2, <1>3, <1>4, DoomedKept
  <1>12. ReadyShowsLive'
    BY <1>2, <1>6 DEF ReadyShowsLive, Shows
  <1> QED
    BY <1>8, <1>9, <1>10, <1>11, <1>12 DEF LoadsHold

\* A load that failed or was superseded is abandoned.
LEMMA AbandonStep ==
    ASSUME IInv, NEW o \in Calls, NEW outcome \in {"rejected", "notFound"},
           Settled, pc[o] \in Asking, Abandon(o, outcome),
           UNCHANGED <<setup, cacheRequestId, cacheState, cacheEpoch, entry, stored, events,
                       delivered, queue, phase, retired>>
    PROVE  IInv' /\ NoRegress /\ KeepsEvents
  <1>1. /\ TypeOK /\ CallHolds(o) /\ SubHolds(o) /\ SubsHold /\ CallsTyped /\ ViewsHold
        /\ LoadsHold /\ StackHolds /\ Stacked /\ TicketHolds(o) /\ OwnedCommitted
        /\ CallsHold /\ ClientTyped /\ CacheTyped /\ StoreTyped /\ GatewayTyped /\ NoCache
    BY TypeParts DEF IInv, CallsHold, SubsHold, LoadsHold, StackHolds, Settling
  <1> DEFINE k == [local[o] EXCEPT !.since = 0, !.content = None]
  <1>2. /\ ClearPendingLoad(o)
        /\ local' = [local EXCEPT ![o] = k]
        /\ UNCHANGED <<disposed, generation, conversationEpoch, historyRequestId,
                       loadRequestId, gatewaySubscription, cacheReadOnly, cleared,
                       storeVars, stack>>
    <2>1. local[o] \in Locals
      BY <1>1, CallTypes
    <2> QED
      BY <2>1, <1>1 DEF Abandon, CallsTyped, Locals
  <1>3. \E x \in {"rejected", "notFound"}, q \in {"discarding", "settling", "done"} :
           /\ pc' = [pc EXCEPT ![o] = q] /\ result' = [result EXCEPT ![o] = x]
           /\ q = "settling" => CacheEnabled
           /\ sub' = Closing(sub, o) /\ (sub[o] = "open" \/ sub' = sub)
    <2>1. CASE sub[o] = "open"
      BY <2>1 DEF Abandon
    <2>2. CASE sub[o] # "open"
      <3>1. /\ Return(o, IF LoadSuperseded(o) THEN "rejected" ELSE outcome)
            /\ sub' = sub /\ Closing(sub, o) = sub
        BY <2>2 DEF Abandon, Closing
      <3>2. (IF LoadSuperseded(o) THEN "rejected" ELSE outcome) \in {"rejected", "notFound"}
        OBVIOUS
      <3>3. CASE CacheEnabled
        BY <3>1, <3>2, <3>3 DEF Return
      <3>4. CASE ~CacheEnabled
        BY <3>1, <3>2, <3>4 DEF Return
      <3> QED
        BY <3>3, <3>4
    <2> QED
      BY <2>1, <2>2
  <1>4. PICK x \in {"rejected", "notFound"}, q \in {"discarding", "settling", "done"} :
           /\ pc' = [pc EXCEPT ![o] = q] /\ result' = [result EXCEPT ![o] = x]
           /\ q = "settling" => CacheEnabled
           /\ sub' = Closing(sub, o) /\ (sub[o] = "open" \/ sub' = sub)
    BY <1>3
  <1>5. /\ local[o] \in Locals /\ k \in Locals /\ k.conversation = local[o].conversation
        /\ k.ticket = local[o].ticket /\ k.epoch = local[o].epoch
        /\ k.requestId = local[o].requestId /\ k.cursor = local[o].cursor
        /\ k.generation = local[o].generation /\ k.previous = local[o].previous
    <2>1. local[o] \in Locals
      BY <1>1, CallTypes
    <2> QED
      BY <2>1 DEF Locals
  <1> HIDE DEF k
  <1>6. /\ pc' \in [Calls -> PCs] /\ pc'[o] = q
        /\ \A p \in Calls : p # o => pc'[p] = pc[p]
        /\ result' \in [Calls -> {"none", "ok", "rejected", "notFound"}] /\ result'[o] = x
        /\ \A p \in Calls : p # o => result'[p] = result[p]
        /\ local' \in [Calls -> Locals] /\ local'[o] = k
        /\ \A p \in Calls : p # o => local'[p] = local[p]
    BY <1>1, <1>2, <1>4, <1>5 DEF CallsTyped, PCs
  <1>7. /\ setup' = setup /\ View' = View /\ Locals' = Locals /\ MaxEvents' = MaxEvents
        /\ CacheEnabled' = CacheEnabled
    BY SameSets
  <1>8. /\ sub' \in [Calls -> {"none", "open", "closing", "closed"}]
        /\ \A p \in Calls  :
                 sub'[p] = sub[p] \/ (p = o /\ sub[p] = "open" /\ sub'[p] = "closing")
        /\ sub'[o] # "open"
    BY <1>1, <1>4, ClosingFacts, NoneIsNothing
  <1>9. OthersKept(o) /\ NumbersKept(o)
    BY <1>5, <1>6 DEF OthersKept, Kept, NumbersKept
  <1>10. /\ pendingLoad' \in {pendingLoad, NoLoad} /\ pendingHandoff' \in {pendingHandoff, NoHandoff}
    BY <1>2 DEF ClearPendingLoad
  <1>11. TypeOK'
    <2>1. CallsTyped'
      BY <1>1, <1>2, <1>6, <1>7 DEF CallsTyped
    <2>2. ClientTyped'
      BY <1>1, <1>2, <1>7, <1>10 DEF ClientTyped, NoLoad, NoHandoff
    <2>3. CacheTyped' /\ StoreTyped'
      BY <1>1, <1>2, <1>7 DEF CacheTyped, StoreTyped, storeVars
    <2>4. GatewayTyped'
      BY <1>1, <1>7, <1>8 DEF GatewayTyped
    <2> QED
      BY <2>1, <2>2, <2>3, <2>4, <1>1, <1>7, TypePartsNext DEF TypeOK
  <1>12. Steady /\ CountersGrow /\ UNCHANGED <<snapshot, pendingCommits, stack>>
    BY <1>1, <1>2, NumberTypes DEF Steady, CountersGrow, storeVars
  <1>13. /\ pc[o] \notin Publishing /\ q \notin Publishing /\ q \notin Asking
         /\ pc[o] \notin PastCommit /\ q \notin Waiting /\ q \notin Ending
    BY DEF Asking, Publishing, PastCommit, Ending, Waiting, StorePublishing, Settling
  <1>14. Stacked'
    <2>1. \A p \in Calls : pc'[p] \in Publishing <=> pc[p] \in Publishing
      BY <1>6, <1>13
    <2> QED
      BY <2>1, <1>1, <1>12, StackSame
  <1>15. CallHolds(o)'
    <2>1. local'[o].ticket <= cacheRequestId' /\ local'[o].generation <= generation'
          /\ local'[o].requestId <= loadRequestId'
      BY <1>1, <1>2, <1>5, <1>6 DEF CallHolds, Asking, Settling
    <2>2. local'[o].cursor = 0 /\ (CacheEnabled <=> local'[o].ticket # 0) /\ local'[o].requestId # 0
      BY <1>1, <1>5, <1>6 DEF CallHolds, Asking, Settling
    <2>3. local'[o].ticket # 0 => /\ local'[o].conversation \in Conversations
                                  /\ local'[o].epoch <= cacheEpoch'[local'[o].conversation]
      BY <1>1, <1>5, <1>6 DEF CallHolds, Settling
    <2>4. local'[o].conversation \in Conversations
      BY <1>1, <1>5, <1>6 DEF CallHolds, Asking, Settling
    <2> QED
      BY <2>1, <2>2, <2>3, <2>4, <1>4, <1>6, <1>7, <1>13
         DEF CallHolds, Waiting, Asking, Ending, Settling
  <1>16. SubHolds(o)'
    <2>1. q \notin {"idle", "paging", "deleting"} \cup Waiting \cup Asking
      BY DEF Waiting, Asking
    <2> QED
      BY <2>1, <1>1, <1>5, <1>6, <1>8, SubKeptPast
  <1>17. gatewaySubscription # o
    BY <1>1, <1>13, NoneIsNothing DEF OwnedCommitted
  <1>18. NoSubscriptionLeak'
    <2>1. \A p \in Calls : sub'[p] = "open" => sub[p] = "open"
      BY <1>8
    <2> QED
      BY <2>1, <1>1, <1>8, <1>9, <1>12, <1>13, NoLeakKept DEF SubsHold, Steady, Holding, Asking
  <1>19. \A p \in Calls : p # o => SubStep(p)
    BY <1>8 DEF SubStep
  <1>20. gatewaySubscription # None => sub'[gatewaySubscription] = sub[gatewaySubscription]
    BY <1>1, <1>8, <1>17, NumberTypes
  <1>21. ContentHolds(o)'
    BY <1>6 DEF ContentHolds
  <1>22. TicketHolds(o)'
    <2> SUFFICES ASSUME local'[o].ticket # 0, ~TicketSuperseded(o)' PROVE TicketHolds(o)'
      BY DEF TicketHolds
    <2>1. local[o].ticket # 0 /\ ~TicketSuperseded(o)
      BY <1>2, <1>5, <1>6 DEF TicketSuperseded
    <2>2. cacheState = Syncing(local[o].conversation)
      BY <2>1, <1>1 DEF TicketHolds, Asking
    <2>3. cacheState' = Syncing(local'[o].conversation)
      BY <2>2, <1>5, <1>6 DEF Syncing
    <2> QED
      BY <2>3, <1>4, <1>6, <1>13 DEF TicketHolds, Syncing
  <1>23. Doomed(o)'
    BY <1>6 DEF Doomed, Settling
  <1>24. LoadsHold'
    BY <1>1, <1>2, <1>5, <1>6, <1>9, <1>11, <1>12, <1>13, <1>22, <1>23, EndedLoads
  <1>25. NoCache'
    BY <1>1, <1>2, <1>7 DEF NoCache
  <1>26. q \notin Showing /\ pc[o] \notin Showing
    BY <1>13 DEF Showing, Publishing, StorePublishing
  <1> QED
    BY <1>1, <1>5, <1>6, <1>9, <1>11, <1>12, <1>13, <1>14, <1>15, <1>16, <1>17, <1>18, <1>19,
       <1>20, <1>21, <1>24, <1>25, <1>26, SteadyStep DEF CallHolds, Asking, Settling

\* A load that was not overtaken goes on asking the server.
LEMMA AskingStep ==
    ASSUME IInv, TypeOK', Quiet, NEW o \in Calls, OthersKept(o),
           UNCHANGED <<snapshot, pendingCommits, stack, result, events, delivered, queue, phase,
                       entry, retired>>,
           pc[o] \in Asking, pc'[o] \in {"loading", "nonlive"}, ~LoadSuperseded(o),
           local'[o].conversation = local[o].conversation,
           local'[o].ticket = local[o].ticket, local'[o].epoch = local[o].epoch,
           local'[o].requestId = local[o].requestId, local'[o].cursor = local[o].cursor,
           local'[o].generation = local[o].generation, local'[o].previous = local[o].previous,
           \A p \in Calls : p # o => sub'[p] = sub[p],
           sub'[o] = "open" => sub[o] = "open" /\ pc'[o] = "loading",
           SubHolds(o)', ContentHolds(o)',
           HandoffServes(o) /\ pendingHandoff.call = o => HandoffServes(o)'
    PROVE  IInv' /\ NoRegress /\ KeepsEvents
  <1>1. /\ TypeOK /\ CallHolds(o) /\ SubHolds(o) /\ SubsHold /\ LoadsHold /\ Stacked
        /\ TicketHolds(o) /\ OwnedCommitted /\ CallsHold /\ CurrentHolds(o)
    BY DEF IInv, CallsHold, SubsHold, LoadsHold, StackHolds, Settling
  <1>2. /\ setup' = setup /\ CacheEnabled' = CacheEnabled /\ CountersGrow
    BY <1>1, SameSets, QuietGrows DEF Quiet
  <1>3. \A p \in Calls : p # o => pc'[p] = pc[p]
    BY DEF OthersKept, Kept
  <1>4. NumbersKept(o) /\ Current(o)
    BY DEF NumbersKept, Current
  <1>5. pc[o] \notin Publishing /\ pc'[o] \notin Publishing /\ pc[o] \notin PastCommit
        /\ pc'[o] \in Asking /\ pc'[o] \notin Waiting /\ pc'[o] \notin Ending
    BY DEF Asking, Publishing, PastCommit, Ending, Waiting, StorePublishing, Settling
  <1>6. Stacked'
    <2>1. \A p \in Calls : pc'[p] \in Publishing <=> pc[p] \in Publishing
      BY <1>3, <1>5
    <2> QED
      BY <2>1, <1>1, StackSame
  <1>7. CallHolds(o)'
    BY <1>1, <1>2, <1>5 DEF CallHolds, Asking, Waiting, Ending, Quiet, Settling
  <1>8. gatewaySubscription # o
    BY <1>1, <1>5, NoneIsNothing DEF OwnedCommitted
  <1>9. NoSubscriptionLeak'
    BY <1>1, <1>3, <1>8, NoLeakKept DEF SubsHold, Quiet, Holding, Asking
  <1>10. CurrentHolds(o)'
    <2>1. Newest(o) => Newest(o)'
      BY <1>1, NoTicket, NewestKept
    <2> QED
      BY <2>1, <1>1, <1>2, <1>4 DEF CurrentHolds, Quiet, Shows, Syncing
  <1>11. TicketHolds(o)'
    <2>1. TicketSuperseded(o)' <=> TicketSuperseded(o)
      BY DEF TicketSuperseded, Quiet
    <2>2. pc[o] \notin {"restoring", "reported", "clearing", "deleted", "done"}
      BY DEF Asking
    <2> QED
      BY <2>1, <2>2, <1>1, <1>5 DEF TicketHolds, Quiet, Syncing, Asking
  <1>12. o \notin retired
    BY <1>1, <1>4, <1>5 DEF LoadsHold, Doomed, Asking, Waiting, Settling
  <1>13. \A p \in Calls : (p # o => phase'[p] = phase[p] /\ SubStep(p))
    BY DEF SubStep
  <1>14. gatewaySubscription # None => sub'[gatewaySubscription] = sub[gatewaySubscription]
    BY <1>1, <1>8, NumberTypes
  <1>15. pc[o] \notin Showing /\ pc'[o] \notin Showing
    BY <1>5 DEF Showing, Publishing, StorePublishing
  <1>16. local[o].cursor = 0
    BY <1>1 DEF CallHolds, Asking, Settling
  <1> QED
    BY <1>4, <1>5, <1>6, <1>7, <1>8, <1>9, <1>10, <1>11, <1>12, <1>13, <1>14, <1>15, <1>16,
       CallStep

\* The subscription settles.
LEMMA SubscribeReturnsStep ==
    ASSUME IInv, NEW o \in Calls, SubscribeReturns(o)
    PROVE  IInv' /\ NoRegress /\ KeepsEvents
  <1>1. /\ TypeOK /\ CallHolds(o) /\ SubHolds(o) /\ CallsTyped /\ LoadsHold /\ GatewayTyped
    BY TypeParts DEF IInv, CallsHold, SubsHold, Settling
  <1>2. /\ Settled /\ pc[o] = "subscribing"
        /\ UNCHANGED <<setup, cacheRequestId, cacheState, cacheEpoch, entry, stored, events,
                       delivered, queue, phase, retired>>
    BY DEF SubscribeReturns
  <1>3. CASE LoadSuperseded(o)
    BY <1>2, <1>3, AbandonStep DEF SubscribeReturns, Asking
  <1>4. CASE ~LoadSuperseded(o)
    <2> DEFINE c == local[o].conversation
               k == [local[o] EXCEPT !.since = events[c]]
    <2>1. /\ pc' = [pc EXCEPT ![o] = "loading"]
          /\ local' = [local EXCEPT ![o] = k]
          /\ UNCHANGED <<clientVars, cacheReadOnly, cleared, storeVars, result, stack, sub>>
      BY <1>4, <1>1 DEF SubscribeReturns, CallsTyped
    <2>2. c \in Conversations /\ events[c] \in 0..MaxEvents /\ MaxEvents \in Nat
      BY <1>1, <1>2, NumberTypes, SetupFacts DEF CallHolds, Settling
    <2>3. /\ local[o] \in Locals /\ k \in Locals /\ k.conversation = c
          /\ k.ticket = local[o].ticket /\ k.epoch = local[o].epoch
          /\ k.requestId = local[o].requestId /\ k.cursor = local[o].cursor
          /\ k.generation = local[o].generation /\ k.previous = local[o].previous
          /\ k.since = events[c]
      <3>1. local[o] \in Locals /\ events[c] \in Nat
        BY <1>1, <2>2, CallTypes
      <3> HIDE DEF c
      <3> QED
        BY <3>1 DEF Locals, c
    <2> HIDE DEF k
    <2>4. /\ pc' \in [Calls -> PCs] /\ pc'[o] = "loading"
          /\ \A p \in Calls : p # o => pc'[p] = pc[p]
          /\ local' \in [Calls -> Locals] /\ local'[o] = k
          /\ \A p \in Calls : p # o => local'[p] = local[p]
      BY <1>1, <2>1, <2>3 DEF CallsTyped, PCs
    <2>5. setup' = setup /\ Locals' = Locals /\ stack' = stack /\ result' = result
      BY <1>2, <2>1, SameSets
    <2>6. CallsTyped' /\ OthersKept(o)
      BY <1>1, <2>4, <2>5 DEF CallsTyped, OthersKept, Kept
    <2>7. UNCHANGED <<clientVars, cacheVars, storeVars, gatewayVars>>
      BY <1>2, <2>1 DEF cacheVars, gatewayVars
    <2>8. TypeOK'
      BY <1>1, <1>2, <2>6, <2>7, TypesKept, TypePartsNext DEF TypeOK
    <2>9. Quiet /\ UNCHANGED <<snapshot, pendingCommits, stack, result, events, delivered, queue,
                               phase, entry, retired, sub>>
      BY <1>2, <2>1 DEF Quiet, clientVars, storeVars
    <2>10. SubHolds(o)'
      <3>1. delivered[o] \in 0..MaxEvents /\ sub[o] # "none" => delivered[o] <= events[c]
        BY <1>1 DEF SubHolds
      <3>2. sub[o] # "none" => \A n \in 1..delivered[o] : n <= events[c]
        <4>1. delivered[o] \in 0..MaxEvents
          BY <1>1, CallTypes
        <4> QED
          BY <4>1, <2>2, <1>1 DEF SubHolds
      <3>3. events[c] <= events[c]
        BY <2>2
      <3> QED
        BY <3>2, <3>3, <1>1, <1>2, <2>2, <2>3, <2>4, <2>9 DEF SubHolds, Waiting, Asking
    <2>11. ContentHolds(o)'
      BY <2>4 DEF ContentHolds
    <2>12. HandoffServes(o) /\ pendingHandoff.call = o => HandoffServes(o)'
      <3> SUFFICES ASSUME HandoffServes(o), pendingHandoff.call = o PROVE HandoffServes(o)'
        OBVIOUS
      <3>1. pendingHandoff.baseline.events \subseteq 1..events[c]
        BY <1>1, NoneIsNothing DEF LoadsHold, HandoffHolds, Content
      <3>2. pendingHandoff'.baseline.events \subseteq 1..local'[o].since
        BY <3>1, <2>3, <2>4, <2>9 DEF Quiet
      <3>3. local'[o].conversation = local[o].conversation
        BY <2>3, <2>4
      <3> QED
        BY <3>2, <3>3, <2>4, <2>9 DEF HandoffServes, Shows, Quiet
    <2> QED
      BY <1>2, <1>4, <2>3, <2>4, <2>6, <2>8, <2>9, <2>10, <2>11, <2>12, AskingStep DEF Asking
  <1> QED
    BY <1>3, <1>4

\* A snapshot without live updates: its subscription is given up first.
LEMMA AnsweredStep ==
    ASSUME IInv, NEW o \in Calls, NEW n \in local[o].since..events[local[o].conversation],
           Settled, pc[o] = "loading", ~LoadSuperseded(o),
           sub' = Closing(sub, o),
           local' = [local EXCEPT ![o].since = 0,
                                  ![o].content = [conversation |-> local[o].conversation,
                                                  load |-> o, events |-> 1..n,
                                                  pages |-> {1}, cursor |-> 1]],
           pc' = [pc EXCEPT ![o] = "nonlive"],
           UNCHANGED <<clientVars, cacheReadOnly, cleared, storeVars, result, stack>>,
           UNCHANGED <<setup, cacheRequestId, cacheState, cacheEpoch, entry, stored, events,
                       delivered, queue, phase, retired>>
    PROVE  IInv' /\ NoRegress /\ KeepsEvents
  <1>1. /\ TypeOK /\ CallHolds(o) /\ SubHolds(o) /\ CallsTyped /\ LoadsHold /\ GatewayTyped
    BY TypeParts DEF IInv, CallsHold, SubsHold, Settling
  <1> DEFINE c == local[o].conversation
             v == [conversation |-> c, load |-> o, events |-> 1..n, pages |-> {1}, cursor |-> 1]
             k == [local[o] EXCEPT !.since = 0, !.content = v]
  <1>2. c \in Conversations /\ events[c] \in 0..MaxEvents /\ MaxEvents \in Nat
        /\ 1 \in 1..MaxPages /\ local[o].since \in Nat
    <2>1. c \in Conversations
      BY <1>1 DEF CallHolds, Settling
    <2> QED
      BY <2>1, <1>1, NumberTypes, SetupFacts, CallTypes
  <1>3. n \in Nat /\ 1..n \subseteq 1..events[c] /\ 1..n \subseteq 1..MaxEvents
        /\ 1..local[o].since \subseteq 1..n
    BY <1>2
  <1>4. /\ v \in View /\ v # None /\ v.load = o /\ v.conversation = c /\ v.events = 1..n
    BY <1>1, <1>2, <1>3, NoneIsNothing DEF View, ViewsOf, MaxEvents, MaxPages
  <1>5. local' = [local EXCEPT ![o] = k]
    <2>1. local \in [Calls -> Locals] /\ local[o] \in Locals
      BY <1>1, CallTypes DEF CallsTyped
    <2> HIDE DEF v
    <2>2. local' = [local EXCEPT ![o].since = 0, ![o].content = v]
      BY DEF v
    <2> QED
      BY <2>1, <2>2 DEF Locals
  <1> HIDE DEF v
  <1>6. /\ local[o] \in Locals /\ k \in Locals /\ k.conversation = c
        /\ k.ticket = local[o].ticket /\ k.epoch = local[o].epoch
        /\ k.requestId = local[o].requestId /\ k.cursor = local[o].cursor
        /\ k.generation = local[o].generation /\ k.previous = local[o].previous
        /\ k.content = v
    <2>1. local[o] \in Locals
      BY <1>1, CallTypes
    <2> QED
      BY <2>1, <1>4 DEF Locals
  <1> HIDE DEF k
  <1>7. /\ pc' \in [Calls -> PCs] /\ pc'[o] = "nonlive"
        /\ \A p \in Calls : p # o => pc'[p] = pc[p]
        /\ local' \in [Calls -> Locals] /\ local'[o] = k
        /\ \A p \in Calls : p # o => local'[p] = local[p]
    <2>1. /\ pc \in [Calls -> PCs] /\ local \in [Calls -> Locals] /\ "nonlive" \in PCs
      BY <1>1 DEF CallsTyped, PCs
    <2>2. /\ pc' \in [Calls -> PCs] /\ pc'[o] = "nonlive"
          /\ \A p \in Calls : p # o => pc'[p] = pc[p]
      BY <2>1
    <2> HIDE DEF c
    <2>3. \E m : m = local' /\ m = [local EXCEPT ![o] = k]
      BY <1>5
    <2>4. PICK m : m = local' /\ m = [local EXCEPT ![o] = k]
      BY <2>3
    <2>5. /\ m \in [Calls -> Locals] /\ m[o] = k /\ \A p \in Calls : p # o => m[p] = local[p]
      BY <2>1, <2>4, <1>6
    <2> QED
      BY <2>2, <2>4, <2>5
  <1>8. /\ sub' \in [Calls -> {"none", "open", "closing", "closed"}]
        /\ \A p \in Calls  :
                 sub'[p] = sub[p] \/ (p = o /\ sub[p] = "open" /\ sub'[p] = "closing")
        /\ sub'[o] # "open"
    BY <1>1, ClosingFacts, NoneIsNothing
  <1>9. setup' = setup /\ Locals' = Locals /\ MaxEvents' = MaxEvents
    BY SameSets
  <1>10. CallsTyped' /\ OthersKept(o) /\ GatewayTyped'
    BY <1>1, <1>7, <1>8, <1>9 DEF CallsTyped, OthersKept, Kept, GatewayTyped
  <1>11. TypeOK'
    <2>1. UNCHANGED <<clientVars, cacheVars, storeVars>>
      BY DEF cacheVars
    <2> QED
      BY <2>1, <1>1, <1>10, TypesKept, TypePartsNext DEF TypeOK
  <1>12. Quiet /\ UNCHANGED <<snapshot, pendingCommits>>
    BY DEF Quiet, clientVars, storeVars
  <1>13. SubHolds(o)'
    BY <1>1, <1>2, <1>6, <1>7, <1>8 DEF SubHolds, Waiting, Asking
  <1>14. ContentHolds(o)'
    BY <1>3, <1>4, <1>6, <1>7 DEF ContentHolds, Content
  <1>15. HandoffServes(o) /\ pendingHandoff.call = o => HandoffServes(o)'
    <2> SUFFICES ASSUME HandoffServes(o), pendingHandoff.call = o PROVE HandoffServes(o)'
      OBVIOUS
    <2>1. pendingHandoff.baseline.events \subseteq 1..local[o].since
      BY DEF HandoffServes
    <2>2. pendingHandoff'.baseline.events \subseteq local'[o].content.events
      BY <2>1, <1>3, <1>4, <1>6, <1>7, <1>12 DEF Quiet
    <2>3. local'[o].conversation = local[o].conversation
      BY <1>6, <1>7
    <2> QED
      BY <2>2, <2>3, <1>7, <1>12 DEF HandoffServes, Shows, Quiet
  <1>16. \A p \in Calls : p # o => sub'[p] = sub[p]
    BY <1>8
  <1> QED
    BY <1>6, <1>7, <1>8, <1>10, <1>11, <1>12, <1>13, <1>14, <1>15, <1>16, AskingStep DEF Asking

\* A load that begins overtakes every other one.
LEMMA BegunLoads ==
    ASSUME TypeOK, TypeOK', CallsHold, LoadsHold, ShownHolds, NEW o \in Calls, OthersKept(o),
           UNCHANGED <<setup, disposed, cacheRequestId, cacheState, cacheEpoch, events, retired,
                       snapshot>>,
           generation <= generation', loadRequestId' = loadRequestId + 1,
           pc[o] \in {"idle", "announced", "displayed"}, pc'[o] = "subscribing",
           local'[o].requestId = loadRequestId + 1,
           pendingLoad'.conversation = local'[o].conversation,
           pendingLoad'.requestId = loadRequestId + 1,
           local'[o].conversation \in Conversations,
           CacheEnabled => /\ pc[o] # "idle" /\ ~TicketSuperseded(o)
                           /\ local'[o].ticket = local[o].ticket
                           /\ local'[o].epoch = local[o].epoch
                           /\ local'[o].conversation = local[o].conversation,
           ~CacheEnabled => local'[o].ticket = 0 /\ UNCHANGED <<pendingCommits, cacheReadOnly>>,
           pendingHandoff' = IF ~cacheReadOnly' /\ Shows(snapshot, local'[o].conversation)
                             THEN [call |-> o, conversation |-> local'[o].conversation,
                                   generation |-> generation, baseline |-> snapshot]
                             ELSE pendingHandoff,
           cacheState.status # "ready" \/ UNCHANGED <<pendingCommits, cacheReadOnly>>
    PROVE  LoadsHold'
  <1>1. \A p \in Calls : /\ CurrentHolds(p) /\ TicketHolds(p) /\ CallHolds(p)
    BY DEF LoadsHold, CallsHold, Settling
  <1>2. HandoffHolds /\ ReadyShowsLive /\ \A p \in retired : Doomed(p)
    BY DEF LoadsHold
  <1>3. \A p \in Calls : p # o => Kept(p)
    BY DEF OthersKept
  <1>4. CountersGrow
    BY NumberTypes DEF CountersGrow
  <1>5. /\ loadRequestId \in Nat /\ CacheEnabled' = CacheEnabled
        /\ pc[o] \in Waiting => CacheEnabled
    BY <1>1, NumberTypes, SameSets DEF CallHolds, Settling
  <1>6. CacheEnabled => local[o].ticket # 0
    BY <1>1 DEF CallHolds, Waiting, Settling
  <1>7. CacheEnabled => /\ local[o].ticket = cacheRequestId
                        /\ cacheState = Syncing(local[o].conversation)
    BY <1>1, <1>6 DEF TicketHolds, TicketSuperseded
  <1>8. pendingHandoff.call # o
    BY <1>2, NoneIsNothing DEF HandoffHolds, Asking
  <1>9. ASSUME NEW p \in Calls PROVE CurrentHolds(p)'
    <2>1. CASE p = o
      <3>1. CacheEnabled => /\ Newest(o)'
                            /\ cacheState' = Syncing(local'[o].conversation)
        BY <1>7, NoTicket, NewestKept, LastIsNewest
      <3>2. ~cacheReadOnly' /\ Shows(snapshot, local'[o].conversation)
              => /\ pendingHandoff'.call = o /\ pendingHandoff'.baseline = snapshot
        OBVIOUS
      <3>3. ~(~cacheReadOnly' /\ Shows(snapshot, local'[o].conversation))
              => pendingHandoff'.call # o
        BY <1>8
      <3>4. pendingHandoff'.call = o => HandoffServes(o)'
        BY <3>2, <3>3 DEF HandoffServes, Shows
      <3> QED
        BY <2>1, <3>1, <3>2, <3>4, <1>5 DEF CurrentHolds, Shows, Syncing
    <2>2. CASE p # o
      <3>1. Kept(p) /\ CallHolds(p)
        BY <2>2, <1>1, <1>3
      <3>2. pc[p] \in Asking => local[p].requestId <= loadRequestId
        BY <3>1 DEF CallHolds, Asking, Settling
      <3>3. local[p].requestId \in Nat
        BY CallTypes
      <3>4. ~Current(p)'
        BY <3>1, <3>2, <3>3, <1>5 DEF Current, LoadSuperseded, Kept
      <3> QED
        BY <3>4 DEF CurrentHolds
    <2> QED
      BY <2>1, <2>2
  <1>10. ASSUME NEW p \in Calls PROVE TicketHolds(p)'
    <2>1. CASE p = o
      <3>1. CASE CacheEnabled
        BY <2>1, <3>1, <1>5, <1>7 DEF TicketHolds, Waiting, Ending, Syncing
      <3>2. CASE ~CacheEnabled
        BY <2>1, <3>2 DEF TicketHolds
      <3> QED
        BY <3>1, <3>2
    <2>2. CASE p # o
      <3>1. Kept(p) /\ CallHolds(p) /\ TicketHolds(p)
        BY <2>2, <1>1, <1>3
      <3>2. CASE CacheEnabled
        <4>1. local[p].ticket = 0 \/ TicketSuperseded(p)
          BY <2>2, <3>2, <1>6, OneCurrent
        <4> QED
          BY <4>1, <3>1, <1>4, OutOfRace
      <3>3. CASE ~CacheEnabled
        <4>1. pc[p] \notin Waiting /\ LatestState' = LatestState
          BY <3>1, <3>3 DEF CallHolds, LatestState, Settling
        <4> QED
          BY <4>1, <3>1, <3>3 DEF TicketHolds, TicketSuperseded, Kept, Shows, Syncing
      <3> QED
        BY <3>2, <3>3
    <2> QED
      BY <2>1, <2>2
  <1>11. HandoffHolds'
    <2>1. CASE ~cacheReadOnly' /\ Shows(snapshot, local'[o].conversation)
      <3>1. /\ pendingHandoff'.call = o /\ pendingHandoff'.conversation = local'[o].conversation
            /\ pendingHandoff'.baseline = snapshot
        BY <2>1
      <3>2. snapshot # None /\ snapshot.conversation = local'[o].conversation
        BY <2>1 DEF Shows
      <3>3. Content(snapshot)'
        BY <3>2 DEF ShownHolds, Content
      <3> QED
        BY <3>1, <3>2, <3>3 DEF HandoffHolds, Content, Asking
    <2>2. CASE ~(~cacheReadOnly' /\ Shows(snapshot, local'[o].conversation))
      <3>1. pendingHandoff' = pendingHandoff
        BY <2>2
      <3>2. pendingHandoff.call # None => Kept(pendingHandoff.call) /\ pc[pendingHandoff.call] \in Asking
        BY <1>2, <1>3, <1>8 DEF HandoffHolds, TypeOK
      <3>3. EventsGrow
        BY NumberTypes DEF EventsGrow
      <3> QED
        BY <3>1, <3>2, <3>3, HandoffKept DEF Kept
    <2> QED
      BY <2>1, <2>2
  <1>12. \A p \in retired' : Doomed(p)'
    <2>1. \A p \in retired : p \in Calls
      BY DEF TypeOK
    <2>2. o \notin retired
      BY <1>2, <1>5 DEF Doomed, Waiting, Asking, Settling
    <2> QED
      BY <2>1, <2>2, <1>1, <1>2, <1>3, <1>4, DoomedKept
  <1>13. ReadyShowsLive'
    BY <1>2 DEF ReadyShowsLive, Shows, LatestState
  <1> QED
    BY <1>9, <1>10, <1>11, <1>12, <1>13 DEF LoadsHold

\* A load begins, and the view is left alone.
LEMMA BeginStep ==
    ASSUME IInv, NEW o \in Calls, NEW loc \in Locals, BeginGatewayLoad(o, loc, cacheReadOnly),
           \/ /\ ~CacheEnabled /\ pc[o] = "idle" /\ loc.conversation \in Conversations
              /\ loc.ticket = 0 /\ loc.previous = None /\ loc.generation = 0 /\ loc.cursor = 0
           \/ /\ pc[o] \in {"announced", "displayed"} /\ loc = local[o] /\ ~TicketSuperseded(o),
           UNCHANGED <<setup, disposed, generation, conversationEpoch, historyRequestId,
                       gatewaySubscription, cacheVars, storeVars, result, events, delivered,
                       queue, phase, retired>>,
           Stacked', stack' \in Seq(Calls),
           sub' = sub \/ sub' = Closing(sub, local[o].previous),
           pc[o] = "displayed" => pendingCommits = <<>> /\ sub' = Closing(sub, local[o].previous)
    PROVE  IInv' /\ NoRegress /\ KeepsEvents
  <1>1. /\ TypeOK /\ CallHolds(o) /\ SubHolds(o) /\ SubsHold /\ CallsTyped /\ ViewsHold
        /\ LoadsHold /\ StackHolds /\ OwnedCommitted /\ OwnedMatchesView /\ ShownHolds
        /\ CallsHold /\ ClientTyped /\ CacheTyped /\ StoreTyped /\ GatewayTyped /\ NoCache
    BY TypeParts DEF IInv, CallsHold, SubsHold, StackHolds, ViewsHold, Settling
  <1> DEFINE k == [loc EXCEPT !.requestId = loadRequestId + 1]
             c == loc.conversation
  <1>2. /\ loadRequestId' = loadRequestId + 1
        /\ pendingLoad' = [conversation |-> c, requestId |-> loadRequestId + 1]
        /\ pendingHandoff' = IF ~cacheReadOnly /\ Shows(snapshot, c)
                             THEN [call |-> o, conversation |-> c,
                                   generation |-> generation, baseline |-> snapshot]
                             ELSE pendingHandoff
        /\ local' = [local EXCEPT ![o] = k]
        /\ pc' = [pc EXCEPT ![o] = "subscribing"]
    BY DEF BeginGatewayLoad
  <1>3. loadRequestId \in Nat /\ loadRequestId + 1 \in Nat
    BY <1>1, NumberTypes
  <1>4. /\ k \in Locals /\ k.conversation = c
        /\ k.ticket = loc.ticket /\ k.epoch = loc.epoch
        /\ k.requestId = loadRequestId + 1 /\ k.cursor = loc.cursor
        /\ k.generation = loc.generation /\ k.previous = loc.previous
    BY <1>3 DEF Locals
  <1> HIDE DEF k, c
  <1>5. /\ pc' \in [Calls -> PCs] /\ pc'[o] = "subscribing"
        /\ \A p \in Calls : p # o => pc'[p] = pc[p]
        /\ local' \in [Calls -> Locals] /\ local'[o] = k
        /\ \A p \in Calls : p # o => local'[p] = local[p]
    BY <1>1, <1>2, <1>4 DEF CallsTyped, PCs
  <1>6. /\ setup' = setup /\ View' = View /\ Locals' = Locals /\ MaxEvents' = MaxEvents
        /\ CacheEnabled' = CacheEnabled
    BY SameSets
  <1>7. c \in Conversations /\ loc.cursor = 0 /\ (CacheEnabled <=> loc.ticket # 0)
        /\ pc[o] \in {"idle", "announced", "displayed"}
        /\ (CacheEnabled => pc[o] # "idle" /\ loc = local[o] /\ ~TicketSuperseded(o))
    <2>1. CASE pc[o] = "idle"
      BY <2>1 DEF c
    <2>2. CASE pc[o] # "idle"
      BY <2>2, <1>1 DEF c, CallHolds, Waiting, Settling
    <2> QED
      BY <2>1, <2>2
  <1>8. /\ sub' \in [Calls -> {"none", "open", "closing", "closed"}]
        /\ \A p \in Calls  :
                 sub'[p] = sub[p] \/ (p = local[o].previous /\ sub[p] = "open" /\ sub'[p] = "closing")
        /\ pc[o] = "displayed" /\ local[o].previous # None => sub'[local[o].previous] # "open"
        /\ \A p \in Calls : SubStep(p) /\ (sub'[p] = "open" => sub[p] = "open")
    <2>1. CASE sub' = sub /\ pc[o] # "displayed"
      BY <2>1, <1>1 DEF SubStep, GatewayTyped
    <2>2. CASE sub' = Closing(sub, local[o].previous)
      <3>1. local[o].previous \in Calls \cup {None}
        BY <1>1, CallTypes
      <3>2. local[o].previous # None => pc[local[o].previous] \notin {"subscribing", "loading"}
        BY <1>1 DEF OwnedCommitted, PastCommit, Ending, Settling
      <3>3. /\ sub' \in [Calls -> {"none", "open", "closing", "closed"}]
            /\ \A p \in Calls  :
                  \/ sub'[p] = sub[p]
                  \/ p = local[o].previous /\ sub[p] = "open" /\ sub'[p] = "closing"
            /\ local[o].previous # None => sub'[local[o].previous] # "open"
        BY <2>2, <3>1, <1>1, ClosingFacts
      <3>4. \A p \in Calls : SubStep(p) /\ (sub'[p] = "open" => sub[p] = "open")
        BY <2>2, <3>1, <3>2, <1>1, ClosingSteps
      <3> QED
        BY <3>3, <3>4
    <2> QED
      BY <2>1, <2>2
  <1>9. OthersKept(o) /\ NumbersKept(o)
    <2>1. OthersKept(o)
      BY <1>5 DEF OthersKept, Kept
    <2>2. pc[o] # "idle" => loc = local[o] /\ CacheEnabled
      BY <1>1 DEF CallHolds, Waiting, Settling
    <2> QED
      BY <2>1, <2>2, <1>4, <1>5 DEF NumbersKept
  <1>10. TypeOK'
    <2>1. stack' \in Seq(Calls) /\ result' = result
      OBVIOUS
    <2>2. CallsTyped'
      BY <2>1, <1>1, <1>5, <1>6 DEF CallsTyped
    <2>3. ClientTyped'
      <3>1. pendingLoad' \in [conversation : Conversations \cup {None}, requestId : Nat]
        BY <1>2, <1>3, <1>7
      <3>2. pendingHandoff' \in [call : Calls \cup {None},
                           conversation : Conversations \cup {None},
                           generation : Nat, baseline : View \cup {None}]
        <4>1. pendingHandoff \in [call : Calls \cup {None},
                           conversation : Conversations \cup {None},
                           generation : Nat, baseline : View \cup {None}]
              /\ generation \in Nat /\ snapshot \in View \cup {None}
          BY <1>1, NumberTypes DEF ClientTyped
        <4>2. CASE ~cacheReadOnly /\ Shows(snapshot, c)
          BY <4>1, <4>2, <1>2, <1>7
        <4>3. CASE ~(~cacheReadOnly /\ Shows(snapshot, c))
          BY <4>1, <4>3, <1>2
        <4> QED
          BY <4>2, <4>3
      <3> QED
        BY <3>1, <3>2, <1>1, <1>2, <1>3, <1>6 DEF ClientTyped
    <2>4. GatewayTyped'
      BY <1>1, <1>6, <1>8 DEF GatewayTyped
    <2> QED
      BY <2>2, <2>3, <2>4, <1>1, <1>6, TypesKept, TypePartsNext DEF TypeOK
  <1>11. /\ UNCHANGED <<cacheRequestId, cacheReadOnly, cacheState, cacheEpoch, snapshot,
                        pendingCommits, entry>>
         /\ Steady
    BY DEF Steady, cacheVars, storeVars
  <1>12. CountersGrow
    BY <1>1, <1>2, <1>3, <1>11, NumberTypes DEF CountersGrow
  <1>13. CallHolds(o)'
    <2>1. loc.ticket <= cacheRequestId' /\ loc.generation <= generation'
          /\ local'[o].requestId <= loadRequestId'
          /\ local'[o].requestId # 0
          /\ (loc.ticket # 0 => loc.epoch <= cacheEpoch'[c])
      BY <1>1, <1>2, <1>3, <1>4, <1>5, <1>7, <1>11, NumberTypes DEF CallHolds, c, Settling
    <2>2. result'[o] = "none"
      BY <1>1, <1>7 DEF CallHolds, Settling
    <2> QED
      BY <2>1, <2>2, <1>4, <1>5, <1>6, <1>7 DEF CallHolds, Waiting, Asking, Ending, Settling
  <1>14. SubHolds(o)'
    <2>1. sub[o] = "none" /\ phase[o] = "buffering" /\ sub'[o] = "none"
      BY <1>1, <1>7, <1>8 DEF SubHolds, Waiting
    <2>2. \A m \in Elements(queue[o]) : m <= events[c]
      <3>1. CASE pc[o] = "idle"
        <4>1. local[o].conversation = None
          BY <3>1, <1>1 DEF CallHolds, NoLocals, Settling
        <4> QED
          BY <4>1, <1>1, NoneIsNothing DEF SubHolds
      <3>2. CASE pc[o] # "idle"
        BY <3>2, <1>1 DEF SubHolds, c
      <3> QED
        BY <3>1, <3>2
    <2> QED
      BY <2>1, <2>2, <1>4, <1>5, <1>7 DEF SubHolds, Waiting, Asking, Elements
  <1>15. pc[o] \notin PastCommit /\ pc'[o] \notin Showing /\ pc'[o] \notin Holding
         /\ (pc[o] \in Showing => pc[o] = "displayed")
         /\ (pc[o] \in Holding => pc[o] = "displayed") /\ pc[o] \notin {"subscribing", "loading"}
    BY <1>5, <1>7 DEF PastCommit, Ending, Showing, Publishing, Holding, StorePublishing, Settling
  <1>16. NoSubscriptionLeak'
    <2>1. pc[o] \in Holding /\ local[o].previous # None => sub'[local[o].previous] # "open"
      BY <1>8, <1>15
    <2> QED
      BY <2>1, <1>1, <1>8, <1>9, <1>15, NoLeakKept DEF SubsHold
  <1>17. gatewaySubscription # None => sub'[gatewaySubscription] = sub[gatewaySubscription]
    BY <1>1, <1>8, NumberTypes DEF OwnedCommitted
  <1>18. gatewaySubscription # o
    BY <1>1, <1>15, NoneIsNothing DEF OwnedCommitted
  <1>19. ContentHolds(o)' /\ NoCache'
    BY <1>1, <1>5, <1>6, <1>11 DEF ContentHolds, NoCache
  <1>20. LoadsHold'
    <2>1. /\ local'[o].requestId = loadRequestId + 1 /\ local'[o].conversation = c
          /\ pendingLoad'.conversation = c /\ pendingLoad'.requestId = loadRequestId + 1
      BY <1>2, <1>4, <1>5
    <2>2. CacheEnabled => /\ local'[o].ticket = local[o].ticket
                          /\ local'[o].epoch = local[o].epoch
                          /\ local'[o].conversation = local[o].conversation
      BY <1>4, <1>5, <1>7 DEF c
    <2>3. generation <= generation' /\ (~CacheEnabled => local'[o].ticket = 0)
      BY <1>1, <1>4, <1>5, <1>7, NumberTypes
    <2>4. pendingHandoff' = IF ~cacheReadOnly' /\ Shows(snapshot, local'[o].conversation)
                             THEN [call |-> o, conversation |-> local'[o].conversation,
                                   generation |-> generation, baseline |-> snapshot]
                             ELSE pendingHandoff
      BY <2>1, <1>2, <1>11
    <2> QED
      BY <2>1, <2>2, <2>3, <2>4, <1>1, <1>2, <1>5, <1>7, <1>9, <1>10, <1>11, BegunLoads
  <1>21. /\ local'[o].requestId > loadRequestId
         /\ local'[o].ticket \in {0, local[o].ticket}
         /\ local'[o].previous \in {None, local[o].previous}
    BY <1>3, <1>4, <1>5, <1>7
  <1>22. \A p \in Calls : p # o => SubStep(p)
    BY <1>8
  <1> QED
    BY <1>9, <1>10, <1>11, <1>12, <1>13, <1>14, <1>15, <1>16, <1>17, <1>18, <1>19, <1>20, <1>21,
       <1>22, SteadyStep

\* A load that was overtaken before it asked the server ends.
LEMMA OvertakenStep ==
    ASSUME IInv, NEW o \in Calls, pc[o] \in Waiting,
           pc' = [pc EXCEPT ![o] = "done"], result' = [result EXCEPT ![o] = "rejected"],
           UNCHANGED <<setup, clientVars, cacheRequestId, cacheReadOnly, cacheState, cleared,
                       cacheEpoch, stored, storeVars, local, events, delivered, queue, phase,
                       retired>>,
           Stacked', stack' \in Seq(Calls),
           sub' = sub \/ sub' = Closing(sub, local[o].previous),
           pc[o] = "displayed" => pendingCommits = <<>> /\ sub' = Closing(sub, local[o].previous),
           entry' \in [Conversations -> View \cup {None}],
           \A c \in Conversations :
              \/ entry'[c] \in {entry[c], None}
              \/ entry'[c].conversation = c /\ entry'[c].events = {}
    PROVE  IInv' /\ NoRegress /\ KeepsEvents
  <1>1. /\ TypeOK /\ CallHolds(o) /\ SubHolds(o) /\ SubsHold /\ CallsTyped
        /\ LoadsHold /\ StackHolds /\ OwnedCommitted
        /\ CallsHold /\ CacheTyped /\ GatewayTyped
    BY TypeParts DEF IInv, CallsHold, SubsHold, StackHolds, Settling
  <1>2. /\ pc' \in [Calls -> PCs] /\ pc'[o] = "done"
        /\ \A p \in Calls : p # o => pc'[p] = pc[p] /\ result'[p] = result[p]
        /\ result' \in [Calls -> {"none", "ok", "rejected", "notFound"}] /\ result'[o] = "rejected"
    BY <1>1 DEF CallsTyped, PCs
  <1>3. setup' = setup /\ View' = View /\ Locals' = Locals /\ MaxEvents' = MaxEvents
        /\ CacheEnabled' = CacheEnabled
    BY SameSets
  <1>4. /\ sub' \in [Calls -> {"none", "open", "closing", "closed"}]
        /\ \A p \in Calls  :
                 sub'[p] = sub[p] \/ (p = local[o].previous /\ sub[p] = "open" /\ sub'[p] = "closing")
        /\ pc[o] = "displayed" /\ local[o].previous # None => sub'[local[o].previous] # "open"
        /\ \A p \in Calls : SubStep(p) /\ (sub'[p] = "open" => sub[p] = "open")
    <2>1. CASE sub' = sub /\ pc[o] # "displayed"
      BY <2>1, <1>1 DEF SubStep, GatewayTyped
    <2>2. CASE sub' = Closing(sub, local[o].previous)
      <3>1. local[o].previous \in Calls \cup {None}
        BY <1>1, CallTypes
      <3>2. local[o].previous # None => pc[local[o].previous] \notin {"subscribing", "loading"}
        BY <1>1 DEF OwnedCommitted, PastCommit, Ending, Settling
      <3>3. /\ sub' \in [Calls -> {"none", "open", "closing", "closed"}]
            /\ \A p \in Calls  :
                  \/ sub'[p] = sub[p]
                  \/ p = local[o].previous /\ sub[p] = "open" /\ sub'[p] = "closing"
            /\ local[o].previous # None => sub'[local[o].previous] # "open"
        BY <2>2, <3>1, <1>1, ClosingFacts
      <3>4. \A p \in Calls : SubStep(p) /\ (sub'[p] = "open" => sub[p] = "open")
        BY <2>2, <3>1, <3>2, <1>1, ClosingSteps
      <3> QED
        BY <3>3, <3>4
    <2> QED
      BY <2>1, <2>2
  <1>5. OthersKept(o) /\ NumbersKept(o) /\ local' = local
    BY <1>2 DEF OthersKept, Kept, NumbersKept
  <1>6. TypeOK'
    <2>1. stack' \in Seq(Calls) /\ local' = local
      OBVIOUS
    <2>2. CallsTyped'
      BY <2>1, <1>1, <1>2, <1>3 DEF CallsTyped
    <2>3. CacheTyped'
      BY <1>1, <1>3 DEF CacheTyped
    <2>4. GatewayTyped'
      BY <1>1, <1>3, <1>4 DEF GatewayTyped
    <2> QED
      BY <2>2, <2>3, <2>4, <1>1, <1>3, TypesKept, TypePartsNext DEF TypeOK
  <1>7. Quiet /\ UNCHANGED <<snapshot, pendingCommits>>
    BY DEF Quiet, clientVars, storeVars
  <1>8. pc[o] \notin PastCommit /\ pc'[o] \in PastCommit /\ pc'[o] \notin Showing
        /\ pc'[o] \notin Holding /\ (pc[o] \in Showing => pc[o] = "displayed")
        /\ (pc[o] \in Holding => pc[o] = "displayed") /\ pc[o] \notin {"subscribing", "loading"}
    BY <1>2 DEF PastCommit, Ending, Showing, Publishing, Holding, Waiting, StorePublishing,
                Settling
  <1>9. CallHolds(o)'
    BY <1>1, <1>2, <1>3, <1>5, <1>7 DEF CallHolds, Waiting, Asking, Ending, Quiet, Settling
  <1>10. SubHolds(o)'
    <2>1. sub'[o] # "none" => sub[o] # "none"
      BY <1>4
    <2> QED
      BY <2>1, <1>1, <1>2, <1>5, SubKeptPast DEF Waiting, Asking
  <1>11. NoSubscriptionLeak'
    <2>1. pc[o] \in Holding /\ local[o].previous # None => sub'[local[o].previous] # "open"
      BY <1>4, <1>8
    <2> QED
      BY <2>1, <1>1, <1>4, <1>5, <1>7, <1>8, NoLeakKept DEF SubsHold, Quiet
  <1>12. gatewaySubscription # None => sub'[gatewaySubscription] = sub[gatewaySubscription]
    BY <1>1, <1>4, NumberTypes DEF OwnedCommitted
  <1>13. gatewaySubscription # o
    BY <1>1, <1>8, NoneIsNothing DEF OwnedCommitted
  <1>14. ContentHolds(o)' /\ CurrentHolds(o)' /\ TicketHolds(o)'
    BY <1>2 DEF ContentHolds, CurrentHolds, Current, TicketHolds, Waiting, Asking, Ending
  <1>15. Doomed(o)'
    BY <1>2 DEF Doomed, Settling
  <1>16. pendingHandoff.call # o
    BY <1>1, NoneIsNothing DEF LoadsHold, HandoffHolds, Asking, Waiting
  <1>17. local[o].requestId = 0
    BY <1>1 DEF CallHolds, Settling
  <1>18. \A p \in Calls : (p # o => phase'[p] = phase[p] /\ SubStep(p))
    BY <1>4
  <1> QED
    BY <1>5, <1>6, <1>7, <1>8, <1>9, <1>10, <1>11, <1>12, <1>13, <1>14, <1>15, <1>16, <1>17,
       <1>18, CallStep

\* loadConversation without a cache.
LEMMA StartLoadStep ==
    ASSUME IInv, NEW o \in Calls, NEW c \in Known, StartLoad(o, c)
    PROVE  IInv' /\ NoRegress /\ KeepsEvents
  <1>1. TypeOK /\ StackHolds /\ Stacked
    BY DEF IInv, StackHolds
  <1> DEFINE loc == [NoLocals EXCEPT !.conversation = c]
  <1>2. /\ ~CacheEnabled /\ pc[o] = "idle" /\ BeginGatewayLoad(o, loc, cacheReadOnly)
        /\ UNCHANGED <<setup, disposed, generation, conversationEpoch, historyRequestId,
                       gatewaySubscription, cacheVars, storeVars, stack, result, gatewayVars,
                       retired>>
    BY DEF StartLoad
  <1>3. /\ c \in Conversations /\ loc \in Locals /\ loc.conversation = c /\ loc.ticket = 0
        /\ loc.previous = None /\ loc.generation = 0 /\ loc.cursor = 0
    BY <1>1, SetupFacts DEF Locals, NoLocals
  <1> HIDE DEF loc
  <1>4. \A p \in Calls : pc'[p] \in Publishing <=> pc[p] \in Publishing
    BY <1>1, <1>2 DEF BeginGatewayLoad, Publishing, TypeOK, StorePublishing
  <1>5. Stacked' /\ stack' \in Seq(Calls)
    BY <1>1, <1>2, <1>4, StackSame, NumberTypes
  <1>6. UNCHANGED <<events, delivered, queue, phase, sub>>
    BY <1>2 DEF gatewayVars
  <1> QED
    BY <1>2, <1>3, <1>5, <1>6, BeginStep

\* The top of the stack leaves its publication.
LEMMA PoppedStack ==
    ASSUME TypeOK, Stacked, NEW o \in Calls, stack # <<>>, o = Top,
           stack' = SubSeq(stack, 1, Len(stack) - 1), NEW q \in PCs \ Publishing,
           pc' = [pc EXCEPT ![o] = q]
    PROVE  Stacked' /\ stack' \in Seq(Calls)
  <1>1. stack \in Seq(Calls) /\ pc \in [Calls -> PCs]
    BY DEF TypeOK
  <1>2. stack' \in Seq(Calls)
    <2>1. Len(stack) \in Nat
      BY <1>1
    <2>2. \A i \in 1..(Len(stack) - 1) : stack[i] \in Calls
      BY <1>1, <2>1, ElementsTyped
    <2> QED
      BY <1>1, <2>1, <2>2
  <1>3. pc'[o] \notin Publishing /\ \A p \in Calls : p # o => pc'[p] = pc[p]
    BY <1>1
  <1> QED
    BY <1>2, <1>3, StackPop

\* The listeners of the cached view have returned.
LEMMA DisplayedReturnsStep ==
    ASSUME IInv, NEW o \in Calls, DisplayedReturns(o)
    PROVE  IInv' /\ NoRegress /\ KeepsEvents
  <1>1. TypeOK /\ StackHolds /\ Stacked /\ CacheTyped /\ local[o] \in Locals
    BY TypeParts, CallTypes DEF IInv, StackHolds
  <1>2. /\ stack # <<>> /\ o = Top /\ pc[o] = "displayed" /\ pendingCommits = <<>>
        /\ sub' = Closing(sub, local[o].previous)
        /\ stack' = SubSeq(stack, 1, Len(stack) - 1)
        /\ UNCHANGED <<setup, disposed, generation, conversationEpoch, historyRequestId,
                   gatewaySubscription, cacheVars, storeVars, events, delivered,
                   queue, phase, retired>>
    BY DEF DisplayedReturns
  <1>3. CASE TicketSuperseded(o)
    <2>1. /\ pc' = [pc EXCEPT ![o] = "done"] /\ result' = [result EXCEPT ![o] = "rejected"]
          /\ UNCHANGED <<loadRequestId, pendingLoad, pendingHandoff, local>>
      BY <1>3 DEF DisplayedReturns
    <2>2. Stacked' /\ stack' \in Seq(Calls)
      <3>1. "done" \in PCs \ Publishing
        BY DEF PCs, Publishing, StorePublishing
      <3> QED
        BY <3>1, <2>1, <1>1, <1>2, PoppedStack
    <2>3. /\ UNCHANGED <<clientVars, cacheRequestId, cacheReadOnly, cacheState, cleared,
                       cacheEpoch, stored, entry>>
      BY <2>1, <1>2 DEF clientVars, cacheVars
    <2>4. entry' \in [Conversations -> View \cup {None}]
      BY <2>3, <1>1 DEF CacheTyped
    <2> QED
      BY <1>2, <2>1, <2>2, <2>3, <2>4, OvertakenStep DEF Waiting
  <1>4. CASE ~TicketSuperseded(o)
    <2>1. BeginGatewayLoad(o, local[o], cacheReadOnly) /\ result' = result
      BY <1>4 DEF DisplayedReturns
    <2>2. Stacked' /\ stack' \in Seq(Calls)
      <3>1. "subscribing" \in PCs \ Publishing /\ pc' = [pc EXCEPT ![o] = "subscribing"]
        BY <2>1 DEF PCs, Publishing, BeginGatewayLoad, StorePublishing
      <3> QED
        BY <3>1, <1>1, <1>2, PoppedStack
    <2> QED
      BY <1>1, <1>2, <1>4, <2>1, <2>2, BeginStep
  <1> QED
    BY <1>3, <1>4

\* Who was announced last has overtaken all others.
LEMMA AnnouncedLoads ==
    ASSUME TypeOK, TypeOK', CallsHold, LoadsHold, NEW o \in Calls, OthersKept(o), CacheEnabled,
           UNCHANGED <<setup, disposed, generation, loadRequestId, pendingLoad, pendingHandoff,
                       cacheRequestId, cacheEpoch, events, retired, local>>,
           pc[o] = "restoring", ~TicketSuperseded(o), pc'[o] = "announced",
           cacheState' = Syncing(local[o].conversation)
    PROVE  LoadsHold'
  <1>1. \A p \in Calls : /\ CurrentHolds(p) /\ TicketHolds(p) /\ CallHolds(p)
    BY DEF LoadsHold, CallsHold, Settling
  <1>2. HandoffHolds /\ \A p \in retired : Doomed(p)
    BY DEF LoadsHold
  <1>3. \A p \in Calls : p # o => Kept(p)
    BY DEF OthersKept
  <1>4. CountersGrow /\ EventsGrow
    BY NumberTypes DEF CountersGrow, EventsGrow
  <1>5. local[o].ticket # 0
    BY <1>1 DEF CallHolds, Waiting, Settling
  <1>6. ASSUME NEW p \in Calls PROVE CurrentHolds(p)' /\ TicketHolds(p)'
    <2>1. CASE p = o
      <3>1. pendingLoad'.requestId = 0
        BY <1>1, <1>5 DEF TicketHolds, Waiting
      <3> QED
        BY <2>1, <3>1 DEF CurrentHolds, Current, Asking, TicketHolds, Ending, Syncing
    <2>2. CASE p # o
      <3>1. Kept(p)
        BY <2>2, <1>3
      <3>2. ~Current(p) /\ (local[p].ticket = 0 \/ TicketSuperseded(p))
        BY <2>2, <1>5, OneCurrent
      <3> QED
        BY <3>1, <3>2, <1>1, <1>4, OutOfRace
    <2> QED
      BY <2>1, <2>2
  <1>7. HandoffHolds'
    <2>1. pendingHandoff.call # None => pc'[pendingHandoff.call] \in Asking
      <3>1. pendingHandoff.call # o
        BY <1>2, NoneIsNothing DEF HandoffHolds, Asking
      <3> QED
        BY <3>1, <1>2, <1>3 DEF HandoffHolds, Kept, TypeOK
    <2> QED
      BY <2>1, <1>4, HandoffKept
  <1>8. \A p \in retired' : Doomed(p)'
    <2>1. \A p \in retired : p \in Calls
      BY DEF TypeOK
    <2>2. o \notin retired
      BY <1>2 DEF Doomed, Waiting, Asking, Settling
    <2> QED
      BY <2>1, <2>2, <1>1, <1>2, <1>3, <1>4, DoomedKept
  <1>9. ReadyShowsLive'
    BY DEF ReadyShowsLive, Syncing
  <1> QED
    BY <1>6, <1>7, <1>8, <1>9 DEF LoadsHold

\* The storage read settles.
LEMMA RestoreReturnsStep ==
    ASSUME IInv, NEW o \in Calls, RestoreReturns(o)
    PROVE  IInv' /\ NoRegress /\ KeepsEvents
  <1>1. /\ TypeOK /\ CallHolds(o) /\ SubHolds(o) /\ SubsHold /\ CallsTyped
        /\ LoadsHold /\ StackHolds /\ Stacked /\ OwnedCommitted /\ CallsHold /\ CacheTyped
    BY TypeParts DEF IInv, CallsHold, SubsHold, StackHolds, Settling
  <1> DEFINE c == local[o].conversation
             disk == [conversation |-> c, load |-> None, events |-> {},
                      pages |-> {1}, cursor |-> 1]
  <1>2. /\ Settled /\ pc[o] = "restoring" /\ local' = local
        /\ entry' = IF disposed \/ local[o].epoch # cacheEpoch[c] \/ c \notin stored
                    THEN entry ELSE [entry EXCEPT ![c] = disk]
        /\ UNCHANGED <<setup, clientVars, cacheRequestId, cacheReadOnly, cleared, cacheEpoch,
                       stored, storeVars, gatewayVars, retired>>
    BY DEF RestoreReturns
  <1>3. c \in Conversations /\ CacheEnabled
    BY <1>1, <1>2 DEF CallHolds, Waiting, Settling
  <1>4. disk \in View /\ disk.conversation = c /\ disk.events = {}
    BY <1>1, <1>3, SetupFacts DEF View, ViewsOf, MaxPages
  <1> HIDE DEF disk
  <1>5. /\ entry' \in [Conversations -> View \cup {None}]
        /\ \A d \in Conversations :
              \/ entry'[d] \in {entry[d], None}
              \/ entry'[d].conversation = d /\ entry'[d].events = {}
    <2>1. entry \in [Conversations -> View \cup {None}]
      BY <1>1 DEF CacheTyped
    <2> HIDE DEF c
    <2>2. CASE entry' = entry
      BY <2>1, <2>2
    <2>3. CASE entry' = [entry EXCEPT ![c] = disk]
      BY <2>1, <2>3, <1>3, <1>4
    <2> QED
      BY <2>2, <2>3, <1>2 DEF c
  <1>6. UNCHANGED <<events, delivered, queue, phase, sub>>
    BY <1>2 DEF gatewayVars
  <1>7. stack \in Seq(Calls)
    BY <1>1, NumberTypes
  <1>8. CASE TicketSuperseded(o)
    <2>1. /\ pc' = [pc EXCEPT ![o] = "done"] /\ result' = [result EXCEPT ![o] = "rejected"]
          /\ UNCHANGED <<cacheState, stack, local>>
      BY <1>8 DEF RestoreReturns
    <2>2. Stacked'
      <3>1. \A p \in Calls : pc'[p] \in Publishing <=> pc[p] \in Publishing
        BY <2>1, <1>1, <1>2 DEF Publishing, CallsTyped, StorePublishing
      <3> QED
        BY <3>1, <2>1, <1>1, StackSame
    <2> QED
      BY <1>2, <1>5, <1>6, <1>7, <2>1, <2>2, OvertakenStep DEF Waiting
  <1>9. CASE ~TicketSuperseded(o)
    <2>1. /\ pc' = [pc EXCEPT ![o] = "announced"]
          /\ cacheState' = Syncing(c) /\ stack' = <<o>> /\ result' = result
      BY <1>9 DEF RestoreReturns, Syncing
    <2>2. /\ pc' \in [Calls -> PCs] /\ pc'[o] = "announced"
          /\ \A p \in Calls : p # o => pc'[p] = pc[p]
      BY <2>1, <1>1 DEF CallsTyped, PCs
    <2>3. setup' = setup /\ View' = View /\ Locals' = Locals /\ CacheEnabled' = CacheEnabled
      BY <1>2, SameSets
    <2>4. TypeOK'
      <3>1. CallsTyped'
        <4>1. stack' \in Seq(Calls) /\ local' = local
          BY <2>1, <1>2
        <4> QED
          BY <4>1, <2>1, <2>2, <2>3, <1>1 DEF CallsTyped
      <3>2. CacheTyped'
        <4>1. cacheState' \in [conversation : Conversations \cup {None},
                               status : {"idle", "syncing", "ready", "error"}]
          BY <2>1, <1>3 DEF Syncing
        <4> QED
          BY <4>1, <2>3, <1>1, <1>2, <1>5 DEF CacheTyped
      <3> QED
        BY <3>1, <3>2, <2>3, <1>1, <1>2, TypesKept, TypePartsNext DEF TypeOK
    <2>5. OthersKept(o) /\ NumbersKept(o)
      BY <2>1, <2>2, <1>2 DEF OthersKept, NumbersKept, Kept
    <2>6. /\ Steady /\ UNCHANGED <<setup, disposed, generation, loadRequestId, pendingLoad,
                       pendingHandoff, cacheRequestId, cacheEpoch, events, retired, local>>
      BY <1>2, <1>6 DEF Steady, clientVars, storeVars
    <2>7. CountersGrow
      BY <2>6, <1>1, NumberTypes DEF CountersGrow
    <2>8. Stacked'
      <3>1. stack' = Append(stack, o) /\ pc[o] \notin Publishing /\ pc'[o] \in Publishing
        BY <2>1, <2>2, <1>2 DEF Settled, Publishing, StorePublishing
      <3> QED
        BY <3>1, <2>2, <1>1, StackPush
    <2>9. CallHolds(o)'
      BY <2>1, <2>2, <2>3, <2>6, <1>1, <1>2 DEF CallHolds, Waiting, Asking, Ending, Settling
    <2>10. SubHolds(o)'
      BY <2>2, <1>1, <1>2, <1>6 DEF SubHolds, Waiting, Asking, Elements
    <2>11. pc[o] \notin PastCommit /\ pc[o] \notin Holding /\ pc'[o] \notin Showing
           /\ pc[o] \notin Showing
      BY <2>2, <1>2 DEF PastCommit, Ending, Holding, Showing, Publishing, StorePublishing,
                        Settling
    <2>12. NoSubscriptionLeak'
      BY <2>5, <2>6, <2>11, <1>1, <1>2, <1>6, NoLeakKept DEF SubsHold, Steady
    <2>13. ContentHolds(o)' /\ NoCache' /\ gatewaySubscription # o
      BY <2>2, <2>3, <2>11, <1>1, <1>3, NoneIsNothing DEF ContentHolds, NoCache, OwnedCommitted
    <2>14. LoadsHold'
      BY <2>1, <2>2, <2>4, <2>5, <2>6, <1>1, <1>2, <1>3, <1>9, AnnouncedLoads
    <2>15. \A p \in Calls : p # o => SubStep(p)
      BY <1>6 DEF SubStep
    <2>16. /\ local[o].requestId = 0 /\ local'[o] = local[o]
           /\ (gatewaySubscription # None => sub'[gatewaySubscription] = sub[gatewaySubscription])
           /\ \A d \in Conversations : \/ entry'[d] \in {entry[d], None}
                                       \/ /\ entry'[d].conversation = d
                                          /\ \/ entry'[d].events = {}
                                             \/ entry'[d] = snapshot /\ snapshot # None
      BY <1>1, <1>2, <1>5, <1>6 DEF CallHolds, Waiting, Settling
    <2> QED
      BY <2>4, <2>5, <2>6, <2>7, <2>8, <2>9, <2>10, <2>11, <2>12, <2>13, <2>14, <2>15, <2>16,
         SteadyStep
  <1> QED
    BY <1>8, <1>9

\* cancelPendingConversationLoad overtakes every load.
LEMMA CancelledRace ==
    ASSUME TypeOK, TypeOK', CallsHold, LoadsHold, CancelPending, setup' = setup,
           generation <= generation', disposed' = disposed,
           \A c \in Conversations : cacheEpoch[c] <= cacheEpoch'[c]
    PROVE  /\ CountersGrow
           /\ \A p \in Calls : Kept(p) => /\ ~Current(p)'
                                          /\ local[p].ticket # 0 => TicketSuperseded(p)'
           /\ disposed \/ pendingLoad'.requestId = 0
           /\ pendingHandoff' \in {pendingHandoff, NoHandoff}
           /\ pendingLoad' \in {pendingLoad, NoLoad}
           /\ loadRequestId' \in Nat /\ cacheRequestId' = cacheRequestId + 1
           /\ cacheRequestId \in Nat
  <1>1. /\ cacheRequestId' = cacheRequestId + 1
        /\ IF disposed \/ pendingLoad.requestId = 0
           THEN UNCHANGED <<loadRequestId, pendingLoad, pendingHandoff>>
           ELSE /\ loadRequestId' = loadRequestId + 1
                /\ pendingLoad' = NoLoad
                /\ pendingHandoff' = NoHandoff
    BY DEF CancelPending
  <1>2. loadRequestId \in Nat /\ cacheRequestId \in Nat
    BY NumberTypes
  <1>3. CountersGrow
    BY <1>1, <1>2, NumberTypes DEF CountersGrow
  <1>4. ASSUME NEW p \in Calls, Kept(p)
        PROVE  ~Current(p)' /\ (local[p].ticket # 0 => TicketSuperseded(p)')
    <2>1. CallHolds(p) /\ CurrentHolds(p)
      BY DEF CallsHold, LoadsHold, Settling
    <2>2. ~Current(p)'
      <3>1. CASE ~Current(p)
        BY <3>1, <1>3, <1>4, <2>1, OutOfRace
      <3>2. CASE Current(p)
        <4>1. local[p].requestId = loadRequestId /\ local[p].requestId # 0 /\ ~disposed
              /\ pendingLoad.requestId = loadRequestId
          BY <3>2, <2>1 DEF Current, LoadSuperseded, CallHolds, CurrentHolds, Settling
        <4>2. loadRequestId' = loadRequestId + 1
          BY <4>1, <1>1
        <4> QED
          BY <4>1, <4>2, <1>2, <1>4 DEF Current, LoadSuperseded, Kept
      <3> QED
        BY <3>1, <3>2
    <2>3. local[p].ticket # 0 => TicketSuperseded(p)'
      <3>1. local[p].ticket <= cacheRequestId /\ local[p].ticket \in Nat
        BY <2>1, CallTypes DEF CallHolds, Settling
      <3>2. local'[p].ticket # cacheRequestId'
        BY <3>1, <1>1, <1>2, <1>4 DEF Kept
      <3> QED
        BY <3>2 DEF TicketSuperseded
    <2> QED
      BY <2>2, <2>3
  <1>5. loadRequestId' \in Nat
    BY <1>1, <1>2
  <1> QED
    BY <1>1, <1>2, <1>3, <1>4, <1>5 DEF NoLoad

\* A step after which no other load is current, and no other ticket is the last one.
LEMMA OvertakenLoads ==
    ASSUME TypeOK, TypeOK', CallsHold, LoadsHold, CountersGrow, setup' = setup, events' = events,
           NEW o \in Calls, OthersKept(o), pc[o] \notin Asking,
           \A p \in Calls : p # o => /\ ~Current(p)'
                                     /\ local[p].ticket # 0 => TicketSuperseded(p)',
           pendingHandoff' \in {pendingHandoff, NoHandoff},
           CurrentHolds(o)', TicketHolds(o)', retired' = retired, o \in retired => Doomed(o)',
           ReadyShowsLive'
    PROVE  LoadsHold'
  <1>1. \A p \in Calls : CallHolds(p)
    BY DEF CallsHold, Settling
  <1>2. HandoffHolds /\ \A p \in retired : Doomed(p)
    BY DEF LoadsHold
  <1>3. \A p \in Calls : p # o => Kept(p)
    BY DEF OthersKept
  <1>4. EventsGrow
    BY NumberTypes DEF EventsGrow
  <1>5. ASSUME NEW p \in Calls PROVE CurrentHolds(p)' /\ TicketHolds(p)'
    <2>1. CASE p = o
      BY <2>1
    <2>2. CASE p # o
      <3>1. Kept(p) /\ CallHolds(p)
        BY <2>2, <1>1, <1>3
      <3>2. ~Current(p)' /\ (local[p].ticket = 0 \/ TicketSuperseded(p)')
        BY <2>2
      <3> QED
        BY <3>1, <3>2, OutOfRace
    <2> QED
      BY <2>1, <2>2
  <1>6. HandoffHolds'
    <2>1. CASE pendingHandoff' = NoHandoff
      BY <2>1 DEF HandoffHolds, NoHandoff
    <2>2. CASE pendingHandoff' = pendingHandoff
      <3>1. pendingHandoff.call # None => /\ pc'[pendingHandoff.call] \in Asking
                                          /\ local'[pendingHandoff.call].conversation
                                                = local[pendingHandoff.call].conversation
        <4>1. pendingHandoff.call # o
          BY <1>2, NoneIsNothing DEF HandoffHolds
        <4> QED
          BY <4>1, <1>2, <1>3 DEF HandoffHolds, Kept, TypeOK
      <3> QED
        BY <2>2, <3>1, <1>4, HandoffKept
    <2> QED
      BY <2>1, <2>2
  <1>7. \A p \in retired' : Doomed(p)'
    <2>1. \A p \in retired : p \in Calls
      BY DEF TypeOK
    <2> QED
      BY <2>1, <1>1, <1>2, <1>3, DoomedKept
  <1> QED
    BY <1>5, <1>6, <1>7 DEF LoadsHold

\* loadConversation with a cache.
LEMMA StartCachedLoadStep ==
    ASSUME IInv, NEW o \in Calls, NEW c \in Known, StartCachedLoad(o, c)
    PROVE  IInv' /\ NoRegress /\ KeepsEvents
  <1>1. /\ TypeOK /\ CallHolds(o) /\ SubHolds(o) /\ SubsHold /\ CallsTyped /\ ClientTyped
        /\ LoadsHold /\ StackHolds /\ Stacked /\ OwnedCommitted /\ CallsHold /\ CacheTyped
    BY TypeParts DEF IInv, CallsHold, SubsHold, StackHolds, Settling
  <1> DEFINE k == [NoLocals EXCEPT !.conversation = c, !.ticket = cacheRequestId + 1,
                                   !.epoch = cacheEpoch[c]]
  <1>2. /\ CacheEnabled /\ pc[o] = "idle" /\ ~disposed
        /\ CancelPending /\ entry' = CapturedEntries
        /\ local' = [local EXCEPT ![o] = k]
        /\ UNCHANGED <<setup, disposed, generation, conversationEpoch, historyRequestId,
                   gatewaySubscription, cacheReadOnly, cleared, cacheEpoch, stored,
                   storeVars, result, gatewayVars, retired>>
        /\ \/ /\ pc' = [pc EXCEPT ![o] = "restoring"]
              /\ UNCHANGED <<cacheState, stack>>
           \/ /\ pc' = [pc EXCEPT ![o] = "announced"]
              /\ cacheState' = Syncing(c)
              /\ stack' = Append(stack, o)
    BY DEF StartCachedLoad, Syncing
  <1>3. c \in Conversations /\ cacheEpoch[c] \in Nat /\ cacheRequestId \in Nat
        /\ cacheRequestId' = cacheRequestId + 1 /\ stack \in Seq(Calls)
    BY <1>1, <1>2, SetupFacts, NumberTypes DEF CancelPending
  <1>4. /\ k \in Locals /\ k.conversation = c /\ k.ticket = cacheRequestId + 1
        /\ k.epoch = cacheEpoch[c] /\ k.requestId = 0 /\ k.cursor = 0
        /\ k.generation = 0 /\ k.previous = None
    <2>1. PICK b \in Locals : /\ b = NoLocals /\ b.requestId = 0 /\ b.cursor = 0
                              /\ b.generation = 0 /\ b.previous = None
      BY <1>1, NoLocalsTyped DEF NoLocals
    <2>2. k = [b EXCEPT !.conversation = c, !.ticket = cacheRequestId + 1,
                        !.epoch = cacheEpoch[c]]
      BY <2>1
    <2>3. cacheRequestId + 1 \in Nat
      BY <1>3
    <2> HIDE DEF k
    <2> QED
      BY <2>1, <2>2, <2>3, <1>3 DEF Locals
  <1> HIDE DEF k
  <1>5. /\ pc' \in [Calls -> PCs] /\ pc'[o] \in {"restoring", "announced"}
        /\ \A p \in Calls : p # o => pc'[p] = pc[p]
        /\ local' \in [Calls -> Locals] /\ local'[o] = k
        /\ \A p \in Calls : p # o => local'[p] = local[p]
    <2>1. pc \in [Calls -> PCs] /\ local \in [Calls -> Locals]
      BY <1>1 DEF CallsTyped
    <2>2. /\ local' \in [Calls -> Locals] /\ local'[o] = k
          /\ \A p \in Calls : p # o => local'[p] = local[p]
      BY <2>1, <1>2, <1>4
    <2>3. PICK q \in {"restoring", "announced"} : pc' = [pc EXCEPT ![o] = q]
      BY <1>2
    <2>4. q \in PCs
      BY DEF PCs
    <2>5. pc' \in [Calls -> PCs] /\ pc'[o] = q /\ \A p \in Calls : p # o => pc'[p] = pc[p]
      BY <2>1, <2>3, <2>4
    <2> QED
      BY <2>2, <2>5
  <1>6. /\ setup' = setup /\ View' = View /\ Locals' = Locals /\ CacheEnabled' = CacheEnabled
        /\ result' = result
    BY <1>2, SameSets
  <1>7. OthersKept(o) /\ NumbersKept(o)
    BY <1>2, <1>5, <1>6 DEF OthersKept, NumbersKept, Kept
  <1>8. /\ pendingHandoff' \in {pendingHandoff, NoHandoff} /\ pendingLoad' \in {pendingLoad, NoLoad}
        /\ loadRequestId' \in Nat
    <2>1. loadRequestId \in Nat /\ loadRequestId + 1 \in Nat
      BY <1>1, NumberTypes
    <2> QED
      BY <2>1, <1>2 DEF CancelPending
  <1>9. TypeOK'
    <2>1. CallsTyped'
      <3>1. stack' \in Seq(Calls)
        BY <1>2, <1>3
      <3> QED
        BY <3>1, <1>1, <1>5, <1>6 DEF CallsTyped
    <2>2. CacheTyped'
      <3>1. cacheState' \in [conversation : Conversations \cup {None},
                             status : {"idle", "syncing", "ready", "error"}]
        BY <1>1, <1>2, <1>3 DEF Syncing, CacheTyped
      <3>2. cacheRequestId' \in Nat /\ entry' \in [Conversations -> View \cup {None}]
        BY <1>1, <1>2, <1>3, CapturedFacts
      <3>3. UNCHANGED <<cacheReadOnly, cleared, cacheEpoch, stored>>
        BY <1>2
      <3> QED
        BY <3>1, <3>2, <3>3, <1>1, <1>6 DEF CacheTyped
    <2>3. ClientTyped'
      BY <1>1, <1>2, <1>6, <1>8 DEF ClientTyped, NoLoad, NoHandoff
    <2> QED
      BY <2>1, <2>2, <2>3, <1>1, <1>2, <1>6, TypesKept, TypePartsNext DEF TypeOK
  <1>10. generation \in Nat /\ (\A d \in Conversations : cacheEpoch[d] <= cacheEpoch'[d])
         /\ generation <= generation'
    BY <1>1, <1>2, NumberTypes
  <1>11. /\ CountersGrow /\ pendingLoad'.requestId = 0
         /\ \A p \in Calls : Kept(p) => /\ ~Current(p)'
                                        /\ local[p].ticket # 0 => TicketSuperseded(p)'
    <2>1. disposed' = disposed
      BY <1>2
    <2> QED
      BY <2>1, <1>1, <1>2, <1>6, <1>9, <1>10, CancelledRace
  <1>12. Steady /\ UNCHANGED <<events, sub, retired>>
    BY <1>2 DEF Steady, storeVars, gatewayVars
  <1>13. pc[o] \notin PastCommit /\ pc[o] \notin Holding /\ pc'[o] \notin Showing
         /\ pc[o] \notin Showing /\ pc[o] \notin Asking /\ pc'[o] \notin Asking
         /\ pc'[o] \in Waiting /\ pc[o] \notin Publishing /\ pc'[o] \notin Ending
    BY <1>2, <1>5 DEF PastCommit, Ending, Holding, Showing, Publishing, Asking, Waiting,
                      StorePublishing, Settling
  <1>14. Stacked'
    <2>1. CASE pc' = [pc EXCEPT ![o] = "restoring"] /\ stack' = stack
      <3>1. \A p \in Calls : pc'[p] \in Publishing <=> pc[p] \in Publishing
        BY <2>1, <1>1, <1>2 DEF CallsTyped, Publishing, StorePublishing
      <3> QED
        BY <2>1, <3>1, <1>1, StackSame
    <2>2. CASE pc' = [pc EXCEPT ![o] = "announced"] /\ stack' = Append(stack, o)
      <3>1. pc'[o] \in Publishing
        BY <2>2, <1>1 DEF CallsTyped, Publishing, StorePublishing
      <3> QED
        BY <2>2, <3>1, <1>1, <1>5, <1>13, StackPush
    <2> QED
      BY <2>1, <2>2, <1>2
  <1>15. CallHolds(o)'
    <2>1. /\ k.ticket # 0 /\ k.ticket <= cacheRequestId' /\ k.generation <= generation'
          /\ k.requestId <= loadRequestId' /\ k.epoch <= cacheEpoch'[c]
      BY <1>2, <1>3, <1>4, <1>8, <1>10
    <2>2. result'[o] = "none"
      BY <1>1, <1>2, <1>6 DEF CallHolds, Settling
    <2> QED
      BY <2>1, <2>2, <1>2, <1>3, <1>4, <1>5, <1>6 DEF CallHolds, Waiting, Asking, Ending, Settling
  <1>16. SubHolds(o)'
    <2>1. local[o].conversation = None
      BY <1>1, <1>2 DEF CallHolds, NoLocals, Settling
    <2>2. Elements(queue[o]) = {} /\ sub[o] = "none" /\ phase[o] = "buffering"
      BY <2>1, <1>1, <1>2, NoneIsNothing DEF SubHolds
    <2> QED
      BY <2>2, <1>5, <1>12 DEF SubHolds, Waiting, Asking, Elements, Steady
  <1>17. NoSubscriptionLeak'
    BY <1>1, <1>7, <1>12, <1>13, NoLeakKept DEF SubsHold, Steady, Asking
  <1>18. ContentHolds(o)' /\ NoCache' /\ gatewaySubscription # o
    BY <1>1, <1>2, <1>5, <1>6, <1>13, NoneIsNothing DEF ContentHolds, NoCache, OwnedCommitted
  <1>19. LoadsHold'
    <2>1. \A p \in Calls : p # o => /\ ~Current(p)'
                                    /\ local[p].ticket # 0 => TicketSuperseded(p)'
      BY <1>7, <1>11 DEF OthersKept
    <2>2. CurrentHolds(o)'
      BY <1>13 DEF CurrentHolds, Current
    <2>3. TicketHolds(o)'
      <3>1. pc'[o] # "restoring" => cacheState' = Syncing(local'[o].conversation)
        BY <1>1, <1>2, <1>4, <1>5 DEF CallsTyped
      <3> QED
        BY <3>1, <1>5, <1>11, <1>13 DEF TicketHolds, Syncing
    <2>4. o \notin retired
      BY <1>1, <1>2 DEF LoadsHold, Doomed, Waiting, Asking, Settling
    <2>5. ReadyShowsLive'
      <3>1. ReadyShowsLive
        BY <1>1 DEF LoadsHold
      <3> QED
        BY <3>1, <1>2, <1>12 DEF ReadyShowsLive, Shows, LatestState, Syncing, Steady
    <2> QED
      BY <2>1, <2>2, <2>3, <2>4, <2>5, <1>1, <1>6, <1>7, <1>8, <1>9, <1>11, <1>12, <1>13,
         OvertakenLoads
  <1>20. \A p \in Calls : p # o => SubStep(p)
    BY <1>12 DEF SubStep
  <1>21. /\ local'[o].requestId = 0 /\ local'[o].ticket > cacheRequestId /\ local'[o].previous = None
         /\ (gatewaySubscription # None => sub'[gatewaySubscription] = sub[gatewaySubscription])
    BY <1>3, <1>4, <1>5, <1>12
  <1>22. \A d \in Conversations : \/ entry'[d] \in {entry[d], None}
                                  \/ /\ entry'[d].conversation = d
                                     /\ \/ entry'[d].events = {}
                                        \/ entry'[d] = snapshot /\ snapshot # None
    BY <1>1, <1>2, CapturedFacts
  <1> QED
    BY <1>7, <1>9, <1>11, <1>12, <1>13, <1>14, <1>15, <1>16, <1>17, <1>18, <1>19, <1>20, <1>21,
       <1>22, SteadyStep

\* cancelPendingConversationLoad.
LEMMA CancelStep ==
    ASSUME IInv, NEW o \in Calls, Cancel(o)
    PROVE  IInv' /\ NoRegress /\ KeepsEvents
  <1>1. /\ TypeOK /\ CallHolds(o) /\ SubHolds(o) /\ SubsHold /\ CallsTyped /\ ClientTyped
        /\ LoadsHold /\ StackHolds /\ Stacked /\ OwnedCommitted /\ CallsHold /\ CacheTyped
        /\ NoCache
    BY TypeParts DEF IInv, CallsHold, SubsHold, StackHolds, Settling
  <1>2. /\ pc[o] = "idle" /\ ~disposed
        /\ CancelPending /\ pc' = [pc EXCEPT ![o] = "done"]
        /\ UNCHANGED <<setup, disposed, generation, conversationEpoch, historyRequestId,
                   gatewaySubscription, cacheReadOnly, cacheState, cleared, cacheEpoch,
                   entry, stored, storeVars, local, stack, result, gatewayVars, retired>>
    BY DEF Cancel
  <1>3. cacheRequestId \in Nat /\ cacheRequestId' = cacheRequestId + 1
    BY <1>1, <1>2, NumberTypes DEF CancelPending
  <1>4. /\ pc' \in [Calls -> PCs] /\ pc'[o] = "done"
        /\ \A p \in Calls : p # o => pc'[p] = pc[p]
    BY <1>1, <1>2 DEF CallsTyped, PCs
  <1>5. /\ setup' = setup /\ View' = View /\ Locals' = Locals /\ CacheEnabled' = CacheEnabled
        /\ result' = result /\ local' = local
    BY <1>2, SameSets
  <1>6. OthersKept(o) /\ NumbersKept(o)
    BY <1>2, <1>4, <1>5 DEF OthersKept, NumbersKept, Kept
  <1>7. /\ pendingHandoff' \in {pendingHandoff, NoHandoff} /\ pendingLoad' \in {pendingLoad, NoLoad}
        /\ loadRequestId' \in Nat
    <2>1. loadRequestId \in Nat /\ loadRequestId + 1 \in Nat
      BY <1>1, NumberTypes
    <2> QED
      BY <2>1, <1>2 DEF CancelPending
  <1>8. TypeOK'
    <2>1. CallsTyped'
      BY <1>1, <1>2, <1>4, <1>5 DEF CallsTyped
    <2>2. CacheTyped'
      <3>1. cacheRequestId' \in Nat
        BY <1>3
      <3> QED
        BY <3>1, <1>1, <1>2, <1>5 DEF CacheTyped
    <2>3. ClientTyped'
      BY <1>1, <1>2, <1>5, <1>7 DEF ClientTyped, NoLoad, NoHandoff
    <2> QED
      BY <2>1, <2>2, <2>3, <1>1, <1>2, <1>5, TypesKept, TypePartsNext DEF TypeOK
  <1>9. generation \in Nat /\ (\A d \in Conversations : cacheEpoch[d] <= cacheEpoch'[d])
        /\ generation <= generation'
    BY <1>1, <1>2, NumberTypes
  <1>10. /\ CountersGrow
         /\ \A p \in Calls : Kept(p) => /\ ~Current(p)'
                                        /\ local[p].ticket # 0 => TicketSuperseded(p)'
    <2>1. disposed' = disposed
      BY <1>2
    <2> QED
      BY <2>1, <1>1, <1>2, <1>5, <1>8, <1>9, CancelledRace
  <1>11. Steady /\ UNCHANGED <<events, sub, retired, stack, entry, cacheState>>
    BY <1>2 DEF Steady, storeVars, gatewayVars
  <1>12. pc[o] \notin PastCommit /\ pc[o] \notin Holding /\ pc'[o] \notin Showing
         /\ pc[o] \notin Showing /\ pc[o] \notin Asking /\ pc'[o] \notin Asking
         /\ pc[o] \notin Publishing /\ pc'[o] \notin Publishing
    BY <1>2, <1>4 DEF PastCommit, Ending, Holding, Showing, Publishing, Asking, StorePublishing,
                      Settling
  <1>13. Stacked'
    <2>1. \A p \in Calls : pc'[p] \in Publishing <=> pc[p] \in Publishing
      BY <1>4, <1>12
    <2> QED
      BY <2>1, <1>1, <1>11, StackSame
  <1>14. local[o] = NoLocals /\ local[o].ticket = 0 /\ local[o].cursor = 0
         /\ local[o].requestId = 0 /\ local[o].generation = 0
    BY <1>1, <1>2 DEF CallHolds, NoLocals, Settling
  <1>15. CallHolds(o)'
    <2>1. 0 <= cacheRequestId' /\ 0 <= generation' /\ 0 <= loadRequestId'
      BY <1>3, <1>7, <1>9, <1>2
    <2> QED
      BY <2>1, <1>4, <1>5, <1>14 DEF CallHolds, Waiting, Asking, Ending, Settling
  <1>16. SubHolds(o)'
    BY <1>1, <1>2, <1>4, <1>5, <1>11, SubKeptPast DEF Waiting, Asking, Steady
  <1>17. NoSubscriptionLeak'
    BY <1>1, <1>6, <1>11, <1>12, NoLeakKept DEF SubsHold, Steady, Asking
  <1>18. ContentHolds(o)' /\ NoCache' /\ gatewaySubscription # o
    BY <1>1, <1>2, <1>4, <1>5, <1>12, NoneIsNothing DEF ContentHolds, NoCache, OwnedCommitted
  <1>19. LoadsHold'
    <2>1. \A p \in Calls : p # o => /\ ~Current(p)'
                                    /\ local[p].ticket # 0 => TicketSuperseded(p)'
      BY <1>6, <1>10 DEF OthersKept
    <2>2. CurrentHolds(o)' /\ TicketHolds(o)'
      BY <1>5, <1>12, <1>14 DEF CurrentHolds, Current, TicketHolds
    <2>3. o \notin retired
      BY <1>1, <1>2 DEF LoadsHold, Doomed, Waiting, Asking, Settling
    <2>4. ReadyShowsLive'
      <3>1. ReadyShowsLive
        BY <1>1 DEF LoadsHold
      <3> QED
        BY <3>1, <1>11 DEF ReadyShowsLive, Shows, LatestState, Steady
    <2> QED
      BY <2>1, <2>2, <2>3, <2>4, <1>1, <1>5, <1>6, <1>7, <1>8, <1>10, <1>11, <1>12,
         OvertakenLoads
  <1>20. \A p \in Calls : p # o => SubStep(p)
    BY <1>11 DEF SubStep
  <1>21. /\ local'[o].requestId = 0 /\ local'[o].ticket = 0 /\ local'[o].previous = local[o].previous
         /\ (gatewaySubscription # None => sub'[gatewaySubscription] = sub[gatewaySubscription])
    BY <1>5, <1>11, <1>14
  <1> QED
    BY <1>6, <1>8, <1>10, <1>11, <1>12, <1>13, <1>15, <1>16, <1>17, <1>18, <1>19, <1>20, <1>21,
       SteadyStep

-----------------------------------------------------------------------------
(* Steps that change the view.                                             *)

\* The invariant of the next state from its parts.
LEMMA ViewStep ==
    ASSUME IInv, TypeOK', CountersGrow, UNCHANGED <<setup, events, delivered, queue, phase>>,
           NEW o \in Calls, OthersKept(o), Stacked', CommitsWait', CallHolds(o)',
           local'[o].ticket \in {0, local[o].ticket} \/ local'[o].ticket > cacheRequestId,
           \/ local'[o].cursor # 0
           \/ local'[o].requestId = 0
           \/ local[o].cursor = 0 /\ local'[o].requestId = local[o].requestId
           \/ local'[o].requestId > loadRequestId,
           SubHolds(o)', \A p \in Calls : p # o => SubStep(p),
           OwnedCommitted', OwnedDelivers', OwnedMatchesView', NoSubscriptionLeak',
           ShownHolds', WaitingHold', ContentHolds(o)',
           \A c \in Conversations :
              \/ entry'[c] \in {entry[c], None}
              \/ /\ entry'[c].conversation = c
                 /\ entry'[c].events = {} \/ (entry'[c] = snapshot /\ snapshot # None),
           LoadsHold', NothingLeft', NoCache'
    PROVE  IInv'
  <1>1. TypeOK /\ CallsHold /\ SubsHold /\ ViewsHold
    BY DEF IInv
  <1>2. EventsGrow
    BY <1>1, NumberTypes DEF EventsGrow
  <1>3. CallsHold'
    BY <1>1, CallsStep
  <1>4. \A p \in Calls : SubHolds(p)'
    <2>1. \A p \in Calls : p # o => /\ phase'[p] = phase[p] /\ delivered'[p] = delivered[p]
                                     /\ SubStep(p) /\ QueueStep(p)
      BY <1>1, <1>2, QueueSame DEF SubsHold
    <2> QED
      BY <2>1, <1>1, <1>2, SubsKept
  <1>5. ViewsHold'
    <2>1. EntriesHold'
      BY <1>1, <1>2, EntriesKept
    <2>2. \A p \in Calls : ContentHolds(p)'
      BY <1>1, <1>2, ContentHoldsKept DEF OthersKept
    <2> QED
      BY <2>1, <2>2 DEF ViewsHold
  <1>6. StackHolds' /\ SubsHold'
    BY <1>4 DEF StackHolds, SubsHold
  <1> QED
    BY <1>3, <1>5, <1>6 DEF IInv

\* A view that is followed by one of the same load, or of a later one.
LEMMA GoesForward ==
    ASSUME snapshot # None /\ snapshot' # None => NotBefore(snapshot, snapshot')
    PROVE  NoRegress
  BY DEF NoRegress, StepRegresses, NotBefore, Shows

\* The views that wait, after some were added.
LEMMA WaitingNext ==
    ASSUME TypeOK, TypeOK', CallsHold, ViewsHold, setup' = setup, events' = events,
           NEW o \in Calls, OthersKept(o), NumbersKept(o), snapshot' = snapshot, snapshot # None,
           NEW q \in Seq(View), pendingCommits' = q,
           \A i \in DOMAIN q : Content(q[i]) /\ FromLoad(q[i]) /\ NotBefore(snapshot, q[i]),
           \A i, j \in DOMAIN q : i < j => NotBefore(q[i], q[j])
    PROVE  WaitingHold'
  <1> DEFINE ok(v) == /\ local'[v.load].cursor = 0
                      /\ IF CacheEnabled THEN local'[v.load].ticket # 0
                                         ELSE local'[v.load].requestId # 0
                      /\ local'[v.load].ticket = local[v.load].ticket
                      /\ CacheEnabled \/ local'[v.load].requestId = local[v.load].requestId
  <1>1. FromLoad(snapshot)
    BY DEF ViewsHold, ShownHolds
  <1>2. /\ \A i \in DOMAIN q : q[i].load \in Calls /\ ok(q[i])
        /\ snapshot.load \in Calls /\ ok(snapshot)
        /\ CacheEnabled' = CacheEnabled
    BY <1>1, FromLoadKept, SameSets
  <1>3. /\ \A i \in DOMAIN q : StartOrder(q[i].load)' = StartOrder(q[i].load)
        /\ StartOrder(snapshot.load)' = StartOrder(snapshot.load)
    BY <1>2 DEF StartOrder
  <1>4. \A i \in DOMAIN q : /\ Content(q[i])' /\ FromLoad(q[i])' /\ NotBefore(snapshot, q[i])'
    BY <1>2, <1>3 DEF Content, FromLoad, NotBefore
  <1>5. \A i, j \in DOMAIN q : i < j => NotBefore(q[i], q[j])'
    BY <1>3 DEF NotBefore
  <1> HIDE DEF ok
  <1> QED
    BY <1>4, <1>5 DEF WaitingHold, Content, FromLoad, NotBefore, StartOrder

\* The next view that waits is published.
LEMMA PublishPendingStep ==
    ASSUME IInv, PublishPending
    PROVE  IInv' /\ NoRegress /\ KeepsEvents
  <1>1. /\ TypeOK /\ StackHolds /\ Stacked /\ CommitsWait /\ CallsHold /\ SubsHold /\ ViewsHold
        /\ LoadsHold /\ WaitingHold /\ ShownHolds /\ CacheTyped /\ StoreTyped /\ NothingLeft
        /\ NoCache /\ OwnedMatchesView
    BY TypeParts DEF IInv, StackHolds, ViewsHold, SubsHold
  <1> DEFINE q == pendingCommits
  <1>2. /\ stack # <<>> /\ q # <<>> /\ snapshot' = Head(q) /\ pendingCommits' = Tail(q)
        /\ cleared' = FALSE
        /\ UNCHANGED <<setup, clientVars, cacheRequestId, cacheReadOnly, cacheState, cacheEpoch,
                   entry, stored, callVars, gatewayVars, retired>>
    BY DEF PublishPending
  <1>3. PICK o \in Calls : TRUE
    BY <1>1, <1>2, TopFacts
  <1>4. /\ q \in Seq(View) /\ DOMAIN q = 1..Len(q) /\ Len(q) \in Nat /\ Len(q) # 0
        /\ Head(q) = q[1] /\ Tail(q) \in Seq(View) /\ Head(q) \in View
        /\ Len(Tail(q)) = Len(q) - 1 /\ DOMAIN Tail(q) = 1..(Len(q) - 1)
        /\ \A i \in 1..(Len(q) - 1) : Tail(q)[i] = q[i + 1]
    <2>1. q \in Seq(View)
      BY <1>1, NumberTypes
    <2> HIDE DEF q
    <2>2. DOMAIN q = 1..Len(q) /\ Len(q) \in Nat
      BY <2>1, ElementsTyped
    <2>3. Len(q) # 0
      BY <2>1, <1>2, EmptySeq
    <2>4. /\ Head(q) \in View /\ Tail(q) \in Seq(View) /\ Len(Tail(q)) = Len(q) - 1
          /\ \A i \in 1..Len(Tail(q)) : Tail(q)[i] = q[i + 1]
      BY <2>1, <1>2, HeadTailProperties
    <2>5. DOMAIN Tail(q) = 1..(Len(q) - 1)
      BY <2>4, ElementsTyped
    <2>6. Head(q) = q[1]
      BY <2>1, <2>2, <2>3
    <2> QED
      BY <2>1, <2>2, <2>3, <2>4, <2>5, <2>6
  <1>5. /\ 1 \in DOMAIN q /\ Content(q[1]) /\ FromLoad(q[1]) /\ NotBefore(snapshot, q[1])
        /\ snapshot # None /\ cacheReadOnly /\ ~disposed /\ gatewaySubscription = None
    BY <1>1, <1>2, <1>4 DEF WaitingHold, CommitsWait, NothingLeft, OwnedMatchesView
  <1>6. /\ setup' = setup /\ View' = View /\ CacheEnabled' = CacheEnabled
        /\ UNCHANGED <<pc, local, result, stack, events, delivered, queue, phase, sub,
                       disposed, generation, loadRequestId, pendingLoad, pendingHandoff,
                       gatewaySubscription, cacheRequestId, cacheReadOnly, cacheState, cacheEpoch,
                       entry, stored, retired>>
    BY <1>2, SameSets DEF clientVars, callVars, gatewayVars
  <1> HIDE DEF q
  <1>7. TypeOK'
    <2>1. cleared' \in BOOLEAN
      BY <1>2
    <2>2. CacheTyped'
      BY <2>1, <1>1, <1>6 DEF CacheTyped
    <2>3. StoreTyped'
      BY <1>2, <1>4, <1>6 DEF StoreTyped
    <2> QED
      BY <2>2, <2>3, <1>1, <1>2, <1>6, TypesKept, TypePartsNext DEF TypeOK
  <1>8. \A p \in Calls : Kept(p) /\ SubStep(p)
    BY <1>6 DEF Kept, SubStep
  <1>9. CountersGrow /\ EventsGrow
    BY <1>1, <1>6, NumberTypes DEF CountersGrow, EventsGrow
  <1>10. LatestState' = LatestState
    <2>1. pendingCommits' = Tail(q) /\ snapshot' = q[1] /\ LatestState = q[Len(q)]
      BY <1>2, <1>4 DEF LatestState, q
    <2>2. CASE Tail(q) = <<>>
      <3>1. Len(q) = 1
        BY <2>2, <1>4, EmptySeq
      <3> QED
        BY <2>1, <2>2, <3>1 DEF LatestState
    <2>3. CASE Tail(q) # <<>>
      <3>1. Len(Tail(q)) # 0 /\ Len(Tail(q)) \in Nat
        BY <2>3, <1>4, EmptySeq
      <3>2. Len(q) - 1 \in 1..(Len(q) - 1) /\ (Len(q) - 1) + 1 = Len(q)
        BY <3>1, <1>4
      <3>3. Tail(q)[Len(q) - 1] = q[Len(q)]
        BY <3>2, <1>4
      <3>4. LatestState' = Tail(q)[Len(Tail(q))]
        BY <2>1, <2>3 DEF LatestState
      <3> QED
        BY <2>1, <3>3, <3>4, <1>4
    <2> QED
      BY <2>2, <2>3
  <1>11. Stacked' /\ CommitsWait'
    <2>1. Stacked'
      BY <1>1, <1>6, StackSame
    <2>2. snapshot' # None
      BY <1>1, <1>2, <1>4, NoneIsNothing
    <2> QED
      BY <2>1, <2>2, <1>1, <1>2, <1>6 DEF CommitsWait, q
  <1>12. /\ CallHolds(o)' /\ ContentHolds(o)'
    <2>1. CallHolds(o) /\ Kept(o)
      BY <1>1, <1>3, <1>8 DEF CallsHold, Settling
    <2> QED
      BY <2>1, <1>1, <1>3, <1>6, <1>7, <1>9, CallKept, ContentHoldsKept
  <1>13. SubHolds(o)'
    <2>1. SubHolds(o) /\ queue'[o] = queue[o]
      BY <1>1, <1>3, <1>6 DEF SubsHold
    <2>2. QueueStep(o)
      BY <2>1, <1>1, <1>3, <1>7, <1>9, QueueSame
    <2> QED
      BY <2>1, <2>2, <1>1, <1>3, <1>6, <1>7, <1>8, <1>9, SubKept
  <1>14. OwnedCommitted' /\ OwnedDelivers' /\ OwnedMatchesView' /\ NoSubscriptionLeak'
    BY <1>1, <1>5, <1>6
       DEF SubsHold, OwnedCommitted, OwnedDelivers, OwnedMatchesView, NoSubscriptionLeak, PastCommit,
           Ending, Settling
  <1>15. ShownHolds'
    BY <1>2, <1>4, <1>5, <1>6 DEF ShownHolds, Content, FromLoad
  <1>16. WaitingHold'
    <2>1. \A i \in 1..(Len(q) - 1) : i + 1 \in DOMAIN q /\ 1 < i + 1 /\ Tail(q)[i] = q[i + 1]
      BY <1>4
    <2>2. \A i \in DOMAIN q : Content(q[i]) /\ FromLoad(q[i])
      BY <1>1 DEF WaitingHold, q
    <2>3. \A i, j \in DOMAIN q : i < j => NotBefore(q[i], q[j])
      BY <1>1 DEF WaitingHold, q
    <2>4. \A i \in 1..(Len(q) - 1) : /\ Content(Tail(q)[i]) /\ FromLoad(Tail(q)[i])
                                     /\ NotBefore(q[1], Tail(q)[i])
      BY <2>1, <2>2, <2>3, <1>5
    <2>5. \A i, j \in 1..(Len(q) - 1) : i < j => NotBefore(Tail(q)[i], Tail(q)[j])
      <3> SUFFICES ASSUME NEW i \in 1..(Len(q) - 1), NEW j \in 1..(Len(q) - 1), i < j
                   PROVE  NotBefore(Tail(q)[i], Tail(q)[j])
        OBVIOUS
      <3>1. i + 1 < j + 1 /\ i + 1 \in DOMAIN q /\ j + 1 \in DOMAIN q
        BY <2>1, <1>4
      <3>2. Tail(q)[i] = q[i + 1] /\ Tail(q)[j] = q[j + 1]
        BY <2>1
      <3>3. \A a, b \in DOMAIN q : a < b => NotBefore(q[a], q[b])
        BY <2>3
      <3>4. NotBefore(q[i + 1], q[j + 1])
        BY <3>1, <3>3
      <3> QED
        BY <3>2, <3>4
    <2>6. \A i \in DOMAIN Tail(q) : NotBefore(q[1], Tail(q)[i])
      BY <2>4, <1>4
    <2>7. \A i \in DOMAIN Tail(q) : NotBefore(snapshot, pendingCommits[i])'
      BY <2>6, <1>2, <1>4, <1>6 DEF NotBefore, StartOrder
    <2>8. \A i, j \in DOMAIN Tail(q) : i < j => NotBefore(pendingCommits[i], pendingCommits[j])'
      BY <2>5, <1>2, <1>4, <1>6 DEF NotBefore, StartOrder
    <2>9. \A i \in DOMAIN Tail(q) : Content(pendingCommits[i])' /\ FromLoad(pendingCommits[i])'
      BY <2>4, <1>2, <1>4, <1>6 DEF Content, FromLoad
    <2>10. snapshot' # None /\ pendingCommits' = Tail(q)
      BY <1>1, <1>2, <1>4, NoneIsNothing DEF q
    <2> QED
      BY <2>7, <2>8, <2>9, <2>10 DEF WaitingHold
  <1>17. LoadsHold'
    <2>1. \A p \in Calls : CurrentHolds(p)'
      <3> SUFFICES ASSUME NEW p \in Calls, Current(p)' PROVE CurrentHolds(p)'
        BY DEF CurrentHolds
      <3>1. Current(p) /\ CurrentHolds(p)
        BY <1>1, <1>6 DEF Current, LoadSuperseded, LoadsHold
      <3>2. pendingHandoff.call # p
        BY <3>1, <1>5 DEF CurrentHolds, HandoffServes
      <3> QED
        BY <3>1, <3>2, <1>5, <1>6 DEF CurrentHolds, Syncing, Newest
    <2>2. \A p \in Calls : TicketHolds(p)'
      BY <1>1, <1>6, <1>10 DEF LoadsHold, TicketHolds, TicketSuperseded, Shows, Syncing
    <2>3. HandoffHolds'
      <3>1. pendingHandoff.call # None => /\ pc'[pendingHandoff.call] \in Asking
                                          /\ local'[pendingHandoff.call].conversation
                                                = local[pendingHandoff.call].conversation
        BY <1>1, <1>6 DEF LoadsHold, HandoffHolds
      <3> QED
        BY <3>1, <1>1, <1>6, <1>7, <1>9, HandoffKept
    <2>4. \A p \in retired' : Doomed(p)'
      BY <1>1, <1>6 DEF LoadsHold, Doomed, LoadSuperseded, TicketSuperseded, Settling
    <2>5. ReadyShowsLive'
      BY <1>1, <1>6, <1>10 DEF LoadsHold, ReadyShowsLive, Shows
    <2> QED
      BY <2>1, <2>2, <2>3, <2>4, <2>5 DEF LoadsHold
  <1>18. NothingLeft' /\ NoCache'
    BY <1>1, <1>5, <1>6 DEF NothingLeft, NoCache
  <1>19. NoRegress /\ KeepsEvents
    <2>1. NotBefore(snapshot, snapshot')
      BY <1>2, <1>4, <1>5
    <2> QED
      BY <2>1, <1>5, GoesForward DEF KeepsEvents
  <1>20. /\ local'[o] = local[o] /\ OthersKept(o) /\ entry' = entry
    BY <1>6, <1>8 DEF OthersKept
  <1>21. \/ local'[o].cursor # 0
         \/ local[o].cursor = 0 /\ local'[o].requestId = local[o].requestId
    BY <1>20
  <1> QED
    BY <1>3, <1>6, <1>7, <1>8, <1>9, <1>11, <1>12, <1>13, <1>14, <1>15, <1>16, <1>17, <1>18,
       <1>19, <1>20, <1>21, ViewStep

\* The newest load follows every other one.
LEMMA NewestFollows ==
    ASSUME TypeOK, CallsHold, NEW o \in Calls, NEW v, NEW w, FromLoad(w), v.load = o,
           \/ CacheEnabled /\ Newest(o)
           \/ /\ ~CacheEnabled /\ local[o].cursor = 0
              /\ local[o].requestId # 0 /\ local[o].requestId = loadRequestId
    PROVE  NotBefore(w, v)
  <1> DEFINE p == w.load
  <1>1. SUFFICES ASSUME p # o PROVE StartOrder(p) < StartOrder(o)
    BY DEF NotBefore
  <1>2. /\ p \in Calls /\ local[p].cursor = 0
        /\ IF CacheEnabled THEN local[p].ticket # 0 ELSE local[p].requestId # 0
    BY DEF FromLoad
  <1> HIDE DEF p
  <1>3. /\ local[p].ticket \in Nat /\ local[p].requestId \in Nat /\ local[o].ticket \in Nat
        /\ local[o].requestId \in Nat /\ loadRequestId \in Nat
    BY <1>2, CallTypes, NumberTypes
  <1>4. local[p].requestId <= loadRequestId
    BY <1>2 DEF CallsHold, CallHolds, Settling
  <1>5. CASE CacheEnabled
    <2>1. local[o].ticket # local[p].ticket
      BY <1>1, <1>2, <1>5 DEF CallsHold, Distinct, Settling
    <2>2. local[p].ticket <= local[o].ticket
      BY <1>2, <1>5 DEF Newest
    <2> QED
      BY <2>1, <2>2, <1>3, <1>5 DEF StartOrder
  <1>6. CASE ~CacheEnabled
    <2>1. local[o].requestId # local[p].requestId
      BY <1>1, <1>2, <1>6 DEF CallsHold, Distinct, Settling
    <2> QED
      BY <2>1, <1>3, <1>4, <1>6 DEF StartOrder
  <1> QED
    BY <1>5, <1>6

\* The cached view of a load that was not overtaken, and what holds then.
LEMMA CachedViewFacts ==
    ASSUME IInv, NEW o \in Calls, pc[o] = "announced", ~TicketSuperseded(o),
           entry[local[o].conversation] # None,
           NEW v, v = [entry[local[o].conversation] EXCEPT !.load = o]
    PROVE  /\ v \in View /\ v # None /\ v.conversation = local[o].conversation /\ v.load = o
           /\ local[o].conversation \in Conversations
           /\ Content(v) /\ FromLoad(v) /\ (\A w : FromLoad(w) => NotBefore(w, v))
           /\ CacheEnabled /\ ~disposed /\ local[o].ticket # 0 /\ o \notin retired
           /\ local[o].cursor = 0 /\ local[o].requestId = 0 /\ result[o] = "none"
           /\ pendingLoad.requestId = 0 /\ cacheState = Syncing(local[o].conversation)
           /\ \A p \in Calls : p # o => /\ ~Current(p)
                                        /\ local[p].ticket = 0 \/ TicketSuperseded(p)
  <1>1. /\ TypeOK /\ CallsHold /\ ViewsHold /\ LoadsHold /\ CallHolds(o) /\ TicketHolds(o)
        /\ EntriesHold /\ CacheTyped
    BY TypeParts DEF IInv, CallsHold, LoadsHold, ViewsHold, Settling
  <1> DEFINE c == local[o].conversation
  <1>2. /\ CacheEnabled /\ c \in Conversations /\ local[o].ticket # 0 /\ local[o].cursor = 0
        /\ local[o].requestId = 0 /\ result[o] = "none"
    BY <1>1 DEF CallHolds, Waiting, Settling
  <1>3. ~disposed /\ local[o].ticket = cacheRequestId
    BY DEF TicketSuperseded
  <1>4. pendingLoad.requestId = 0 /\ cacheState = Syncing(c)
    BY <1>1, <1>2 DEF TicketHolds, Waiting
  <1>5. \A p \in Calls : p # o => ~Current(p) /\ (local[p].ticket = 0 \/ TicketSuperseded(p))
    BY <1>1, <1>2, OneCurrent
  <1>6. o \notin retired
    BY <1>1 DEF LoadsHold, Doomed, Waiting, Asking, Settling
  <1>7. entry[c] \in View /\ entry[c].conversation = c /\ Content(entry[c])
    BY <1>1, <1>2, NumberTypes DEF EntriesHold
  <1>8. /\ entry[c].conversation \in Conversations /\ entry[c].events \in SUBSET (1..MaxEvents)
        /\ entry[c].pages \in SUBSET (1..MaxPages) /\ entry[c].cursor \in 1..MaxPages
        /\ entry[c] = [conversation |-> entry[c].conversation, load |-> entry[c].load,
                       events |-> entry[c].events, pages |-> entry[c].pages,
                       cursor |-> entry[c].cursor]
    BY <1>7, ViewFields
  <1>9. v = [conversation |-> c, load |-> o, events |-> entry[c].events,
             pages |-> entry[c].pages, cursor |-> entry[c].cursor]
    BY <1>7, <1>8
  <1>10. v \in View /\ v.conversation = c /\ v.load = o /\ v.events = entry[c].events
    BY <1>2, <1>8, <1>9 DEF View, ViewsOf, MaxEvents, MaxPages
  <1>11. Content(v) /\ FromLoad(v) /\ v # None
    BY <1>1, <1>2, <1>7, <1>10, NoneIsNothing DEF Content, FromLoad
  <1>12. \A w : FromLoad(w) => NotBefore(w, v)
    BY <1>1, <1>2, <1>3, <1>10, LastIsNewest, NewestFollows
  <1> QED
    BY <1>2, <1>3, <1>4, <1>5, <1>6, <1>10, <1>11, <1>12

\* A cached view is displayed at once.
LEMMA CachedViewShown ==
    ASSUME IInv, NEW o \in Calls, NEW v, pc[o] = "announced", ~TicketSuperseded(o), ~Notifying,
           entry[local[o].conversation] # None,
           v = [entry[local[o].conversation] EXCEPT !.load = o],
           gatewaySubscription' = None, generation' = generation + 1,
           conversationEpoch' = conversationEpoch + 1, historyRequestId' = historyRequestId + 1,
           cacheReadOnly' = TRUE, Commit(v, FALSE),
           pc' = [pc EXCEPT ![o] = "displayed"],
           local' = [local EXCEPT ![o].previous = gatewaySubscription],
           UNCHANGED <<disposed, result, loadRequestId, pendingLoad, pendingHandoff, sub, stack>>,
           UNCHANGED <<setup, cacheRequestId, cacheState, cacheEpoch, entry, stored,
                       events, delivered, queue, phase, retired>>
    PROVE  IInv' /\ NoRegress /\ KeepsEvents
  <1>1. /\ TypeOK /\ StackHolds /\ Stacked /\ CommitsWait /\ CallsHold /\ SubsHold /\ ViewsHold
        /\ LoadsHold /\ ShownHolds /\ ClientTyped /\ CacheTyped /\ StoreTyped /\ CallsTyped
        /\ GatewayTyped /\ NoCache /\ CallHolds(o) /\ SubHolds(o)
        /\ OwnedCommitted /\ NoSubscriptionLeak /\ TicketHolds(o)
    BY TypeParts DEF IInv, StackHolds, ViewsHold, SubsHold, CallsHold, LoadsHold, Settling
  <1> DEFINE c == local[o].conversation
             k == [local[o] EXCEPT !.previous = gatewaySubscription]
  <1>2. /\ v \in View /\ v # None /\ v.conversation = c /\ v.load = o /\ c \in Conversations
        /\ Content(v) /\ FromLoad(v) /\ (\A w : FromLoad(w) => NotBefore(w, v))
        /\ CacheEnabled /\ ~disposed /\ local[o].ticket # 0 /\ o \notin retired
        /\ local[o].cursor = 0 /\ local[o].requestId = 0 /\ result[o] = "none"
        /\ pendingLoad.requestId = 0 /\ cacheState = Syncing(c)
        /\ \A p \in Calls : p # o => /\ ~Current(p)
                                     /\ local[p].ticket = 0 \/ TicketSuperseded(p)
    BY CachedViewFacts
  <1>3. pendingCommits = <<>> /\ LatestState = snapshot
    BY <1>1, NotifyingFacts DEF LatestState
  <1>4. snapshot' = v /\ pendingCommits' = <<>> /\ cleared' \in BOOLEAN
    <2>1. CASE v = LatestState
      BY <2>1, <1>1, <1>3, NumberTypes DEF Commit, storeVars
    <2>2. CASE v # LatestState
      <3>1. cleared' = FALSE
        BY <2>2, <1>2 DEF Commit
      <3> QED
        BY <2>2, <3>1, <1>2, <1>3 DEF Commit
    <2> QED
      BY <2>1, <2>2
  <1>5. gatewaySubscription \in Calls \cup {None} /\ generation \in Nat
    BY <1>1, NumberTypes
  <1>6. /\ k \in Locals /\ k.conversation = c /\ k.ticket = local[o].ticket /\ k.epoch = local[o].epoch
        /\ k.requestId = 0 /\ k.cursor = 0 /\ k.generation = local[o].generation
        /\ k.previous = gatewaySubscription
    BY <1>1, <1>2, <1>5, CallTypes DEF Locals
  <1>7. /\ pc' \in [Calls -> PCs] /\ pc'[o] = "displayed"
        /\ \A p \in Calls : p # o => pc'[p] = pc[p]
        /\ local' \in [Calls -> Locals] /\ local'[o] = k
        /\ \A p \in Calls : p # o => local'[p] = local[p]
    BY <1>1, <1>6 DEF CallsTyped, PCs
  <1> HIDE DEF k, c
  <1>8. /\ View' = View /\ Locals' = Locals /\ MaxEvents' = MaxEvents /\ CacheEnabled' = CacheEnabled
    BY SameSets
  <1>9. OthersKept(o) /\ NumbersKept(o)
    BY <1>2, <1>6, <1>7 DEF OthersKept, Kept, NumbersKept
  <1>10. TypeOK'
    <2>1. cacheReadOnly' \in BOOLEAN
      OBVIOUS
    <2>2. CacheTyped'
      BY <2>1, <1>1, <1>4, <1>8 DEF CacheTyped
    <2>3. StoreTyped'
      <3>1. pendingCommits \in Seq(View)
        BY <1>1 DEF StoreTyped
      <3> QED
        BY <3>1, <1>2, <1>3, <1>4, <1>8 DEF StoreTyped
    <2>4. ClientTyped'
      BY <1>1, <1>5, <1>8, NumberTypes DEF ClientTyped
    <2>5. CallsTyped'
      <3>1. stack' \in Seq(Calls) /\ result' \in [Calls -> {"none", "ok", "rejected", "notFound"}]
        BY <1>1 DEF CallsTyped
      <3> QED
        BY <3>1, <1>7, <1>8 DEF CallsTyped
    <2>6. GatewayTyped'
      BY <1>1, <1>8 DEF GatewayTyped
    <2> QED
      BY <2>2, <2>3, <2>4, <2>5, <2>6, <1>1, TypePartsNext DEF TypeOK
  <1>11. CountersGrow
    BY <1>1, <1>5, NumberTypes DEF CountersGrow
  <1>12. Stacked'
    <2>1. \A p \in Calls : pc'[p] \in Publishing <=> pc[p] \in Publishing
      BY <1>7 DEF Publishing, StorePublishing
    <2> QED
      BY <2>1, <1>1, StackSame
  <1>13. CommitsWait'
    BY <1>2, <1>4 DEF CommitsWait
  <1>14. CallHolds(o)'
    <2>1. local[o].generation <= generation'
      BY <1>1, <1>5, CallTypes DEF CallHolds, Settling
    <2>2. k.epoch <= cacheEpoch'[c] /\ k.ticket <= cacheRequestId' /\ k.requestId <= loadRequestId'
      BY <1>1, <1>2, <1>6, NumberTypes DEF CallHolds, c, Settling
    <2> QED
      BY <2>1, <2>2, <1>2, <1>6, <1>7, <1>8 DEF CallHolds, Waiting, Asking, Ending, Settling
  <1>15. SubHolds(o)'
    BY <1>1, <1>6, <1>7 DEF SubHolds, Waiting, Asking, Elements, c
  <1>16. \A p \in Calls : p # o => SubStep(p)
    BY DEF SubStep
  <1>17. pc[o] \notin PastCommit /\ pc'[o] \in Holding /\ pc[o] \notin Holding
    BY <1>7 DEF PastCommit, Ending, Holding, Settling
  <1>18. OwnedCommitted'
    <2>1. local'[o].previous = gatewaySubscription
      BY <1>6, <1>7
    <2> QED
      BY <2>1, <1>1, <1>9, <1>17, OwnedCommittedKept
  <1>19. OwnedDelivers' /\ OwnedMatchesView'
    BY DEF OwnedDelivers, OwnedMatchesView
  <1>20. NoSubscriptionLeak'
    BY <1>1, <1>6, <1>7, <1>9, <1>17, NoLeakKept
  <1>21. ShownHolds'
    <2>1. FromLoad(v)'
      BY <1>2, <1>6, <1>7, <1>8 DEF FromLoad
    <2>2. Content(v)'
      BY <1>2 DEF Content
    <2> QED
      BY <2>1, <2>2, <1>4 DEF ShownHolds, FromLoad, Content
  <1>22. WaitingHold'
    BY <1>4 DEF WaitingHold
  <1>23. ContentHolds(o)'
    BY <1>7 DEF ContentHolds
  <1>24. LoadsHold'
    <2>1. CurrentHolds(o)'
      BY <1>7 DEF CurrentHolds, Current, Asking
    <2>2. TicketHolds(o)'
      BY <1>2, <1>6, <1>7 DEF TicketHolds, Waiting, Ending, Syncing
    <2>3. ReadyShowsLive'
      BY <1>2 DEF ReadyShowsLive, Syncing
    <2>4. \A p \in Calls : p # o => /\ ~Current(p)'
                                    /\ local[p].ticket # 0 => TicketSuperseded(p)'
      <3> SUFFICES ASSUME NEW p \in Calls, p # o
                   PROVE  ~Current(p)' /\ (local[p].ticket # 0 => TicketSuperseded(p)')
        OBVIOUS
      <3>1. Kept(p) /\ CallHolds(p)
        BY <1>1, <1>9 DEF OthersKept, CallsHold, Settling
      <3> QED
        BY <3>1, <1>1, <1>2, <1>10, <1>11, OutOfRace
    <2>5. pc[o] \notin Asking
      BY DEF Asking
    <2> QED
      BY <2>1, <2>2, <2>3, <2>4, <2>5, <1>1, <1>2, <1>9, <1>10, <1>11, OvertakenLoads
  <1>25. NothingLeft' /\ NoCache'
    BY <1>2, <1>8 DEF NothingLeft, NoCache
  <1>26. NoRegress /\ KeepsEvents
    <2>1. snapshot # None => NotBefore(snapshot, snapshot')
      BY <1>1, <1>2, <1>4 DEF ShownHolds
    <2> QED
      BY <2>1, GoesForward DEF KeepsEvents
  <1>27. /\ local'[o].ticket = local[o].ticket /\ local'[o].requestId = 0
         /\ \A d \in Conversations : entry'[d] = entry[d]
    BY <1>6, <1>7
  <1> QED
    BY <1>9, <1>10, <1>11, <1>12, <1>13, <1>14, <1>15, <1>16, <1>18, <1>19, <1>20, <1>21, <1>22,
       <1>23, <1>24, <1>25, <1>26, <1>27, ViewStep

\* A cached view is queued behind the publication a listener of which loads it.
LEMMA CachedViewQueued ==
    ASSUME IInv, NEW o \in Calls, NEW v, pc[o] = "announced", ~TicketSuperseded(o), Notifying,
           entry[local[o].conversation] # None,
           v = [entry[local[o].conversation] EXCEPT !.load = o],
           gatewaySubscription' = None, generation' = generation + 1,
           conversationEpoch' = conversationEpoch + 1, historyRequestId' = historyRequestId + 1,
           cacheReadOnly' = TRUE, Commit(v, TRUE),
           BeginGatewayLoad(o, local[o], TRUE),
           sub' = Closing(sub, gatewaySubscription),
           Stacked', stack' \in Seq(Calls),
           UNCHANGED <<disposed, result>>,
           UNCHANGED <<setup, cacheRequestId, cacheState, cacheEpoch, entry, stored,
                       events, delivered, queue, phase, retired>>
    PROVE  IInv' /\ NoRegress /\ KeepsEvents
  <1>1. /\ TypeOK /\ StackHolds /\ Stacked /\ CommitsWait /\ CallsHold /\ SubsHold /\ ViewsHold
        /\ LoadsHold /\ ShownHolds /\ ClientTyped /\ CacheTyped /\ StoreTyped /\ CallsTyped
        /\ GatewayTyped /\ NoCache /\ CallHolds(o) /\ SubHolds(o)
        /\ OwnedCommitted /\ NoSubscriptionLeak /\ TicketHolds(o) /\ WaitingHold
    BY TypeParts DEF IInv, StackHolds, ViewsHold, SubsHold, CallsHold, LoadsHold, Settling
  <1> DEFINE c == local[o].conversation
             k == [local[o] EXCEPT !.requestId = loadRequestId + 1]
  <1>2. /\ v \in View /\ v # None /\ v.conversation = c /\ v.load = o /\ c \in Conversations
        /\ Content(v) /\ FromLoad(v) /\ (\A w : FromLoad(w) => NotBefore(w, v))
        /\ CacheEnabled /\ ~disposed /\ local[o].ticket # 0 /\ o \notin retired
        /\ local[o].cursor = 0 /\ local[o].requestId = 0 /\ result[o] = "none"
        /\ pendingLoad.requestId = 0 /\ cacheState = Syncing(c)
    BY CachedViewFacts
  <1>3. PICK s \in Calls : pc[s] \in Showing
    BY <1>1, NotifyingFacts DEF Showing, StorePublishing
  <1>4. snapshot # None /\ snapshot' = snapshot
    <2>1. snapshot # None
      BY <1>1, <1>2, <1>3 DEF CommitsWait
    <2> QED
      BY <2>1 DEF Commit, storeVars
  <1>5. /\ pendingCommits' \in {pendingCommits, Append(pendingCommits, v)}
        /\ cleared' = cleared
    BY DEF Commit, storeVars
  <1>6. /\ loadRequestId' = loadRequestId + 1
        /\ pendingLoad' = [conversation |-> c, requestId |-> loadRequestId + 1]
        /\ pendingHandoff' = pendingHandoff
        /\ local' = [local EXCEPT ![o] = k]
        /\ pc' = [pc EXCEPT ![o] = "subscribing"]
    BY DEF BeginGatewayLoad
  <1>7. loadRequestId \in Nat /\ loadRequestId + 1 \in Nat /\ generation \in Nat
    BY <1>1, NumberTypes
  <1>8. /\ k \in Locals /\ k.conversation = c /\ k.ticket = local[o].ticket /\ k.epoch = local[o].epoch
        /\ k.requestId = loadRequestId + 1 /\ k.cursor = 0 /\ k.generation = local[o].generation
        /\ k.previous = local[o].previous
    BY <1>1, <1>2, <1>7, CallTypes DEF Locals
  <1>9. /\ pc' \in [Calls -> PCs] /\ pc'[o] = "subscribing"
        /\ \A p \in Calls : p # o => pc'[p] = pc[p]
        /\ local' \in [Calls -> Locals] /\ local'[o] = k
        /\ \A p \in Calls : p # o => local'[p] = local[p]
    BY <1>1, <1>6, <1>8 DEF CallsTyped, PCs
  <1> HIDE DEF k, c
  <1>10. /\ View' = View /\ Locals' = Locals /\ MaxEvents' = MaxEvents /\ CacheEnabled' = CacheEnabled
    BY SameSets
  <1>11. OthersKept(o) /\ NumbersKept(o)
    BY <1>2, <1>8, <1>9 DEF OthersKept, Kept, NumbersKept
  <1>12. /\ sub' \in [Calls -> {"none", "open", "closing", "closed"}]
         /\ gatewaySubscription # None => sub'[gatewaySubscription] # "open"
         /\ \A p \in Calls : /\ sub'[p] = sub[p] \/ (sub[p] = "open" /\ sub'[p] = "closing")
                             /\ SubStep(p) /\ (sub'[p] = "open" => sub[p] = "open")
    <2>1. gatewaySubscription \in Calls \cup {None}
      BY <1>1, NumberTypes
    <2>2. gatewaySubscription # None => pc[gatewaySubscription] \notin {"subscribing", "loading"}
      BY <1>1 DEF OwnedCommitted, PastCommit, Ending, Settling
    <2>3. /\ sub' \in [Calls -> {"none", "open", "closing", "closed"}]
          /\ \A p \in Calls : \/ sub'[p] = sub[p]
                              \/ p = gatewaySubscription /\ sub[p] = "open" /\ sub'[p] = "closing"
          /\ gatewaySubscription # None => sub'[gatewaySubscription] # "open"
      BY <2>1, <1>1, ClosingFacts
    <2>4. \A p \in Calls : SubStep(p) /\ (sub'[p] = "open" => sub[p] = "open")
      BY <2>1, <2>2, <1>1, ClosingSteps
    <2> QED
      BY <2>3, <2>4
  <1>13. PICK q \in Seq(View) : /\ q = pendingCommits' /\ q \in {pendingCommits, Append(pendingCommits, v)}
    <2>1. pendingCommits \in Seq(View)
      BY <1>1 DEF StoreTyped
    <2>2. Append(pendingCommits, v) \in Seq(View)
      BY <2>1, <1>2
    <2> QED
      BY <2>1, <2>2, <1>5
  <1>14. TypeOK'
    <2>1. cacheReadOnly' \in BOOLEAN
      OBVIOUS
    <2>2. CacheTyped'
      BY <2>1, <1>1, <1>5, <1>10 DEF CacheTyped
    <2>3. StoreTyped'
      BY <1>1, <1>4, <1>10, <1>13 DEF StoreTyped
    <2>4. ClientTyped'
      <3>1. pendingLoad' \in [conversation : Conversations \cup {None}, requestId : Nat]
        BY <1>2, <1>6, <1>7
      <3> QED
        BY <3>1, <1>1, <1>6, <1>7, <1>10, NumberTypes DEF ClientTyped
    <2>5. CallsTyped'
      <3>1. result' \in [Calls -> {"none", "ok", "rejected", "notFound"}]
        BY <1>1 DEF CallsTyped
      <3> QED
        BY <3>1, <1>9, <1>10 DEF CallsTyped
    <2>6. GatewayTyped'
      BY <1>1, <1>10, <1>12 DEF GatewayTyped
    <2> QED
      BY <2>2, <2>3, <2>4, <2>5, <2>6, <1>1, TypePartsNext DEF TypeOK
  <1>15. CountersGrow
    BY <1>1, <1>6, <1>7, NumberTypes DEF CountersGrow
  <1>16. CommitsWait'
    <2>1. s # o
      BY <1>3 DEF Showing, Publishing, StorePublishing
    <2>2. pc'[s] \in Showing
      BY <2>1, <1>3, <1>9
    <2> QED
      BY <2>2, <1>4 DEF CommitsWait
  <1>17. CallHolds(o)'
    <2>1. k.generation <= generation'
      BY <1>1, <1>7, <1>8, CallTypes DEF CallHolds, Settling
    <2>2. k.epoch <= cacheEpoch'[c] /\ k.ticket <= cacheRequestId' /\ k.requestId <= loadRequestId'
          /\ k.requestId # 0
      BY <1>1, <1>2, <1>6, <1>7, <1>8, NumberTypes DEF CallHolds, c, Settling
    <2> QED
      BY <2>1, <2>2, <1>2, <1>8, <1>9, <1>10 DEF CallHolds, Waiting, Asking, Ending, Settling
  <1>18. SubHolds(o)'
    <2>1. sub[o] = "none" /\ phase[o] = "buffering" /\ sub'[o] = "none"
      BY <1>1, <1>12 DEF SubHolds, Waiting
    <2> QED
      BY <2>1, <1>1, <1>8, <1>9 DEF SubHolds, Waiting, Asking, Elements, c
  <1>19. pc[o] \notin PastCommit /\ pc[o] \notin Holding /\ pc[o] \notin {"subscribing", "loading"}
    BY DEF PastCommit, Ending, Holding, Settling
  <1>20. OwnedCommitted'
    BY <1>1, <1>8, <1>9, <1>11, <1>19, OwnedCommittedKept
  <1>21. OwnedDelivers' /\ OwnedMatchesView'
    BY DEF OwnedDelivers, OwnedMatchesView
  <1>22. NoSubscriptionLeak'
    BY <1>1, <1>11, <1>12, <1>19, NoLeakKept
  <1>23. ShownHolds'
    <2>1. FromLoad(snapshot) /\ Content(snapshot)
      BY <1>1, <1>4 DEF ShownHolds
    <2>2. /\ snapshot.load \in Calls
          /\ local'[snapshot.load].cursor = 0
          /\ local'[snapshot.load].ticket = local[snapshot.load].ticket
      BY <2>1, <1>1, <1>11, FromLoadKept
    <2> QED
      BY <2>1, <2>2, <1>2, <1>4, <1>10 DEF ShownHolds, FromLoad, Content
  <1>24. WaitingHold'
    <2>1. /\ \A i \in DOMAIN pendingCommits :
                /\ Content(pendingCommits[i]) /\ FromLoad(pendingCommits[i])
                /\ NotBefore(snapshot, pendingCommits[i])
          /\ \A i, j \in DOMAIN pendingCommits :
                i < j => NotBefore(pendingCommits[i], pendingCommits[j])
      BY <1>1 DEF WaitingHold
    <2>2. FromLoad(snapshot)
      BY <1>1, <1>4 DEF ShownHolds
    <2>3. pendingCommits \in Seq(View) /\ Len(pendingCommits) \in Nat
      BY <1>1 DEF StoreTyped
    <2>4. /\ \A i \in DOMAIN q : Content(q[i]) /\ FromLoad(q[i]) /\ NotBefore(snapshot, q[i])
          /\ \A i, j \in DOMAIN q : i < j => NotBefore(q[i], q[j])
      <3>1. CASE q = pendingCommits
        BY <3>1, <2>1
      <3>2. CASE q = Append(pendingCommits, v)
        <4>1. /\ DOMAIN q = 1..(Len(pendingCommits) + 1)
              /\ DOMAIN pendingCommits = 1..Len(pendingCommits)
              /\ q[Len(pendingCommits) + 1] = v
              /\ \A i \in 1..Len(pendingCommits) : q[i] = pendingCommits[i]
          BY <3>2, <2>3, ElementsTyped
        <4>2. \A i \in DOMAIN q : \/ i \in DOMAIN pendingCommits /\ q[i] = pendingCommits[i]
                                  \/ i = Len(pendingCommits) + 1 /\ q[i] = v
          BY <4>1, <2>3
        <4>3. \A i \in DOMAIN q : FromLoad(q[i])
          BY <4>2, <2>1, <1>2
        <4>4. \A i \in DOMAIN q : Content(q[i]) /\ NotBefore(snapshot, q[i])
          BY <4>2, <2>1, <2>2, <1>2
        <4>5. \A i, j \in DOMAIN q : i < j => NotBefore(q[i], q[j])
          <5> SUFFICES ASSUME NEW i \in DOMAIN q, NEW j \in DOMAIN q, i < j
                       PROVE  NotBefore(q[i], q[j])
            OBVIOUS
          <5>1. CASE j = Len(pendingCommits) + 1
            BY <5>1, <4>1, <4>3, <1>2
          <5>2. CASE j # Len(pendingCommits) + 1
            <6>1. i \in DOMAIN pendingCommits /\ j \in DOMAIN pendingCommits
              BY <5>2, <4>1, <2>3
            <6> QED
              BY <6>1, <4>2, <2>1, <4>1
          <5> QED
            BY <5>1, <5>2
        <4> QED
          BY <4>3, <4>4, <4>5
      <3> QED
        BY <3>1, <3>2, <1>13
    <2> QED
      BY <2>4, <1>1, <1>4, <1>11, <1>13, <1>14, WaitingNext
  <1>25. ContentHolds(o)'
    BY <1>9 DEF ContentHolds
  <1>26. LoadsHold'
    <2>1. /\ local'[o].requestId = loadRequestId + 1 /\ local'[o].conversation = c
          /\ pendingLoad'.conversation = c /\ pendingLoad'.requestId = loadRequestId + 1
          /\ local'[o].ticket = local[o].ticket /\ local'[o].epoch = local[o].epoch
          /\ local'[o].conversation = local[o].conversation
      BY <1>6, <1>8, <1>9 DEF c
    <2>2. generation <= generation' /\ cacheState.status # "ready"
      BY <1>2, <1>7 DEF Syncing
    <2> QED
      BY <2>1, <2>2, <1>1, <1>2, <1>4, <1>6, <1>9, <1>11, <1>14, BegunLoads
  <1>27. NothingLeft' /\ NoCache'
    BY <1>2, <1>10 DEF NothingLeft, NoCache
  <1>28. NoRegress /\ KeepsEvents
    BY <1>4, GoesForward DEF KeepsEvents, NotBefore
  <1>29. /\ local'[o].ticket = local[o].ticket /\ local'[o].requestId > loadRequestId
         /\ \A d \in Conversations : entry'[d] = entry[d]
    BY <1>7, <1>8, <1>9
  <1> QED
    BY <1>11, <1>12, <1>14, <1>15, <1>16, <1>17, <1>18, <1>20, <1>21, <1>22,
       <1>23, <1>24, <1>25, <1>26, <1>27, <1>28, <1>29, ViewStep

\* The listeners of the announcement have returned.
LEMMA AnnouncedReturnsStep ==
    ASSUME IInv, NEW o \in Calls, AnnouncedReturns(o)
    PROVE  IInv' /\ NoRegress /\ KeepsEvents
  <1>1. TypeOK /\ Stacked /\ EntriesHold /\ CallsTyped /\ CacheTyped
    BY TypeParts DEF IInv, StackHolds, ViewsHold
  <1>2. /\ stack # <<>> /\ o = Top /\ pc[o] = "announced"
        /\ UNCHANGED <<setup, cacheRequestId, cacheState, cacheEpoch, entry, stored,
                       events, delivered, queue, phase, retired>>
    BY DEF AnnouncedReturns
  <1> DEFINE c == local[o].conversation
             display == entry[c] # None /\ (~Shows(snapshot, c) \/ cacheReadOnly)
  <1>3. CASE /\ TicketSuperseded(o)
             /\ pc' = [pc EXCEPT ![o] = "done"]
             /\ result' = [result EXCEPT ![o] = "rejected"]
             /\ stack' = SubSeq(stack, 1, Len(stack) - 1)
             /\ UNCHANGED <<clientVars, cacheReadOnly, cleared, storeVars, local, sub>>
    <2>1. "done" \in PCs \ Publishing
      BY DEF PCs, Publishing, StorePublishing
    <2>2. Stacked' /\ stack' \in Seq(Calls)
      BY <1>1, <1>2, <1>3, <2>1, PoppedStack
    <2>3. /\ entry' \in [Conversations -> View \cup {None}]
          /\ \A d \in Conversations : entry'[d] = entry[d]
      BY <1>1, <1>2 DEF CacheTyped
    <2>4. pc[o] \in Waiting /\ pc[o] # "displayed"
      BY <1>2 DEF Waiting
    <2> QED
      BY <1>2, <1>3, <2>2, <2>3, <2>4, OvertakenStep
  <1>4. CASE /\ ~TicketSuperseded(o) /\ ~display
             /\ BeginGatewayLoad(o, local[o], cacheReadOnly)
             /\ stack' = SubSeq(stack, 1, Len(stack) - 1)
             /\ UNCHANGED <<disposed, generation, conversationEpoch, historyRequestId,
                            gatewaySubscription, cacheReadOnly, cleared, storeVars,
                            result, sub>>
    <2>1. "subscribing" \in PCs \ Publishing
      BY DEF PCs, Publishing, StorePublishing
    <2>2. pc' = [pc EXCEPT ![o] = "subscribing"]
      BY <1>4 DEF BeginGatewayLoad
    <2>3. Stacked' /\ stack' \in Seq(Calls)
      BY <1>1, <1>2, <1>4, <2>1, <2>2, PoppedStack
    <2>4. local[o] \in Locals
      BY <1>1 DEF CallsTyped
    <2>5. UNCHANGED cacheVars
      BY <1>2, <1>4 DEF cacheVars
    <2> QED
      BY <1>2, <1>4, <2>3, <2>4, <2>5, BeginStep
  <1>5. CASE /\ ~TicketSuperseded(o) /\ display
             /\ gatewaySubscription' = None
             /\ generation' = generation + 1
             /\ conversationEpoch' = conversationEpoch + 1
             /\ historyRequestId' = historyRequestId + 1
             /\ cacheReadOnly' = TRUE
             /\ Commit([entry[c] EXCEPT !.load = o], Notifying)
             /\ IF Notifying
                THEN /\ BeginGatewayLoad(o, local[o], TRUE)
                     /\ sub' = Closing(sub, gatewaySubscription)
                     /\ stack' = SubSeq(stack, 1, Len(stack) - 1)
                ELSE /\ pc' = [pc EXCEPT ![o] = "displayed"]
                     /\ local' = [local EXCEPT ![o].previous = gatewaySubscription]
                     /\ UNCHANGED <<loadRequestId, pendingLoad, pendingHandoff, sub, stack>>
             /\ UNCHANGED <<disposed, result>>
    <2>1. CASE Notifying
      <3>1. "subscribing" \in PCs \ Publishing
        BY DEF PCs, Publishing, StorePublishing
      <3>2. pc' = [pc EXCEPT ![o] = "subscribing"]
        BY <1>5, <2>1 DEF BeginGatewayLoad
      <3>3. Stacked' /\ stack' \in Seq(Calls)
        BY <1>1, <1>2, <1>5, <2>1, <3>1, <3>2, PoppedStack
      <3>4. Commit([entry[c] EXCEPT !.load = o], TRUE)
        BY <1>5, <2>1 DEF Commit
      <3> QED
        BY <1>2, <1>5, <2>1, <3>3, <3>4, CachedViewQueued
    <2>2. CASE ~Notifying
      <3>1. Commit([entry[c] EXCEPT !.load = o], FALSE)
        BY <1>5, <2>2 DEF Commit
      <3> QED
        BY <1>2, <1>5, <2>2, <3>1, CachedViewShown
    <2> QED
      BY <2>1, <2>2
  <1> QED
    BY <1>3, <1>4, <1>5 DEF AnnouncedReturns

\* Merging cached history into a loaded snapshot loses nothing, and invents no
\* event.
LEMMA MergeFacts ==
    ASSUME TypeOK, NEW loaded \in View, NEW cached \in View \cup {None}, Content(loaded),
           cached # None => Content(cached) /\ cached.conversation = loaded.conversation
    PROVE  LET latest == MergeHistory(loaded, cached)
           IN  /\ latest \in View /\ latest.conversation = loaded.conversation
               /\ latest.load = loaded.load /\ loaded.events \subseteq latest.events
               /\ Content(latest)
  <1>1. CASE cached = None \/ loaded.cursor = MaxPages
    BY <1>1 DEF MergeHistory
  <1>2. CASE ~(cached = None \/ loaded.cursor = MaxPages)
    <2>1. cached \in View
      BY <1>2
    <2>2. /\ loaded.conversation \in Conversations /\ loaded.load \in Calls \cup {None}
          /\ loaded.events \in SUBSET (1..MaxEvents) /\ loaded.pages \in SUBSET (1..MaxPages)
          /\ loaded.cursor \in 1..MaxPages
          /\ loaded = [conversation |-> loaded.conversation, load |-> loaded.load,
                       events |-> loaded.events, pages |-> loaded.pages,
                       cursor |-> loaded.cursor]
      BY ViewFields
    <2>3. /\ cached.events \in SUBSET (1..MaxEvents) /\ cached.pages \in SUBSET (1..MaxPages)
          /\ cached.cursor \in 1..MaxPages
      BY <2>1, ViewFields
    <2>4. PICK k \in 1..MaxPages :
             k = IF cached.cursor > loaded.cursor THEN cached.cursor ELSE loaded.cursor
      BY <2>2, <2>3
    <2>5. MergeHistory(loaded, cached) =
             [conversation |-> loaded.conversation, load |-> loaded.load,
              events |-> loaded.events \cup cached.events,
              pages |-> loaded.pages \cup cached.pages, cursor |-> k]
      BY <1>2, <2>2, <2>4 DEF MergeHistory
    <2>6. MergeHistory(loaded, cached) \in View
      BY <2>2, <2>3, <2>4, <2>5 DEF View, ViewsOf, MaxEvents, MaxPages
    <2>7. loaded.events \cup cached.events \subseteq 1..events[loaded.conversation]
      BY <1>2 DEF Content
    <2> QED
      BY <2>5, <2>6, <2>7 DEF Content
  <1> QED
    BY <1>1, <1>2

\* What was shown when the reload began, and what was shown meanwhile, is in the
\* rebased snapshot, with everything that was loaded.
LEMMA RebaseFacts ==
    ASSUME TypeOK, NEW baseline \in View, NEW loaded \in View, NEW current \in View,
           Content(baseline), Content(loaded), Content(current),
           baseline.conversation = loaded.conversation,
           current.conversation = loaded.conversation,
           baseline.events \subseteq loaded.events, baseline.events \subseteq current.events
    PROVE  LET next == Rebase(baseline, loaded, current)
           IN  /\ next \in View /\ next.conversation = loaded.conversation
               /\ next.load = loaded.load /\ loaded.events \subseteq next.events
               /\ current.events \subseteq next.events /\ Content(next)
  <1> DEFINE e == RebaseSet(baseline.events, loaded.events, current.events)
             g == RebaseSet(baseline.pages, loaded.pages, current.pages)
  <1>1. /\ loaded.conversation \in Conversations /\ loaded.load \in Calls \cup {None}
        /\ loaded.events \in SUBSET (1..MaxEvents) /\ loaded.pages \in SUBSET (1..MaxPages)
        /\ loaded.cursor \in 1..MaxPages
        /\ loaded = [conversation |-> loaded.conversation, load |-> loaded.load,
                     events |-> loaded.events, pages |-> loaded.pages,
                     cursor |-> loaded.cursor]
    BY ViewFields
  <1>2. /\ current.events \in SUBSET (1..MaxEvents) /\ current.pages \in SUBSET (1..MaxPages)
        /\ current.cursor \in 1..MaxPages
        /\ baseline.events \in SUBSET (1..MaxEvents) /\ baseline.pages \in SUBSET (1..MaxPages)
    BY ViewFields
  <1>3. /\ e \subseteq 1..MaxEvents /\ g \subseteq 1..MaxPages
        /\ e \subseteq 1..events[loaded.conversation]
        /\ loaded.events \subseteq e /\ current.events \subseteq e
    BY <1>1, <1>2 DEF RebaseSet, Content
  <1>4. PICK k \in 1..MaxPages :
           k = IF current.cursor = baseline.cursor THEN loaded.cursor ELSE current.cursor
    BY <1>1, <1>2
  <1>5. PICK w : w = [loaded EXCEPT !.events = e, !.pages = g, !.cursor = k]
    OBVIOUS
  <1>6. Rebase(baseline, loaded, current) = w
    BY <1>4, <1>5 DEF Rebase
  <1> HIDE DEF e, g
  <1>7. w \in View /\ w.conversation = loaded.conversation /\ w.load = loaded.load /\ w.events = e
    <2>1. e \in SUBSET (1..MaxEvents) /\ g \in SUBSET (1..MaxPages)
      BY <1>3
    <2>2. w = [loaded EXCEPT !.events = e, !.pages = g, !.cursor = k]
      BY <1>5
    <2> QED
      BY <2>1, <2>2, <1>4 DEF View, ViewsOf, MaxEvents, MaxPages
  <1> QED
    BY <1>3, <1>6, <1>7 DEF Content

\* The snapshot that a load commits: later than the one on display, with all that
\* was loaded, and, when it replaces a live view of the conversation, with all of
\* that view.
LEMMA CommittedView ==
    ASSUME IInv, NEW o \in Calls, NEW loaded \in View, NEW live,
           Current(o), Content(loaded), loaded.conversation = local[o].conversation,
           loaded.load = o,
           pendingHandoff.call = o => pendingHandoff.baseline.events \subseteq loaded.events,
           CommitLoaded(o, loaded, live)
    PROVE  /\ snapshot' \in View /\ snapshot'.conversation = local[o].conversation
           /\ snapshot'.load = o /\ Content(snapshot') /\ loaded.events \subseteq snapshot'.events
           /\ ~cacheReadOnly /\ Shows(snapshot, local[o].conversation)
                 => snapshot.events \subseteq snapshot'.events
           /\ cleared' \in BOOLEAN
  <1>1. /\ TypeOK /\ ViewsHold /\ LoadsHold /\ EntriesHold /\ ShownHolds /\ HandoffHolds
        /\ CurrentHolds(o)
    BY DEF IInv, ViewsHold, LoadsHold
  <1> DEFINE c == loaded.conversation
             cached == IF CacheEnabled THEN entry[c] ELSE None
             latest == MergeHistory(loaded, cached)
             rebased == pendingHandoff.call = o /\ snapshot # None
  <1>2. /\ snapshot' = IF rebased THEN Rebase(pendingHandoff.baseline, latest, snapshot) ELSE latest
        /\ cleared' = (cleared /\ rebased /\ snapshot' = [snapshot EXCEPT !.load = o])
    BY DEF CommitLoaded
  <1>3. c \in Conversations
    BY ViewFields
  <1>4. cached \in View \cup {None} /\ (cached # None => Content(cached) /\ cached.conversation = c)
    BY <1>1, <1>3, NumberTypes DEF EntriesHold
  <1>5. /\ latest \in View /\ latest.conversation = c /\ latest.load = o
        /\ loaded.events \subseteq latest.events /\ Content(latest)
    BY <1>1, <1>4, MergeFacts
  <1> HIDE DEF cached, latest
  <1>6. cleared' \in BOOLEAN
    BY <1>1, <1>2, NumberTypes
  <1>7. CASE rebased
    <2>1. HandoffServes(o)
      BY <1>1, <1>7 DEF CurrentHolds
    <2>2. /\ snapshot \in View /\ snapshot.conversation = c /\ Content(snapshot)
          /\ pendingHandoff.baseline.events \subseteq snapshot.events
      BY <2>1, <1>1, <1>7, NumberTypes DEF HandoffServes, Shows, ShownHolds
    <2>3. pendingHandoff.baseline \in View \cup {None}
      BY <1>1 DEF TypeOK
    <2>4. o # None
      BY <1>1, NoneIsNothing
    <2>5. /\ pendingHandoff.baseline \in View /\ pendingHandoff.baseline.conversation = c
          /\ Content(pendingHandoff.baseline)
      BY <2>3, <2>4, <1>1, <1>7 DEF HandoffHolds
    <2>6. pendingHandoff.baseline.events \subseteq latest.events
      BY <1>5, <1>7
    <2>7. LET next == Rebase(pendingHandoff.baseline, latest, snapshot)
          IN  /\ next \in View /\ next.conversation = latest.conversation
              /\ next.load = latest.load /\ latest.events \subseteq next.events
              /\ snapshot.events \subseteq next.events /\ Content(next)
      BY <2>2, <2>5, <2>6, <1>1, <1>5, RebaseFacts
    <2>8. snapshot' = Rebase(pendingHandoff.baseline, latest, snapshot)
      BY <1>2, <1>7
    <2> QED
      BY <2>7, <2>8, <1>5, <1>6
  <1>8. CASE ~rebased
    <2>1. snapshot' = latest
      BY <1>2, <1>8
    <2>2. ~(~cacheReadOnly /\ Shows(snapshot, local[o].conversation))
      BY <1>1, <1>8 DEF CurrentHolds, Shows
    <2> QED
      BY <2>1, <2>2, <1>5, <1>6
  <1> QED
    BY <1>7, <1>8

\* The current load commits its snapshot.
LEMMA CommitLoadedStep ==
    ASSUME IInv, NEW o \in Calls, NEW loaded \in View, NEW live \in BOOLEAN,
           Settled, pc[o] \in {"loading", "nonlive"}, ~LoadSuperseded(o),
           loaded.conversation = local[o].conversation, loaded.load = o, Content(loaded),
           live => /\ pc[o] = "loading" /\ sub[o] # "none"
                   /\ 1..local[o].since \subseteq loaded.events,
           ~live => pc[o] = "nonlive",
           pendingHandoff.call = o => pendingHandoff.baseline.events \subseteq loaded.events,
           CommitLoaded(o, loaded, live),
           UNCHANGED <<setup, cacheRequestId, cacheState, cacheEpoch, entry, stored, events,
                       delivered, queue, phase, retired>>
    PROVE  IInv' /\ NoRegress /\ KeepsEvents
  <1>1. /\ TypeOK /\ StackHolds /\ Stacked /\ CommitsWait /\ CallsHold /\ SubsHold /\ ViewsHold
        /\ LoadsHold /\ ShownHolds /\ ClientTyped /\ CacheTyped /\ StoreTyped /\ CallsTyped
        /\ GatewayTyped /\ NoCache /\ CallHolds(o) /\ SubHolds(o) /\ HandoffHolds
        /\ OwnedCommitted /\ NoSubscriptionLeak /\ CurrentHolds(o) /\ ReadyShowsLive
    BY TypeParts DEF IInv, StackHolds, ViewsHold, SubsHold, CallsHold, LoadsHold, Settling
  <1> DEFINE c == local[o].conversation
             k == [local[o] EXCEPT !.generation = generation + 1, !.previous = gatewaySubscription,
                                   !.since = 0, !.content = None]
  <1>2. Current(o) /\ ~disposed
    BY DEF Current, Asking, LoadSuperseded
  <1>3. /\ c \in Conversations /\ local[o].cursor = 0 /\ (CacheEnabled <=> local[o].ticket # 0)
        /\ local[o].requestId # 0 /\ result[o] = "none"
    BY <1>1 DEF CallHolds, Asking, Settling
  <1>4. CacheEnabled => Newest(o) /\ cacheState = Syncing(c)
    BY <1>1, <1>2 DEF CurrentHolds
  <1>5. /\ snapshot' \in View /\ snapshot'.conversation = c /\ snapshot'.load = o
        /\ Content(snapshot') /\ loaded.events \subseteq snapshot'.events
        /\ (~cacheReadOnly /\ Shows(snapshot, c) => snapshot.events \subseteq snapshot'.events)
        /\ cleared' \in BOOLEAN
    BY <1>2, CommittedView
  <1>6. /\ pendingCommits = <<>> /\ (\A p \in Calls : pc[p] \notin Publishing)
        /\ stack = <<>>
    BY <1>1, SettledFacts DEF Settled
  <1>7. generation \in Nat /\ gatewaySubscription \in Calls \cup {None}
        /\ conversationEpoch \in Nat /\ historyRequestId \in Nat
        /\ conversationEpoch + 1 \in Nat
    BY <1>1, NumberTypes
  <1>8. /\ conversationEpoch' \in Nat /\ generation' = generation + 1
        /\ historyRequestId' = historyRequestId + 1
        /\ gatewaySubscription' = IF live THEN o ELSE None
        /\ ClearPendingLoad(o) /\ cacheReadOnly' = FALSE /\ pendingCommits' = <<>>
        /\ pc' = [pc EXCEPT ![o] = "committed"] /\ stack' = <<o>>
        /\ UNCHANGED <<disposed, loadRequestId, result, sub>>
    <2>1. CASE Shows(snapshot, loaded.conversation)
      BY <2>1, <1>6, <1>7 DEF CommitLoaded, EpochOf
    <2>2. CASE ~Shows(snapshot, loaded.conversation)
      BY <2>2, <1>6, <1>7 DEF CommitLoaded, EpochOf
    <2> QED
      BY <2>1, <2>2
  <1>9. local' = [local EXCEPT ![o] = k]
    <2>1. local[o] \in Locals /\ local \in [Calls -> Locals]
      BY <1>1, CallTypes DEF CallsTyped
    <2>2. local' = [local EXCEPT ![o].generation = generation + 1,
                                 ![o].previous = gatewaySubscription,
                                 ![o].since = 0, ![o].content = None]
      BY DEF CommitLoaded
    <2> QED
      BY <2>1, <2>2 DEF Locals
  <1>10. /\ k \in Locals /\ k.conversation = c /\ k.ticket = local[o].ticket
         /\ k.epoch = local[o].epoch /\ k.requestId = local[o].requestId /\ k.cursor = 0
         /\ k.generation = generation + 1 /\ k.previous = gatewaySubscription
    <2>1. local[o] \in Locals /\ generation + 1 \in Nat
      BY <1>1, <1>7, CallTypes
    <2> QED
      BY <2>1, <1>3, <1>7 DEF Locals
  <1> HIDE DEF k, c
  <1>11. /\ pc' \in [Calls -> PCs] /\ pc'[o] = "committed"
         /\ \A p \in Calls : p # o => pc'[p] = pc[p]
         /\ local' \in [Calls -> Locals] /\ local'[o] = k
         /\ \A p \in Calls : p # o => local'[p] = local[p]
    BY <1>1, <1>8, <1>9, <1>10 DEF CallsTyped, PCs
  <1>12. /\ View' = View /\ Locals' = Locals /\ MaxEvents' = MaxEvents /\ CacheEnabled' = CacheEnabled
         /\ setup' = setup
    BY SameSets
  <1>13. OthersKept(o) /\ NumbersKept(o)
    BY <1>3, <1>8, <1>10, <1>11 DEF OthersKept, Kept, NumbersKept
  <1>14. /\ pendingLoad' \in {pendingLoad, NoLoad}
         /\ pendingHandoff' = IF pendingHandoff.call = o THEN NoHandoff ELSE pendingHandoff
    BY <1>8 DEF ClearPendingLoad
  <1>15. TypeOK'
    <2>1. cacheReadOnly' \in BOOLEAN
      BY <1>8
    <2>2. CacheTyped'
      BY <2>1, <1>1, <1>5, <1>12 DEF CacheTyped
    <2>3. StoreTyped'
      <3>1. pendingCommits' \in Seq(View)
        BY <1>8
      <3> QED
        BY <3>1, <1>5, <1>12 DEF StoreTyped
    <2>4. ClientTyped'
      <3>1. pendingLoad' \in [conversation : Conversations \cup {None}, requestId : Nat]
        <4>1. pendingLoad \in [conversation : Conversations \cup {None}, requestId : Nat]
          BY <1>1 DEF ClientTyped
        <4>2. NoLoad \in [conversation : Conversations \cup {None}, requestId : Nat]
          BY DEF NoLoad
        <4> QED
          BY <4>1, <4>2, <1>14
      <3>2. pendingHandoff' \in [call : Calls \cup {None},
                           conversation : Conversations \cup {None},
                           generation : Nat, baseline : View \cup {None}]
        <4>1. pendingHandoff \in [call : Calls \cup {None},
                           conversation : Conversations \cup {None},
                           generation : Nat, baseline : View \cup {None}]
          BY <1>1 DEF ClientTyped
        <4>2. NoHandoff \in [call : Calls \cup {None},
                           conversation : Conversations \cup {None},
                           generation : Nat, baseline : View \cup {None}]
          BY DEF NoHandoff
        <4> QED
          BY <4>1, <4>2, <1>14
      <3>3. gatewaySubscription' \in Calls \cup {None} /\ generation' \in Nat
            /\ historyRequestId' \in Nat /\ loadRequestId' \in Nat /\ disposed' \in BOOLEAN
        BY <1>1, <1>7, <1>8, NumberTypes
      <3> QED
        BY <3>1, <3>2, <3>3, <1>8, <1>12 DEF ClientTyped
    <2>5. CallsTyped'
      <3>1. result' \in [Calls -> {"none", "ok", "rejected", "notFound"}]
        BY <1>1, <1>8 DEF CallsTyped
      <3>2. stack' \in Seq(Calls)
        BY <1>8
      <3> QED
        BY <3>1, <3>2, <1>11, <1>12 DEF CallsTyped
    <2>6. GatewayTyped'
      BY <1>1, <1>8, <1>12 DEF GatewayTyped
    <2> QED
      BY <2>2, <2>3, <2>4, <2>5, <2>6, <1>1, TypePartsNext DEF TypeOK
  <1>16. CountersGrow
    BY <1>1, <1>7, <1>8, NumberTypes DEF CountersGrow
  <1>17. snapshot' # None
    BY <1>1, <1>5, NoneIsNothing
  <1>18. Stacked' /\ CommitsWait'
    <2>1. /\ DOMAIN stack' = {1} /\ stack'[1] = o /\ Elements(stack') = {o}
      BY <1>8 DEF Elements
    <2>2. \A p \in Calls : pc'[p] \in Publishing <=> p = o
      BY <1>6, <1>11 DEF Publishing, StorePublishing
    <2> QED
      BY <2>1, <2>2, <1>8, <1>17 DEF Stacked, Elements, CommitsWait
  <1>19. CallHolds(o)'
    <2>1. k.ticket # 0 => k.epoch <= cacheEpoch'[c]
      BY <1>1, <1>10 DEF CallHolds, c, Settling
    <2>2. k.ticket <= cacheRequestId' /\ k.requestId <= loadRequestId'
      BY <1>1, <1>3, <1>8, <1>10 DEF CallHolds, Settling
    <2>3. k.generation <= generation'
      BY <1>7, <1>8, <1>10
    <2> QED
      BY <2>1, <2>2, <2>3, <1>3, <1>8, <1>10, <1>11, <1>12 DEF CallHolds, Waiting, Asking,
             Ending, Settling
  <1>20. SubHolds(o)'
    <2>1. local'[o].conversation = local[o].conversation /\ sub' = sub
      BY <1>8, <1>10, <1>11 DEF c
    <2>2. pc'[o] \notin {"idle", "paging", "deleting"} \cup Waiting \cup Asking
      BY <1>11 DEF Waiting, Asking
    <2> QED
      BY <2>1, <2>2, <1>1, SubKeptPast
  <1>21. \A p \in Calls : p # o => SubStep(p)
    BY <1>8 DEF SubStep
  <1>22. pc[o] \notin PastCommit /\ pc'[o] \in PastCommit /\ pc'[o] \in Holding /\ pc[o] \notin Holding
    BY <1>11 DEF PastCommit, Ending, Holding, Settling
  <1>23. gatewaySubscription # o /\ o # None
    BY <1>1, <1>22, NoneIsNothing DEF OwnedCommitted
  <1>24. OwnedCommitted'
    <2>1. local'[o].previous = gatewaySubscription
      BY <1>10, <1>11
    <2>2. gatewaySubscription' \in {None, o}
      BY <1>8
    <2>3. gatewaySubscription # None => gatewaySubscription # gatewaySubscription'
      BY <1>23, <2>2
    <2> QED
      BY <2>1, <2>2, <2>3, <1>1, <1>13, <1>22, OwnedCommittedKept
  <1>25. OwnedMatchesView'
    <2>1. CASE live
      <3>1. gatewaySubscription' = o /\ sub'[o] = "open"
        BY <2>1, <1>1, <1>8 DEF SubHolds
      <3>2. LatestState' = snapshot'
        BY <1>8 DEF LatestState
      <3>3. local'[o].generation = generation' /\ local'[o].conversation = c /\ ~disposed'
            /\ ~cacheReadOnly'
        BY <1>2, <1>8, <1>10, <1>11
      <3> QED
        BY <3>1, <3>2, <3>3, <1>5, <1>17 DEF OwnedMatchesView, Shows
    <2>2. CASE ~live
      BY <2>2, <1>8 DEF OwnedMatchesView
    <2> QED
      BY <2>1, <2>2
  <1>26. OwnedDelivers'
    <2>1. CASE live
      <3>1. phase[o] = "buffering"
        BY <2>1, <1>1 DEF SubHolds, Asking
      <3>2. \A n \in 1..delivered[o] : n <= local[o].since \/ n \in Elements(queue[o])
        BY <2>1, <1>1 DEF SubHolds
      <3>3. delivered[o] \in 0..MaxEvents /\ local[o].since \in Nat /\ MaxEvents \in Nat
        BY <1>1, CallTypes, SetupFacts
      <3>4. \A n \in 1..delivered[o] : n \in snapshot'.events \/ n \in Elements(queue[o])
        <4> SUFFICES ASSUME NEW n \in 1..delivered[o], n \notin Elements(queue[o])
                     PROVE  n \in snapshot'.events
          OBVIOUS
        <4>1. n \in 1..local[o].since
          BY <3>2, <3>3
        <4> QED
          BY <4>1, <2>1, <1>5
      <3>5. gatewaySubscription' = o
        BY <2>1, <1>8
      <3>6. \A n \in 1..delivered'[o] :
               \/ n \in snapshot'.events
               \/ phase'[o] # "active" /\ n \in Elements(queue[o])
        BY <3>1, <3>4
      <3> QED
        BY <3>5, <3>6 DEF OwnedDelivers, Elements
    <2>2. CASE ~live
      BY <2>2, <1>8 DEF OwnedDelivers
    <2> QED
      BY <2>1, <2>2
  <1>27. NoSubscriptionLeak'
    <2>1. local'[o].previous = gatewaySubscription
      BY <1>10, <1>11
    <2>2. pc[o] \in {"subscribing", "loading"} => gatewaySubscription' = o
      BY <1>8
    <2> QED
      BY <2>1, <2>2, <1>1, <1>8, <1>13, <1>22, NoLeakKept
  <1>28. ShownHolds'
    <2>1. \A w : w = snapshot' => w.load = o /\ Content(w)
      BY <1>5
    <2>2. local'[o].cursor = 0 /\ local'[o].ticket = local[o].ticket
          /\ local'[o].requestId = local[o].requestId
      BY <1>10, <1>11
    <2>3. snapshot'.load = o /\ snapshot'.events \subseteq 1..events'[snapshot'.conversation]
      BY <1>5 DEF Content
    <2>4. FromLoad(snapshot)'
      BY <2>2, <2>3, <1>3, <1>12 DEF FromLoad
    <2> QED
      BY <2>3, <2>4 DEF ShownHolds, Content
  <1>29. WaitingHold'
    BY <1>8 DEF WaitingHold
  <1>30. ContentHolds(o)'
    BY <1>11 DEF ContentHolds
  <1>31. LoadsHold'
    <2>1. \A p \in Calls : CurrentHolds(p)'
      <3>1. CurrentHolds(o)'
        BY <1>11 DEF CurrentHolds, Current, Asking
      <3>2. ASSUME NEW p \in Calls, p # o PROVE CurrentHolds(p)'
        <4>1. Kept(p) /\ CallHolds(p)
          BY <3>2, <1>1, <1>13 DEF OthersKept, CallsHold, Settling
        <4>2. ~Current(p)
          BY <3>2, <1>1, <1>2, OneCurrent
        <4> QED
          BY <4>1, <4>2, <1>1, <1>15, <1>16, OutOfRace
      <3> QED
        BY <3>1, <3>2
    <2>2. \A p \in Calls : TicketHolds(p)'
      <3>1. TicketHolds(o)'
        <4>1. local'[o].ticket # 0 => /\ cacheState' = Syncing(local'[o].conversation)
          BY <1>3, <1>4, <1>10, <1>11 DEF Syncing
        <4>2. LatestState' = snapshot'
          BY <1>8 DEF LatestState
        <4>3. LatestState' # None /\ LatestState'.conversation = local'[o].conversation
              /\ ~cacheReadOnly'
          BY <4>2, <1>5, <1>8, <1>10, <1>11, <1>17
        <4> QED
          BY <4>1, <4>3, <1>11 DEF TicketHolds, Waiting, Syncing, Shows
      <3>2. ASSUME NEW p \in Calls, p # o PROVE TicketHolds(p)'
        <4>1. Kept(p) /\ CallHolds(p) /\ TicketHolds(p)
          BY <3>2, <1>1, <1>13 DEF OthersKept, CallsHold, LoadsHold, Settling
        <4>2. CASE CacheEnabled
          <5>1. local[p].ticket = 0 \/ TicketSuperseded(p)
            BY <4>2, <3>2, <1>1, <1>2, OneCurrent
          <5> QED
            BY <4>1, <5>1, <1>1, <1>15, <1>16, OutOfRace
        <4>3. CASE ~CacheEnabled
          <5>1. local[p].ticket # 0 => pc[p] \notin Waiting \cup Ending \cup {"settling"}
            BY <4>1, <4>3 DEF CallHolds, Settling
          <5>2. TicketSuperseded(p)' <=> TicketSuperseded(p)
            BY <4>1, <1>8 DEF TicketSuperseded, Kept
          <5> QED
            BY <4>1, <5>1, <5>2 DEF TicketHolds, Kept, Syncing
        <4> QED
          BY <4>2, <4>3
      <3> QED
        BY <3>1, <3>2
    <2>3. HandoffHolds'
      <3>1. CASE pendingHandoff.call = o
        BY <3>1, <1>14 DEF HandoffHolds, NoHandoff
      <3>2. CASE pendingHandoff.call # o
        <4>1. pendingHandoff' = pendingHandoff
          BY <3>2, <1>14
        <4>2. pendingHandoff.call # None =>
                 /\ pc'[pendingHandoff.call] \in Asking
                 /\ local'[pendingHandoff.call].conversation
                       = local[pendingHandoff.call].conversation
          BY <3>2, <1>1, <1>11 DEF HandoffHolds, ClientTyped
        <4>3. EventsGrow
          BY <1>1, NumberTypes DEF EventsGrow
        <4> QED
          BY <4>1, <4>2, <4>3, <1>1, <1>12, <1>15, HandoffKept
      <3> QED
        BY <3>1, <3>2
    <2>4. \A p \in retired' : Doomed(p)'
      <3> SUFFICES ASSUME NEW p \in retired PROVE Doomed(p)'
        OBVIOUS
      <3>1. p \in Calls /\ Doomed(p)
        BY <1>1 DEF TypeOK, LoadsHold
      <3>2. p # o
        BY <3>1 DEF Doomed, Waiting, Asking, Settling
      <3>3. Kept(p) /\ CallHolds(p)
        BY <3>1, <3>2, <1>1, <1>13 DEF OthersKept, CallsHold, Settling
      <3> QED
        BY <3>1, <3>3, <1>1, <1>15, <1>16, DoomedKept
    <2>5. ReadyShowsLive'
      <3>1. cacheState.status # "ready"
        BY <1>1, <1>4 DEF NoCache, Syncing
      <3> QED
        BY <3>1 DEF ReadyShowsLive
    <2> QED
      BY <2>1, <2>2, <2>3, <2>4, <2>5 DEF LoadsHold
  <1>32. NothingLeft' /\ NoCache'
    BY <1>1, <1>2, <1>8, <1>12 DEF NothingLeft, NoCache
  <1>33. NoRegress
    <2>1. ASSUME snapshot # None PROVE NotBefore(snapshot, snapshot')
      <3>1. FromLoad(snapshot)
        BY <2>1, <1>1 DEF ShownHolds
      <3>2. local[o].requestId = loadRequestId
        BY DEF LoadSuperseded
      <3> QED
        BY <3>1, <3>2, <1>1, <1>3, <1>4, <1>5, NewestFollows
    <2> QED
      BY <2>1, GoesForward
  <1>34. KeepsEvents
    BY <1>5 DEF KeepsEvents, Shows
  <1>35. /\ local'[o].ticket = local[o].ticket /\ local'[o].requestId = local[o].requestId
         /\ \A d \in Conversations : entry'[d] = entry[d]
    BY <1>10, <1>11
  <1> QED
    BY <1>3, <1>12, <1>13, <1>15, <1>16, <1>18, <1>19, <1>20, <1>21, <1>24, <1>25, <1>26, <1>27,
       <1>28, <1>29, <1>30, <1>31, <1>32, <1>33, <1>34, <1>35, ViewStep

\* The snapshot of a load arrives, or its request fails.
LEMMA LoadReturnsStep ==
    ASSUME IInv, NEW o \in Calls, LoadReturns(o)
    PROVE  IInv' /\ NoRegress /\ KeepsEvents
  <1>1. TypeOK /\ CallHolds(o) /\ LoadsHold /\ CurrentHolds(o)
    BY DEF IInv, CallsHold, LoadsHold, Settling
  <1> DEFINE c == local[o].conversation
             Loaded(n) == [conversation |-> c, load |-> o, events |-> 1..n,
                           pages |-> {1}, cursor |-> 1]
  <1>2. /\ Settled /\ pc[o] = "loading"
        /\ UNCHANGED <<setup, cacheRequestId, cacheState, cacheEpoch, entry, stored, events,
                       delivered, queue, phase, retired>>
    BY DEF LoadReturns
  <1>3. CASE \E outcome \in Failures : Abandon(o, outcome)
    <2>1. PICK outcome \in {"rejected", "notFound"} : Abandon(o, outcome)
      BY <1>3 DEF Failures
    <2> QED
      BY <2>1, <1>2, AbandonStep DEF Asking
  <1>4. CASE \E n \in local[o].since..events[c] : /\ ~LoadSuperseded(o) /\ sub[o] # "none"
                                                  /\ CommitLoaded(o, Loaded(n), TRUE)
    <2>1. PICK n \in local[o].since..events[c] : /\ ~LoadSuperseded(o) /\ sub[o] # "none"
                                                 /\ CommitLoaded(o, Loaded(n), TRUE)
      BY <1>4
    <2>2. c \in Conversations
      BY <1>1, <1>2 DEF CallHolds, Settling
    <2>3. events[c] \in 0..MaxEvents /\ MaxEvents \in Nat /\ 1 \in 1..MaxPages
          /\ local[o].since \in Nat
      BY <2>2, <1>1, NumberTypes, SetupFacts, CallTypes
    <2>4. n \in Nat /\ 1..n \subseteq 1..events[c] /\ 1..n \subseteq 1..MaxEvents
          /\ 1..local[o].since \subseteq 1..n
      BY <2>3
    <2>5. PICK v : v = Loaded(n)
      OBVIOUS
    <2>6. v \in View /\ v.load = o /\ v.conversation = c /\ v.events = 1..n
      BY <2>2, <2>3, <2>4, <2>5 DEF View, ViewsOf, MaxEvents, MaxPages
    <2>7. Content(v)
      BY <2>4, <2>6 DEF Content
    <2>8. Current(o)
      BY <2>1, <1>2 DEF Current, Asking
    <2>9. pendingHandoff.call = o => pendingHandoff.baseline.events \subseteq v.events
      BY <2>4, <2>6, <2>8, <1>1, <1>2 DEF CurrentHolds, HandoffServes
    <2>10. CommitLoaded(o, v, TRUE)
      BY <2>1, <2>5
    <2> HIDE DEF Loaded
    <2>11. 1..local[o].since \subseteq v.events /\ TRUE \in BOOLEAN
      BY <2>4, <2>6
    <2> QED
      BY <2>1, <2>6, <2>7, <2>9, <2>10, <2>11, <1>2, CommitLoadedStep
  <1>5. CASE \E n \in local[o].since..events[c] :
                /\ ~LoadSuperseded(o)
                /\ sub' = Closing(sub, o)
                /\ local' = [local EXCEPT ![o].since = 0, ![o].content = Loaded(n)]
                /\ pc' = [pc EXCEPT ![o] = "nonlive"]
                /\ UNCHANGED <<clientVars, cacheReadOnly, cleared, storeVars, result, stack>>
    <2>1. PICK n \in local[o].since..events[c] :
                /\ ~LoadSuperseded(o)
                /\ sub' = Closing(sub, o)
                /\ local' = [local EXCEPT ![o].since = 0, ![o].content = Loaded(n)]
                /\ pc' = [pc EXCEPT ![o] = "nonlive"]
                /\ UNCHANGED <<clientVars, cacheReadOnly, cleared, storeVars, result, stack>>
      BY <1>5
    <2> QED
      BY <2>1, <1>2, AnsweredStep
  <1> QED
    BY <1>3, <1>4, <1>5 DEF LoadReturns

\* The subscription of a snapshot without live updates is closed.
LEMMA NonliveReturnsStep ==
    ASSUME IInv, NEW o \in Calls, NonliveReturns(o)
    PROVE  IInv' /\ NoRegress /\ KeepsEvents
  <1>1. /\ TypeOK /\ CallHolds(o) /\ LoadsHold /\ CurrentHolds(o) /\ ContentHolds(o)
    BY DEF IInv, CallsHold, LoadsHold, ViewsHold, Settling
  <1>2. /\ Settled /\ pc[o] = "nonlive"
        /\ UNCHANGED <<setup, cacheRequestId, cacheState, cacheEpoch, entry, stored, events,
                       delivered, queue, phase, retired>>
    BY DEF NonliveReturns
  <1>3. CASE LoadSuperseded(o)
    BY <1>2, <1>3, AbandonStep DEF NonliveReturns, Asking
  <1>4. CASE ~LoadSuperseded(o)
    <2>1. CommitLoaded(o, local[o].content, FALSE)
      BY <1>4 DEF NonliveReturns
    <2>2. /\ local[o].content \in View /\ local[o].content.load = o
          /\ local[o].content.conversation = local[o].conversation /\ Content(local[o].content)
      BY <1>1, <1>2, CallTypes DEF ContentHolds
    <2>3. Current(o)
      BY <1>2, <1>4 DEF Current, Asking
    <2>4. pendingHandoff.call = o =>
             pendingHandoff.baseline.events \subseteq local[o].content.events
      BY <2>3, <1>1, <1>2 DEF CurrentHolds, HandoffServes
    <2>5. FALSE \in BOOLEAN
      OBVIOUS
    <2> QED
      BY <2>1, <2>2, <2>4, <2>5, <1>2, <1>4, CommitLoadedStep
  <1> QED
    BY <1>3, <1>4

-----------------------------------------------------------------------------
(* Steps that retire loads.                                                *)

\* The loads that are retired were overtaken.
LEMMA RetiredDoomed ==
    ASSUME TypeOK, TypeOK', CallsHold, LoadsHold, CountersGrow, NEW o \in Calls, OthersKept(o),
           pc[o] \notin Waiting \cup Asking, o \in retired => Doomed(o)',
           NEW R \in SUBSET Calls, retired' = retired \cup R,
           \A p \in R : /\ pc[p] \in Waiting \cup Asking
                        /\ pc[p] \in Waiting => TicketSuperseded(p)'
                        /\ pc[p] \in Asking => LoadSuperseded(p)'
    PROVE  \A p \in retired' : Doomed(p)'
  <1> SUFFICES ASSUME NEW p \in retired \cup R PROVE Doomed(p)'
    OBVIOUS
  <1>1. p \in Calls
    BY DEF TypeOK
  <1>2. CASE p = o
    BY <1>2
  <1>3. CASE p # o
    <2>1. Kept(p) /\ CallHolds(p)
      BY <1>1, <1>3 DEF OthersKept, CallsHold
    <2>2. CASE p \in R
      BY <2>1, <2>2 DEF Doomed, Kept
    <2>3. CASE p \in retired
      BY <2>1, <2>3, <1>1, DoomedKept DEF LoadsHold
    <2> QED
      BY <2>2, <2>3
  <1> QED
    BY <1>2, <1>3

\* The handoff is kept or given up.
LEMMA HandoffCancelled ==
    ASSUME TypeOK, TypeOK', LoadsHold, setup' = setup, events' = events,
           NEW o \in Calls, OthersKept(o), pc[o] \notin Asking,
           pendingHandoff' \in {pendingHandoff, NoHandoff}
    PROVE  HandoffHolds'
  <1>1. CASE pendingHandoff' = NoHandoff
    BY <1>1 DEF HandoffHolds, NoHandoff
  <1>2. CASE pendingHandoff' = pendingHandoff
    <2>1. pendingHandoff.call # None => pendingHandoff.call \in Calls /\ pc[pendingHandoff.call] \in Asking
      BY DEF LoadsHold, HandoffHolds, TypeOK
    <2>2. pendingHandoff.call # None => Kept(pendingHandoff.call)
      BY <2>1 DEF OthersKept
    <2>3. EventsGrow
      BY NumberTypes DEF EventsGrow
    <2> QED
      BY <1>2, <2>1, <2>2, <2>3, HandoffKept DEF Kept
  <1> QED
    BY <1>1, <1>2

\* A call keeps the numbers it was given.
LEMMA NumbersStand ==
    ASSUME TypeOK, TypeOK', CountersGrow, NEW o \in Calls, CallHolds(o),
           local'[o].ticket = local[o].ticket, local'[o].generation = local[o].generation,
           local'[o].requestId = local[o].requestId, local'[o].cursor = local[o].cursor,
           local'[o].epoch = local[o].epoch,
           local[o].ticket # 0 => local'[o].conversation = local[o].conversation
    PROVE  /\ local'[o].ticket <= cacheRequestId'
           /\ local'[o].generation <= generation'
           /\ local'[o].cursor = 0 => local'[o].requestId <= loadRequestId'
           /\ local'[o].ticket # 0 =>
                 /\ local'[o].conversation \in Conversations
                 /\ local'[o].epoch <= cacheEpoch'[local'[o].conversation]
  <1>1. /\ local[o].ticket \in Nat /\ local[o].requestId \in Nat /\ local[o].generation \in Nat
        /\ local[o].epoch \in Nat
    BY CallTypes
  <1>2. /\ cacheRequestId \in Nat /\ loadRequestId \in Nat /\ generation \in Nat
        /\ \A c \in Conversations : cacheEpoch[c] \in Nat
    BY NumberTypes
  <1>3. /\ cacheRequestId' \in Nat /\ loadRequestId' \in Nat /\ generation' \in Nat
        /\ \A c \in Conversations : cacheEpoch'[c] \in Nat
    BY DEF TypeOK
  <1>4. /\ local[o].ticket <= cacheRequestId /\ local[o].generation <= generation
        /\ local[o].cursor = 0 => local[o].requestId <= loadRequestId
        /\ local[o].ticket # 0 => /\ local[o].conversation \in Conversations
                                  /\ local[o].epoch <= cacheEpoch[local[o].conversation]
    BY DEF CallHolds
  <1>5. /\ cacheRequestId <= cacheRequestId' /\ loadRequestId <= loadRequestId'
        /\ generation <= generation'
        /\ \A c \in Conversations : cacheEpoch[c] <= cacheEpoch'[c]
    BY DEF CountersGrow
  <1>6. local[o].ticket # 0 =>
           /\ local'[o].conversation \in Conversations
           /\ local[o].epoch <= cacheEpoch'[local'[o].conversation]
    <2> SUFFICES ASSUME local[o].ticket # 0
                 PROVE  /\ local'[o].conversation \in Conversations
                        /\ local[o].epoch <= cacheEpoch'[local'[o].conversation]
      OBVIOUS
    <2>1. PICK c \in Conversations : c = local[o].conversation
      BY <1>4
    <2>2. local[o].epoch <= cacheEpoch[c] /\ cacheEpoch[c] <= cacheEpoch'[c]
      BY <2>1, <1>4, <1>5
    <2>3. cacheEpoch[c] \in Nat /\ cacheEpoch'[c] \in Nat
      BY <1>2, <1>3
    <2> QED
      BY <2>1, <2>2, <2>3, <1>1
  <1> QED
    BY <1>1, <1>2, <1>3, <1>4, <1>5, <1>6

\* A conversation the cache forgets overtakes the loads of it that wait.
LEMMA ForgottenTickets ==
    ASSUME TypeOK, CallsHold, NEW c \in Conversations, ForgetInCache(c), local' = local,
           NEW p \in Calls, pc[p] \in Waiting, local[p].conversation = c
    PROVE  TicketSuperseded(p)'
  <1>1. CallHolds(p)
    BY DEF CallsHold, Settling
  <1>2. CacheEnabled /\ local[p].ticket # 0
    BY <1>1 DEF CallHolds, Settling
  <1>3. local[p].epoch <= cacheEpoch[c]
    BY <1>1, <1>2 DEF CallHolds, Settling
  <1>4. cacheEpoch'[c] = cacheEpoch[c] + 1
    BY <1>2 DEF ForgetInCache, TypeOK
  <1>5. local[p].epoch \in Nat /\ cacheEpoch[c] \in Nat
    BY CallTypes, NumberTypes
  <1> QED
    BY <1>3, <1>4, <1>5 DEF TicketSuperseded

\* What forgetting a conversation leaves of the cache.
LEMMA ForgetFacts ==
    ASSUME TypeOK, NEW c \in Conversations, ForgetInCache(c)
    PROVE  /\ cacheEpoch' \in [Conversations -> Nat]
           /\ entry' \in [Conversations -> View \cup {None}] /\ stored' \subseteq Conversations
           /\ \A d \in Conversations : /\ cacheEpoch[d] <= cacheEpoch'[d]
                                       /\ entry'[d] \in {entry[d], None}
  <1>1. /\ cacheEpoch \in [Conversations -> Nat]
        /\ entry \in [Conversations -> View \cup {None}] /\ stored \subseteq Conversations
    BY DEF TypeOK
  <1>2. CASE CacheEnabled
    <2>1. /\ cacheEpoch' = [cacheEpoch EXCEPT ![c] = @ + 1]
          /\ entry' = [entry EXCEPT ![c] = None] /\ stored' = stored \ {c}
      BY <1>2 DEF ForgetInCache
    <2> QED
      BY <1>1, <2>1
  <1>3. CASE ~CacheEnabled
    <2>1. UNCHANGED <<cacheEpoch, entry, stored>>
      BY <1>3 DEF ForgetInCache
    <2> QED
      BY <1>1, <2>1
  <1> QED
    BY <1>2, <1>3

\* A call that is no load leaves the race of the loads as it is.
LEMMA RaceLeft ==
    ASSUME TypeOK, TypeOK', CallsHold, LoadsHold, CountersGrow, NEW o \in Calls, OthersKept(o),
           UNCHANGED <<setup, disposed, generation, cacheReadOnly, cacheState, events,
                       loadRequestId, pendingLoad, pendingHandoff>>,
           UNCHANGED <<snapshot, pendingCommits>> \/ cacheReadOnly,
           LatestState' = None <=> LatestState = None,
           pc[o] \notin Waiting \cup Asking, local'[o].ticket \in {0, local[o].ticket},
           CurrentHolds(o)', TicketHolds(o)', o \in retired => Doomed(o)',
           NEW R \in SUBSET Calls, retired' = retired \cup R,
           \A p \in R : /\ pc[p] \in Waiting \cup Asking
                        /\ pc[p] \in Waiting => TicketSuperseded(p)'
                        /\ pc[p] \in Asking => ~Current(p)
    PROVE  LoadsHold'
  <1>1. HandoffHolds /\ ReadyShowsLive /\ TicketsKept /\ CacheEnabled' = CacheEnabled
    BY NoTicket, SameSets DEF LoadsHold
  <1>2. cacheReadOnly \/ LatestState' = LatestState
    BY DEF LatestState
  <1>3. ASSUME NEW p \in Calls, p # o
        PROVE  /\ CurrentHolds(p)' /\ TicketHolds(p)'
               /\ LoadSuperseded(p)' <=> LoadSuperseded(p)
    <2>1. Kept(p) /\ CallHolds(p) /\ CurrentHolds(p) /\ TicketHolds(p)
      BY <1>3 DEF OthersKept, CallsHold, LoadsHold
    <2>2. LoadSuperseded(p)' <=> LoadSuperseded(p)
      BY <2>1 DEF LoadSuperseded, Kept
    <2>3. CurrentHolds(p)'
      <3> SUFFICES ASSUME Current(p)' PROVE CurrentHolds(p)'
        BY DEF CurrentHolds
      <3>1. Current(p)
        BY <2>1, <2>2 DEF Current, Kept
      <3>2. local'[p] = local[p] /\ pc'[p] = pc[p]
        BY <2>1 DEF Kept
      <3>3. CacheEnabled => Newest(p)'
        BY <3>1, <3>2, <2>1, <1>1, NewestKept DEF CurrentHolds
      <3>4. /\ pendingLoad'.conversation = local'[p].conversation
            /\ pendingLoad'.requestId = loadRequestId'
            /\ CacheEnabled' => /\ Newest(p)'
                                /\ cacheState' = Syncing(local'[p].conversation)
        BY <3>1, <3>2, <3>3, <2>1, <1>1 DEF CurrentHolds
      <3>5. CASE cacheReadOnly
        <4>1. pendingHandoff.call # p
          BY <3>1, <3>5, <2>1 DEF CurrentHolds, HandoffServes
        <4> QED
          BY <3>4, <3>5, <4>1 DEF CurrentHolds, Syncing
      <3>6. CASE ~cacheReadOnly
        BY <3>1, <3>2, <3>4, <3>6, <2>1 DEF CurrentHolds, HandoffServes, Shows, Syncing
      <3> QED
        BY <3>5, <3>6
    <2>4. TicketHolds(p)'
      <3> SUFFICES ASSUME local'[p].ticket # 0, ~TicketSuperseded(p)' PROVE TicketHolds(p)'
        BY DEF TicketHolds
      <3>1. local'[p] = local[p] /\ pc'[p] = pc[p] /\ result'[p] = result[p]
        BY <2>1 DEF Kept
      <3>2. ~TicketSuperseded(p) /\ local[p].ticket # 0
        BY <3>1, <2>1, OutOfRace
      <3>3. CASE cacheReadOnly
        BY <3>1, <3>2, <3>3, <2>1 DEF TicketHolds, Syncing
      <3>4. CASE ~cacheReadOnly
        BY <3>1, <3>2, <3>4, <2>1, <1>2 DEF TicketHolds, Shows, Syncing
      <3> QED
        BY <3>3, <3>4
    <2> QED
      BY <2>2, <2>3, <2>4
  <1>4. HandoffHolds'
    BY HandoffCancelled
  <1>5. ReadyShowsLive'
    BY <1>1, <1>2 DEF ReadyShowsLive, Shows
  <1>6. \A p \in retired' : Doomed(p)'
    <2>1. \A p \in R : p # o /\ (pc[p] \in Asking => LoadSuperseded(p))
      BY DEF Current
    <2>2. \A p \in R : /\ pc[p] \in Waiting \cup Asking
                       /\ pc[p] \in Waiting => TicketSuperseded(p)'
                       /\ pc[p] \in Asking => LoadSuperseded(p)'
      BY <2>1, <1>3
    <2> QED
      BY <2>2, RetiredDoomed
  <1> QED
    BY <1>3, <1>4, <1>5, <1>6 DEF LoadsHold

-----------------------------------------------------------------------------
(* Clearing a conversation.                                                *)

\* What the beginning of a clearing does to the race of the loads.
LEMMA ClearingLoads ==
    ASSUME TypeOK, TypeOK', CallsHold, LoadsHold, CacheEnabled, NEW o \in Calls, OthersKept(o),
           NEW c \in Conversations,
           UNCHANGED <<setup, disposed, generation, cacheReadOnly, cacheState, cacheEpoch,
                       snapshot, pendingCommits, events>>,
           pc[o] \notin Waiting \cup Asking, local'[o].ticket \in {0, local[o].ticket},
           CurrentHolds(o)', TicketHolds(o)', o \in retired => Doomed(o)',
           \/ CancelPending
           \/ /\ cacheState.conversation # c
              /\ UNCHANGED <<cacheRequestId, loadRequestId, pendingLoad, pendingHandoff>>,
           retired' = retired \cup AskingLoads(c)
    PROVE  LoadsHold' /\ CountersGrow
  <1>1. /\ generation <= generation' /\ disposed' = disposed
        /\ \A d \in Conversations : cacheEpoch[d] <= cacheEpoch'[d]
    BY NumberTypes
  <1>2. AskingLoads(c) \in SUBSET Calls
        /\ \A p \in AskingLoads(c) : pc[p] \in Asking /\ local[p].conversation = c /\ p # o
    BY DEF AskingLoads, Asking
  <1>3. LatestState' = LatestState
    BY DEF LatestState
  <1>4. CASE CancelPending
    <2>1. /\ CountersGrow /\ pendingHandoff' \in {pendingHandoff, NoHandoff}
          /\ \A p \in Calls : Kept(p) => /\ ~Current(p)'
                                         /\ local[p].ticket # 0 => TicketSuperseded(p)'
      BY <1>1, <1>4, CancelledRace
    <2>2. \A p \in Calls : p # o => Kept(p) /\ CurrentHolds(p)' /\ TicketHolds(p)'
      <3> SUFFICES ASSUME NEW p \in Calls, p # o
                   PROVE  Kept(p) /\ CurrentHolds(p)' /\ TicketHolds(p)'
        OBVIOUS
      <3>1. Kept(p) /\ CallHolds(p)
        BY DEF OthersKept, CallsHold
      <3> QED
        BY <3>1, <2>1, OutOfRace
    <2>3. \A p \in AskingLoads(c) : /\ pc[p] \in Waiting \cup Asking
                                    /\ pc[p] \in Waiting => TicketSuperseded(p)'
                                    /\ pc[p] \in Asking => LoadSuperseded(p)'
      <3> SUFFICES ASSUME NEW p \in AskingLoads(c)
                   PROVE  pc[p] \notin Waiting /\ LoadSuperseded(p)'
        BY <1>2
      <3>1. p \in Calls /\ pc[p] \in Asking /\ Kept(p)
        BY <1>2, <2>2
      <3>2. ~Current(p)' /\ pc'[p] = pc[p]
        BY <3>1, <2>1 DEF Kept
      <3> QED
        BY <3>1, <3>2 DEF Current, Waiting, Asking
    <2>4. \A p \in retired' : Doomed(p)'
      BY <2>1, <2>3, <1>2, RetiredDoomed
    <2>5. HandoffHolds'
      BY <2>1, HandoffCancelled
    <2>6. ReadyShowsLive'
      BY <1>3 DEF LoadsHold, ReadyShowsLive, Shows
    <2> QED
      BY <2>1, <2>2, <2>4, <2>5, <2>6 DEF LoadsHold
  <1>5. CASE /\ cacheState.conversation # c
             /\ UNCHANGED <<cacheRequestId, loadRequestId, pendingLoad, pendingHandoff>>
    <2>1. CountersGrow
      BY <1>1, <1>5, NumberTypes DEF CountersGrow
    <2>2. \A p \in AskingLoads(c) : /\ pc[p] \in Waiting \cup Asking
                                    /\ pc[p] \in Waiting => TicketSuperseded(p)'
                                    /\ pc[p] \in Asking => ~Current(p)
      <3> SUFFICES ASSUME NEW p \in AskingLoads(c)
                   PROVE  pc[p] \notin Waiting /\ ~Current(p)
        BY <1>2
      <3>1. CurrentHolds(p) /\ local[p].conversation = c /\ pc[p] \in Asking
        BY <1>2 DEF LoadsHold
      <3>2. Current(p) => cacheState.conversation = c
        BY <3>1 DEF CurrentHolds, Syncing
      <3> QED
        BY <3>1, <3>2, <1>5 DEF Waiting, Asking
    <2> QED
      BY <2>1, <2>2, <1>2, <1>3, <1>5, RaceLeft
  <1> QED
    BY <1>4, <1>5

\* A clearing begins: by the host, or because the server says the conversation is
\* gone.
LEMMA BeginClearStep ==
    ASSUME IInv, NEW o \in Calls, NEW c \in Conversations, BeginClear(o, c), CacheEnabled,
           pc[o] \in {"idle", "reported"}, local' = [local EXCEPT ![o].conversation = c],
           pc[o] = "reported" => local[o].conversation = c,
           Stacked', stack' \in Seq(Calls),
           UNCHANGED <<setup, disposed, generation, conversationEpoch, historyRequestId,
                       gatewaySubscription, cacheReadOnly, cacheState, cacheEpoch, entry, stored,
                       storeVars, result, gatewayVars>>
    PROVE  IInv' /\ NoRegress /\ KeepsEvents
  <1>1. /\ TypeOK /\ CallHolds(o) /\ SubHolds(o) /\ SubsHold /\ CallsTyped /\ ClientTyped
        /\ LoadsHold /\ OwnedCommitted /\ NoSubscriptionLeak /\ CallsHold /\ CacheTyped /\ NoCache
    BY TypeParts DEF IInv, CallsHold, SubsHold
  <1>2. /\ pc' = [pc EXCEPT ![o] = "clearing"]
        /\ \/ CancelPending
           \/ /\ cacheState.conversation # c
              /\ UNCHANGED <<cacheRequestId, loadRequestId, pendingLoad, pendingHandoff>>
        /\ cleared' = (cleared \/ Shows(snapshot, c))
        /\ retired' = retired \cup AskingLoads(c)
    BY DEF BeginClear
  <1>3. /\ pc' \in [Calls -> PCs] /\ pc'[o] = "clearing"
        /\ \A p \in Calls : p # o => pc'[p] = pc[p]
    BY <1>1, <1>2 DEF CallsTyped, PCs
  <1>4. /\ local' \in [Calls -> Locals] /\ local'[o].conversation = c
        /\ local'[o].ticket = local[o].ticket /\ local'[o].generation = local[o].generation
        /\ local'[o].requestId = local[o].requestId /\ local'[o].cursor = local[o].cursor
        /\ local'[o].epoch = local[o].epoch /\ local'[o].previous = local[o].previous
        /\ \A p \in Calls : p # o => local'[p] = local[p]
    <2>1. local \in [Calls -> Locals]
      BY <1>1 DEF CallsTyped
    <2>2. [local[o] EXCEPT !.conversation = c] \in Locals
      BY <2>1 DEF Locals
    <2>3. local' = [local EXCEPT ![o] = [local[o] EXCEPT !.conversation = c]]
      OBVIOUS
    <2>4. local'[o] = [local[o] EXCEPT !.conversation = c]
      BY <2>1, <2>3
    <2>5. local[o] \in Locals
      BY <2>1
    <2> QED
      BY <2>1, <2>2, <2>3, <2>4, <2>5 DEF Locals
  <1>5. /\ setup' = setup /\ View' = View /\ Locals' = Locals /\ CacheEnabled' = CacheEnabled
        /\ UNCHANGED <<snapshot, pendingCommits, events, sub, delivered, queue, phase>>
    BY SameSets DEF storeVars, gatewayVars
  <1>6. OthersKept(o) /\ NumbersKept(o)
    BY <1>3, <1>4 DEF OthersKept, NumbersKept, Kept
  <1>7. /\ pendingLoad' \in {pendingLoad, NoLoad} /\ pendingHandoff' \in {pendingHandoff, NoHandoff}
        /\ loadRequestId' \in Nat /\ cacheRequestId' \in Nat
    <2>1. loadRequestId \in Nat /\ cacheRequestId \in Nat
      BY <1>1, NumberTypes
    <2>2. CASE CancelPending
      BY <2>1, <2>2 DEF CancelPending
    <2>3. CASE UNCHANGED <<cacheRequestId, loadRequestId, pendingLoad, pendingHandoff>>
      BY <2>1, <2>3
    <2> QED
      BY <2>2, <2>3, <1>2
  <1>8. TypeOK'
    <2>1. CallsTyped'
      BY <1>1, <1>3, <1>4, <1>5 DEF CallsTyped
    <2>2. CacheTyped'
      <3>1. cleared' \in BOOLEAN
        BY <1>2
      <3> QED
        BY <3>1, <1>1, <1>5, <1>7 DEF CacheTyped
    <2>3. ClientTyped'
      BY <1>1, <1>5, <1>7 DEF ClientTyped, NoLoad, NoHandoff
    <2>4. retired' \subseteq Calls
      BY <1>1, <1>2 DEF TypeOK, AskingLoads
    <2> QED
      BY <2>1, <2>2, <2>3, <2>4, <1>1, <1>5, TypesKept, TypePartsNext
  <1>9. pc[o] \notin Waiting \cup Asking /\ pc[o] \notin Holding /\ pc'[o] \in PastCommit
        /\ pc[o] \notin Showing /\ pc'[o] \notin Showing /\ pc[o] \notin {"subscribing", "loading"}
    BY <1>3 DEF PastCommit, Ending, Holding, Showing, Waiting, Asking, StorePublishing, Settling
  <1>10. /\ pc[o] = "idle" => /\ local[o].conversation = None /\ local[o].ticket = 0
                              /\ sub[o] = "none" /\ gatewaySubscription # o
         /\ result[o] # "ok"
    <2>1. pc[o] = "idle" => local[o] = NoLocals /\ sub[o] = "none" /\ result[o] = "none"
      BY <1>1 DEF CallHolds, SubHolds, Settling
    <2>2. pc[o] = "reported" => result[o] # "ok"
      BY <1>1 DEF CallHolds
    <2>3. pc[o] = "idle" => gatewaySubscription # o
      BY <1>1, NoneIsNothing DEF OwnedCommitted, PastCommit, Ending, Settling
    <2> QED
      BY <2>1, <2>2, <2>3 DEF NoLocals
  <1>11. CurrentHolds(o)' /\ TicketHolds(o)' /\ ContentHolds(o)' /\ (o \in retired => Doomed(o)')
    BY <1>3, <1>5, <1>10
       DEF CurrentHolds, Current, Asking, TicketHolds, Waiting, Ending, ContentHolds, Doomed,
           Settling
  <1>12. LoadsHold' /\ CountersGrow
    BY <1>1, <1>2, <1>4, <1>5, <1>6, <1>8, <1>9, <1>11, ClearingLoads
  <1>13. CallHolds(o)'
    <2>1. local[o].ticket # 0 => local'[o].conversation = local[o].conversation
      BY <1>4, <1>10
    <2>2. /\ local'[o].ticket <= cacheRequestId' /\ local'[o].generation <= generation'
          /\ local'[o].cursor = 0 => local'[o].requestId <= loadRequestId'
          /\ local'[o].ticket # 0 =>
                /\ local'[o].conversation \in Conversations
                /\ local'[o].epoch <= cacheEpoch'[local'[o].conversation]
      BY <2>1, <1>1, <1>4, <1>8, <1>12, NumbersStand
    <2>3. result'[o] # "ok"
      BY <1>10
    <2> QED
      BY <2>2, <2>3, <1>3, <1>4, <1>5 DEF CallHolds, Waiting, Asking, Ending, Settling
  <1>14. SubHolds(o)'
    <2>1. pc'[o] \notin {"idle", "paging", "deleting"} \cup Waiting \cup Asking
      BY <1>3 DEF Waiting, Asking
    <2>2. CASE pc[o] = "reported"
      <3>1. local'[o].conversation = local[o].conversation
        BY <2>2, <1>4
      <3> QED
        BY <2>1, <3>1, <1>1, <1>5, SubKeptPast
    <2>3. CASE pc[o] = "idle"
      <3>1. Elements(queue[o]) = {} /\ sub'[o] = "none"
        BY <2>3, <1>1, <1>5, <1>10, NoneIsNothing DEF SubHolds
      <3>2. Elements(queue[o])' = {}
        BY <3>1, <1>5 DEF Elements
      <3> QED
        BY <2>1, <3>1, <3>2 DEF SubHolds, Waiting, Asking
    <2> QED
      BY <2>2, <2>3
  <1>15. NoSubscriptionLeak'
    BY <1>1, <1>5, <1>6, <1>9, NoLeakKept
  <1>16. NoCache' /\ Steady /\ (\A p \in Calls : p # o => SubStep(p))
    BY <1>1, <1>5 DEF NoCache, Steady, SubStep
  <1>17. /\ gatewaySubscription = o => /\ local'[o].generation = local[o].generation
                                       /\ local'[o].conversation = local[o].conversation
         /\ gatewaySubscription # None => sub'[gatewaySubscription] = sub[gatewaySubscription]
         /\ \A d \in Conversations : entry'[d] \in {entry[d], None}
         /\ \/ local'[o].cursor # 0
            \/ local[o].cursor = 0 /\ local'[o].requestId = local[o].requestId
    BY <1>4, <1>5, <1>10
  <1> QED
    BY <1>4, <1>6, <1>8, <1>9, <1>11, <1>12, <1>13, <1>14, <1>15, <1>16, <1>17, SteadyStep

\* The host clears a conversation.
LEMMA ClearCacheStep ==
    ASSUME IInv, NEW o \in Calls, NEW c \in Known, ClearCache(o, c)
    PROVE  IInv' /\ NoRegress /\ KeepsEvents
  <1>1. TypeOK /\ Stacked /\ CallHolds(o) /\ CallsTyped
    BY TypeParts DEF IInv, StackHolds, CallsHold
  <1>2. /\ CacheEnabled /\ pc[o] = "idle" /\ BeginClear(o, c) /\ stack' = Append(stack, o)
        /\ local' = [local EXCEPT ![o] = [NoLocals EXCEPT !.conversation = c]]
        /\ UNCHANGED <<setup, disposed, generation, conversationEpoch, historyRequestId,
                       gatewaySubscription, cacheReadOnly, cacheState, cacheEpoch, entry, stored,
                       storeVars, result, gatewayVars>>
    BY DEF ClearCache
  <1>3. c \in Conversations
    BY <1>1, SetupFacts
  <1>4. local' = [local EXCEPT ![o].conversation = c]
    <2>1. local[o] = NoLocals
      BY <1>1, <1>2 DEF CallHolds
    <2> QED
      BY <2>1, <1>2
  <1>5. Stacked' /\ stack' \in Seq(Calls)
    <2>1. pc' = [pc EXCEPT ![o] = "clearing"]
      BY <1>2 DEF BeginClear
    <2>2. /\ pc[o] \notin Publishing /\ pc'[o] \in Publishing
          /\ \A p \in Calls : p # o => pc'[p] = pc[p]
      BY <2>1, <1>1, <1>2 DEF Publishing, StorePublishing, CallsTyped
    <2>3. stack \in Seq(Calls)
      BY <1>1, NumberTypes
    <2>4. stack' \in Seq(Calls)
      BY <2>3, <1>2
    <2> QED
      BY <2>2, <2>4, <1>1, <1>2, StackPush
  <1> QED
    BY <1>2, <1>3, <1>4, <1>5, BeginClearStep

\* The cached view of a conversation is emptied, if it is on display.
LEMMA EmptiedView ==
    ASSUME IInv, NEW c \in Conversations, NEW nested \in BOOLEAN, nested <=> Notifying,
           IF Shows(snapshot, c) /\ cacheReadOnly
           THEN Commit([snapshot EXCEPT !.events = {}, !.pages = {}, !.cursor = MaxPages], nested)
           ELSE UNCHANGED <<storeVars, cleared>>
    PROVE  /\ cleared' \in BOOLEAN
           /\ \/ UNCHANGED <<snapshot, pendingCommits>>
              \/ /\ cacheReadOnly /\ gatewaySubscription = None /\ snapshot # None
                 /\ \E w \in View :
                       /\ w.conversation = snapshot.conversation /\ w.load = snapshot.load
                       /\ w.events = {} /\ w.pages = {}
                       /\ \/ snapshot' = w /\ pendingCommits = <<>> /\ pendingCommits' = <<>>
                          \/ /\ snapshot' = snapshot /\ Notifying
                             /\ pendingCommits' = Append(pendingCommits, w)
  <1>1. TypeOK /\ StackHolds /\ OwnedMatchesView /\ cleared \in BOOLEAN
    BY NumberTypes DEF IInv, SubsHold
  <1>2. CASE ~(Shows(snapshot, c) /\ cacheReadOnly)
    <2>1. cleared' = cleared /\ UNCHANGED storeVars
      BY <1>2
    <2>2. cleared' \in BOOLEAN
      BY <2>1, <1>1
    <2> QED
      BY <2>1, <2>2 DEF storeVars
  <1>3. CASE Shows(snapshot, c) /\ cacheReadOnly
    <2>1. snapshot # None /\ gatewaySubscription = None
      BY <1>1, <1>3 DEF Shows, OwnedMatchesView
    <2>2. snapshot \in View
      BY <2>1, <1>1, NumberTypes
    <2>3. PICK w : w = [snapshot EXCEPT !.events = {}, !.pages = {}, !.cursor = MaxPages]
      OBVIOUS
    <2>4. MaxPages \in 1..MaxPages
      BY <1>1, SetupFacts
    <2>5. /\ w \in View /\ w.conversation = snapshot.conversation /\ w.load = snapshot.load
          /\ w.events = {} /\ w.pages = {}
      BY <2>2, <2>3, <2>4 DEF View, ViewsOf, MaxEvents, MaxPages
    <2>6. Commit(w, nested)
      BY <1>3, <2>3
    <2> HIDE <2>3
    <2>7. CASE w = LatestState \/ disposed
      BY <2>6, <2>7, <1>1 DEF Commit, storeVars
    <2>8. CASE w # LatestState /\ ~disposed /\ nested
      <3>1. pendingCommits' = Append(pendingCommits, w) /\ snapshot' = snapshot /\ cleared' = cleared
        BY <2>6, <2>8 DEF Commit
      <3> QED
        BY <3>1, <2>1, <2>5, <2>8, <1>1, <1>3
    <2>9. CASE w # LatestState /\ ~disposed /\ ~nested
      <3>1. snapshot' = w /\ cleared' = FALSE /\ pendingCommits' = pendingCommits
        BY <2>6, <2>9 DEF Commit
      <3>2. pendingCommits = <<>>
        BY <2>9, <1>1, NotifyingFacts
      <3>3. cleared' \in BOOLEAN
        BY <3>1
      <3> QED
        BY <3>1, <3>2, <3>3, <2>1, <2>5, <1>3
    <2> QED
      BY <2>7, <2>8, <2>9
  <1> QED
    BY <1>2, <1>3

\* An emptied view follows every other one.
LEMMA EmptyFollows ==
    ASSUME TypeOK, TypeOK', CallsHold, ViewsHold, setup' = setup, events' = events,
           NEW o \in Calls, OthersKept(o), local' = local, snapshot # None,
           NEW w \in View, w.conversation = snapshot.conversation, w.load = snapshot.load,
           w.events = {}, w.pages = {},
           \/ snapshot' = w /\ pendingCommits' = <<>>
           \/ snapshot' = snapshot /\ pendingCommits' = Append(pendingCommits, w)
    PROVE  ShownHolds' /\ WaitingHold'
  <1>1. Content(w) /\ FromLoad(w) /\ \A v : NotBefore(v, w)
    BY DEF ViewsHold, ShownHolds, Content, FromLoad, NotBefore
  <1>2. CacheEnabled' = CacheEnabled
    BY SameSets
  <1>3. ShownHolds'
    <2>1. Content(snapshot) /\ FromLoad(snapshot)
      BY DEF ViewsHold, ShownHolds
    <2> QED
      BY <2>1, <1>1, <1>2 DEF ShownHolds, Content, FromLoad
  <1>4. WaitingHold'
    <2>1. CASE pendingCommits' = <<>>
      BY <2>1 DEF WaitingHold
    <2>2. CASE snapshot' = snapshot /\ pendingCommits' = Append(pendingCommits, w)
      <3>1. pendingCommits \in Seq(View) /\ Len(pendingCommits) \in Nat
        <4>1. pendingCommits \in Seq(View)
          BY NumberTypes
        <4> QED
          BY <4>1
      <3>2. PICK q \in Seq(View) : q = Append(pendingCommits, w)
        <4>1. Append(pendingCommits, w) \in Seq(View)
          BY <3>1
        <4> QED
          BY <4>1
      <3>3. /\ DOMAIN q = 1..(Len(pendingCommits) + 1)
            /\ DOMAIN pendingCommits = 1..Len(pendingCommits)
            /\ q[Len(pendingCommits) + 1] = w
            /\ \A i \in 1..Len(pendingCommits) : q[i] = pendingCommits[i]
        BY <3>1, <3>2, ElementsTyped
      <3>4. \A i \in DOMAIN q : \/ i \in DOMAIN pendingCommits /\ q[i] = pendingCommits[i]
                                \/ i = Len(pendingCommits) + 1 /\ q[i] = w
        BY <3>1, <3>3
      <3>5. /\ \A i \in DOMAIN pendingCommits :
                  /\ Content(pendingCommits[i]) /\ FromLoad(pendingCommits[i])
                  /\ NotBefore(snapshot, pendingCommits[i])
            /\ \A i, j \in DOMAIN pendingCommits :
                  i < j => NotBefore(pendingCommits[i], pendingCommits[j])
        BY DEF ViewsHold, WaitingHold
      <3>6. \A i \in DOMAIN q : Content(q[i]) /\ FromLoad(q[i]) /\ NotBefore(snapshot, q[i])
        BY <3>4, <3>5, <1>1
      <3>7. \A i, j \in DOMAIN q : i < j => NotBefore(q[i], q[j])
        <4> SUFFICES ASSUME NEW i \in DOMAIN q, NEW j \in DOMAIN q, i < j
                     PROVE  NotBefore(q[i], q[j])
          OBVIOUS
        <4>1. CASE j = Len(pendingCommits) + 1
          BY <4>1, <3>3, <1>1
        <4>2. CASE j # Len(pendingCommits) + 1
          <5>1. i \in DOMAIN pendingCommits /\ j \in DOMAIN pendingCommits
            BY <4>2, <3>1, <3>3
          <5> QED
            BY <5>1, <3>3, <3>4, <3>5
        <4> QED
          BY <4>1, <4>2
      <3>8. NumbersKept(o) /\ pendingCommits' = q
        BY <2>2, <3>2 DEF NumbersKept
      <3> QED
        BY <2>2, <3>6, <3>7, <3>8, WaitingNext
    <2> QED
      BY <2>1, <2>2
  <1> QED
    BY <1>3, <1>4

\* The listeners have returned: the conversation is forgotten, and its cached view is
\* emptied.
LEMMA ClearingReturnsStep ==
    ASSUME IInv, NEW o \in Calls, ClearingReturns(o)
    PROVE  IInv' /\ NoRegress /\ KeepsEvents
  <1>1. /\ TypeOK /\ StackHolds /\ Stacked /\ CommitsWait /\ CallsHold /\ SubsHold /\ ViewsHold
        /\ LoadsHold /\ ShownHolds /\ ClientTyped /\ CacheTyped /\ StoreTyped /\ CallsTyped
        /\ GatewayTyped /\ NoCache /\ CallHolds(o) /\ SubHolds(o) /\ OwnedMatchesView
        /\ OwnedCommitted /\ NoSubscriptionLeak /\ OwnedDelivers /\ NothingLeft
    BY TypeParts DEF IInv, StackHolds, ViewsHold, SubsHold, CallsHold, LoadsHold
  <1>2. /\ stack # <<>> /\ o = Top /\ pc[o] = "clearing" /\ pc' = [pc EXCEPT ![o] = "done"]
        /\ stack' = SubSeq(stack, 1, Len(stack) - 1)
        /\ UNCHANGED <<setup, clientVars, cacheRequestId, cacheReadOnly, cacheState, local,
                       result, gatewayVars>>
    BY DEF ClearingReturns
  <1>3. PICK c \in Conversations : c = local[o].conversation
    BY <1>1, <1>2 DEF CallHolds
  <1>4. PICK nested \in BOOLEAN : nested = Notifying
    BY DEF Notifying
  <1>5. /\ ForgetInCache(c) /\ retired' = retired \cup WaitingLoads(c)
        /\ IF Shows(snapshot, c) /\ cacheReadOnly
           THEN Commit([snapshot EXCEPT !.events = {}, !.pages = {}, !.cursor = MaxPages], nested)
           ELSE UNCHANGED <<storeVars, cleared>>
    BY <1>3, <1>4 DEF ClearingReturns
  <1>6. /\ setup' = setup /\ View' = View /\ Locals' = Locals /\ MaxEvents' = MaxEvents
        /\ CacheEnabled' = CacheEnabled
        /\ UNCHANGED <<disposed, generation, gatewaySubscription, cacheReadOnly, loadRequestId,
                       pendingLoad, pendingHandoff, local, result, events, sub, delivered,
                       queue, phase>>
    BY <1>2, SameSets DEF clientVars, gatewayVars
  <1>7. /\ cleared' \in BOOLEAN
        /\ \/ UNCHANGED <<snapshot, pendingCommits>>
           \/ /\ cacheReadOnly /\ gatewaySubscription = None /\ snapshot # None
              /\ \E w \in View :
                    /\ w.conversation = snapshot.conversation /\ w.load = snapshot.load
                    /\ w.events = {} /\ w.pages = {}
                    /\ \/ snapshot' = w /\ pendingCommits = <<>> /\ pendingCommits' = <<>>
                       \/ /\ snapshot' = snapshot /\ Notifying
                          /\ pendingCommits' = Append(pendingCommits, w)
    BY <1>4, <1>5, EmptiedView, Zenon
  <1>8. /\ snapshot' \in View \cup {None} /\ pendingCommits' \in Seq(View)
        /\ snapshot' = None <=> snapshot = None
    <2>1. snapshot \in View \cup {None} /\ pendingCommits \in Seq(View) /\ None \notin View
      BY <1>1, NumberTypes, NoneIsNothing
    <2>2. \A w \in View : Append(pendingCommits, w) \in Seq(View)
      BY <2>1
    <2>3. << >> \in Seq(View)
      OBVIOUS
    <2> QED
      BY <2>1, <2>2, <2>3, <1>7
  <1>9. /\ pc' \in [Calls -> PCs] /\ pc'[o] = "done"
        /\ \A p \in Calls : p # o => pc'[p] = pc[p]
    BY <1>1, <1>2 DEF CallsTyped, PCs
  <1>10. OthersKept(o) /\ NumbersKept(o)
    BY <1>6, <1>9 DEF OthersKept, Kept, NumbersKept
  <1>11. Stacked' /\ stack' \in Seq(Calls)
    <2>1. "done" \in PCs \ Publishing
      BY DEF PCs, Publishing, StorePublishing
    <2> QED
      BY <2>1, <1>1, <1>2, PoppedStack
  <1>12. /\ cacheEpoch' \in [Conversations -> Nat]
         /\ entry' \in [Conversations -> View \cup {None}] /\ stored' \subseteq Conversations
         /\ \A d \in Conversations : /\ cacheEpoch[d] <= cacheEpoch'[d]
                                     /\ entry'[d] \in {entry[d], None}
    BY <1>1, <1>5, ForgetFacts
  <1>13. TypeOK'
    <2>1. CacheTyped'
      BY <1>1, <1>2, <1>6, <1>7, <1>12 DEF CacheTyped
    <2>2. StoreTyped'
      BY <1>6, <1>8 DEF StoreTyped
    <2>3. CallsTyped'
      BY <1>1, <1>6, <1>9, <1>11 DEF CallsTyped
    <2>4. retired' \subseteq Calls
      BY <1>1, <1>5 DEF TypeOK, WaitingLoads
    <2> QED
      BY <2>1, <2>2, <2>3, <2>4, <1>1, <1>2, TypesKept, TypePartsNext
  <1>14. LatestState' = None <=> LatestState = None
    <2>1. CASE UNCHANGED <<snapshot, pendingCommits>>
      BY <2>1 DEF LatestState
    <2>2. CASE snapshot # None /\ pendingCommits' = <<>> /\ pendingCommits = <<>>
      BY <2>2, <1>8 DEF LatestState
    <2>3. ASSUME NEW w \in View, pendingCommits' = Append(pendingCommits, w), snapshot # None
          PROVE  LatestState' = None <=> LatestState = None
      <3>1. pendingCommits \in Seq(View)
        BY <1>1, NumberTypes
      <3>2. pendingCommits' # <<>> /\ pendingCommits'[Len(pendingCommits')] = w
        BY <2>3, <3>1
      <3>3. LatestState # None
        BY <2>3, <1>1, LatestFacts
      <3> QED
        BY <3>2, <3>3, <1>1, NoneIsNothing DEF LatestState
    <2> QED
      BY <2>1, <2>2, <2>3, <1>7
  <1>15. CountersGrow
    BY <1>1, <1>2, <1>6, <1>12, NumberTypes DEF CountersGrow
  <1>16. pc[o] \notin Waiting \cup Asking /\ pc[o] \notin Holding /\ pc'[o] \in PastCommit
         /\ pc[o] \notin Showing /\ pc'[o] \notin Showing /\ pc[o] \notin {"subscribing", "loading"}
    BY <1>2, <1>9 DEF PastCommit, Ending, Holding, Showing, Waiting, Asking, StorePublishing,
                      Settling
  <1>17. CurrentHolds(o)' /\ TicketHolds(o)' /\ ContentHolds(o)' /\ (o \in retired => Doomed(o)')
    <2>1. result'[o] # "ok"
      BY <1>1, <1>2, <1>6 DEF CallHolds
    <2> QED
      BY <2>1, <1>9
         DEF CurrentHolds, Current, Asking, TicketHolds, Waiting, Ending, ContentHolds, Doomed
  <1>18. LoadsHold'
    <2>1. WaitingLoads(c) \in SUBSET Calls
      BY DEF WaitingLoads
    <2>2. \A p \in WaitingLoads(c) : /\ pc[p] \in Waiting \cup Asking
                                     /\ pc[p] \in Waiting => TicketSuperseded(p)'
                                     /\ pc[p] \in Asking => ~Current(p)
      <3> SUFFICES ASSUME NEW p \in Calls, pc[p] \in Waiting, local[p].conversation = c
                   PROVE  TicketSuperseded(p)' /\ pc[p] \notin Asking
        BY DEF WaitingLoads, Waiting
      <3>1. TicketSuperseded(p)'
        BY <1>1, <1>5, <1>6, ForgottenTickets
      <3> QED
        BY <3>1 DEF Waiting, Asking
    <2>3. UNCHANGED <<snapshot, pendingCommits>> \/ cacheReadOnly
      BY <1>7
    <2>4. local'[o].ticket \in {0, local[o].ticket}
      BY <1>6
    <2> QED
      BY <2>1, <2>2, <2>3, <2>4, <1>1, <1>2, <1>5, <1>6, <1>10, <1>13, <1>14, <1>15, <1>16, <1>17,
         RaceLeft
  <1>19. EventsGrow
    BY <1>1, <1>6, NumberTypes DEF EventsGrow
  <1>20. CommitsWait'
    <2>1. \A p \in Calls : pc'[p] \in Showing <=> pc[p] \in Showing
      BY <1>9, <1>16
    <2>2. Notifying => \E p \in Calls : pc[p] \in Showing
      BY <1>1, NotifyingFacts DEF Showing
    <2>3. pendingCommits' # <<>> => cacheReadOnly /\ \E p \in Calls : pc[p] \in Showing
      BY <2>2, <1>1, <1>7 DEF CommitsWait
    <2> QED
      BY <2>1, <2>3, <1>1, <1>6, <1>8 DEF CommitsWait
  <1>21. CallHolds(o)'
    <2>1. /\ local'[o].ticket <= cacheRequestId' /\ local'[o].generation <= generation'
          /\ local'[o].cursor = 0 => local'[o].requestId <= loadRequestId'
          /\ local'[o].ticket # 0 =>
                /\ local'[o].conversation \in Conversations
                /\ local'[o].epoch <= cacheEpoch'[local'[o].conversation]
      BY <1>1, <1>6, <1>13, <1>15, NumbersStand
    <2> QED
      BY <2>1, <1>9 DEF CallHolds, Waiting, Asking, Ending, Settling
  <1>22. SubHolds(o)' /\ (\A p \in Calls : SubStep(p))
    <2>1. pc'[o] \notin {"idle", "paging", "deleting"} \cup Waiting \cup Asking
      BY <1>9 DEF Waiting, Asking
    <2>2. SubHolds(o)'
      BY <2>1, <1>1, <1>6, SubKeptPast
    <2> QED
      BY <2>2, <1>6 DEF SubStep
  <1>23. OwnedCommitted'
    <2>1. local[o].previous # None => local[o].previous # gatewaySubscription
      BY <1>1 DEF OwnedCommitted
    <2> QED
      BY <2>1, <1>1, <1>6, <1>10, <1>16, OwnedCommittedKept
  <1>24. OwnedDelivers' /\ OwnedMatchesView'
    <2>1. CASE gatewaySubscription = None
      BY <2>1, <1>6 DEF OwnedDelivers, OwnedMatchesView
    <2>2. CASE gatewaySubscription # None
      <3>1. UNCHANGED <<snapshot, pendingCommits>>
        BY <2>2, <1>7
      <3>2. LatestState' = LatestState
        BY <3>1 DEF LatestState
      <3> QED
        BY <3>1, <3>2, <1>1, <1>6 DEF OwnedDelivers, OwnedMatchesView, Elements, Shows
    <2> QED
      BY <2>1, <2>2
  <1>25. NoSubscriptionLeak'
    BY <1>1, <1>6, <1>10, <1>16, NoLeakKept
  <1>26. ShownHolds' /\ WaitingHold'
    <2>1. CASE UNCHANGED <<snapshot, pendingCommits>>
      <3>1. ViewGrows
        BY <2>1 DEF ViewGrows
      <3> QED
        BY <3>1, <2>1, <1>1, <1>6, <1>10, <1>13, <1>19, ShownKept, WaitingKept
    <2>2. ASSUME NEW w \in View,
                 snapshot # None, w.conversation = snapshot.conversation, w.load = snapshot.load,
                 w.events = {}, w.pages = {},
                 \/ snapshot' = w /\ pendingCommits = <<>> /\ pendingCommits' = <<>>
                 \/ /\ snapshot' = snapshot /\ Notifying
                    /\ pendingCommits' = Append(pendingCommits, w)
          PROVE  ShownHolds' /\ WaitingHold'
      <3>1. \/ snapshot' = w /\ pendingCommits' = <<>>
            \/ snapshot' = snapshot /\ pendingCommits' = Append(pendingCommits, w)
        BY <2>2
      <3> QED
        BY <3>1, <2>2, <1>1, <1>6, <1>10, <1>13, EmptyFollows
    <2> QED
      BY <2>1, <2>2, <1>7
  <1>27. NothingLeft' /\ NoCache'
    <2>1. disposed => snapshot' = None /\ pendingCommits' = <<>>
      BY <1>1, <1>7 DEF NothingLeft
    <2> QED
      BY <2>1, <1>1, <1>2, <1>6 DEF NothingLeft, NoCache
  <1>28. NoRegress /\ KeepsEvents
    <2>1. CASE snapshot' = snapshot
      BY <2>1, GoesForward DEF KeepsEvents, NotBefore
    <2>2. CASE cacheReadOnly /\ snapshot'.pages = {}
      BY <2>2, GoesForward DEF KeepsEvents, NotBefore
    <2> QED
      BY <2>1, <2>2, <1>7
  <1>29. /\ \A d \in Conversations : entry'[d] \in {entry[d], None}
         /\ \/ local'[o].cursor # 0
            \/ local[o].cursor = 0 /\ local'[o].requestId = local[o].requestId
         /\ local'[o].ticket \in {0, local[o].ticket}
    BY <1>6, <1>12
  <1> QED
    BY <1>6, <1>10, <1>11, <1>13, <1>15, <1>17, <1>18, <1>20, <1>21, <1>22, <1>23, <1>24, <1>25,
       <1>26, <1>27, <1>28, <1>29, ViewStep

\* The listeners of the error have returned.
LEMMA ReportedReturnsStep ==
    ASSUME IInv, NEW o \in Calls, ReportedReturns(o)
    PROVE  IInv' /\ NoRegress /\ KeepsEvents
  <1>1. /\ TypeOK /\ StackHolds /\ Stacked /\ CallsHold /\ SubsHold /\ LoadsHold /\ CallsTyped
        /\ CallHolds(o) /\ SubHolds(o) /\ OwnedCommitted /\ NoSubscriptionLeak /\ CacheTyped
        /\ HandoffHolds
    BY TypeParts DEF IInv, StackHolds, SubsHold, CallsHold, LoadsHold
  <1>2. /\ stack = <<o>> /\ pc[o] = "reported"
        /\ UNCHANGED <<setup, disposed, generation, conversationEpoch, historyRequestId,
                       gatewaySubscription, cacheReadOnly, cacheState, cacheEpoch, entry, stored,
                       storeVars, local, result, gatewayVars>>
    BY DEF ReportedReturns
  <1>3. CacheEnabled /\ local[o].conversation \in Conversations /\ result[o] # "ok"
    BY <1>1, <1>2 DEF CallHolds, Settling
  <1>4. CASE disposed /\ pc' = [pc EXCEPT ![o] = "done"] /\ stack' = <<>>
             /\ UNCHANGED <<cacheRequestId, loadRequestId, pendingLoad, pendingHandoff,
                            cleared, retired>>
    <2>1. /\ pc' \in [Calls -> PCs] /\ pc'[o] = "done"
          /\ \A p \in Calls : p # o => pc'[p] = pc[p]
      BY <1>1, <1>4 DEF CallsTyped, PCs
    <2>2. Stacked'
      <3>1. pc'[o] \notin Publishing
        BY <2>1 DEF Publishing, StorePublishing
      <3> QED
        BY <3>1, <2>1, <1>1, <1>2, <1>4, StackEmptied
    <2>3. /\ View' = View /\ Locals' = Locals /\ CacheEnabled' = CacheEnabled
          /\ OthersKept(o) /\ NumbersKept(o)
      BY <2>1, <1>2, SameSets DEF OthersKept, Kept, NumbersKept
    <2>4. UNCHANGED <<clientVars, cacheVars, storeVars, gatewayVars, retired>>
      BY <1>2, <1>4 DEF clientVars, cacheVars
    <2>5. TypeOK'
      <3>1. CallsTyped'
        <4>1. stack' \in Seq(Calls)
          BY <1>4
        <4> QED
          BY <4>1, <2>1, <2>3, <1>1, <1>2 DEF CallsTyped
      <3>2. retired' \subseteq Calls
        BY <2>4, <1>1 DEF TypeOK
      <3> QED
        BY <2>4, <3>1, <3>2, <1>1, <1>2, TypesKept, TypePartsNext
    <2>6. /\ Quiet
          /\ UNCHANGED <<snapshot, pendingCommits, entry, events, sub, delivered, queue, phase, local>>
      BY <2>4, <1>2 DEF Quiet, clientVars, cacheVars, storeVars, gatewayVars
    <2>7. CallHolds(o)'
      BY <2>1, <2>3, <2>6, <1>1, <1>2 DEF CallHolds, Quiet, Waiting, Asking, Ending, Settling
    <2>8. SubHolds(o)' /\ (\A p \in Calls : SubStep(p))
      <3>1. pc'[o] \notin {"idle", "paging", "deleting"} \cup Waiting \cup Asking
        BY <2>1 DEF Waiting, Asking
      <3>2. SubHolds(o)'
        BY <3>1, <2>6, <1>1, SubKeptPast
      <3> QED
        BY <3>2, <2>6 DEF SubStep
    <2>9. pc[o] \notin Holding /\ pc[o] \notin Asking /\ pc'[o] \in PastCommit
          /\ pc[o] \notin Showing /\ pc'[o] \notin Showing
          /\ pc[o] \notin {"subscribing", "loading"}
      BY <2>1, <1>2 DEF PastCommit, Ending, Holding, Showing, Asking, StorePublishing, Settling
    <2>10. NoSubscriptionLeak'
      BY <2>3, <2>6, <2>9, <1>1, NoLeakKept DEF Quiet
    <2>11. CurrentHolds(o)' /\ TicketHolds(o)' /\ ContentHolds(o)' /\ (o \in retired => Doomed(o)')
      BY <2>1, <1>2, <1>3
         DEF CurrentHolds, Current, Asking, TicketHolds, Waiting, Ending, ContentHolds, Doomed
    <2>12. pendingHandoff.call # o
      BY <2>9, <1>1, NoneIsNothing DEF HandoffHolds
    <2>13. /\ local'[o] = local[o] /\ \A d \in Conversations : entry'[d] = entry[d]
           /\ retired' = retired /\ phase' = phase
           /\ \/ local'[o].cursor # 0 \/ local'[o].requestId = 0
              \/ local[o].cursor = 0 /\ local'[o].requestId = local[o].requestId
      BY <2>4, <2>6
    <2> QED
      BY <2>2, <2>3, <2>5, <2>6, <2>7, <2>8, <2>9, <2>10, <2>11, <2>12, <2>13, CallStep
  <1>5. CASE BeginClear(o, local[o].conversation) /\ stack' = stack
    <2>1. PICK c \in Conversations : c = local[o].conversation
      BY <1>3
    <2>2. Stacked'
      <3>1. pc' = [pc EXCEPT ![o] = "clearing"]
        BY <1>5 DEF BeginClear
      <3>2. \A p \in Calls : pc'[p] \in Publishing <=> pc[p] \in Publishing
        BY <3>1, <1>1, <1>2 DEF Publishing, CallsTyped
      <3> QED
        BY <3>2, <1>1, <1>5, StackSame
    <2>3. local' = [local EXCEPT ![o].conversation = c]
      <3>1. local \in [Calls -> Locals] /\ local[o] \in Locals
        BY <1>1 DEF CallsTyped
      <3>2. [local[o] EXCEPT !.conversation = local[o].conversation] = local[o]
        BY <3>1 DEF Locals
      <3> QED
        BY <3>1, <3>2, <2>1, <1>2
    <2>4. stack' \in Seq(Calls)
      BY <1>1, <1>5, NumberTypes
    <2> QED
      BY <2>1, <2>2, <2>3, <2>4, <1>2, <1>3, <1>5, BeginClearStep
  <1> QED
    BY <1>4, <1>5 DEF ReportedReturns

\* The tail of a load with a cache.
LEMMA LoadSettlesStep ==
    ASSUME IInv, NEW o \in Calls, LoadSettles(o)
    PROVE  IInv' /\ NoRegress /\ KeepsEvents
  <1>1. /\ TypeOK /\ StackHolds /\ Stacked /\ CommitsWait /\ CallsHold /\ SubsHold /\ ViewsHold
        /\ LoadsHold /\ ShownHolds /\ ClientTyped /\ CacheTyped /\ StoreTyped /\ CallsTyped
        /\ GatewayTyped /\ NoCache /\ CallHolds(o) /\ SubHolds(o) /\ TicketHolds(o)
        /\ OwnedCommitted /\ NoSubscriptionLeak /\ OwnedDelivers /\ OwnedMatchesView
        /\ HandoffHolds /\ ReadyShowsLive /\ NothingLeft /\ WaitingHold
    BY TypeParts DEF IInv, StackHolds, ViewsHold, SubsHold, CallsHold, LoadsHold, Settling
  <1> DEFINE c == local[o].conversation
  <1>2. /\ Settled /\ pc[o] = "settling" /\ stack = <<>>
        /\ UNCHANGED <<setup, clientVars, cacheRequestId, cleared, cacheEpoch, stored, storeVars,
                       local, result, gatewayVars, retired>>
    BY DEF LoadSettles, Settled
  <1>3. PICK q \in {"done", "reported"} :
            /\ pc' = [pc EXCEPT ![o] = q]
            /\ q = "reported" => stack' = <<o>> /\ result[o] # "ok"
            /\ q = "done" => stack' = stack
    BY <1>2 DEF LoadSettles
  <1>4. /\ CacheEnabled /\ c \in Conversations /\ local[o].ticket # 0 /\ result[o] # "none"
        /\ local[o].cursor = 0
    BY <1>1, <1>2 DEF CallHolds, Settling
  <1>5. /\ setup' = setup /\ View' = View /\ Locals' = Locals /\ MaxEvents' = MaxEvents
        /\ CacheEnabled' = CacheEnabled
        /\ UNCHANGED <<disposed, generation, gatewaySubscription, local, loadRequestId,
                       pendingLoad, pendingHandoff, snapshot, pendingCommits,
                       result, events, sub, delivered, queue, phase>>
    BY <1>2, SameSets DEF gatewayVars, clientVars, storeVars
  <1>6. /\ pc' \in [Calls -> PCs] /\ pc'[o] = q
        /\ \A p \in Calls : p # o => pc'[p] = pc[p]
    BY <1>1, <1>3 DEF CallsTyped, PCs
  <1>7. OthersKept(o) /\ NumbersKept(o)
    BY <1>5, <1>6 DEF OthersKept, Kept, NumbersKept
  <1>8. pendingCommits = <<>> /\ LatestState = snapshot /\ ~Notifying
    BY <1>1, <1>2, SettledFacts, NotifyingFacts DEF Publishing
  <1>9. pc[o] \notin Publishing /\ (pc'[o] \in Publishing <=> q = "reported") /\ pc'[o] \in PastCommit
        /\ pc[o] \notin Holding /\ pc[o] \notin {"subscribing", "loading"} /\ pc[o] \notin Asking
        /\ pc'[o] \notin {"idle", "paging", "deleting"} \cup Waiting \cup Asking
    BY <1>2, <1>6 DEF Publishing, PastCommit, Ending, Holding, Waiting, Asking, StorePublishing,
                      Settling
  <1>10. /\ Stacked' /\ stack' \in Seq(Calls)
        /\ pc[o] \notin Showing /\ pc'[o] \notin Showing
        /\ ContentHolds(o)'
        /\ CurrentHolds(o)' /\ TicketHolds(o)' /\ (o \in retired => Doomed(o)')
    <2>1. Stacked' /\ stack' \in Seq(Calls)
      <3>1. CASE q = "done"
        <4>1. \A p \in Calls : pc'[p] \in Publishing <=> pc[p] \in Publishing
          BY <3>1, <1>6, <1>9
        <4> QED
          BY <3>1, <4>1, <1>1, <1>3, StackSame, NumberTypes
      <3>2. CASE q = "reported"
        <4>1. stack' = <<o>>
          BY <3>2, <1>3
        <4>2. stack' = Append(stack, o)
          BY <4>1, <1>2
        <4>3. stack' \in Seq(Calls)
          BY <4>1
        <4> QED
          BY <3>2, <4>2, <4>3, <1>1, <1>6, <1>9, StackPush
      <3> QED
        BY <3>1, <3>2
    <2>2. o \in retired => Doomed(o)'
      BY <1>1, <1>2, <1>5, <1>6 DEF LoadsHold, Doomed, Waiting, Asking, Settling
    <2>3. pc'[o] \in {"done", "reported"}
      BY <1>6
    <2>4. ContentHolds(o)' /\ CurrentHolds(o)' /\ TicketHolds(o)'
      BY <2>3 DEF ContentHolds, CurrentHolds, Current, TicketHolds, Waiting, Asking, Ending
    <2>5. pc[o] \notin Showing /\ pc'[o] \notin Showing
      BY <2>3, <1>2 DEF Showing, StorePublishing
    <2> QED
      BY <2>1, <2>2, <2>4, <2>5
  <1>11. NoSubscriptionLeak'
    BY <1>1, <1>5, <1>7, <1>9, NoLeakKept
  <1>12. SubHolds(o)' /\ \A p \in Calls : SubStep(p)
    <2>1. SubHolds(o)'
      BY <1>1, <1>5, <1>9, SubKeptPast
    <2> QED
      BY <2>1, <1>5 DEF SubStep
  <1>13. CASE TicketSuperseded(o)
    <2>1. UNCHANGED <<cacheVars, stack>> /\ pc'[o] = "done"
      BY <1>1, <1>2, <1>13 DEF LoadSettles, cacheVars, CallsTyped
    <2>2. UNCHANGED <<clientVars, cacheVars, storeVars, gatewayVars, retired>>
      BY <2>1, <1>2
    <2>3. CallsTyped'
      BY <1>1, <1>5, <1>6, <1>10 DEF CallsTyped
    <2>4. TypeOK'
      <3>1. retired' \subseteq Calls
        BY <2>2, <1>1 DEF TypeOK
      <3> QED
        BY <2>2, <2>3, <3>1, <1>1, <1>5, TypesKept, TypePartsNext
    <2>5. Quiet /\ UNCHANGED <<snapshot, pendingCommits, entry>>
      BY <2>2, <1>5 DEF Quiet, cacheVars, storeVars
    <2>6. CallHolds(o)'
      BY <2>1, <2>5, <1>1, <1>5 DEF CallHolds, Quiet, Waiting, Asking, Ending, Settling
    <2>7. retired' = retired
      BY <2>2
    <2>8. pendingHandoff.call # o
      BY <1>1, <1>9, NoneIsNothing DEF HandoffHolds
    <2>9. /\ local'[o] = local[o] /\ \A d \in Conversations : entry'[d] = entry[d]
          /\ local[o].previous = local'[o].previous
      BY <2>5, <1>5
    <2> QED
      BY <2>1, <2>4, <2>5, <2>6, <2>7, <2>8, <2>9, <1>1, <1>4, <1>5, <1>7, <1>9, <1>10, <1>11, <1>12,
         CallStep
  <1>14. CASE ~TicketSuperseded(o)
    <2>1. cacheState = Syncing(c) /\ ~disposed
      BY <1>1, <1>2, <1>4, <1>14 DEF TicketHolds, TicketSuperseded
    <2>2. \A p \in Calls : p # o => /\ ~Current(p)
                                    /\ local[p].ticket = 0 \/ TicketSuperseded(p)
      BY <1>1, <1>4, <1>14, OneCurrent
    <2>4. result[o] \in {"ok", "rejected", "notFound"}
      BY <1>1, <1>4, CallTypes
    <2>5. IInv' /\ NoRegress /\ KeepsEvents
      <3>1. /\ \/ /\ result[o] = "ok" /\ cacheReadOnly' = FALSE
                  /\ entry' = IF snapshot = None \/ cleared THEN entry
                              ELSE [entry EXCEPT ![snapshot.conversation] = snapshot]
               \/ /\ result[o] # "ok" /\ cacheReadOnly' = cacheReadOnly
                  /\ entry' = entry
            /\ cacheState' = [cacheState EXCEPT !.status = Reported(result[o])]
            /\ UNCHANGED <<cacheRequestId, cleared, cacheEpoch, stored, loadRequestId,
                           pendingLoad, pendingHandoff, snapshot, pendingCommits, retired>>
        BY <1>2, <1>5, <1>14 DEF LoadSettles
      <3>2. cacheState'.conversation = c
            /\ cacheState'.status = (IF result[o] = "ok" THEN "ready" ELSE "error")
            /\ cacheState' \in [conversation : Conversations \cup {None},
                                status : {"idle", "syncing", "ready", "error"}]
        BY <2>1, <3>1, <1>4 DEF Syncing, Reported
      <3>3. /\ entry' \in [Conversations -> View \cup {None}]
            /\ \A d \in Conversations :
                  \/ entry'[d] \in {entry[d], None}
                  \/ /\ entry'[d].conversation = d
                     /\ entry'[d].events = {} \/ (entry'[d] = snapshot /\ snapshot # None)
        <4>1. entry \in [Conversations -> View \cup {None}]
          BY <1>1 DEF CacheTyped
        <4>2. CASE entry' = entry
          BY <4>1, <4>2
        <4>3. CASE entry' = [entry EXCEPT ![snapshot.conversation] = snapshot] /\ snapshot # None
          <5>1. snapshot \in View /\ snapshot.conversation \in Conversations
            BY <4>3, <1>1, NumberTypes, ViewFields
          <5> QED
            BY <4>1, <4>3, <5>1
        <4> QED
          BY <4>2, <4>3, <3>1
      <3>4. cacheReadOnly' \in BOOLEAN
        <4>1. cacheReadOnly \in BOOLEAN
          BY <1>1 DEF CacheTyped
        <4> QED
          BY <4>1, <3>1
      <3>5. TypeOK'
        <4>1. CacheTyped'
          BY <3>1, <3>2, <3>3, <3>4, <1>1, <1>5 DEF CacheTyped
        <4>2. CallsTyped'
          BY <1>1, <1>5, <1>6, <1>10 DEF CallsTyped
        <4>3. UNCHANGED <<clientVars, storeVars, gatewayVars>> /\ retired' \subseteq Calls
          BY <1>1, <1>2 DEF TypeOK
        <4> QED
          BY <4>1, <4>2, <4>3, <1>1, <1>5, TypesKept, TypePartsNext
      <3>6. CountersGrow
        BY <3>1, <1>1, <1>5, NumberTypes DEF CountersGrow
      <3>7. CallHolds(o)'
        BY <3>1, <1>1, <1>3, <1>4, <1>5, <1>6 DEF CallHolds, Waiting, Asking, Ending, Settling
      <3>8. result[o] = "ok" => LatestState = None \/ (Shows(LatestState, c) /\ ~cacheReadOnly)
        BY <1>1, <1>2, <1>4, <1>14 DEF TicketHolds
      <3>9. LatestState' = LatestState
        BY <3>1 DEF LatestState
      <3>10. LoadsHold'
        <4>1. \A p \in Calls : p # o => /\ ~Current(p)'
                                        /\ local[p].ticket # 0 => TicketSuperseded(p)'
          <5> SUFFICES ASSUME NEW p \in Calls, p # o
                       PROVE  ~Current(p)' /\ (local[p].ticket # 0 => TicketSuperseded(p)')
            OBVIOUS
          <5>1. Kept(p) /\ CallHolds(p)
            BY <1>1, <1>7 DEF OthersKept, CallsHold, Settling
          <5> QED
            BY <5>1, <2>2, <3>5, <3>6, <1>1, OutOfRace
        <4>2. ReadyShowsLive'
          BY <3>1, <3>2, <3>8, <3>9 DEF ReadyShowsLive, Shows
        <4> QED
          BY <4>1, <4>2, <3>1, <3>5, <3>6, <1>1, <1>5, <1>7, <1>9, <1>10, OvertakenLoads
      <3>11. OwnedCommitted' /\ OwnedDelivers' /\ OwnedMatchesView'
        <4>1. local[o].previous # None => local[o].previous # gatewaySubscription
          BY <1>1 DEF OwnedCommitted
        <4>2. OwnedCommitted'
          BY <4>1, <1>1, <1>5, <1>7, <1>9, OwnedCommittedKept
        <4>3. gatewaySubscription # None => ~cacheReadOnly'
          BY <3>1, <1>1 DEF OwnedMatchesView
        <4> QED
          BY <4>2, <4>3, <3>1, <3>9, <1>1, <1>5 DEF OwnedDelivers, OwnedMatchesView, Elements, Shows
      <3>12. ShownHolds' /\ WaitingHold' /\ CommitsWait'
        <4>1. ShownHolds'
          BY <3>1, <1>1, <1>5 DEF ShownHolds, Content, FromLoad
        <4>2. \A p \in Calls : pc'[p] \in Showing => pc[p] \in Showing
          BY <1>6, <1>10
        <4> QED
          BY <4>1, <4>2, <3>1, <1>1, <1>5, <1>8 DEF WaitingHold, CommitsWait
      <3>13. NothingLeft' /\ NoCache'
        BY <3>1, <1>1, <1>4, <1>5 DEF NothingLeft, NoCache
      <3>14. NoRegress /\ KeepsEvents
        BY <3>1, GoesForward DEF KeepsEvents, NotBefore
      <3>15. local'[o] = local[o]
        BY <1>5
      <3> QED
        BY <3>3, <3>5, <3>6, <3>7, <3>10, <3>11, <3>12, <3>13, <3>14, <3>15, <1>4, <1>5, <1>7, <1>10,
           <1>11, <1>12, ViewStep
    <2> QED
      BY <2>5
  <1> QED
    BY <1>13, <1>14

-----------------------------------------------------------------------------
(* Deleting a conversation, and disposing the client.                      *)

\* Giving up the view on display, with its subscription, in a call that ends.
LEMMA GivenUpStep ==
    ASSUME IInv, TypeOK', CountersGrow, GiveUpView,
           NEW o \in Calls, OthersKept(o), local' = local, Stacked',
           pc[o] \in {"idle", "deleted"}, pc'[o] = "done",
           UNCHANGED <<setup, events, delivered, queue, phase>>,
           disposed' \/ \A p \in Calls : p # o => pc[p] \notin Showing,
           \A c \in Conversations :
              \/ entry'[c] \in {entry[c], None}
              \/ /\ entry'[c].conversation = c
                 /\ entry'[c].events = {} \/ (entry'[c] = snapshot /\ snapshot # None),
           LoadsHold', NoCache'
    PROVE  IInv' /\ NoRegress /\ KeepsEvents
  <1>1. /\ TypeOK /\ StackHolds /\ Stacked /\ CallsHold /\ SubsHold /\ CallHolds(o) /\ SubHolds(o)
        /\ OwnedCommitted /\ NoSubscriptionLeak
    BY DEF IInv, StackHolds, SubsHold, CallsHold, Settling
  <1>2. /\ sub' = Closing(sub, gatewaySubscription) /\ gatewaySubscription' = None
        /\ snapshot' = None /\ pendingCommits' = <<>>
    BY DEF GiveUpView
  <1>3. CacheEnabled' = CacheEnabled /\ MaxPages' = MaxPages
    BY SameSets
  <1>4. gatewaySubscription \in Calls \cup {None}
    BY <1>1, NumberTypes
  <1>5. pc'[o] \notin Publishing /\ pc'[o] \in PastCommit
        /\ pc[o] \notin Holding /\ pc[o] \notin {"subscribing", "loading"}
        /\ pc'[o] \notin {"idle", "paging", "deleting"} \cup Waiting \cup Asking
    BY DEF Publishing, PastCommit, Ending, Holding, Waiting, Asking, StorePublishing, Settling
  <1>6. \A p \in Calls : p # o => pc'[p] = pc[p]
    BY DEF OthersKept, Kept
  <1>7. CommitsWait'
    <2>1. disposed' \/ \A p \in Calls : pc'[p] \notin Showing
      BY <1>5, <1>6 DEF Showing, Publishing
    <2> QED
      BY <2>1, <1>2 DEF CommitsWait
  <1>8. CallHolds(o)'
    <2>1. /\ local'[o].ticket <= cacheRequestId' /\ local'[o].generation <= generation'
          /\ local'[o].cursor = 0 => local'[o].requestId <= loadRequestId'
          /\ local'[o].ticket # 0 =>
                /\ local'[o].conversation \in Conversations
                /\ local'[o].epoch <= cacheEpoch'[local'[o].conversation]
      BY <1>1, NumbersStand
    <2> QED
      BY <2>1 DEF CallHolds, Waiting, Asking, Ending, Settling
  <1>9. \A p \in Calls : SubStep(p) /\ (sub'[p] = "open" => sub[p] = "open")
    <2>1. gatewaySubscription # None => pc[gatewaySubscription] \notin {"subscribing", "loading"}
      BY <1>1 DEF OwnedCommitted, PastCommit, Ending, Settling
    <2> QED
      BY <2>1, <1>1, <1>2, <1>4, ClosingSteps
  <1>10. SubHolds(o)'
    <2>1. sub'[o] # "none" => sub[o] # "none"
      BY <1>9 DEF SubStep
    <2> QED
      BY <2>1, <1>1, <1>5, SubKeptPast
  <1>11. OwnedCommitted' /\ OwnedDelivers' /\ OwnedMatchesView'
    <2>1. OwnedCommitted'
      <3>1. local'[o].previous # None => local'[o].previous # gatewaySubscription'
        BY <1>2
      <3> QED
        BY <3>1, <1>1, <1>2, <1>5, OwnedCommittedKept
    <2> QED
      BY <2>1, <1>2 DEF OwnedDelivers, OwnedMatchesView
  <1>12. NoSubscriptionLeak'
    <2>1. gatewaySubscription # None => sub'[gatewaySubscription] # "open"
      BY <1>1, <1>2, <1>4, ClosingFacts
    <2> QED
      BY <2>1, <1>1, <1>5, <1>9, NoLeakKept
  <1>13. ShownHolds' /\ WaitingHold' /\ NothingLeft' /\ ContentHolds(o)'
    BY <1>2 DEF ShownHolds, WaitingHold, NothingLeft, ContentHolds
  <1>14. NoRegress /\ KeepsEvents
    BY <1>2, GoesForward DEF KeepsEvents
  <1>15. /\ \/ local'[o].cursor # 0
            \/ local[o].cursor = 0 /\ local'[o].requestId = local[o].requestId
         /\ local'[o].ticket \in {0, local[o].ticket}
    OBVIOUS
  <1> QED
    BY <1>7, <1>8, <1>9, <1>10, <1>11, <1>12, <1>13, <1>14, <1>15, ViewStep

\* Superseding every request leaves no load in the race.
LEMMA GivenUpLoads ==
    ASSUME TypeOK, TypeOK', CallsHold, LoadsHold, CountersGrow, NEW o \in Calls, OthersKept(o),
           pc[o] \in {"idle", "deleted"}, pc'[o] = "done",
           UNCHANGED <<setup, cacheState, cacheReadOnly, events, local>>,
           loadRequestId < loadRequestId', pendingLoad' = NoLoad, pendingHandoff' = NoHandoff,
           LatestState' \in {None, LatestState},
           NEW R \in SUBSET Calls, retired' = retired \cup R,
           \A p \in R : /\ pc[p] \in Waiting \cup Asking
                        /\ pc[p] \in Waiting => TicketSuperseded(p)'
    PROVE  LoadsHold'
  <1>1. pc[o] \notin Waiting \cup Asking /\ o \notin retired
    BY DEF Waiting, Asking, LoadsHold, Doomed, Settling
  <1>2. \A p \in Calls : p # o => Kept(p) /\ CallHolds(p)
    BY DEF OthersKept, CallsHold, Settling
  <1>3. LatestState' \in {None, LatestState} /\ ReadyShowsLive
    BY DEF LoadsHold
  <1>4. \A p \in Calls : pc[p] \in Asking => LoadSuperseded(p)'
    <2> SUFFICES ASSUME NEW p \in Calls, pc[p] \in Asking
                 PROVE  LoadSuperseded(p)'
      OBVIOUS
    <2>1. CallHolds(p)
      BY DEF CallsHold, Settling
    <2>2. local[p].cursor = 0
      BY <2>1 DEF CallHolds, Settling
    <2>3. local[p].requestId <= loadRequestId
      BY <2>1, <2>2 DEF CallHolds, Settling
    <2>4. local[p].requestId \in Nat /\ loadRequestId \in Nat /\ loadRequestId' \in Nat
      BY CallTypes, NumberTypes DEF TypeOK
    <2> QED
      BY <2>3, <2>4 DEF LoadSuperseded
  <1>5. \A p \in Calls : CurrentHolds(p)'
    <2> SUFFICES ASSUME NEW p \in Calls
                 PROVE  ~Current(p)'
      BY DEF CurrentHolds
    <2>1. CASE p = o
      BY <2>1 DEF Current, Asking
    <2>2. CASE p # o
      BY <2>2, <1>2, <1>4 DEF Current, Kept
    <2> QED
      BY <2>1, <2>2
  <1>6. \A p \in Calls : TicketHolds(p)'
    <2> SUFFICES ASSUME NEW p \in Calls
                 PROVE  TicketHolds(p)'
      OBVIOUS
    <2>1. CASE p = o
      BY <2>1 DEF TicketHolds, Waiting, Ending
    <2>2. CASE p # o /\ (local[p].ticket = 0 \/ TicketSuperseded(p)')
      BY <2>2, <1>2, OutOfRace
    <2>3. CASE p # o /\ local[p].ticket # 0 /\ ~TicketSuperseded(p)'
      <3>1. ~TicketSuperseded(p) /\ TicketHolds(p)
        BY <2>3, <1>2, OutOfRace DEF LoadsHold
      <3>2. pc'[p] = pc[p] /\ result'[p] = result[p]
        BY <2>3, <1>2 DEF Kept
      <3>3. pendingLoad'.requestId = 0
        BY DEF NoLoad
      <3> QED
        BY <2>3, <3>1, <3>2, <3>3, <1>3 DEF TicketHolds, Syncing, Shows
    <2> QED
      BY <2>1, <2>2, <2>3
  <1>7. HandoffHolds'
    BY DEF HandoffHolds, NoHandoff
  <1>8. \A p \in retired' : Doomed(p)'
    <2>1. \A p \in R : /\ pc[p] \in Waiting \cup Asking
                       /\ pc[p] \in Waiting => TicketSuperseded(p)'
                       /\ pc[p] \in Asking => LoadSuperseded(p)'
      BY <1>4
    <2> QED
      BY <2>1, <1>1, RetiredDoomed
  <1>9. ReadyShowsLive'
    BY <1>3 DEF ReadyShowsLive, Shows
  <1> QED
    BY <1>5, <1>6, <1>7, <1>8, <1>9 DEF LoadsHold

\* The types after the view was given up.
LEMMA GivenUpTypes ==
    ASSUME TypeOK, OwnedCommitted, setup' = setup, GiveUpView
    PROVE  /\ conversationEpoch' \in Nat /\ generation' \in Nat /\ historyRequestId' \in Nat
           /\ generation <= generation'
           /\ gatewaySubscription' \in Calls \cup {None} /\ cleared' \in BOOLEAN /\ StoreTyped'
           /\ sub' \in [Calls -> {"none", "open", "closing", "closed"}]
  <1>1. /\ conversationEpoch \in Nat /\ generation \in Nat /\ historyRequestId \in Nat
        /\ gatewaySubscription \in Calls \cup {None}
    BY NumberTypes
  <1>2. sub' = Closing(sub, gatewaySubscription)
    BY DEF GiveUpView
  <1>3. sub' \in [Calls -> {"none", "open", "closing", "closed"}]
    BY <1>1, <1>2, ClosingFacts
  <1>4. pendingCommits' \in Seq(View') /\ snapshot' = None
    BY DEF GiveUpView
  <1>5. cleared' = FALSE
    BY DEF GiveUpView
  <1>6. /\ conversationEpoch' = conversationEpoch + 1 /\ generation' = generation + 1
        /\ historyRequestId' = historyRequestId + 1 /\ gatewaySubscription' = None
    BY DEF GiveUpView
  <1>7. StoreTyped' /\ cleared' \in BOOLEAN
    BY <1>4, <1>5 DEF StoreTyped
  <1> QED
    BY <1>1, <1>3, <1>6, <1>7

\* The deletion of a conversation settles: the cache forgets it.
LEMMA DeleteReturnsStep ==
    ASSUME IInv, NEW o \in Calls, DeleteReturns(o)
    PROVE  IInv' /\ NoRegress /\ KeepsEvents
  <1>1. /\ TypeOK /\ StackHolds /\ Stacked /\ CallsHold /\ SubsHold /\ LoadsHold
        /\ ClientTyped /\ CacheTyped /\ StoreTyped /\ CallsTyped /\ GatewayTyped /\ NoCache
        /\ CallHolds(o) /\ SubHolds(o) /\ OwnedCommitted /\ NoSubscriptionLeak
    BY TypeParts DEF IInv, StackHolds, SubsHold, CallsHold
  <1>2. /\ Settled /\ pc[o] = "deleting" /\ stack = <<>>
        /\ UNCHANGED <<setup, clientVars, cacheReadOnly, cacheState, cleared, storeVars, local,
                       gatewayVars>>
    BY DEF DeleteReturns, Settled
  <1>3. PICK c \in Conversations : c = local[o].conversation
    BY <1>1, <1>2 DEF CallHolds
  <1>4. PICK q \in {"done", "deleted"} :
          /\ pc' = [pc EXCEPT ![o] = q]
          /\ q = "done" =>
                /\ result' = [result EXCEPT ![o] = "rejected"]
                /\ UNCHANGED <<cacheRequestId, cacheEpoch, entry, stored, stack, retired>>
          /\ q = "deleted" =>
                /\ stack' = <<o>> /\ ForgetInCache(c)
                /\ cacheRequestId' \in {cacheRequestId, cacheRequestId + 1}
                /\ retired' = retired \cup WaitingLoads(c) /\ result' = result
    BY <1>3 DEF DeleteReturns
  <1>5. /\ setup' = setup /\ View' = View /\ Locals' = Locals /\ MaxEvents' = MaxEvents
        /\ CacheEnabled' = CacheEnabled
        /\ UNCHANGED <<disposed, generation, gatewaySubscription, loadRequestId, pendingLoad,
                       pendingHandoff, cacheReadOnly, cacheState, snapshot, pendingCommits,
                       local, events, sub, delivered, queue, phase>>
    BY <1>2, SameSets DEF clientVars, storeVars, gatewayVars
  <1>6. /\ pc' \in [Calls -> PCs] /\ pc'[o] = q
        /\ \A p \in Calls : p # o => pc'[p] = pc[p]
    BY <1>1, <1>4 DEF CallsTyped, PCs
  <1>7. /\ result' \in [Calls -> {"none", "ok", "rejected", "notFound"}]
        /\ \A p \in Calls : p # o => result'[p] = result[p]
        /\ q = "deleted" => result'[o] = "none"
    BY <1>1, <1>2, <1>4 DEF CallsTyped, CallHolds, Settling
  <1>8. OthersKept(o) /\ NumbersKept(o)
    BY <1>5, <1>6, <1>7 DEF OthersKept, Kept, NumbersKept
  <1>9. Stacked' /\ stack' \in Seq(Calls)
    <2>1. CASE q = "done"
      <3>1. \A p \in Calls : pc'[p] \in Publishing <=> pc[p] \in Publishing
        BY <2>1, <1>2, <1>6 DEF Publishing, StorePublishing
      <3> QED
        BY <2>1, <3>1, <1>1, <1>4, StackSame, NumberTypes
    <2>2. CASE q = "deleted"
      <3>1. stack' = <<o>>
        BY <2>2, <1>4
      <3>2. stack' = Append(stack, o)
        BY <3>1, <1>2
      <3>3. stack' \in Seq(Calls)
        BY <3>1
      <3>4. pc[o] \notin Publishing /\ pc'[o] \in Publishing
        BY <2>2, <1>2, <1>6 DEF Publishing, StorePublishing
      <3> QED
        BY <3>2, <3>3, <3>4, <1>1, <1>6, StackPush
    <2> QED
      BY <2>1, <2>2
  <1>10. /\ cacheEpoch' \in [Conversations -> Nat]
         /\ entry' \in [Conversations -> View \cup {None}] /\ stored' \subseteq Conversations
         /\ \A d \in Conversations : /\ cacheEpoch[d] <= cacheEpoch'[d]
                                     /\ entry'[d] \in {entry[d], None}
         /\ cacheRequestId' \in Nat /\ cacheRequestId <= cacheRequestId'
    <2>1. /\ cacheRequestId \in Nat /\ cacheEpoch \in [Conversations -> Nat]
          /\ entry \in [Conversations -> View \cup {None}] /\ stored \subseteq Conversations
      BY <1>1 DEF CacheTyped
    <2>2. CASE q = "done"
      <3>1. UNCHANGED <<cacheRequestId, cacheEpoch, entry, stored>>
        BY <2>2, <1>4
      <3> QED
        BY <2>1, <3>1
    <2>3. CASE q = "deleted"
      <3>1. ForgetInCache(c) /\ cacheRequestId' \in {cacheRequestId, cacheRequestId + 1}
        BY <2>3, <1>4
      <3> QED
        BY <2>1, <3>1, <1>1, ForgetFacts
    <2> QED
      BY <2>2, <2>3
  <1>11. TypeOK'
    <2>1. CacheTyped'
      BY <1>1, <1>2, <1>5, <1>10 DEF CacheTyped
    <2>2. CallsTyped'
      BY <1>1, <1>5, <1>6, <1>7, <1>9 DEF CallsTyped
    <2>3. retired' \subseteq Calls
      BY <1>1, <1>4 DEF TypeOK, WaitingLoads
    <2> QED
      BY <2>1, <2>2, <2>3, <1>1, <1>2, TypesKept, TypePartsNext
  <1>12. CountersGrow
    BY <1>1, <1>5, <1>10, NumberTypes DEF CountersGrow
  <1>13. pc[o] \notin Waiting \cup Asking /\ pc[o] \notin Holding /\ pc[o] \notin PastCommit
         /\ pc[o] \notin Showing /\ pc'[o] \notin Showing /\ pc[o] \notin {"subscribing", "loading"}
         /\ pc'[o] \notin {"idle", "paging", "deleting"} \cup Waiting \cup Asking
    BY <1>2, <1>6 DEF PastCommit, Ending, Holding, Showing, Waiting, Asking, StorePublishing,
                      Settling
  <1>14. pc'[o] \in {"deleted", "done"} /\ local'[o].ticket \in {0, local[o].ticket}
    BY <1>5, <1>6, <1>4
  <1>15. CurrentHolds(o)' /\ TicketHolds(o)' /\ ContentHolds(o)' /\ o \notin retired
    <2>1. o \notin retired
      BY <1>1, <1>2 DEF LoadsHold, Doomed, Waiting, Asking, Settling
    <2> QED
      BY <2>1, <1>5, <1>14
         DEF CurrentHolds, Current, Asking, TicketHolds, Waiting, Ending, ContentHolds
  <1>16. LoadsHold'
    <2>1. PICK R \in SUBSET Calls :
             /\ retired' = retired \cup R
             /\ \A p \in R : /\ pc[p] \in Waiting /\ local[p].conversation = c
                             /\ ForgetInCache(c)
      <3>1. CASE q = "done"
        <4>1. retired' = retired \cup {}
          BY <3>1, <1>4
        <4>2. {} \in SUBSET Calls
          OBVIOUS
        <4> WITNESS {} \in SUBSET Calls
        <4> QED
          BY <4>1
      <3>2. CASE q = "deleted"
        <4>1. /\ retired' = retired \cup WaitingLoads(c) /\ ForgetInCache(c)
              /\ WaitingLoads(c) \in SUBSET Calls
          BY <3>2, <1>4 DEF WaitingLoads
        <4>2. \A p \in WaitingLoads(c) : pc[p] \in Waiting /\ local[p].conversation = c
          BY DEF WaitingLoads, Waiting
        <4> QED
          BY <4>1, <4>2
      <3> QED
        BY <3>1, <3>2
    <2>2. \A p \in R : /\ pc[p] \in Waiting \cup Asking
                       /\ pc[p] \in Waiting => TicketSuperseded(p)'
                       /\ pc[p] \in Asking => ~Current(p)
      <3> SUFFICES ASSUME NEW p \in R
                   PROVE  TicketSuperseded(p)' /\ pc[p] \in Waiting /\ pc[p] \notin Asking
        OBVIOUS
      <3>1. p \in Calls /\ pc[p] \in Waiting /\ local[p].conversation = c /\ ForgetInCache(c)
        BY <2>1
      <3>2. TicketSuperseded(p)'
        BY <3>1, <1>1, <1>5, ForgottenTickets
      <3> QED
        BY <3>1, <3>2 DEF Waiting, Asking
    <2>3. LatestState' = LatestState
      BY <1>5 DEF LatestState
    <2>4. local'[o].ticket \in {0, local[o].ticket}
      BY <1>5
    <2> QED
      BY <2>1, <2>2, <2>3, <2>4, <1>1, <1>5, <1>8, <1>11, <1>12, <1>13, <1>15, RaceLeft
  <1>17. CallHolds(o)'
    <2>1. /\ local'[o].ticket <= cacheRequestId' /\ local'[o].generation <= generation'
          /\ local'[o].cursor = 0 => local'[o].requestId <= loadRequestId'
          /\ local'[o].ticket # 0 =>
                /\ local'[o].conversation \in Conversations
                /\ local'[o].epoch <= cacheEpoch'[local'[o].conversation]
      BY <1>1, <1>5, <1>11, <1>12, NumbersStand
    <2> QED
      BY <2>1, <1>3, <1>5, <1>6, <1>7 DEF CallHolds, Waiting, Asking, Ending, Settling
  <1>18. SubHolds(o)' /\ (\A p \in Calls : SubStep(p)) /\ Steady /\ NoCache'
    <2>1. SubHolds(o)'
      BY <1>1, <1>5, <1>13, SubKeptPast
    <2> QED
      BY <2>1, <1>1, <1>5 DEF SubStep, Steady, NoCache
  <1>19. NoSubscriptionLeak'
    BY <1>1, <1>5, <1>8, <1>13, NoLeakKept
  <1>20. /\ local'[o] = local[o]
         /\ gatewaySubscription # None => sub'[gatewaySubscription] = sub[gatewaySubscription]
         /\ local[o].cursor # 0 \/ local'[o].requestId = local[o].requestId
    BY <1>5
  <1> QED
    BY <1>8, <1>9, <1>10, <1>11, <1>12, <1>13, <1>14, <1>15, <1>16, <1>17, <1>18, <1>19, <1>20,
       SteadyStep

\* The listeners of the draft have returned.
LEMMA DeletedReturnsStep ==
    ASSUME IInv, NEW o \in Calls, DeletedReturns(o)
    PROVE  IInv' /\ NoRegress /\ KeepsEvents
  <1>1. /\ TypeOK /\ StackHolds /\ Stacked /\ CallsHold /\ SubsHold /\ LoadsHold
        /\ ClientTyped /\ CacheTyped /\ StoreTyped /\ CallsTyped /\ GatewayTyped /\ NoCache
        /\ CallHolds(o) /\ SubHolds(o) /\ OwnedCommitted /\ NoSubscriptionLeak
    BY TypeParts DEF IInv, StackHolds, SubsHold, CallsHold
  <1>2. /\ stack = <<o>> /\ pc[o] = "deleted" /\ pc' = [pc EXCEPT ![o] = "done"] /\ stack' = <<>>
        /\ result' = [result EXCEPT ![o] = "ok"]
        /\ UNCHANGED <<setup, disposed, cacheRequestId, cacheReadOnly, cacheState, cacheEpoch,
                       entry, stored, local, events, delivered, queue, phase>>
    BY DEF DeletedReturns
  <1>3. PICK c \in Conversations : c = local[o].conversation
    BY <1>1, <1>2 DEF CallHolds
  <1>4. /\ loadRequestId' = loadRequestId + (IF pendingLoad.conversation = c THEN 1 ELSE 0)
                                          + (IF Shows(snapshot, c) THEN 1 ELSE 0)
        /\ pendingLoad' = IF pendingLoad.conversation = c \/ Shows(snapshot, c)
                          THEN NoLoad ELSE pendingLoad
        /\ pendingHandoff' = IF pendingLoad.conversation = c \/ Shows(snapshot, c)
                             THEN NoHandoff ELSE pendingHandoff
        /\ IF Shows(snapshot, c)
           THEN GiveUpView
           ELSE UNCHANGED <<sub, gatewaySubscription, conversationEpoch, generation,
                            historyRequestId, storeVars, cleared>>
        /\ retired' = retired \cup AskingLoads(c)
    BY <1>3 DEF DeletedReturns
  <1>5. /\ View' = View /\ Locals' = Locals /\ MaxEvents' = MaxEvents
        /\ CacheEnabled' = CacheEnabled
    BY <1>2, SameSets
  <1>6. /\ pc' \in [Calls -> PCs] /\ pc'[o] = "done"
        /\ \A p \in Calls : p # o => pc'[p] = pc[p]
        /\ result' \in [Calls -> {"none", "ok", "rejected", "notFound"}]
        /\ \A p \in Calls : p # o => result'[p] = result[p]
    BY <1>1, <1>2 DEF CallsTyped, PCs
  <1>7. OthersKept(o) /\ NumbersKept(o)
    BY <1>2, <1>6 DEF OthersKept, Kept, NumbersKept
  <1>8. Stacked' /\ CallsTyped'
    <2>1. pc'[o] \notin Publishing
      BY <1>6 DEF Publishing, StorePublishing
    <2>2. Stacked'
      BY <2>1, <1>1, <1>2, <1>6, StackEmptied
    <2>3. stack' \in Seq(Calls)
      BY <1>2
    <2> QED
      BY <2>2, <2>3, <1>1, <1>2, <1>5, <1>6 DEF CallsTyped
  <1>9. \A p \in Calls : p # o => pc[p] \notin Showing
    <2>1. Elements(stack) = {o}
      BY <1>2 DEF Elements
    <2> QED
      BY <2>1, <1>1 DEF Stacked, Showing, Publishing
  <1>10. pc[o] \notin Waiting \cup Asking /\ pc[o] \notin Holding /\ pc'[o] \in PastCommit
         /\ pc[o] \notin Showing /\ pc'[o] \notin Showing /\ pc[o] \notin {"subscribing", "loading"}
         /\ pc'[o] \notin {"idle", "paging", "deleting"} \cup Waiting \cup Asking
    BY <1>2, <1>6 DEF PastCommit, Ending, Holding, Showing, Waiting, Asking, StorePublishing,
                      Settling
  <1>11. CurrentHolds(o)' /\ TicketHolds(o)' /\ ContentHolds(o)' /\ o \notin retired
    <2>1. o \notin retired
      BY <1>1, <1>2 DEF LoadsHold, Doomed, Waiting, Asking, Settling
    <2> QED
      BY <2>1, <1>6
         DEF CurrentHolds, Current, Asking, TicketHolds, Waiting, Ending, ContentHolds
  <1>12. /\ AskingLoads(c) \in SUBSET Calls /\ retired' \subseteq Calls
         /\ \A p \in AskingLoads(c) : /\ pc[p] \in Asking /\ pc[p] \notin Waiting
                                      /\ local[p].conversation = c
    BY <1>1, <1>4 DEF AskingLoads, Asking, Waiting, TypeOK
  <1>13. loadRequestId \in Nat /\ NoCache' /\ \A d \in Conversations : entry'[d] = entry[d]
    BY <1>1, <1>2, <1>5, NumberTypes DEF NoCache
  <1>14. CASE Shows(snapshot, c)
    <2>1. GiveUpView /\ pendingLoad' = NoLoad /\ pendingHandoff' = NoHandoff
      BY <1>4, <1>14
    <2>2. loadRequestId' \in Nat /\ loadRequestId < loadRequestId' /\ loadRequestId <= loadRequestId'
      <3>1. loadRequestId' = loadRequestId + (IF pendingLoad.conversation = c THEN 1 ELSE 0) + 1
        BY <1>4, <1>14
      <3> QED
        BY <3>1, <1>13
    <2>3. /\ conversationEpoch' \in Nat /\ generation' \in Nat /\ historyRequestId' \in Nat
          /\ generation <= generation'
          /\ gatewaySubscription' \in Calls \cup {None} /\ cleared' \in BOOLEAN /\ StoreTyped'
          /\ sub' \in [Calls -> {"none", "open", "closing", "closed"}]
      BY <2>1, <1>1, <1>2, GivenUpTypes
    <2>4. TypeOK'
      <3>1. ClientTyped'
        BY <2>1, <2>2, <2>3, <1>1, <1>2, <1>5 DEF ClientTyped, NoLoad, NoHandoff
      <3>2. CacheTyped'
        BY <2>3, <1>1, <1>2, <1>5 DEF CacheTyped
      <3>3. GatewayTyped'
        BY <2>3, <1>1, <1>2, <1>5 DEF GatewayTyped
      <3> QED
        BY <2>3, <3>1, <3>2, <3>3, <1>1, <1>2, <1>8, <1>12, TypePartsNext
    <2>5. CountersGrow
      BY <2>2, <2>3, <1>1, <1>2, NumberTypes DEF CountersGrow
    <2>6. LoadsHold'
      <3>1. LatestState' = None
        BY <2>1 DEF GiveUpView, LatestState
      <3>2. \A p \in AskingLoads(c) : /\ pc[p] \in Waiting \cup Asking
                                      /\ pc[p] \in Waiting => TicketSuperseded(p)'
        BY <1>12
      <3> QED
        BY <2>1, <2>2, <2>4, <2>5, <3>1, <3>2, <1>1, <1>2, <1>4, <1>6, <1>7, <1>12, GivenUpLoads
    <2> QED
      BY <2>1, <2>4, <2>5, <2>6, <1>2, <1>6, <1>7, <1>8, <1>9, <1>13, GivenUpStep
  <1>15. CASE ~Shows(snapshot, c)
    <2>1. /\ UNCHANGED <<sub, gatewaySubscription, conversationEpoch, generation,
                         historyRequestId, snapshot, pendingCommits, cleared>>
          /\ \/ /\ pendingLoad.conversation = c /\ loadRequestId' = loadRequestId + 1
                /\ pendingLoad' = NoLoad /\ pendingHandoff' = NoHandoff
             \/ /\ pendingLoad.conversation # c
                /\ UNCHANGED <<loadRequestId, pendingLoad, pendingHandoff>>
      <3>1. UNCHANGED <<sub, gatewaySubscription, conversationEpoch, generation,
                        historyRequestId, storeVars, cleared>>
        BY <1>4, <1>15
      <3>2. /\ loadRequestId' = loadRequestId + (IF pendingLoad.conversation = c THEN 1 ELSE 0) + 0
            /\ pendingLoad' = IF pendingLoad.conversation = c THEN NoLoad ELSE pendingLoad
            /\ pendingHandoff' = IF pendingLoad.conversation = c THEN NoHandoff ELSE pendingHandoff
        BY <1>4, <1>15
      <3> QED
        BY <3>1, <3>2, <1>13 DEF storeVars
    <2>2. loadRequestId' \in Nat /\ loadRequestId <= loadRequestId'
      BY <2>1, <1>13
    <2>3. TypeOK'
      <3>1. ClientTyped'
        BY <2>1, <2>2, <1>1, <1>2, <1>5 DEF ClientTyped, NoLoad, NoHandoff
      <3>2. CacheTyped'
        BY <2>1, <1>1, <1>2, <1>5 DEF CacheTyped
      <3>3. UNCHANGED <<gatewayVars, storeVars>>
        BY <2>1, <1>2 DEF gatewayVars, storeVars
      <3> QED
        BY <3>1, <3>2, <3>3, <1>1, <1>2, <1>8, <1>12, TypesKept, TypePartsNext
    <2>4. CountersGrow
      BY <2>1, <2>2, <1>1, <1>2, NumberTypes DEF CountersGrow
    <2>5. LatestState' = LatestState
      BY <2>1 DEF LatestState
    <2>6. LoadsHold'
      <3>1. CASE pendingLoad.conversation = c
        <4>1. loadRequestId < loadRequestId' /\ pendingLoad' = NoLoad /\ pendingHandoff' = NoHandoff
          BY <2>1, <3>1, <1>13
        <4>2. \A p \in AskingLoads(c) : /\ pc[p] \in Waiting \cup Asking
                                        /\ pc[p] \in Waiting => TicketSuperseded(p)'
          BY <1>12
        <4> QED
          BY <2>3, <2>4, <2>5, <4>1, <4>2, <1>1, <1>2, <1>4, <1>6, <1>7, <1>12, GivenUpLoads
      <3>2. CASE pendingLoad.conversation # c
        <4>1. \A p \in AskingLoads(c) : /\ pc[p] \in Waiting \cup Asking
                                        /\ pc[p] \in Waiting => TicketSuperseded(p)'
                                        /\ pc[p] \in Asking => ~Current(p)
          BY <3>2, <1>1, <1>12 DEF LoadsHold, CurrentHolds
        <4>2. UNCHANGED <<loadRequestId, pendingLoad, pendingHandoff>>
          BY <2>1, <3>2
        <4>3. local'[o].ticket \in {0, local[o].ticket}
          BY <1>2
        <4> QED
          BY <2>1, <2>3, <2>4, <2>5, <4>1, <4>2, <4>3, <1>1, <1>2, <1>4, <1>7, <1>10, <1>11, <1>12,
             RaceLeft
      <3> QED
        BY <3>1, <3>2
    <2>7. CallHolds(o)'
      <3>1. /\ local'[o].ticket <= cacheRequestId' /\ local'[o].generation <= generation'
            /\ local'[o].cursor = 0 => local'[o].requestId <= loadRequestId'
            /\ local'[o].ticket # 0 =>
                  /\ local'[o].conversation \in Conversations
                  /\ local'[o].epoch <= cacheEpoch'[local'[o].conversation]
        BY <2>3, <2>4, <1>1, <1>2, NumbersStand
      <3> QED
        BY <3>1, <1>6 DEF CallHolds, Waiting, Asking, Ending, Settling
    <2>8. SubHolds(o)' /\ (\A p \in Calls : SubStep(p)) /\ Steady
      <3>1. SubHolds(o)'
        BY <2>1, <1>1, <1>2, <1>10, SubKeptPast
      <3> QED
        BY <2>1, <3>1, <1>2 DEF SubStep, Steady
    <2>9. NoSubscriptionLeak'
      BY <2>1, <1>1, <1>2, <1>7, <1>10, NoLeakKept
    <2>10. /\ local'[o] = local[o]
           /\ gatewaySubscription # None => sub'[gatewaySubscription] = sub[gatewaySubscription]
           /\ local[o].cursor # 0 \/ local'[o].requestId = local[o].requestId
      BY <2>1, <1>2
    <2> QED
      BY <2>2, <2>3, <2>4, <2>6, <2>7, <2>8, <2>9, <2>10, <1>7, <1>8, <1>10, <1>11, <1>13, SteadyStep
  <1> QED
    BY <1>14, <1>15

\* The client is disposed.
LEMMA DisposeStep ==
    ASSUME IInv, NEW o \in Calls, Dispose(o)
    PROVE  IInv' /\ NoRegress /\ KeepsEvents
  <1>1. /\ TypeOK /\ Stacked /\ CallsHold /\ SubsHold /\ LoadsHold /\ NoCache
        /\ ClientTyped /\ CacheTyped /\ StoreTyped /\ CallsTyped /\ GatewayTyped /\ OwnedCommitted
    BY TypeParts DEF IInv, StackHolds, SubsHold
  <1>2. /\ pc[o] = "idle" /\ pc' = [pc EXCEPT ![o] = "done"] /\ disposed' = TRUE
        /\ cacheRequestId' = cacheRequestId + 1 /\ loadRequestId' = loadRequestId + 1
        /\ pendingLoad' = NoLoad /\ pendingHandoff' = NoHandoff /\ GiveUpView
        /\ entry' = CapturedEntries
        /\ retired' = retired \cup UNION {WaitingLoads(c) \cup AskingLoads(c) : c \in Conversations}
        /\ UNCHANGED <<setup, cacheReadOnly, cacheState, cacheEpoch, stored, local, stack,
                       result, events, delivered, queue, phase>>
    BY DEF Dispose
  <1>3. /\ View' = View /\ Locals' = Locals /\ MaxEvents' = MaxEvents
        /\ CacheEnabled' = CacheEnabled
    BY <1>2, SameSets
  <1>4. /\ pc' \in [Calls -> PCs] /\ pc'[o] = "done"
        /\ \A p \in Calls : p # o => pc'[p] = pc[p]
    BY <1>1, <1>2 DEF CallsTyped, PCs
  <1>5. OthersKept(o) /\ CallsTyped'
    BY <1>1, <1>2, <1>3, <1>4 DEF OthersKept, Kept, CallsTyped
  <1>6. /\ loadRequestId' \in Nat /\ loadRequestId < loadRequestId'
        /\ loadRequestId <= loadRequestId' /\ cacheRequestId' \in Nat
        /\ cacheRequestId <= cacheRequestId' /\ disposed' \in BOOLEAN
        /\ \A c \in Conversations : cacheEpoch[c] <= cacheEpoch'[c]
    BY <1>1, <1>2, NumberTypes
  <1>7. /\ conversationEpoch' \in Nat /\ generation' \in Nat /\ historyRequestId' \in Nat
        /\ generation <= generation'
        /\ gatewaySubscription' \in Calls \cup {None} /\ cleared' \in BOOLEAN /\ StoreTyped'
        /\ sub' \in [Calls -> {"none", "open", "closing", "closed"}]
    BY <1>1, <1>2, GivenUpTypes
  <1>8. /\ entry' \in [Conversations -> View \cup {None}]
        /\ \A c \in Conversations :
              \/ entry'[c] \in {entry[c], None}
              \/ /\ entry'[c].conversation = c
                 /\ entry'[c].events = {} \/ (entry'[c] = snapshot /\ snapshot # None)
    BY <1>1, <1>2, CapturedFacts
  <1>9. PICK R \in SUBSET Calls : R = UNION {WaitingLoads(c) \cup AskingLoads(c) : c \in Conversations}
    BY DEF WaitingLoads, AskingLoads
  <1>10. TypeOK'
    <2>1. ClientTyped'
      BY <1>1, <1>2, <1>3, <1>6, <1>7 DEF ClientTyped, NoLoad, NoHandoff
    <2>2. CacheTyped'
      BY <1>1, <1>2, <1>3, <1>6, <1>7, <1>8 DEF CacheTyped
    <2>3. GatewayTyped'
      BY <1>1, <1>2, <1>3, <1>7 DEF GatewayTyped
    <2>4. retired' \subseteq Calls
      BY <1>1, <1>2, <1>9 DEF TypeOK
    <2> QED
      BY <2>1, <2>2, <2>3, <2>4, <1>1, <1>2, <1>5, <1>7, TypePartsNext
  <1>11. CountersGrow
    BY <1>2, <1>6, <1>7 DEF CountersGrow
  <1>12. LoadsHold'
    <2>1. \A p \in R : /\ pc[p] \in Waiting \cup Asking
                       /\ pc[p] \in Waiting => TicketSuperseded(p)'
      BY <1>2, <1>9 DEF WaitingLoads, AskingLoads, Waiting, Asking, TicketSuperseded
    <2>2. LatestState' = None
      BY <1>2 DEF GiveUpView, LatestState
    <2>3. retired' = retired \cup R
      BY <1>2, <1>9
    <2> QED
      BY <2>1, <2>2, <2>3, <1>1, <1>2, <1>4, <1>5, <1>6, <1>10, <1>11, GivenUpLoads
  <1>13. NoCache' /\ Stacked'
    <2>1. \A p \in Calls : pc'[p] \in Publishing <=> pc[p] \in Publishing
      BY <1>2, <1>4 DEF Publishing, StorePublishing
    <2>2. Stacked'
      BY <2>1, <1>1, <1>2, StackSame
    <2> QED
      BY <2>2, <1>1, <1>2, <1>3 DEF NoCache
  <1> QED
    BY <1>2, <1>4, <1>5, <1>8, <1>10, <1>11, <1>12, <1>13, GivenUpStep

-----------------------------------------------------------------------------
(* The theorems.                                                           *)

\* What every step does: it preserves the invariant, never replaces a view by
\* one of an earlier load, and takes no event away.
LEMMA EveryStep ==
    ASSUME IInv, Next
    PROVE  IInv' /\ NoRegress /\ KeepsEvents
  <1>1. CASE PublishPending
    BY <1>1, PublishPendingStep
  <1>2. CASE CacheWrite
    BY <1>2, CacheWriteStep
  <1>3. ASSUME NEW c \in Known, EventHappens(c)
        PROVE  IInv' /\ NoRegress /\ KeepsEvents
    BY <1>3, EventHappensStep
  <1>4. ASSUME NEW o \in Calls, SubscriptionOpens(o)
        PROVE  IInv' /\ NoRegress /\ KeepsEvents
    BY <1>4, SubscriptionOpensStep
  <1>5. ASSUME NEW o \in Calls, Host(o)
        PROVE  IInv' /\ NoRegress /\ KeepsEvents
    <2>1. CASE \E c \in Known : \/ StartLoad(o, c) \/ StartCachedLoad(o, c)
                                \/ StartDelete(o, c) \/ ClearCache(o, c)
      BY <2>1, StartLoadStep, StartCachedLoadStep, StartDeleteStep, ClearCacheStep
    <2>2. CASE StartHistory(o) \/ Cancel(o) \/ Dispose(o)
      BY <2>2, StartHistoryStep, CancelStep, DisposeStep
    <2> QED
      BY <1>5, <2>1, <2>2 DEF Host
  <1>6. ASSUME NEW o \in Calls, Continue(o)
        PROVE  IInv' /\ NoRegress /\ KeepsEvents
    <2>1. CASE RestoreReturns(o) \/ AnnouncedReturns(o) \/ DisplayedReturns(o)
      BY <2>1, RestoreReturnsStep, AnnouncedReturnsStep, DisplayedReturnsStep
    <2>2. CASE SubscribeReturns(o) \/ LoadReturns(o) \/ NonliveReturns(o)
      BY <2>2, SubscribeReturnsStep, LoadReturnsStep, NonliveReturnsStep
    <2>3. CASE SubscriptionCloses(o) \/ DiscardingReturns(o) \/ CleaningReturns(o)
      BY <2>3, SubscriptionClosesStep, DiscardingReturnsStep, CleaningReturnsStep
    <2>4. CASE CommittedReturns(o) \/ DrainOne(o) \/ DrainingReturns(o)
      BY <2>4, CommittedReturnsStep, DrainOneStep, DrainingReturnsStep
    <2>5. CASE LoadSettles(o) \/ ReportedReturns(o) \/ ClearingReturns(o)
      BY <2>5, LoadSettlesStep, ReportedReturnsStep, ClearingReturnsStep
    <2>6. CASE Deliver(o) \/ HistoryReturns(o) \/ DeleteReturns(o) \/ DeletedReturns(o)
      BY <2>6, DeliverStep, HistoryReturnsStep, DeleteReturnsStep, DeletedReturnsStep
    <2> QED
      BY <1>6, <2>1, <2>2, <2>3, <2>4, <2>5, <2>6 DEF Continue
  <1> QED
    BY <1>1, <1>2, <1>3, <1>4, <1>5, <1>6 DEF Next

\* A step of anything else leaves all of it as it is.
LEMMA NoStep ==
    ASSUME IInv, UNCHANGED vars
    PROVE  IInv' /\ NoRegress /\ KeepsEvents
  <1>1. /\ Quiet /\ setup' = setup
        /\ UNCHANGED <<snapshot, pendingCommits, pc, local, stack, result, sub, events, delivered,
                       queue, phase, retired, entry>>
        /\ UNCHANGED <<clientVars, cacheVars, storeVars, callVars, gatewayVars>>
    BY DEF vars, Quiet, clientVars, cacheVars, storeVars, callVars, gatewayVars
  <1>2. TypeOK
    BY DEF IInv
  <1>3. TypeOK'
    <2>1. retired' \subseteq Calls
      BY <1>1, <1>2 DEF TypeOK
    <2> QED
      BY <2>1, <1>1, <1>2, TypesKept, TypePartsNext
  <1>4. EventsGrow /\ \A c \in Conversations : entry'[c] = entry[c]
    BY <1>1, <1>2, NumberTypes DEF EventsGrow
  <1> QED
    BY <1>1, <1>3, <1>4, StillStep

\* The invariant holds when nothing has been called yet.
LEMMA InitHolds ==
    ASSUME Init
    PROVE  IInv
  <1>1. /\ setup \in Setups /\ None \notin Calls /\ None \notin Conversations
        /\ Stored \subseteq Conversations /\ MaxEvents \in Nat /\ MaxPages \in Nat
    BY LoadAssumption DEF Init, Stored, MaxEvents, MaxPages
  <1>2. NoLocals \in Locals
    BY <1>1 DEF NoLocals, Locals
  <1>3. /\ \A o \in Calls : /\ pc[o] = "idle" /\ local[o] = NoLocals /\ result[o] = "none"
                            /\ sub[o] = "none" /\ delivered[o] = 0 /\ queue[o] = <<>>
                            /\ phase[o] = "buffering"
        /\ \A c \in Conversations : events[c] = 0 /\ cacheEpoch[c] = 0 /\ entry[c] = None
        /\ stack = <<>> /\ pendingCommits = <<>> /\ snapshot = None /\ retired = {}
        /\ gatewaySubscription = None /\ ~disposed /\ generation = 0 /\ loadRequestId = 0
        /\ cacheRequestId = 0 /\ pendingHandoff = NoHandoff /\ ~cacheReadOnly
        /\ cacheState = [conversation |-> None, status |-> "idle"]
    BY DEF Init
  <1>4. TypeOK
    <2>1. ClientTyped /\ StoreTyped
      <3>1. pendingLoad \in [conversation : Conversations \cup {None}, requestId : Nat]
        BY DEF Init, NoLoad
      <3>2. pendingHandoff \in [call : Calls \cup {None}, conversation : Conversations \cup {None},
                               generation : Nat, baseline : View \cup {None}]
        BY DEF Init, NoHandoff
      <3>3. disposed = FALSE /\ gatewaySubscription = None /\ snapshot = None
            /\ pendingCommits = <<>>
        BY DEF Init
      <3>4. generation \in Nat /\ conversationEpoch \in Nat /\ historyRequestId \in Nat
            /\ loadRequestId \in Nat
        BY DEF Init
      <3>5. disposed \in BOOLEAN /\ snapshot \in View \cup {None}
            /\ gatewaySubscription \in Calls \cup {None}
        BY <3>3
      <3>6. pendingCommits \in Seq(View)
        BY <3>3
      <3> QED
        BY <3>1, <3>2, <3>4, <3>5, <3>6 DEF ClientTyped, StoreTyped
    <2>2. CacheTyped
      <3>1. cacheEpoch \in [Conversations -> Nat] /\ entry \in [Conversations -> View \cup {None}]
        BY DEF Init
      <3>2. cacheState \in [conversation : Conversations \cup {None},
                           status : {"idle", "syncing", "ready", "error"}]
        BY DEF Init
      <3>3. cleared \in BOOLEAN /\ cacheReadOnly \in BOOLEAN
        BY DEF Init
      <3>4. stored \subseteq Conversations /\ cacheRequestId \in Nat
        BY <1>1 DEF Init
      <3> QED
        BY <3>1, <3>2, <3>3, <3>4 DEF CacheTyped
    <2>3. CallsTyped
      BY <1>1, <1>2 DEF Init, CallsTyped, PCs
    <2>4. GatewayTyped
      BY <1>1 DEF Init, GatewayTyped
    <2> QED
      BY <2>1, <2>2, <2>3, <2>4, <1>1, <1>3, TypeParts
  <1>5. StackHolds
    BY <1>3 DEF StackHolds, Stacked, CommitsWait, Elements, Publishing, Showing, StorePublishing
  <1>6. CallsHold
    BY <1>3 DEF CallsHold, CallHolds, Distinct, NoLocals, Waiting, Asking, Ending, Settling
  <1>7. SubsHold
    <2>1. \A o \in Calls : SubHolds(o)
      BY <1>3 DEF SubHolds, NoLocals, Waiting, Asking, Elements
    <2>2. OwnedCommitted /\ OwnedDelivers /\ OwnedMatchesView /\ NoSubscriptionLeak
      BY <1>3 DEF OwnedCommitted, OwnedDelivers, OwnedMatchesView, NoSubscriptionLeak, NoLocals
    <2> QED
      BY <2>1, <2>2 DEF SubsHold
  <1>8. ViewsHold
    BY <1>3 DEF ViewsHold, ShownHolds, WaitingHold, EntriesHold, ContentHolds
  <1>9. LoadsHold
    BY <1>3 DEF LoadsHold, CurrentHolds, Current, TicketHolds, HandoffHolds, Doomed, ReadyShowsLive,
                NoHandoff, NoLocals, Waiting, Asking, Ending, Settling
  <1> QED
    BY <1>3, <1>4, <1>5, <1>6, <1>7, <1>8, <1>9 DEF IInv, NothingLeft, NoCache

\* The inductive invariant is one.
LEMMA Inductive == Spec => []IInv
  <1>1. Init => IInv
    BY InitHolds
  <1>2. IInv /\ [Next]_vars => IInv'
    BY EveryStep, NoStep
  <1> QED
    BY <1>1, <1>2, PTL DEF Spec

\* Every variable keeps its type, in every state the client reaches.
THEOREM TypeCorrect == Spec => []TypeOK
  <1>1. IInv => TypeOK
    BY DEF IInv
  <1> QED
    BY <1>1, Inductive, PTL

\* No interleaving of loads, deletions, cancellations and disposal leaks an
\* observer, and the subscription the client owns serves the view on display.
THEOREM Accounted == Spec => []SubscriptionsAccounted
  <1>1. IInv => SubscriptionsAccounted
    BY DEF IInv, SubsHold, SubscriptionsAccounted
  <1> QED
    BY <1>1, Inductive, PTL

\* A load whose conversation was deleted or cleared, or whose client was disposed,
\* before it committed never commits and never reports success.
THEOREM Retired == Spec => []RetiredNeverCommits
  <1>1. IInv => RetiredNeverCommits
    <2> SUFFICES ASSUME IInv, NEW o \in retired
                 PROVE  pc[o] \notin {"committed", "draining", "cleaning"} /\ result[o] # "ok"
      BY DEF RetiredNeverCommits
    <2>1. o \in Calls /\ Doomed(o)
      BY DEF IInv, TypeOK, LoadsHold
    <2>2. CallHolds(o)
      BY <2>1 DEF IInv, CallsHold, Settling
    <2>3. pc[o] \in Waiting \cup Asking => result[o] = "none"
      BY <2>2 DEF CallHolds, Waiting, Asking, Settling
    <2> QED
      BY <2>1, <2>3 DEF Doomed, Waiting, Asking, Settling
  <1> QED
    BY <1>1, Inductive, PTL

\* Once the buffer of the owned subscription is drained, the view shows every event
\* of the conversation up to the last one handed over.
THEOREM NothingLost == Spec => []NoNotificationLost
  <1>1. IInv => NoNotificationLost
    <2> SUFFICES ASSUME IInv, NEW o \in Calls, gatewaySubscription = o, phase[o] = "active",
                        NEW n \in 1..delivered[o]
                 PROVE  n \in snapshot.events
      BY DEF NoNotificationLost
    <2>1. OwnedDelivers /\ o # None
      BY NoneIsNothing DEF IInv, SubsHold
    <2> QED
      BY <2>1 DEF OwnedDelivers
  <1> QED
    BY <1>1, Inductive, PTL

\* A conversation the cache reports as synchronized is the one on display, and its
\* view is no longer a cached one.
THEOREM ReadyIsLive == Spec => []ReadyShowsLive
  <1>1. IInv => ReadyShowsLive
    BY DEF IInv, LoadsHold
  <1> QED
    BY <1>1, Inductive, PTL

\* The view never goes back to a load started earlier than the one on display, in
\* whatever order the gateway answers.
THEOREM NeverRegresses == Spec => ViewNeverRegresses
  <1>1. IInv /\ [Next]_vars =>
           [\A o, p \in Calls :
               Shows(snapshot, local[p].conversation) /\ snapshot.load = p
               /\ snapshot' # None /\ snapshot'.load = o /\ o # p
               /\ snapshot'.pages # {}
                   => StartOrder(p) < StartOrder(o)]_vars
    BY EveryStep DEF NoRegress, StepRegresses
  <1> QED
    BY <1>1, Inductive, PTL DEF Spec, ViewNeverRegresses

\* A reload of the conversation on display never takes an event away that its old
\* subscription has shown meanwhile.
THEOREM ReloadKeeps == Spec => ReloadKeepsEvents
  <1>1. IInv /\ [Next]_vars =>
           [snapshot # None /\ snapshot' # None /\ ~cacheReadOnly /\ ~cacheReadOnly'
            /\ snapshot.conversation = snapshot'.conversation
                => snapshot.events \subseteq snapshot'.events]_vars
    BY EveryStep DEF KeepsEvents
  <1> QED
    BY <1>1, Inductive, PTL DEF Spec, ReloadKeepsEvents
=============================================================================
