# Verification of tf-chat-kit

TLA+ models of the parts of tf-chat-kit in which several activities compete,
checked with TLC on small instances, and theorems about them checked with the
TLA+ proof system (TLAPS). Paths below are relative to `src/packages/`.

## The system

tf-chat-kit is a TypeScript monorepo: a headless chat runtime, a gateway to a
TFRobot server, an authentication client, and React and Ant Design layers.
Everything runs in one JavaScript thread. What makes it concurrent is that

* public calls are suspended at an `await` and settle in any order,
* a gateway notifies on its own account,
* publishing a snapshot, a cache state or a selection runs **host code** (a
  listener) in the middle of a call, and that host code may call back,
* two tabs may share one storage, connections drop and come back, and the server
  may tell the same thing twice, by different ways and under different names.

### Components

| component | state | operations | talks to | module |
|---|---|---|---|---|
| `ChatClient`, loading (`chat-runtime/src/chat-client.ts`) | generation, epoch, request ids, pending load and handoff, owned subscription, cache ticket and state | `loadConversation` (top level, history, cached), `deleteConversation`, `cancelPendingConversationLoad`, `clearConversationCache`, `dispose`, gateway updates | gateway, snapshot store, cache, listeners | `ConversationLoad` |
| `ChatClient`, sending and drafts | sends in flight, outgoing messages, drafts | `sendText`, `sendMessage`, `sendComposerDraft`, `setComposerDraft`, `dismissOutgoingMessage` | gateway, store | `ChatCommands` |
| `ChatClient`, interactions | answers in flight, superseded answers, retired identities | `answerInteraction`, `interrupt`, the guard on every snapshot | gateway, store | `ChatCommands` |
| Notification queue (`gateway-notification-queue.ts`) | phase, buffer, generation | `enqueue`, `activate` | gateway, client | `GatewayNotificationQueue` |
| Snapshot store (`snapshot-store.ts`) | state, commits waiting, registrations | `commit`, `clear`, `close`, `subscribe`, `subscribeState` | listeners, which call back | `SnapshotStore` |
| Timeline (`timeline.ts`) | none: items and their index are values | upsert, history merge, rebase, retention of provisional items | client, cache | `Timeline`, `MessageDelivery` |
| Message identities (`chat-gateway-tfrobot/src/message-identity.ts`) | aliases by database id and by server identity, recent signatures, confirmed authors, read revision | `map`, `beginHistoryRead` | gateway | `MessageIdentities`, `MessageDelivery` |
| Conversation cache (`conversation-cache.ts`) | memory, pending saves, epochs, disk revision, write queue | `put`, `peek`, `restore`, `clear`, `close`, batches, eviction, expiry | host storage shared with other tabs | `ConversationCache` |
| Conversation workspace (`conversation-workspace.ts`) | list, selection, revisions, mutations in flight | `start`, `refresh`, `loadMore`, `create`, `rename`, `delete`, `select` | client | `ConversationWorkspace` |
| Remote tool client (`remote-tool-client.ts`) and transport (`chat-gateway-tfrobot/src/remote-tool.ts`) | status, running calls, seen identities; socket, generation, readiness, deadline | `start`, `cancel`, `retry`, `dispose`, invocations, connection events | server, session provider, tools, listeners | `RemoteTool` |
| Ask-user tool (`ask-user-remote-tool.ts`) | cards and their answers | `execute`, `setDraft`, `answer`, `dispose` | remote tool client | `AskUserRemoteTool` |
| Gateway sockets (`socket.ts`, `socket-transport.ts`) | subscriptions, leases, joins, recovery, remembered runs | `subscribe`, socket events, reconnection, recovery, disposal | server | `GatewaySocket`, `SubscriptionLifecycle` |
| Auth client (`chat-auth/src/headless.ts`, `tfrobot.ts`) | session, generation, renewal in flight, storage queue | `login`, `selectAccount`, `switchAccount`, `restore`, `refresh`, `logout`, session provider with retry | server, host storage | `AuthClient` |
| Manager client (`chat-auth/src/manager.ts`) | directory, connections, exchanged sessions | `loadPage`, `connect`, session provider, `invalidate`, `dispose` | auth client, server | `ManagerClient` |
| HTTP, DTO mapping, diagnostics, React, Ant Design, chat-kit, protocol, testing | component state, schemas, test doubles | rendering, conversion, composition | runtime | not modelled, see the end |

### What is hard, and what makes each part correct

* **Loading.** A load has five suspension points and six ways to fail. At each
  the client may have been disposed, the conversation switched, reloaded,
  deleted, cleared. The newest load wins; every subscription obtained is owned or
  disposed; view, generation and subscription belong together; no event is lost
  between snapshot and subscription; a reload takes nothing away; every call
  settles.
* **Delivery.** Queue and store keep the order, exactly once, also when a listener
  re-enters. One message arrives live, live again with its database row, in
  history, in a recovery, in a reload and from the cache, in any order, with and
  without identities: it is one item, and keeps the newest confirmed author.
* **Commands.** One request per message; a late receipt belongs to the view it was
  made in; a draft is cleared only if it is still the one sent; what was answered
  is not asked again.
* **Cache.** A clear is final, in this tab or another; no save is forgotten.
* **Workspace.** Late pages neither resurrect deleted conversations nor undo
  renames; the selection follows the last choice of the user.
* **Remote tools.** Executed and answered at most once, in time, over the
  registration the invocation came from; a call always ends; a card says what the
  server was told.
* **Auth.** Logout is final; the stored session is the held one; whoever asked
  under one account is not answered for another, here or by the manager.
* **Socket.** Operable only after what was missed has been recovered; connections
  and leases keep books of each other.

`PROJECT.json` lists every component, and under `hazards` the lines of the code
where these can go wrong, with the properties that cover each.

## Layout

A module per component holds its variables, one action per operation, its
properties, and the operators marked *Faulty* that the mutants use. Its theorems
are in a module of the same name with `_proofs`, which extends it; those of the
notification queue and of the snapshot store are together in `Notification_proofs`,
those of the tool that asks the user and of the workspace in `Session_proofs`.
`MC*` modules choose small instances. Components that share no state are checked in one run:
the variable `part` says which of them moves in a behaviour, the others stay in an
initial state, so the states of a run are the sum and not the product of its parts.

Many models have a *setup*: a record, chosen initially and never changed, of the
operations the host uses and the faults that may happen. A setup leaves out the
combinations that only multiply states, and the reader finds in it what a run
covers. Variables marked *history* are read by no action of the program.

| run | modules | properties | shows |
|---|---|---|---|
| `delivery` | `GatewayNotificationQueue`, `SnapshotStore`, `Timeline`, `MessageIdentities`, `MessageDelivery` | `FifoExactlyOnce`, `PublishedInOrder`, `ListenersCaughtUp`, `OneItemPerMessage`, `NothingThrows`, `NothingDropped`, `AuthorNeverReverts`, `DeliveryEnds` | order, exactly once, identity and author of what is delivered; liveness |
| `load_races` | `ConversationLoad` | `SubscriptionsAccounted`, `RetiredNeverCommits`, `NoNotificationLost`, `ReadyShowsLive`, `ViewNeverRegresses`, `ReloadKeepsEvents` | competing loads, reloads, pages, restorations |
| `load_storage` | `ConversationLoad` | `CommittedLoadSucceeds`, `CallsSettle` | every call settles, with the load and synchronization it announced |
| `load_history_gap` | `ConversationLoad` | `HistoryContiguous` is violated | finding 1 |
| `load_listener` | `ConversationLoad` | `NewerLoadStands` is violated | finding 5 |
| `remote_tool` | `RemoteTool` | `AtMostOnce`, `ConnectionInOrder`, `ShownAgrees`, `NoneForgotten`, `LateIsIgnored`, `CallsSettle` | repeated invocations, reconnects, timeouts, re-entering listeners, the limits; liveness |
| `remote_tool_start` | `RemoteTool` | `ConnectingCanConnect` is violated | finding 2 |
| `session` | `ChatCommands`, `AskUserRemoteTool`, `ConversationWorkspace` | `NoStuckSending`, `CommandsBelongToView`, `NeverShownTwice`, `OneRequestPerMessage`, `AnsweredNotAskedAgain`, `DraftNotLost`, `CardsTellTheTruth`, `ListAgrees`, `SelectionHolds` | commands, questions and the list of conversations |
| `host` | `AuthClient`, `ManagerClient`, `ConversationCache` | `CredentialsAgree`, `AnsweredForSameIdentity`, `HeldForIdentity`, `ExchangedForIdentity`, `ClearedStaysCleared`, `NoSaveForgotten` | sessions, exchanged sessions, and cached conversations |
| `cache_clear_batch` | `ConversationCache` | `ClearIsFinal` is violated | finding 3 |
| `gateway_socket` | `GatewaySocket`, `SubscriptionLifecycle` | `LeasesAccounted`, `RecoveredIsCurrent`, `FollowsLifecycle` | leases, recovery, and the refinement |
| `socket_stale_run` | `GatewaySocket` | `ReconciledRunIsCurrent` is violated | finding 4 |

Some properties join related ones, each defined and explained beside it:
`SubscriptionsAccounted` (no subscription leaks; the owned one serves the view),
`CallsSettle` of `ConversationLoad` (calls and pending loads end; `SyncingEnds`:
announced synchronizations do), `ConnectionInOrder` (what waits can be answered, an
attempt is bounded, what is disposed stays so), `LateIsIgnored` (late results; late
rejections of sessions), `CardsTellTheTruth` (what waits is shown; a card agrees
with the answer), `ListAgrees` (mutations hold; a ready list is complete),
`SelectionHolds` (the selected conversation is displayed; the user's choice wins),
`CredentialsAgree` (session and account shown; store; what was given up),
`ClearedStaysCleared` (what a tab put and cleared since is not in its memory,
outside the case of finding 3; nothing cleared before is written to the disk),
`OneItemPerMessage`, `DeliveryEnds`.

Deadlock is not checked: hosts stop when their calls are used up, servers owe
nothing, and a disposed client is at its end. Where something must happen,
a liveness property says so.

Every property of every passing run has a mutant in `PROJECT.json`: a definition
changed the way a plausible mistake in that code would change it, under which TLC
finds the property violated.

## The modules

### `GatewayNotificationQueue`

`phase`, `pending` and `generation` are the closure variables of
`createGatewayNotificationQueue`; `index` is the loop variable of `activate`.
`Enqueue` is the observer, `Activate`/`DrainOne`/`FinishDraining` are `activate`
with one step per turn of its loop: a dispatch publishes, a publication runs host
code, and that may cause another notification. Bounds: 8 notifications, 2
generations, enough for arrivals before, during and after the drain in every
proportion. Fairness: the loop is synchronous code (`WF(DrainOne \/
FinishDraining)`). That a drain ends depends on the bound on arrivals: a
dispatcher that caused a notification on every dispatch would loop in the code too.

### `SnapshotStore`

`state`, `pendingCommits`, `notifying`, `closed`, `listenerSequence` are the
fields; `registered`, `sequence` and `lastSnapshot` the registrations of both
kinds. `stack` holds the frames that have not returned: a publication, or the call
a new subscriber gets at once. Host code runs when the stack is empty or inside
the listener the top frame is calling (`HostRuns`), and may commit, clear, close,
subscribe or unsubscribe. `log` and `published` are history. Bounds: 3 listeners,
one of which hears of `null`, 3 commits or clears. Fairness: listeners return
(`WF(Run)`); host code that never returns blocks the thread.

The call `subscribe` makes at once is outside the publication protocol: a listener
that commits there is called again before that call has returned.

### `Timeline`, `MessageIdentities`, `MessageDelivery`

`Timeline` has the operations of `timeline.ts` as operators on values: items with
their three keys, the index with its overlay (`advanceIndex` leaves old keys in
it), `Create`, `Upsert`, `MergeTimeline`, `RebaseTimeline`, `WithProvisional`, and
the merge with the cache. An item that the code would throw for carries `clash`.
`MessageIdentities` is what a gateway remembers of the user's messages: `map` with
its three ways (server identity, row of the database, signature), confirmed
authors, the revision of history reads. `MessageDelivery` puts them together: one
message after another is delivered live to the subscription on display or to the
one a reload has opened, in pages of history, in what a recovery reads, in a
reload, and from the cache after the page is opened again; a read answers with
what the server had at some moment since it was asked. The server is external: it
writes messages to its database (`Persist`), renames the author (`Rename`), and
may begin to tell identities of its own (`Tell`).

The setups of `TimelineSetups` vary whether the server tells identities never,
always or from some time on, whether messages say the same, which reads happen and
whether the page is opened again; with 1 or 2 messages, 2 live deliveries, 2 reads,
2 names. Two deliveries and two reads are the least with which a stale one comes
after a fresh one, in each way; two messages that say the same make a match
ambiguous. `MaxOverlay` 4 makes the index be rebuilt; the window of recent
signatures (4) is not exceeded, so forgetting a signature is not covered.

`OneItemPerMessage` says by whom a message can be known: when identities are told
from some time on, a projection without any identity may stand beside its message,
and two projections with one identity each may coexist until a delivery links
them. `NothingDropped` and `AuthorNeverReverts` are about every step. Seen while
modelling, and allowed by the properties:
a live repetition without any identity takes the row away from an item, until the
next read; an anonymous event handed over to a reload can create such a projection
again beside its message; a reload without a cache drops the rows older than its
page; after a restart a late delivery without an id is a new item.

### `ConversationLoad`

Each public call is an element of `Calls` with a program counter: `pc[o]` names
the `await` or the synchronous publication at which it stands, `local[o]` its
local variables. `stack` holds the calls that are inside a publication: while it is
not empty no promise settles and no notification arrives, but the host, a listener,
may start further calls. It runs in the listeners of the snapshot ("displayed",
"committed", "draining"), of the cache state ("announced", and "reported": a load
says that it failed before it clears what the server has lost) and of the composer
draft ("clearing" and "deleted": `clearConversationCache` and `deleteConversation`
discard the draft half-way). Where nothing follows a publication in its turn (the
status "ready", the last one of a clear, an emptied store) the host simply goes
next. Host code that `cache.onEvent` or a diagnostics observer runs is not modelled, and
the notification of a restored draft is taken together with that of its cached
view. Fields keep their names; `pendingLoad` joins
`#pendingLoadConversationId` and `#pendingLoadRequestId`. A snapshot is its
conversation, the set of live events, the set of history pages, the cursor and the
load it came from; `Rebase` and `MergeHistory` are `rebaseSnapshotState` and the
history merges on these sets. `EventHappens`, `SubscriptionOpens` and
`SubscriptionCloses` are external. The gateway answers a load with a snapshot as of
any moment since it was asked, with or without live updates, or refuses it.

`load_races` has three setups: `Races` (3 calls among load, delete, dispose; 2
conversations; 1 event each), `Reload` (load, history, cancel; 2 events, 2 pages),
`Cached` (load, history, clear over a memory cache; 2 pages). `load_storage`: 2
calls among all of them over a cache with one stored record. Three calls are the
least with which one replaces a view while a third interferes; two suffice where a
stored record already puts a view on display. `load_listener`: 2 loads, 2
conversations, no storage.

Fairness: `WF(Continue(o))` for every call and `WF(PublishPending)`. Synchronous
code goes on by itself; a promise of the gateway settles because every request
carries a deadline the gateway contract requires it to honour. Events, calls and
the opening of a subscription are not fair. `SyncingEnds` says that a
synchronization which was announced ends well or badly, as long as there is a load
that could report it. There is none when the host has superseded every load
(`cancelPendingConversationLoad` and `clearConversationCache` leave `"syncing"`
published, and nothing says what it should become), and when a load superseded one
that was started after it. `NewerLoadStands` says that the latter never happens, and
the code violates it (finding 5).

Seen while proving: a listener of a cached view may load another conversation and
then clear the first. The view of the second waits in the store, the emptied view of
the first behind it, so a view the user has left is published over the one he asked
for, empty, until the load of the second commits. It takes more calls than the runs
have. `ViewNeverRegresses` therefore excepts views that are emptied.

### `ChatCommands`

A command waits for the gateway while the view is reloaded, replaced, deleted or
disposed and updates arrive. A send publishes its outgoing message before it is
requested; in that publication a listener runs and may give commands, so `latest`
runs ahead of `shown`. A snapshot is its conversation, the pending question, the
active run, the received and the failed commands. Setups: `Sending`, `Composing`
(drafts edited while sent), `Answering` (questions replaced, withdrawn, repeated),
`Interrupting`. Bounds: 2 commands, 2 conversations, 3 epochs, generations; 2
revisions of a draft, 2 questions and room for 2 retired identities: the limit of
256 is never reached.

Seen while modelling: `sendText` keeps no table of sends in flight, so repeated
texts are repeated; a listener that sends the same message inside the publication
of the first bypasses the tables. Seen while proving: there the first then takes
the place of the second in the table, so when the first ends, the request of the
second is in no table and a third send of the message is requested beside it. With
2 commands this does not happen. `OneRequestPerMessage` therefore excepts every
pair with a send made inside such a publication (`within`, history), and only those.

### `AskUserRemoteTool`

Cards, and of the remote tool client what a call sees. The handler returns to the
client in a later microtask, in which listeners may still abort the call. 3 calls
on 2 cards.

### `ConversationWorkspace`

The controller above the part of `ChatClient` it calls. A revision is modelled by
the call that drew the current one. The server answers some time after the request
and the answer is applied some time after that. 3 calls, 2 conversations, pages of
one. Seen while modelling, and excepted in the properties: a load that has
committed and waits for the cleanup of the old subscription returns its own
snapshot, so a rename in between is undone in the list; a creation answered late
re-inserts a conversation deleted or renamed since (`OlderAnswer`); a mutation
during the first refresh makes the list "ready" without that page (`paged`);
deleting the displayed conversation also drops a pending selection. The controller
allows one mutation of a conversation at a time; two renames in flight at the client,
which a host may cause without it, are not modelled.

### `RemoteTool`

The executor of tools the server calls (`RemoteToolClient`) on top of the
transport that owns the socket (`TFRobotRemoteToolTransport`). They are one module
because they call each other synchronously, and listeners in between may call
back. `agenda` is what is left to do in the current turn of the event loop, the
innermost call first (`Publish` is `#update`, `Finish` the `finish` of a call,
`Observe` the transport's report, `Connect`, `Register`, `Emit` what follows).
`Begin` starts a turn or, from a listener (`Host`), a nested call; `Go` replaces the
innermost call by what it calls. While `agenda` is not empty no promise, timer or
socket event gets its turn. `socket` stands for Socket.IO; `auths`, `acks` and
`invalidations` hold the generations of pending promises and callbacks. Time is
whether the deadline of a call has passed (`due`), which happens before its timer
fires. `executions`, `answers` and `reported` are history.

Bounds: `remote_tool` has three instances, chosen initially, of which the larger in
invocations has the fewer generations of the connection. One invocation, 4
generations (a registration, its loss, a retry, a second registration); 2 that may
be executed together, 3 generations (a registration lost and made again); 3, of
which 1 is executed at a time and 2 are remembered, so that both limits are
reached, 2 generations. Invocations are named in the order of their arrival, which
says nothing of the program. The factory of an injected socket and its reconnection
may throw. Fairness: a turn ends (`WF(Turn)`), a listener returns after finitely
many calls (`SF(HostReturns)`), time passes and timers fire. Network, session
provider and tools owe nothing: `CallsSettle` holds because of the client's timer.

### `ConversationCache`

Tabs over one storage: memory, `pending`, batches as operations of a write queue,
saves that commit only against the epoch and revision the tab knows, clears,
restores, eviction, expiry, failures before and after a transaction is applied.
Setups: `Switching` (one tab, more conversations than it may keep, time),
`Unreliable` (storage fails), `Sharing` (two tabs). 2 puts, 1 clear.

Seen while modelling: what is put after `clear()` but before the queued batch is
erased by the clear's transaction; a restore that settles after a put replaces the
newer entry in memory; a tab whose scope another tab cleared conflicts until it
clears itself; a failed save gives up the rest of its batch; revisions may repeat
after trimming. Overflow and corrupt records are not modelled. Seen while proving:
what *another* tab put may come back after a clear, without finding 3: a tab that
had not read the scope yet saves its old entry at the epoch after the clear, and
the tab that cleared, whose own newer save lifted the mark of the clear, restores
it. The memory part of `ClearedStaysCleared` therefore speaks of a tab's own puts.

### `AuthClient` and `ManagerClient`

`AuthClient`: calls that wait for the transport, for the queue of storage
operations, for another call's renewal, or for the operation they retry; a session
is its token, numbered in the order of issue. Setups: `SignsIn`, `Selects`,
`Switches`, `Reopens` (the page is opened again), `Expiring`, `Requesting`,
`Failing` (the store rejects). 3 calls, 2 accounts, up to 3 tokens.
`ManagerClient` sees of it what `AuthClient` shows: the identity, its changes,
a session of the identity that asked or a rejection. This assumption is what
`AnsweredForSameIdentity` guarantees. 3 calls, 2 identities, 2 changes.

Seen while modelling: a 401 with an old token after another renewal triggers a
second renewal; a failing clear in `begin` is swallowed, so a later `restore()` can
bring the credential back; `restore()` during a renewal loses the renewed
credential; `onSessionInvalid` has no generation guard. `listAccounts`, temporary
tokens and listeners that call back are left out. So are those of the `ManagerClient`:
its change of scope is one step, while `#changeScope` (manager.ts:467) publishes once
in between, inside `cancel()`, an idle directory that has the new revision and still
the items of the former identity; `HeldForIdentity` speaks of the state when the
change is over. That concurrent callers share one renewal is how `AskRenewal` is
written, and no property restates it.

### `GatewaySocket` and `SubscriptionLifecycle`

Subscriptions obtain a session, lease a connection, join, are established by the
acknowledgement, and after a loss join again and recover: by the server's replay
and a read of the run (profile verified) or a rebase of items and run (profile
current-server). The server is one version per fact, and per connection the rooms
and an ordered stream that is lost with it. Setups: `Alone` with each profile and
fact (3 faults), `Reload` (two subscriptions to one conversation), `Switch` (two
conversations while another user signs in), `Discarding`. 2 connections.

`SubscriptionLifecycle` is what consumers rely on: a subscription is operable only
after an accepted join, after a loss only when it joined again and recovered;
terminal for good. `FollowsLifecycle` is
`INSTANCE SubscriptionLifecycle WITH life <- ...`: the detailed module implements
it under the mapping from its fields to the abstract stages.

Seen while modelling: on a switch of identity a closed subscription may still show
an operable status; when a session is rejected the first of two subscriptions
becomes auth-required and the other stays "reconnecting"; the hand-made reconnect is
not allowed again after an initial establishment; a failed rebase leaves
"recovering" until the next reconnect. A reconciliation that fails (socket.ts, the
`.catch` that goes offline) is not modelled, nor are error reports.

## Findings

1. `load_history_gap` (`chat-runtime/src/snapshot-state.ts:194`). Page 1 is shown;
   page 2 is loaded; a reload starts; page 3 is requested and settles first. The
   rebase drops page 2 (in the baseline, not in the loaded snapshot), keeps page 3
   and the cursor behind it: page 2 can never be requested. Line 105 says this
   happens "without discarding newer subscription or history changes".
2. `remote_tool_start` (`chat-runtime/src/remote-tool-client.ts:103`). When
   `transport.start` throws, `start` publishes `"error"` and then disposes the
   transport; a listener that retries in that notification has its new connection
   closed, and the client shows "connecting" for ever.
   `tests/remote-tool.integration.test.ts:153` asks for the opposite.
3. `cache_clear_batch` (`chat-runtime/src/conversation-cache.ts:386`). A save that
   waits in a running batch is not reached by `clear(id)`, takes the epoch after it,
   and brings the cleared conversation back. `docs/adr/011-conversation-cache.md:40`
   says that epochs and revisions prevent this.
4. `socket_stale_run` (`chat-gateway-tfrobot/src/gateway.ts:426`). Every snapshot
   mapped, also one the consumer discards, sets the run the socket client remembers,
   so a reconnect finds it unchanged and tells nothing.
   `tests/chat-gateway-tfrobot.test.ts:5121` expects the run to be reconciled.
5. `load_listener` (`chat-runtime/src/chat-client.ts:1248`). A cached load that the
   server refuses for good publishes `"error"` (1238) and then clears the
   conversation, which cancels the pending load (669). A cache listener that loads
   the conversation again in that notification announces `"syncing"`, its load is
   cancelled by the older one, and `"syncing"` stays for ever. A newer selection of
   another conversation that is still reading its record is cancelled as well.
   `tests/chat-conversation-cache.test.ts:1068` is named "does not let a cache
   listener's newer selection be superseded by the outer load" (and tries it in
   the notification of `"syncing"` only).

## What is proved

Proof modules extend the module they are about; each theorem holds for every
value of the constants, from the module's `ASSUME` alone.

* `Notification_proofs`, on the queue: `QueueTypeCorrect`, `FifoDelivery`
  (`[]FifoExactlyOnce`), `SingleGeneration` (`[]OneGeneration`). `FifoExactlyOnce`
  is inductive only together with the phases: nothing is dispatched while
  buffering, and nothing waits once active. `OneGeneration` needs that nothing was
  dispatched before the activation set the generation.
  On the store: `TypeCorrect`, `PublicationInOrder`
  (`[]PublishedInOrder`), `StablePublication` (`[]StableWhilePublishing`),
  `EverybodyCaughtUp` (`[]ListenersCaughtUp`). The
  inductive invariant adds `OnePublication` (at most one frame publishes, and
  `notifying` says whether there is one) and `NothingWaits` (commits wait only while
  there is one). Without them a commit made in a subscription call could be
  published inside another publication. `ListenersCaughtUp` speaks of the moments
  when the host is in control; in between, `BehindAreReached` says which frame has
  a listener that is behind still before it, and `FirstHeard` that a listener that
  has heard of nothing is inside its first call.
* `RemoteTool_proofs`: `TypeCorrect`, `ExecutedAndAnsweredOnce` (`[]AtMostOnce`),
  both from `Invariance` (`[]IInv`). `AtMostOnce` alone is not inductive. That a
  newly accepted invocation has no history needs `HistoryRemembered`: whatever was
  invoked is in `seen`, or the client is disposed, or its disposal is still on the
  agenda. That needs `AgendaSafe` (only a disposed client forgets; only invoked
  requests are finished or answered) and `WaitingInvoked`. `CountsAgree` ties the
  counts to the stage of the handler and the `sent` flag of `respond`. Two lemmas
  about the agenda, `BeginKeeps` and `GoKeeps`, reduce each action to the frames it
  leaves.
  In the second part of the module, on the connection: `OrderHolds` (`[]Order`), from it
  `InOrder` (`[]ConnectionInOrder`), `ShownIsTrue` (`[]ShownAgrees`), `AllAnswered`
  (`[]NoneForgotten`) and the action property `LateCountsForNothing`
  (`LateIsIgnored`). The properties speak of the end of a turn, when no call is on
  the stack. `Order` holds in the middle of it too: for each promise that is not
  kept at the moment it says what the agenda still has to do (`DisposalGoesOn`,
  `StatusAgrees`), which frames may be below which (`TurnInOrder`), that attempts
  are bounded by deadlines (`Bounded`), and which calls are registered where
  (`LinkInOrder`, `CallsInOrder`).
* `ChatCommands_proofs`: `TypeCorrect`, `SendingEnds` (`[]NoStuckSending`),
  `BelongsToView` (`[]CommandsBelongToView`), `ShownOnce` (`[]NeverShownTwice`),
  `RequestedOnce` (`[]OneRequestPerMessage`), `NotAskedAgain`
  (`[]AnsweredNotAskedAgain`), and the action property `DraftKept` (`DraftNotLost`).
  What makes them hold is that a call can tell whether its view is gone:
  `CallsOfView` says that a call waiting under the generation it began with finds
  its conversation on display, and that a read-only view has had no calls;
  `SameView` that what is shown lags behind what is committed only inside a
  publication. `TableHolds` says what is in the table of sends, `AnswersRetired`
  that the question of an answer on its way is on display or retired. The last
  needs counting: the identities retired are distinct, so they are no more than the
  questions (`InjectiveIsShort`), and the limit forgets none.
* `Session_proofs`, on the tool that asks the user: `AskTypesHold`,
  `CardsAreTruthful` (`[]CardsTellTheTruth`). The
  invariant adds where the answer of a call is: with the card until it is resolved
  (`ShownOnceResolved`), then on its way to the client (`AnswerOnItsWay`), then
  returned (`AnswerReturned`).
  On the workspace: `WorkspaceTypesHold`, `SelectionIsTheUsers`
  (`[]SelectionHolds`) and `ListAlwaysAgrees` (`[]ListAgrees`), for any number of
  calls in flight, conversations and pages. For the selection, the load that is
  pending in the client is that of the call that owns the selection
  (`LoadIsOwners`), what that call has committed stays on display until it settles
  (`CommittedIsDisplayed`), and who may still select has seen the user's last choice
  (`UnswayedSaw`). For the mutations, everything that was read and not applied yet is
  as recent as what has settled: the page of the current request (`PageIsRecent`),
  the conversation just created (`CreatedIsNew`), what a load committed
  (`LoadedIsRecent`), the view, and what the pending load will commit under the
  title it was told meanwhile (`ViewIsRecent`, `LoadIsRecent`); this takes that of
  the mutations of a conversation at most one is under way (`MutationsAlone`), and
  that a page goes stale when a mutation settles. For completeness, each
  conversation is listed, behind the cursor, or being created (`Reached`), and stays
  so when the page arrives of which the list waits (`PageReaches`). A controller
  that is disposed of keeps `MutationsHold` because it changes nothing any more.
* `ManagerClient_proofs`: `TypeCorrect`, `HeldForTheIdentity`
  (`[]HeldForIdentity`), and the action property `ExchangedForTheIdentity`
  (`ExchangedForIdentity`). The invariant ties every robot listed, connection,
  provider and errand to the scope and generation it was made under
  (`ListedInScope`, `Connected`, `ProvidersCurrent`, `FlightsCurrent`,
  `SessionOfProvider`). Steps are composed of several calls of the code, so it is
  stated of a record, `World`, and each call shown to keep it.
* `AuthClient_proofs`: `AuthTypesHold`, `CredentialsHold` (`[]CredentialsAgree`) and
  the action property `AnswersHold` (`AnsweredForSameIdentity`), for any number of
  calls, accounts and tokens. At most one of the calls under way still
  acts (`Acts`, `Alone`): each sign-in draws its own generation (`OneSignIn`), and a
  renewal is the one the client shows (`ShownFor`). The transport commits only for
  its own sign-in (`InTransport`); what a call has obtained is of the account it
  wants and not yet given up (`Obtained`), and stored once it is persisted
  (`IsStored`). `QueueHolds` says that each waiting call has one operation in the
  queue of the store and that nothing is cleared behind the call that acts, so that
  what is held and what is stored agree when the queue is empty (`StoreAgrees`).
* `ConversationCache_proofs`: `SavesAreNotForgotten` (`[]NoSaveForgotten`) and
  `ClearsStay` (`[]ClearedStaysCleared`), for any number of tabs, conversations,
  puts and clears and any failures of the storage. `QueueInv` says that at most one
  batch waits or runs, and that it runs with something to save. `FreshInv` follows a
  tab's own puts through memory, the batch, the copy of the scope, the scope read
  and the scope on the disk: a version that was cleared is nowhere the tab could
  take it from, unless the tab has the conversation marked as cleared (`Guarded`).
  `WritesInv` says that a tab whose save could still commit has, of what was cleared
  on the disk, nothing left to save; the others conflict (`Outdated`).
* `ConversationLoad_proofs`: `TypeCorrect`, `Accounted`
  (`[]SubscriptionsAccounted`), `Retired` (`[]RetiredNeverCommits`), `NothingLost`
  (`[]NoNotificationLost`), `ReadyIsLive` (`[]ReadyShowsLive`), and the action
  properties `NeverRegresses` (`ViewNeverRegresses`) and `ReloadKeeps`
  (`ReloadKeepsEvents`), for any number of calls and any nesting of listeners. No
  two loads have the same number (`Distinct`), and numbers only grow, so at most one
  load is current, and one that was overtaken stays so. `CurrentHolds` says that the
  current load is the newest (a deletion may have overtaken its ticket and not yet
  the load itself), and that the pending load, the handoff and the announced cache
  state are its own; `TicketHolds` the same of the load with the last ticket, which
  has not asked the server yet or has committed; `Doomed` why a retired load cannot end well.
  `SubHolds` and `OwnedDelivers` say that what a subscription was handed is shown, or
  will be in the snapshot, or is in its queue; `HandoffServes` that a reload will show
  what was shown when it began. `WaitingHold` orders the views that wait in the store
  by the loads they are of, and `CommitsWait` says that only cached views wait there.
  Each action has a lemma that it preserves all of this, replaces no view by an
  older one and takes no event away (`EveryStep`).

The constants are assumed to be what they are in the code: limits are natural
numbers; `undefined` (`None`) is not an identity, a text or a snapshot; a host and
a server have finitely many questions (`SetupsAssumption`); `Nobody` is neither a
call nor an account (`AuthAssumption`); `Nil` is not a call, a conversation, a title,
a cursor, a view or an answer of the workspace (`WorkspaceAssumption`). The bounds of the model
checker (`MaxEpoch`, `MaxGeneration`, `MaxRevision`, ...) are guards of the model
and no theorem uses them, except that `MaxTokens` bounds the tokens in the types of
`AuthClient`.

Four things came out of the proofs: the restatements of `OneRequestPerMessage`, of
`ViewNeverRegresses` and of `ClearedStaysCleared` described above, and that a send given up after its
publication leaves the table together with the one whose place it took.

Only model-checked: `MessageDelivery` and
`GatewaySocket`, the refinement `FollowsLifecycle`, the
properties the code violates (see the findings), and liveness, which is out of the
prover's reach. `GatewaySocket`
and `MessageDelivery` are built of folds (an event is handed to the leases of a
connection one after another, a page of messages merged item by item), and what a
fold does to every sequence takes an induction over data that the installed provers
cannot instantiate. The type invariants of the modules without proofs are stated
and not run.

## Not modelled

Rendering (React bindings, Ant Design, the shells of chat-kit), schemas and the
mapping of DTOs, the HTTP client, diagnostics (a bounded list only the host reads),
the reference gateway for tests, build and release scripts. They are conversions
and compositions without a protocol of their own, and they are most of the source:
mapping and schemas alone are several thousand lines, scripts and UI more. The
share of lines the map covers is therefore well below what the modelled share of
the protocol state is, and could only grow by transcribing conversions.

Left out of what is modelled: error reports and diagnostics everywhere; events of
the timeline that are not messages, the identities of messages that are not the
user's, review marks; `clearCache` for all conversations and `restoreAttachments`;
attachments as such; the order a host imposes on the list of conversations;
`rebaseSnapshotState` beyond its sets; a composer send whose key is that of a
message in flight by `sendMessage`, which takes over that request's result (the
setups use one way of sending or the other). `ConversationLoad` and `ChatCommands` split
one class by its state; a send that is in flight and a load that rebases the
timeline meet only in `ChatCommands`, where a reload is one step.
