----------------------------- MODULE AuthClient -----------------------------
(***************************************************************************)
(* The headless AuthClient (chat-auth/src/headless.ts) over the TFRobot    *)
(* transport (chat-auth/src/tfrobot.ts), given the `refresh` that a host   *)
(* may add to it, and over a credential store of the host.                 *)
(*                                                                         *)
(* A call is an element of AuthCalls that waits for the transport, for the *)
(* queue of storage operations, for the renewal of another call, or for    *)
(* the operation it retries.  A session is abstracted to its token, tokens *)
(* are numbered in the order of their issue, and the server tells the      *)
(* account of each truthfully.  A credential scope and a stored record are *)
(* abstracted to the account they name.  A promise that rejects after it   *)
(* cleared storage rejects at once here, listeners do not call back, and   *)
(* the list of accounts and the user are left out.                         *)
(***************************************************************************)
EXTENDS Integers, Sequences

CONSTANTS
    AuthCalls,      \* the calls of a host, each given once
    Accounts,
    Scoped,         \* the account of credentialScope
    Nobody,         \* `undefined`
    MaxTokens,      \* bound on the sessions a server issues
    AuthSetups      \* the hosts considered, each a record of:
                    \*   ops         the calls the host makes, and "restart"
                    \*   store       whether it gave a credentialStore
                    \*   storeFails  whether operations of the store may reject
                    \*   signedIn    whether its first login is over
                    \*   tokens      how many sessions the server issues

\* `undefined` is neither a call nor an account, a server issues finitely many
\* sessions, and one that is signed in has been issued.
ASSUME AuthAssumption ==
    /\ Nobody \notin AuthCalls \cup Accounts
    /\ Scoped \in Accounts
    /\ MaxTokens \in Nat \ {0}
    /\ \A s \in AuthSetups :
         s.store \in BOOLEAN /\ s.signedIn \in BOOLEAN /\ s.tokens \in 0..MaxTokens

VARIABLES
    authSetup,      \* the chosen element of AuthSetups
    \* fields of AuthClientImpl
    auth,           \* #generation, #session, #refreshPromise, #snapshot, #disposed
    storage,        \* the operations that wait on #storageTail
    \* the transport: its generation and currentSession
    transport,
    \* the calls
    request,
    \* the host's store, the server and the clock
    store,          \* the token of the stored record, or 0
    issued,         \* how many tokens were issued
    accountOf,      \* whose a token is
    expiring,       \* the tokens that are about to expire: needsRefresh
    \* history
    revoked,        \* the tokens given up by a login, a logout, a failure or a disposal
    unreliable      \* an operation of the store has failed

clientState == <<authSetup, auth, storage, transport>>
serverState == <<issued, accountOf, expiring>>
authVars == <<clientState, request, store, serverState, revoked, unreliable>>

Tokens == 1..MaxTokens

hasStore == authSetup.store

NewClient == [generation |-> 0, session |-> 0, refreshing |-> Nobody,
              status |-> "signed_out", account |-> Nobody, disposed |-> FALSE]

\* generation: the one the call goes on under; renewing: that of its renewal;
\* sent: that of the transport; token: the session it obtained; account: the one
\* it asks for or expects; goal: what it wants a renewal for; joined: whose.
NoRequest == [op |-> "none", phase |-> "idle", generation |-> 0, renewing |-> 0,
              sent |-> 0, token |-> 0, account |-> Nobody, goal |-> "none",
              joined |-> Nobody]

AuthTypeOK ==
    /\ unreliable \in BOOLEAN
    /\ auth \in [generation : Nat, session : 0..issued, refreshing : AuthCalls \cup {Nobody},
                 status : {"signed_out", "authenticating", "switching", "refreshing",
                           "account_selection_required", "onboarding_required",
                           "authenticated", "auth_required", "error", "disposed"},
                 account : Accounts \cup {Nobody}, disposed : BOOLEAN]
    /\ transport \in [generation : Nat, session : 0..issued]
    /\ store \in 0..issued /\ issued \in 0..MaxTokens
    /\ accountOf \in [Tokens -> Accounts]
    /\ expiring \subseteq 1..issued /\ revoked \subseteq 1..issued
    /\ \A o \in AuthCalls : request[o].token \in 0..issued

\* Host storage may hold a credential of an earlier life of the client.
AuthInit ==
    /\ authSetup \in AuthSetups
    /\ storage = <<>>
    /\ request = [o \in AuthCalls |-> NoRequest]
    /\ accountOf = [t \in Tokens |-> Scoped]
    /\ expiring = {} /\ revoked = {} /\ unreliable = FALSE
    /\ IF authSetup.signedIn
       THEN /\ auth = [NewClient EXCEPT !.generation = 1, !.session = 1,
                                        !.status = "authenticated", !.account = Scoped]
            /\ transport = [generation |-> 2, session |-> 1]
            /\ issued = 1
       ELSE /\ auth = NewClient
            /\ transport = [generation |-> 0, session |-> 0]
            /\ issued \in 0..1
    /\ store = IF hasStore THEN issued ELSE 0

-----------------------------------------------------------------------------
(* The client's helpers.                                                   *)

\* isCurrent(generation).
IsCurrent(g) == ~auth.disposed /\ auth.generation = g

NeedsRefresh(t) == t \in expiring

\* A storage operation is queued behind the others; `who` waits for it.
Queued(op, who, t, g) == [op |-> op, call |-> who, token |-> t, generation |-> g]

Enqueued(entry) == IF hasStore THEN Append(storage, entry) ELSE storage

\* Every session so far is given up, except one that a client without a store
\* leaves in its transport for a switch, and may restore from there.
GivenUp == revoked' = 1..issued \ (IF hasStore THEN {} ELSE {transport'.session})

\* begin(status) where the stored credential is not preserved.
Begun(status) ==
    [auth EXCEPT !.generation = @ + 1, !.session = 0, !.refreshing = Nobody,
                 !.status = status]

\* Faulty: the stored credential stays.
RevokeInMemory(status) ==
    /\ auth' = [Begun(status) EXCEPT !.account = Nobody]
    /\ transport' = [generation |-> transport.generation + 1, session |-> 0]
    /\ GivenUp
    /\ UNCHANGED storage

\* revoke(status): the session is given up in memory, in the transport and, when
\* the queue gets to it, in the store.
Revoke(status) ==
    /\ auth' = [Begun(status) EXCEPT !.account = Nobody]
    /\ transport' = [generation |-> transport.generation + 1, session |-> 0]
    /\ storage' = Enqueued(Queued("clear", Nobody, 0, 0))
    /\ GivenUp

\* What a promise of a call that is over rejects or resolves to.
Done(o, outcome) == request' = [request EXCEPT ![o].phase = outcome]

\* Every call that awaits the renewal of p goes on, and p with them.
Renewed(p, outcome) ==
    [q \in AuthCalls |->
        IF q = p \/ (request[q].phase = "joining" /\ request[q].joined = p)
        THEN [request[q] EXCEPT !.phase = outcome] ELSE request[q]]

\* The renewal is over: `.finally`.
Settled(p) == IF auth.refreshing = p THEN Nobody ELSE auth.refreshing

\* An error of call o is caught: the client that still awaits its answer is
\* signed out.
AuthFails(o) ==
    LET r == request[o]
        renews == r.op \in {"refresh", "session", "retry"}
        mine == IsCurrent(IF renews THEN r.renewing ELSE r.generation)
    IN  /\ request' = IF renews THEN Renewed(o, "unrenewed")
                      ELSE [request EXCEPT ![o].phase = "failed"]
        /\ \/ /\ mine
              /\ Revoke(IF renews \/ r.op = "restore" THEN "auth_required" ELSE "error")
           \/ /\ ~mine
              /\ auth' = [auth EXCEPT !.refreshing = Settled(o)]
              /\ UNCHANGED <<storage, transport, revoked>>

\* The snapshot of an identity that was verified.
Authenticated(client, a) ==
    [client EXCEPT !.status = "authenticated", !.account = a]

\* What is queued for persist(account, generation): a write, or the clearing of
\* the scope when the account is another one.
Persistence(o, t, a, g) ==
    IF a = Scoped THEN Queued("write", o, t, g) ELSE Queued("drop", o, t, g)

\* Session t of account a is installed and stored; without a store the call goes
\* straight on to `persisted`.
Install(o, t, a, g) ==
    /\ auth' = [auth EXCEPT !.session = t]
    /\ storage' = Enqueued(Persistence(o, t, a, g))
    /\ request' = [request EXCEPT ![o].token = t, ![o].account = a,
                                  ![o].phase = IF hasStore THEN "persisting" ELSE "persisted"]
    /\ UNCHANGED revoked

-----------------------------------------------------------------------------
(* Signing in: login, selectAccount, switchAccount.                        *)

Starts(o, op) == op \in authSetup.ops /\ request[o].op = "none" /\ ~auth.disposed

\* The operation draws a generation and asks the transport, which draws one of
\* its own; a login gives the transport's session up as well.
SignIn(o, op, a) ==
    /\ Starts(o, op) /\ op \in {"login", "select", "switch"}
    /\ a # Nobody <=> op # "login"
    /\ auth' = Begun(IF op = "switch" THEN "switching" ELSE "authenticating")
    /\ transport' = [generation |-> transport.generation + 2,
                     session |-> IF op = "login" THEN 0 ELSE transport.session]
    /\ storage' = Enqueued(Queued("clear", Nobody, 0, 0))
    /\ request' = [request EXCEPT ![o] =
                      [NoRequest EXCEPT !.op = op, !.phase = "requested", !.account = a,
                                        !.generation = auth.generation + 1,
                                        !.sent = transport.generation + 2]]
    /\ UNCHANGED <<authSetup, store, serverState, unreliable>>
    /\ GivenUp

\* The transport has heard of nothing newer.
Commits(o) == request[o].sent = transport.generation

\* The server issues a session for account a.
Issues(a) ==
    /\ issued < authSetup.tokens
    /\ issued' = issued + 1
    /\ accountOf' = [accountOf EXCEPT ![issued + 1] = a]
    /\ UNCHANGED expiring

\* A login or a selection came to an end in the transport, which holds session t
\* of account a, if any: applyLoginResult.
Applied(o, t, a) ==
    /\ transport' = IF Commits(o) THEN [transport EXCEPT !.session = t] ELSE transport
    /\ \/ /\ ~IsCurrent(request[o].generation)
          /\ Done(o, "ok")
          /\ UNCHANGED <<auth, storage, revoked>>
       \/ /\ IsCurrent(request[o].generation)
          /\ Install(o, transport'.session, a, request[o].generation)

\* The transport reports that no chat session comes of the login yet.
LoginEndsEarly(o, status) ==
    /\ request[o].op = "login" /\ request[o].phase = "requested"
    /\ transport' = IF Commits(o) THEN [transport EXCEPT !.session = 0] ELSE transport
    /\ auth' = IF IsCurrent(request[o].generation)
               THEN [auth EXCEPT !.status = status, !.account = Nobody] ELSE auth
    /\ Done(o, "ok")
    /\ UNCHANGED <<authSetup, storage, store, serverState, revoked, unreliable>>

LoginAnswered(o, a) ==
    /\ request[o].op = "login" /\ request[o].phase = "requested"
    /\ Issues(a)
    /\ Applied(o, issued + 1, a)
    /\ UNCHANGED <<authSetup, store, unreliable>>

\* The session obtained for the account asked for is verified before it is
\* committed, unless the request is superseded already.
SelectionAnswered(o) ==
    /\ request[o].op \in {"select", "switch"} /\ request[o].phase = "requested"
    /\ Issues(request[o].account)
    /\ \/ /\ Commits(o)
          /\ request' = [request EXCEPT ![o].phase = "confirming", ![o].token = issued + 1]
          /\ UNCHANGED <<auth, transport, storage, revoked>>
       \/ /\ ~Commits(o)
          /\ Applied(o, issued + 1, request[o].account)
    /\ UNCHANGED <<authSetup, store, unreliable>>

SelectionConfirmed(o) ==
    /\ request[o].phase = "confirming"
    /\ Applied(o, request[o].token, request[o].account)
    /\ UNCHANGED <<authSetup, store, serverState, unreliable>>

-----------------------------------------------------------------------------
(* Restoring.                                                              *)

\* restore(), up to its first await; the stored credential is preserved.
Restore(o) ==
    /\ Starts(o, "restore")
    /\ auth' = Begun("authenticating")
    /\ transport' = [transport EXCEPT !.generation = @ + 1]
    /\ storage' = Enqueued(Queued("read", o, 0, 0))
    /\ request' = [request EXCEPT ![o] =
                      [NoRequest EXCEPT !.op = "restore",
                                        !.phase = IF hasStore THEN "reading" ELSE "checking",
                                        !.generation = auth.generation + 1,
                                        !.token = IF hasStore THEN 0 ELSE transport.session]]
    /\ UNCHANGED <<authSetup, store, serverState, revoked, unreliable>>

\* The record was read: it is installed in the transport and its account is
\* asked for, or the session is renewed first.
RecordRead(o) ==
    LET t == request[o].token
    IN  /\ request[o].phase = "read" /\ IsCurrent(request[o].generation)
        /\ \/ /\ t = 0
              /\ transport' = [generation |-> transport.generation + 1, session |-> 0]
              /\ auth' = [auth EXCEPT !.status = "signed_out", !.account = Nobody]
              /\ Done(o, "ok")
           \/ /\ t # 0
              /\ transport' = [generation |-> transport.generation + 1, session |-> t]
              /\ request' = [request EXCEPT
                                ![o].phase = IF NeedsRefresh(t) THEN "renewing" ELSE "checking",
                                ![o].account = Scoped,
                                ![o].renewing = auth.generation]
              /\ UNCHANGED auth
        /\ UNCHANGED <<authSetup, storage, store, serverState, revoked, unreliable>>

\* Nobody waits for the restoration any more.
RestoreSuperseded(o) ==
    /\ request[o].op = "restore" /\ request[o].phase \in {"read", "checking"}
    /\ ~IsCurrent(request[o].generation)
    /\ Done(o, "ok")
    /\ UNCHANGED <<clientState, store, serverState, revoked, unreliable>>

\* The server told the account of the transport's session; without a store the
\* session is taken from the transport and renewed if it must be.
AccountChecked(o) ==
    LET r == request[o]
        a == accountOf[r.token]
        t == IF hasStore THEN r.token ELSE transport.session
    IN  /\ r.phase = "checking" /\ IsCurrent(r.generation)
        /\ r.token # 0 /\ (hasStore => a = Scoped)
        /\ \/ /\ ~hasStore /\ NeedsRefresh(t)
              /\ request' = [request EXCEPT ![o].phase = "renewing", ![o].account = a,
                                            ![o].renewing = auth.generation]
              /\ UNCHANGED <<auth, storage, revoked>>
           \/ /\ hasStore \/ ~NeedsRefresh(t)
              /\ Install(o, t, a, r.generation)
        /\ UNCHANGED <<authSetup, transport, store, serverState, unreliable>>

\* A step of a sign-in or of a restoration fails: the transport rejects, the
\* store does, or the server tells of another account.
SignInFails(o) ==
    LET r == request[o]
    IN  /\ r.op \in {"login", "select", "switch", "restore"}
        /\ \/ r.phase \in {"requested", "confirming", "unread"}
           \/ r.phase = "checking" /\ IsCurrent(r.generation)
        /\ AuthFails(o)
        /\ UNCHANGED <<authSetup, store, serverState, unreliable>>

\* The session is stored, or the store refused it.
SignInPersisted(o) ==
    LET r == request[o]
        expired == r.op = "restore" /\ NeedsRefresh(r.token)
    IN  /\ r.op \in {"login", "select", "switch", "restore"}
        /\ \/ /\ r.phase = "unpersisted" \/ (r.phase = "persisted" /\ expired)
              /\ r.phase = "persisted" => IsCurrent(r.generation)
              /\ AuthFails(o)
           \/ /\ r.phase = "persisted" /\ (IsCurrent(r.generation) => ~expired)
              /\ auth' = IF IsCurrent(r.generation) THEN Authenticated(auth, r.account) ELSE auth
              /\ Done(o, "ok")
              /\ UNCHANGED <<transport, storage, revoked>>
        /\ UNCHANGED <<authSetup, store, serverState, unreliable>>

-----------------------------------------------------------------------------
(* Renewing a session: refresh and renewSession.                           *)

\* refresh() for what call o wants it for: o joins the renewal that goes on, or
\* starts one, or is refused.
AskRenewal(o, r, goal) ==
    \/ /\ auth.refreshing # Nobody
       /\ request' = [request EXCEPT ![o] =
                         [r EXCEPT !.phase = "joining", !.goal = goal,
                                   !.joined = auth.refreshing]]
       /\ UNCHANGED auth
    \/ /\ auth.refreshing = Nobody
       /\ auth.session # 0 /\ auth.status = "authenticated"
       /\ request' = [request EXCEPT ![o] =
                         [r EXCEPT !.phase = "renewing", !.goal = goal,
                                   !.account = auth.account, !.renewing = auth.generation]]
       /\ auth' = [auth EXCEPT !.refreshing = o, !.status = "refreshing"]
    \/ /\ auth.refreshing = Nobody
       /\ ~(auth.session # 0 /\ auth.status = "authenticated")
       /\ request' = [request EXCEPT ![o] = [r EXCEPT !.phase = "failed"]]
       /\ UNCHANGED auth

Refresh(o) ==
    /\ Starts(o, "refresh")
    /\ AskRenewal(o, [NoRequest EXCEPT !.op = "refresh"], "return")
    /\ UNCHANGED <<authSetup, storage, transport, store, serverState, revoked, unreliable>>

\* assertCurrent(generation) in renewSession.
GoesOn(o) == IsCurrent(request[o].renewing)

\* The transport renewed the session; the new one goes to the transport so that
\* the server can be asked whose it is.
RenewalAnswered(o, a) ==
    /\ request[o].phase = "renewing"
    /\ Issues(a)
    /\ \/ /\ GoesOn(o)
          /\ transport' = [generation |-> transport.generation + 1, session |-> issued + 1]
          /\ request' = [request EXCEPT ![o].phase = "verifying", ![o].token = issued + 1]
          /\ UNCHANGED <<auth, storage, revoked>>
       \/ /\ ~GoesOn(o)
          /\ AuthFails(o)
    /\ UNCHANGED <<authSetup, store, unreliable>>

\* Faulty: the renewed session is taken for one of the same account.
AnyAccount(o) == TRUE

\* accountMatches(account, expected).
SameAccount(o) == accountOf[request[o].token] = request[o].account

\* The server told the account of the renewed session, which is the expected one.
RenewalVerified(o) ==
    LET r == request[o]
    IN  /\ r.phase = "verifying" /\ GoesOn(o)
        /\ SameAccount(o) /\ ~NeedsRefresh(r.token)
        /\ Install(o, r.token, r.account, r.renewing)
        /\ UNCHANGED <<authSetup, transport, store, serverState, unreliable>>

\* The transport rejects, another identity answers, or nobody waits any more.
RenewalFails(o) ==
    /\ request[o].phase \in {"renewing", "verifying"}
    /\ AuthFails(o)
    /\ UNCHANGED <<authSetup, store, serverState, unreliable>>

Renews(o) == request[o].op \in {"refresh", "session", "retry"}

RenewalPersisted(o) ==
    LET r == request[o]
        valid == GoesOn(o) /\ r.phase = "persisted" /\ ~NeedsRefresh(r.token)
    IN  /\ Renews(o) /\ r.phase \in {"persisted", "unpersisted"}
        /\ \/ /\ valid
              /\ auth' = [Authenticated(auth, r.account) EXCEPT !.refreshing = Settled(o)]
              /\ request' = Renewed(o, "renewed")
              /\ UNCHANGED <<transport, storage, revoked>>
           \/ /\ ~valid
              /\ AuthFails(o)
        /\ UNCHANGED <<authSetup, store, serverState, unreliable>>

-----------------------------------------------------------------------------
(* The session provider.                                                   *)

\* Faulty: a session is handed over to whoever asks.
BelongsToAnyone(o) == ~auth.disposed

\* assertCurrent(generation) in getSession and withAuthRetry.
Belongs(o) == IsCurrent(request[o].generation)

\* getSession() ends: the session is handed over, and a retried operation is
\* called with it.
HandOver(o, r) ==
    LET usable == IsCurrent(r.generation) /\ auth.session # 0 /\ auth.status = "authenticated"
    IN  /\ request' = [request EXCEPT ![o] =
                          [r EXCEPT !.token = auth.session,
                                    !.phase = CASE ~usable -> "failed"
                                                [] usable /\ r.op = "session" -> "ok"
                                                [] usable /\ r.op = "retry" -> "operating"]]
        /\ auth' = IF IsCurrent(r.generation) /\ ~usable /\ auth.status = "signed_out"
                   THEN [auth EXCEPT !.status = "auth_required"] ELSE auth

\* getSession() when no renewal is going on: a session that is about to expire is
\* renewed before it is handed over.
Provide(o, r) ==
    IF auth.session # 0 /\ auth.status = "authenticated" /\ NeedsRefresh(auth.session)
    THEN AskRenewal(o, r, "handover")
    ELSE HandOver(o, r)

\* getSession() and withAuthRetry(), up to their first await.
GetSession(o, op) ==
    LET r == [NoRequest EXCEPT !.op = op, !.generation = auth.generation]
    IN  /\ Starts(o, op) /\ op \in {"session", "retry"}
        /\ IF auth.refreshing # Nobody THEN AskRenewal(o, r, "provide") ELSE Provide(o, r)
        /\ UNCHANGED <<authSetup, storage, transport, store, serverState, revoked, unreliable>>

\* The renewal a call waited for is over.
RenewalResumes(o) ==
    LET r == request[o]
    IN  /\ \/ /\ r.phase = "unrenewed"
              /\ Done(o, "failed")
              /\ UNCHANGED auth
           \/ /\ r.phase = "renewed" /\ r.goal = "return"
              /\ Done(o, "ok")
              /\ UNCHANGED auth
           \/ /\ r.phase = "renewed" /\ r.goal = "provide"
              /\ Provide(o, r)
           \/ /\ r.phase = "renewed" /\ r.goal = "handover"
              /\ HandOver(o, r)
           \/ /\ r.phase = "renewed" /\ r.goal = "again"
              /\ request' = [request EXCEPT
                                ![o].phase = IF Belongs(o) THEN "repeating" ELSE "failed",
                                ![o].token = auth.session]
              /\ UNCHANGED auth
        /\ UNCHANGED <<authSetup, storage, transport, store, serverState, revoked, unreliable>>

\* The operation resolves, or rejects for another reason than its session.
Operated(o, outcome) ==
    /\ request[o].phase \in {"operating", "repeating"}
    /\ Done(o, IF Belongs(o) THEN outcome ELSE "failed")
    /\ UNCHANGED <<clientState, store, serverState, revoked, unreliable>>

\* The server answers 401: the operation is repeated once with a renewed session.
Unauthorized(o) ==
    /\ request[o].phase = "operating"
    /\ \/ /\ Belongs(o)
          /\ AskRenewal(o, request[o], "again")
       \/ /\ ~Belongs(o)
          /\ Done(o, "failed")
          /\ UNCHANGED auth
    /\ UNCHANGED <<authSetup, storage, transport, store, serverState, revoked, unreliable>>

\* The second 401 signs the client out.
UnauthorizedAgain(o) ==
    /\ request[o].phase = "repeating"
    /\ Done(o, "failed")
    /\ \/ /\ Belongs(o)
          /\ Revoke("auth_required")
       \/ /\ ~Belongs(o)
          /\ UNCHANGED <<auth, storage, transport, revoked>>
    /\ UNCHANGED <<authSetup, store, serverState, unreliable>>

-----------------------------------------------------------------------------
(* Giving up.                                                              *)

\* logout(), whose transport gives its session up first, and invalidate().
SignOut(o, op) ==
    /\ Starts(o, op) /\ op \in {"logout", "invalidate"}
    /\ auth' = [Begun(IF op = "logout" THEN "signed_out" ELSE "auth_required")
                   EXCEPT !.account = Nobody]
    /\ transport' = [generation |-> transport.generation + IF op = "logout" THEN 2 ELSE 1,
                     session |-> 0]
    /\ storage' = Enqueued(Queued("clear", IF op = "logout" THEN o ELSE Nobody, 0, 0))
    /\ request' = [request EXCEPT ![o] =
                      [NoRequest EXCEPT !.op = op, !.generation = auth.generation + 1,
                                        !.phase = IF op = "logout" /\ hasStore
                                                  THEN "clearing" ELSE "ok"]]
    /\ UNCHANGED <<authSetup, store, serverState, unreliable>>
    /\ GivenUp

\* The stored credential could not be cleared.
LogoutFails(o) ==
    /\ request[o].phase = "uncleared"
    /\ AuthFails(o)
    /\ UNCHANGED <<authSetup, store, serverState, unreliable>>

DisposeAuth(o) ==
    /\ Starts(o, "dispose")
    /\ auth' = [Begun("disposed") EXCEPT !.account = Nobody, !.disposed = TRUE]
    /\ transport' = [generation |-> transport.generation + 1, session |-> 0]
    /\ storage' = Enqueued(Queued("clear", Nobody, 0, 0))
    /\ request' = [request EXCEPT ![o] = [NoRequest EXCEPT !.op = "dispose", !.phase = "ok"]]
    /\ UNCHANGED <<authSetup, store, serverState, unreliable>>
    /\ GivenUp

-----------------------------------------------------------------------------
(* Storage, the server, and the host's crashes.                            *)

\* isCurrent(generation), read when the operation gets its turn.
Writes(entry) == IsCurrent(entry.generation)

Stored(entry) ==
    CASE entry.op = "clear" -> 0
      [] entry.op = "drop" /\ Writes(entry) -> 0
      [] entry.op = "write" /\ Writes(entry) -> entry.token
      [] OTHER -> store

Awaiting(phase) == CASE phase = "reading" -> "read" [] phase = "persisting" -> "persisted"
                    [] phase = "clearing" -> "ok"

Refused(phase) == CASE phase = "reading" -> "unread" [] phase = "persisting" -> "unpersisted"
                    [] phase = "clearing" -> "uncleared"

\* The first operation of the queue is executed and settles.
StorageRuns ==
    LET entry == Head(storage)
        o == entry.call
    IN  /\ storage # <<>>
        /\ storage' = Tail(storage)
        /\ store' = Stored(entry)
        /\ request' = IF o = Nobody THEN request
                      ELSE [request EXCEPT
                               ![o].phase = Awaiting(@),
                               ![o].token = IF entry.op = "read" THEN store ELSE @]
        /\ UNCHANGED <<authSetup, auth, transport, serverState, revoked, unreliable>>

\* It rejects, and has changed nothing.
StorageFails ==
    LET entry == Head(storage)
        o == entry.call
    IN  /\ authSetup.storeFails /\ storage # <<>>
        /\ entry.op \in {"write", "drop"} => IsCurrent(entry.generation)
        /\ storage' = Tail(storage)
        /\ request' = IF o = Nobody THEN request
                      ELSE [request EXCEPT ![o].phase = Refused(@)]
        /\ unreliable' = TRUE
        /\ UNCHANGED <<authSetup, auth, transport, store, serverState, revoked>>

\* Time passes.
Expires(t) ==
    /\ t \in {auth.session, store} \cup {request[o].token : o \in AuthCalls}
    /\ t \in 1..issued \ expiring
    /\ expiring' = expiring \cup {t}
    /\ UNCHANGED <<clientState, request, store, issued, accountOf, revoked, unreliable>>

\* The page is closed and a new client is made for the same store.  What was to
\* be cleared and was not yet stays in the store.
Restarts ==
    /\ "restart" \in authSetup.ops /\ ~auth.disposed
    /\ \E o \in AuthCalls : request[o].op # "none"
    /\ auth' = NewClient
    /\ transport' = [generation |-> 0, session |-> 0]
    /\ revoked' = IF \E i \in 1..Len(storage) : storage[i].op = "clear"
                  THEN revoked \ {store} ELSE revoked
    /\ storage' = <<>>
    /\ request' = [o \in AuthCalls |->
                      IF request[o].op = "none" THEN NoRequest
                      ELSE [NoRequest EXCEPT !.op = "gone", !.phase = "failed"]]
    /\ UNCHANGED <<authSetup, store, serverState, unreliable>>

\* What the transport, the store and promises do with call o.
AuthAnswers(o) ==
    \/ \E a \in Accounts : LoginAnswered(o, a) \/ RenewalAnswered(o, a)
    \/ \E status \in {"account_selection_required", "onboarding_required"} :
          LoginEndsEarly(o, status)
    \/ SelectionAnswered(o) \/ SelectionConfirmed(o)
    \/ RecordRead(o) \/ RestoreSuperseded(o) \/ AccountChecked(o)
    \/ SignInFails(o) \/ SignInPersisted(o)
    \/ RenewalVerified(o) \/ RenewalFails(o) \/ RenewalPersisted(o) \/ RenewalResumes(o)
    \/ Operated(o, "ok") \/ Operated(o, "failed")
    \/ Unauthorized(o) \/ UnauthorizedAgain(o) \/ LogoutFails(o)

AuthHost(o) ==
    \/ SignIn(o, "login", Nobody)
    \/ \E a \in Accounts : SignIn(o, "select", a) \/ SignIn(o, "switch", a)
    \/ Restore(o) \/ Refresh(o)
    \/ GetSession(o, "session") \/ GetSession(o, "retry")
    \/ SignOut(o, "logout") \/ SignOut(o, "invalidate")
    \/ DisposeAuth(o)

AuthNext ==
    \/ \E o \in AuthCalls : AuthAnswers(o) \/ AuthHost(o)
    \/ StorageRuns \/ StorageFails
    \/ \E t \in Tokens : Expires(t)
    \/ Restarts

AuthSpec == AuthInit /\ [][AuthNext]_authVars

-----------------------------------------------------------------------------
(* Properties.                                                             *)

\* A client that says it is signed in holds a session of the account it shows,
\* in whatever order logins, switches, restorations and renewals are answered,
\* also when the server renews the session of another account.
SignedInAsShown ==
    auth.status \in {"authenticated", "refreshing"} =>
        /\ auth.session # 0
        /\ accountOf[auth.session] = auth.account

\* What was given up does not come back: no session from before a login, a
\* logout, a failure or a disposal is installed again, and none of them stays in
\* the host's store once the queue is empty (revoke, persist).  A store that
\* fails, or a crash before it is cleared, may keep it.
RevokedStaysOut ==
    /\ ~unreliable => auth.session = 0 \/ auth.session \notin revoked
    /\ ~unreliable /\ storage = <<>> => store \notin revoked

\* The client and the host's store agree once the queue is empty: what is
\* stored is the session of the scoped account.
StoredIsCurrent ==
    hasStore /\ ~unreliable /\ storage = <<>> /\ auth.status = "authenticated" =>
        store = IF auth.account = Scoped THEN auth.session ELSE 0

\* The session the client holds is that of the account it shows, the store
\* holds what the client holds, and neither what was given up.
CredentialsAgree == SignedInAsShown /\ RevokedStaysOut /\ StoredIsCurrent

\* Whoever asked for a session, or had an operation performed, while one account
\* was signed in is not answered for another one (assertCurrent).
AnsweredForSameIdentity ==
    [][\A o \in AuthCalls :
          /\ request[o].op \in {"session", "retry"}
          /\ request[o].phase # "ok" /\ request'[o].phase = "ok"
          => /\ auth'.generation = request'[o].generation
             /\ accountOf[request'[o].token] = auth'.account]_authVars

=============================================================================
