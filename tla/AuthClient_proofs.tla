------------------------- MODULE AuthClient_proofs -------------------------
(***************************************************************************)
(* Proofs about AuthClient.  A promise is answered long after the client   *)
(* may have gone on to another identity, and what is installed is stored   *)
(* only when the queue of storage operations gets to it.  The inductive    *)
(* invariant says which of the calls under way, at most one, may still     *)
(* change what the client shows, what that call has obtained so far, and   *)
(* what is queued before it and never behind it.                           *)
(***************************************************************************)
EXTENDS AuthClient, SequenceTheorems, TLAPS

-----------------------------------------------------------------------------
(* Types.                                                                   *)

SigningIn == {"login", "select", "switch", "restore"}
Renewing == {"refresh", "session", "retry"}

Statuses == {"signed_out", "authenticating", "switching", "refreshing",
             "account_selection_required", "onboarding_required",
             "authenticated", "auth_required", "error", "disposed"}

\* The client, a call and a storage operation when n tokens were issued.
Client(n) == [generation : Nat, session : 0..n, refreshing : AuthCalls \cup {Nobody},
              status : Statuses, account : Accounts \cup {Nobody}, disposed : BOOLEAN]

Request(n) ==
    [op : SigningIn \cup Renewing \cup {"none", "logout", "invalidate", "dispose", "gone"},
     phase : {"idle", "requested", "confirming", "reading", "read", "unread", "checking",
              "renewing", "verifying", "persisting", "persisted", "unpersisted",
              "joining", "renewed", "unrenewed", "operating", "repeating",
              "clearing", "uncleared", "ok", "failed"},
     generation : Nat, renewing : Nat, sent : Nat, token : 0..n,
     account : Accounts \cup {Nobody},
     goal : {"none", "return", "provide", "handover", "again"},
     joined : AuthCalls \cup {Nobody}]

StorageOp(n) == [op : {"clear", "drop", "write", "read"}, call : AuthCalls \cup {Nobody},
                 token : 0..n, generation : Nat]

ClientTyped ==
    /\ authSetup \in AuthSetups
    /\ auth \in Client(issued)
    /\ transport \in [generation : Nat, session : 0..issued]

ServerTyped ==
    /\ issued \in 0..MaxTokens
    /\ accountOf \in [Tokens -> Accounts]
    /\ expiring \subseteq 1..issued

StoreTyped ==
    /\ store \in 0..issued
    /\ storage \in Seq(StorageOp(issued))
    /\ revoked \subseteq 1..issued
    /\ unreliable \in BOOLEAN

CallsTyped == request \in [AuthCalls -> Request(issued)]

AuthTyped == ClientTyped /\ ServerTyped /\ StoreTyped /\ CallsTyped

-----------------------------------------------------------------------------
(* The calls.                                                               *)

\* Which calls are in which phases, and want a renewal for what.
Consistent(o) ==
    LET r == request[o] IN
    /\ r.phase = "requested" => r.op \in {"login", "select", "switch"}
    /\ r.phase = "confirming" => r.op \in {"select", "switch"}
    /\ r.phase \in {"reading", "read", "unread", "checking"} => r.op = "restore"
    /\ r.phase \in {"renewing", "verifying"} => r.op \in Renewing \cup {"restore"}
    /\ r.phase \in {"persisting", "persisted", "unpersisted"} => r.op \in Renewing \cup SigningIn
    /\ r.phase \in {"clearing", "uncleared"} => r.op = "logout"
    /\ r.phase \in {"joining", "renewed", "unrenewed"} => r.op \in Renewing
    /\ r.phase \in {"operating", "repeating"} => r.op = "retry"
    /\ r.op \in {"select", "switch"} => r.account # Nobody
    /\ r.goal = "return" => r.op = "refresh"
    /\ r.goal \in {"provide", "handover"} => r.op \in {"session", "retry"}
    /\ r.goal = "again" => r.op = "retry"
    /\ r.op = "restore" /\ r.phase \in {"renewing", "verifying"} => r.renewing = r.generation

\* It began before now.
Begins(o) ==
    /\ request[o].generation <= auth.generation
    /\ request[o].renewing <= auth.generation

\* The call is about to obtain a session.
Obtaining == {"requested", "confirming", "reading", "read", "unread", "checking",
              "renewing", "verifying", "persisting", "persisted", "unpersisted"}

\* The generation under which it does.
Under(o) == IF request[o].op \in Renewing THEN request[o].renewing ELSE request[o].generation

\* It is the one whose session will be shown.
Acts(o) == request[o].phase \in Obtaining /\ IsCurrent(Under(o))

\* What the client shows while it acts.
ShownFor(o) ==
    IF request[o].op \in Renewing
    THEN auth.status = "refreshing" /\ auth.refreshing = o /\ request[o].account = auth.account
    ELSE auth.status \in {"authenticating", "switching"}

\* The transport commits the sign-ins of the call that acts, and no other; a
\* client without a store restores the session its transport holds.
InTransport(o) ==
    /\ request[o].phase \in {"requested", "confirming"} =>
         /\ request[o].sent <= transport.generation
         /\ Commits(o) <=> IsCurrent(request[o].generation)
    /\ Acts(o) /\ request[o].phase = "checking" /\ ~hasStore =>
         transport.session = request[o].token

\* The session it has obtained is of the account it wants, and not given up.
Obtained(o) ==
    LET r == request[o] IN
    /\ r.phase = "confirming" => r.token # 0 /\ accountOf[r.token] = r.account
    /\ r.phase = "verifying" => r.token # 0
    /\ Acts(o) =>
         /\ r.phase \in {"persisting", "persisted"} =>
              auth.session = r.token /\ r.token # 0 /\ accountOf[r.token] = r.account
         /\ ~unreliable /\ r.phase \in {"confirming", "read", "checking", "verifying",
                                        "persisting", "persisted"} => r.token \notin revoked

\* What must be in the store while session t of account a is the client's.
Kept(t, a) == IF a = Scoped THEN t ELSE 0

NoClear == \A i \in DOMAIN storage : storage[i].op # "clear"

\* What it has stored.
IsStored(o) ==
    Acts(o) /\ request[o].phase = "persisted" /\ hasStore =>
        NoClear /\ (~unreliable => store = Kept(request[o].token, request[o].account))

\* An operation is performed for who is signed in.
Operates(o) ==
    LET r == request[o] IN
    IsCurrent(r.generation) =>
        /\ r.phase \in {"operating", "repeating"} \/ (r.goal = "again" /\ r.phase # "failed") =>
              auth.status \in {"authenticated", "refreshing"}
        /\ r.phase \in {"operating", "repeating"} =>
              r.token # 0 /\ accountOf[r.token] = auth.account

CallHolds(o) ==
    /\ Consistent(o) /\ Begins(o)
    /\ Acts(o) => ShownFor(o)
    /\ InTransport(o) /\ Obtained(o) /\ IsStored(o) /\ Operates(o)

CallsHold == \A o \in AuthCalls : CallHolds(o)

\* Each sign-in has a generation of its own.
OneSignIn ==
    \A o, p \in AuthCalls :
        /\ request[o].op \in SigningIn /\ request[p].op \in SigningIn
        /\ request[o].generation = request[p].generation
        => o = p

-----------------------------------------------------------------------------
(* The queue of storage operations.                                         *)

\* The phases in which a call waits for its storage operation.
Waiting == {"reading", "persisting", "clearing"}

\* Operation e is that of the call that waits for it.
IsOf(e) ==
    LET r == request[e.call] IN
    /\ e.op \in {"write", "drop"} =>
         /\ e.call \in AuthCalls /\ r.phase = "persisting"
         /\ r.token = e.token /\ Under(e.call) = e.generation
         /\ e.op = "write" <=> r.account = Scoped
    /\ e.op = "read" => e.call \in AuthCalls /\ r.phase = "reading"
    /\ e.op = "clear" => e.call = Nobody \/ r.phase = "clearing"

\* Each call waits for one; nothing is cleared behind the call that acts.
QueueHolds ==
    /\ \A i \in DOMAIN storage : IsOf(storage[i])
    /\ \A i, j \in DOMAIN storage :
          storage[i].call = storage[j].call /\ storage[i].call # Nobody => i = j
    /\ \A i, j \in DOMAIN storage :
          storage[i].call # Nobody /\ Acts(storage[i].call) /\ storage[j].op = "clear" => j < i

-----------------------------------------------------------------------------
(* The client, the transport and the store.                                 *)

\* What the client holds was not given up.  What the store holds was not either,
\* or is about to be cleared; while somebody is signed in it is theirs.
StoreAgrees ==
    /\ ~unreliable => auth.session \notin revoked
    /\ ~unreliable /\ store \in revoked => ~NoClear
    /\ hasStore /\ auth.status = "authenticated" =>
          NoClear /\ (~unreliable => store = Kept(auth.session, auth.account))

\* Without a store the transport keeps what may be restored.
Storeless ==
    ~hasStore =>
        storage = <<>> /\ store = 0 /\ ~unreliable /\ transport.session \notin revoked

ClientHolds == SignedInAsShown /\ StoreAgrees /\ Storeless

AuthInv == AuthTyped /\ CallsHold /\ OneSignIn /\ QueueHolds /\ ClientHolds

-----------------------------------------------------------------------------
(* The types of the fields.                                                 *)

\* The fields of a call.
LEMMA OfCall ==
    ASSUME AuthTyped, NEW o \in AuthCalls
    PROVE  /\ request[o] \in Request(issued)
           /\ request[o].generation \in Nat /\ request[o].renewing \in Nat
           /\ request[o].sent \in Nat /\ request[o].token \in 0..issued
           /\ request[o].account \in Accounts \cup {Nobody}
           /\ request[o].joined \in AuthCalls \cup {Nobody}
           /\ Under(o) \in Nat
<1>1. request[o] \in Request(issued)
    BY DEF AuthTyped, CallsTyped
<1>2. QED
    BY <1>1 DEF Request, Under

\* The fields of the client and the transport.
LEMMA OfClient ==
    ASSUME AuthTyped
    PROVE  /\ auth \in Client(issued)
           /\ auth.generation \in Nat /\ auth.session \in 0..issued
           /\ auth.refreshing \in AuthCalls \cup {Nobody}
           /\ auth.status \in Statuses /\ auth.account \in Accounts \cup {Nobody}
           /\ auth.disposed \in BOOLEAN
           /\ transport.generation \in Nat /\ transport.session \in 0..issued
           /\ transport \in [generation : Nat, session : 0..issued]
           /\ issued \in Nat /\ issued <= MaxTokens /\ MaxTokens \in Nat
<1>1. /\ auth \in Client(issued)
      /\ transport \in [generation : Nat, session : 0..issued]
      /\ issued \in 0..MaxTokens
    BY DEF AuthTyped, ClientTyped, ServerTyped
<1>2. /\ auth.generation \in Nat /\ auth.session \in 0..issued
      /\ auth.refreshing \in AuthCalls \cup {Nobody}
      /\ auth.status \in Statuses /\ auth.account \in Accounts \cup {Nobody}
      /\ auth.disposed \in BOOLEAN
    BY <1>1 DEF Client
<1>3. transport.generation \in Nat /\ transport.session \in 0..issued
    BY <1>1
<1>4. MaxTokens \in Nat
    BY AuthAssumption DEF AuthAssumption
<1>5. QED
    BY <1>1, <1>2, <1>3, <1>4

\* Sessions that were issued stay so.
LEMMA Grows ==
    ASSUME NEW n \in Nat, NEW m \in Nat, n <= m
    PROVE  /\ 0..n \subseteq 0..m /\ 1..n \subseteq 1..m
           /\ Client(n) \subseteq Client(m) /\ Request(n) \subseteq Request(m)
           /\ Seq(StorageOp(n)) \subseteq Seq(StorageOp(m))
<1>1. 0..n \subseteq 0..m /\ 1..n \subseteq 1..m
    OBVIOUS
<1>2. Client(n) \subseteq Client(m)
    BY <1>1 DEF Client
<1>3. Request(n) \subseteq Request(m)
    BY <1>1 DEF Request
<1>4. StorageOp(n) \subseteq StorageOp(m)
    BY <1>1 DEF StorageOp
<1>5. Seq(StorageOp(n)) \subseteq Seq(StorageOp(m))
    BY <1>4
<1>6. QED
    BY <1>1, <1>2, <1>3, <1>5

\* The fields of an operation in the queue.
LEMMA OfQueue ==
    ASSUME AuthTyped, NEW i \in DOMAIN storage
    PROVE  /\ storage[i] \in StorageOp(issued)
           /\ storage[i].call \in AuthCalls \cup {Nobody}
           /\ storage[i].op \in {"clear", "drop", "write", "read"}
           /\ storage[i].token \in 0..issued /\ storage[i].generation \in Nat
           /\ i \in Nat
<1>1. storage \in Seq(StorageOp(issued))
    BY DEF AuthTyped, StoreTyped
<1>2. storage[i] \in StorageOp(issued) /\ i \in Nat
    BY <1>1
<1>3. QED
    BY <1>2 DEF StorageOp

-----------------------------------------------------------------------------
(* At most one call acts.                                                   *)

\* Two calls that act are one: sign-ins have different generations, renewals are
\* the one that goes on, and the client shows which of the two it is.
LEMMA Alone ==
    ASSUME AuthTyped, CallsHold, OneSignIn,
           NEW o \in AuthCalls, NEW p \in AuthCalls, Acts(o), Acts(p)
    PROVE  o = p
<1>1. CallHolds(o) /\ CallHolds(p)
    BY DEF CallsHold
<1>2. ShownFor(o) /\ ShownFor(p)
    BY <1>1 DEF CallHolds
<1>3. /\ request[o].op \in SigningIn \cup Renewing
      /\ request[p].op \in SigningIn \cup Renewing
  <2>1. ASSUME NEW q \in AuthCalls, CallHolds(q), Acts(q)
        PROVE  request[q].op \in SigningIn \cup Renewing
      BY <2>1 DEF CallHolds, Consistent, Acts, Obtaining, SigningIn, Renewing
  <2>2. QED
      BY <1>1, <2>1
<1>4. CASE request[o].op \in Renewing /\ request[p].op \in Renewing
    BY <1>2, <1>4 DEF ShownFor
<1>5. CASE request[o].op \in Renewing /\ request[p].op \notin Renewing
    BY <1>2, <1>5 DEF ShownFor
<1>6. CASE request[o].op \notin Renewing /\ request[p].op \in Renewing
    BY <1>2, <1>6 DEF ShownFor
<1>7. CASE request[o].op \notin Renewing /\ request[p].op \notin Renewing
    BY <1>3, <1>7 DEF Acts, Under, IsCurrent, OneSignIn
<1>8. QED
    BY <1>4, <1>5, <1>6, <1>7

-----------------------------------------------------------------------------
(* What the steps of others do to a call.                                   *)

SignedIn == {"authenticated", "refreshing"}

\* The client does not go on to another identity.
SameTime == auth'.generation = auth.generation /\ auth'.disposed = auth.disposed

\* It does.
Overtaken ==
    /\ auth'.generation \in Nat /\ auth.generation < auth'.generation
    /\ transport'.generation \in Nat /\ transport.generation < transport'.generation

\* Who is signed in stays so.
Steady ==
    auth.status \in SignedIn => auth'.status \in SignedIn /\ auth'.account = auth.account

ServerGrows ==
    /\ issued' \in Nat /\ issued <= issued'
    /\ \A t \in 1..issued : accountOf'[t] = accountOf[t]

\* What calls can be when they do nothing more, or only go on from there.
Over == {"ok", "failed", "renewed", "unrenewed"}

\* A call that is not over is overtaken with all others.
LEMMA OvertakenKeeps ==
    ASSUME AuthTyped, NEW o \in AuthCalls, CallHolds(o), Overtaken, ServerGrows,
           request'[o] = request[o]
    PROVE  CallHolds(o)'
<1>1. /\ request[o].generation \in Nat /\ request[o].renewing \in Nat
      /\ request[o].sent \in Nat /\ auth.generation \in Nat /\ transport.generation \in Nat
    BY OfCall, OfClient
<1>2. Begins(o) /\ Consistent(o)
    BY DEF CallHolds
<1>3. Begins(o)' /\ Consistent(o)'
    BY <1>1, <1>2 DEF Begins, Consistent, Overtaken
<1>4. /\ ~IsCurrent(request[o].generation)'
      /\ ~IsCurrent(request[o].renewing)'
    BY <1>1, <1>2 DEF Begins, IsCurrent, Overtaken
<1>5. ~Acts(o)'
    BY <1>4 DEF Acts, Under, IsCurrent
<1>6. InTransport(o)'
  <2>1. CASE request[o].phase \in {"requested", "confirming"}
    <3>1. request[o].sent <= transport.generation
        BY <2>1 DEF CallHolds, InTransport
    <3>2. request'[o].sent <= transport'.generation /\ request'[o].sent # transport'.generation
        BY <3>1, <1>1 DEF Overtaken
    <3>3. ~IsCurrent(request[o].generation)'
        BY <1>4
    <3>4. QED
        BY <3>2, <3>3, <1>5 DEF InTransport, Commits, IsCurrent
  <2>2. CASE request[o].phase \notin {"requested", "confirming"}
      BY <2>2, <1>5 DEF InTransport
  <2>3. QED
      BY <2>1, <2>2
<1>7. Obtained(o)'
  <2>1. Obtained(o)
      BY DEF CallHolds
  <2>2. request[o].token \in 0..issued /\ issued \in Nat
      BY OfCall, OfClient
  <2>3. /\ request[o].phase = "confirming" =>
             request[o].token # 0 /\ accountOf'[request[o].token] = request[o].account
        /\ request[o].phase = "verifying" => request[o].token # 0
      BY <2>1, <2>2 DEF Obtained, ServerGrows
  <2>4. QED
      BY <1>5, <2>3 DEF Obtained
<1>8. IsStored(o)' /\ Operates(o)'
    BY <1>4, <1>5 DEF IsStored, Operates, IsCurrent
<1>9. QED
    BY <1>3, <1>5, <1>6, <1>7, <1>8 DEF CallHolds

\* A call ends, or its renewal does.
LEMMA OverKeeps ==
    ASSUME AuthTyped, NEW o \in AuthCalls, CallHolds(o),
           NEW outcome \in Over, request'[o] = [request[o] EXCEPT !.phase = outcome],
           outcome \in {"renewed", "unrenewed"} => request[o].op \in Renewing,
           Overtaken \/ (SameTime /\ Steady),
           request[o].phase = "failed" => outcome = "failed"
    PROVE  CallHolds(o)'
<1>0. request[o] \in Request(issued)
    BY OfCall
<1>1. /\ request[o].generation \in Nat /\ request[o].renewing \in Nat
      /\ auth.generation \in Nat
    BY OfCall, OfClient
<1> DEFINE w == [request[o] EXCEPT !.phase = outcome]
<1>2. /\ w.phase = outcome /\ w.op = request[o].op /\ w.generation = request[o].generation
      /\ w.renewing = request[o].renewing /\ w.sent = request[o].sent
      /\ w.token = request[o].token /\ w.account = request[o].account
      /\ w.goal = request[o].goal
    BY <1>0 DEF Request
<1>3. request'[o] = w
    OBVIOUS
<1> HIDE DEF w
<1>4. Begins(o) /\ Consistent(o) /\ Operates(o)
    BY DEF CallHolds
<1>5. Begins(o)'
    BY <1>1, <1>2, <1>3, <1>4 DEF Begins, Overtaken, SameTime
<1>6. Consistent(o)'
    BY <1>2, <1>3, <1>4 DEF Consistent, Over
<1>7. ~Acts(o)'
    BY <1>2, <1>3 DEF Acts, Obtaining, Over
<1>8. InTransport(o)' /\ Obtained(o)' /\ IsStored(o)'
    BY <1>2, <1>3, <1>7 DEF InTransport, Obtained, IsStored, Over
<1>9. Operates(o)'
  <2>1. CASE Overtaken
      BY <1>1, <1>2, <1>3, <1>4, <2>1 DEF Operates, Overtaken, IsCurrent, Begins
  <2>2. CASE SameTime /\ Steady
      BY <1>2, <1>3, <1>4, <2>2 DEF Operates, SameTime, Steady, SignedIn, IsCurrent, Over
  <2>3. QED
      BY <2>1, <2>2
<1>10. QED
    BY <1>5, <1>6, <1>7, <1>8, <1>9 DEF CallHolds

\* A call that does not act is not touched by what the one that acts does.
LEMMA StillKeeps ==
    ASSUME AuthTyped, NEW o \in AuthCalls, CallHolds(o), ~Acts(o),
           request'[o] = request[o], SameTime, Steady, ServerGrows,
           transport'.generation \in Nat, transport.generation <= transport'.generation
    PROVE  CallHolds(o)'
<1>1. /\ request[o].generation \in Nat /\ request[o].renewing \in Nat
      /\ request[o].sent \in Nat /\ auth.generation \in Nat /\ transport.generation \in Nat
      /\ request[o].token \in 0..issued /\ issued \in Nat
    BY OfCall, OfClient
<1>2. Begins(o) /\ Consistent(o) /\ InTransport(o) /\ Obtained(o) /\ Operates(o)
    BY DEF CallHolds
<1>3. Begins(o)' /\ Consistent(o)'
    BY <1>1, <1>2 DEF Begins, Consistent, SameTime
<1>4. \A g : IsCurrent(g)' <=> IsCurrent(g)
    BY DEF IsCurrent, SameTime
<1>5. ~Acts(o)'
    BY <1>4 DEF Acts, Under, IsCurrent, SameTime
<1>6. InTransport(o)'
  <2>1. CASE request[o].phase \in {"requested", "confirming"}
    <3>1. request[o].op \notin Renewing
        BY <2>1, <1>2 DEF Consistent, Renewing
    <3>2. ~IsCurrent(request[o].generation)
        BY <2>1, <3>1 DEF Acts, Under, Obtaining
    <3>3. request[o].sent <= transport.generation /\ request[o].sent # transport.generation
        BY <2>1, <3>2, <1>2 DEF InTransport, Commits
    <3>4. request'[o].sent <= transport'.generation /\ request'[o].sent # transport'.generation
        BY <3>3, <1>1
    <3>5. ~IsCurrent(request[o].generation)'
        BY <3>2 DEF IsCurrent, SameTime
    <3>6. QED
        BY <3>4, <3>5, <1>5 DEF InTransport, Commits, IsCurrent
  <2>2. CASE request[o].phase \notin {"requested", "confirming"}
      BY <2>2, <1>5 DEF InTransport
  <2>3. QED
      BY <2>1, <2>2
<1>7. Obtained(o)'
  <2>1. /\ request[o].phase = "confirming" =>
             request[o].token # 0 /\ accountOf'[request[o].token] = request[o].account
        /\ request[o].phase = "verifying" => request[o].token # 0
      BY <1>1, <1>2 DEF Obtained, ServerGrows
  <2>2. QED
      BY <1>5, <2>1 DEF Obtained
<1>8. IsStored(o)'
    BY <1>5 DEF IsStored
<1>9. Operates(o)'
  <2>1. request[o].phase \in {"operating", "repeating"} /\ IsCurrent(request[o].generation) =>
            /\ request[o].token # 0 /\ auth.status \in SignedIn
            /\ accountOf[request[o].token] = auth.account
      BY <1>2 DEF Operates, SignedIn
  <2>2. request[o].phase \in {"operating", "repeating"} /\ IsCurrent(request[o].generation) =>
            /\ request[o].token # 0
            /\ accountOf'[request[o].token] = auth'.account
      BY <1>1, <2>1 DEF ServerGrows, Steady
  <2>3. QED
      BY <1>2, <2>2 DEF Operates, SameTime, Steady, SignedIn, IsCurrent
<1>10. QED
    BY <1>3, <1>5, <1>6, <1>7, <1>8, <1>9 DEF CallHolds

\* A step that leaves to the call that acts all it relies on: the client waits
\* for a renewal from now on, or tells that somebody has to sign in.
Quiet ==
    /\ UNCHANGED <<authSetup, transport, revoked>>
    /\ SameTime /\ Steady /\ auth'.session = auth.session
    /\ auth'.account = auth.account
    /\ auth'.status = auth.status \/ auth.status \in {"signed_out", "authenticated"}
    /\ ServerGrows
    /\ unreliable => unreliable'
    /\ NoClear => NoClear'

\* So a call whose renewal and record are left alone goes on.
LEMMA QuietKeeps ==
    ASSUME AuthTyped, NEW o \in AuthCalls, CallHolds(o), Quiet, request'[o] = request[o],
           auth.refreshing = o => auth'.refreshing = o,
           request[o].phase = "persisted" => unreliable' \/ store' = store
    PROVE  CallHolds(o)'
<1>1. /\ SameTime /\ Steady /\ ServerGrows
      /\ transport'.generation \in Nat /\ transport.generation <= transport'.generation
    BY OfClient DEF Quiet
<1>2. CASE ~Acts(o)
    BY <1>1, <1>2, StillKeeps
<1>3. CASE Acts(o)
  <2>1. /\ request[o].generation \in Nat /\ request[o].renewing \in Nat
        /\ auth.generation \in Nat /\ request[o].token \in 0..issued /\ issued \in Nat
      BY OfCall, OfClient
  <2>2. /\ Begins(o) /\ Consistent(o) /\ ShownFor(o) /\ InTransport(o)
        /\ Obtained(o) /\ IsStored(o) /\ Operates(o)
      BY <1>3 DEF CallHolds
  <2>3. Begins(o)' /\ Consistent(o)'
      BY <1>1, <2>1, <2>2 DEF Begins, Consistent, SameTime
  <2>4. /\ IsCurrent(request[o].generation)' <=> IsCurrent(request[o].generation)
        /\ Under(o)' = Under(o)
        /\ IsCurrent(Under(o))'
      BY <1>1, <1>3 DEF Acts, IsCurrent, Under, SameTime
  <2>5. auth.status \in {"refreshing", "authenticating", "switching"}
      BY <2>2 DEF ShownFor
  <2>6. auth'.status = auth.status
      BY <2>5 DEF Quiet
  <2>7. ShownFor(o)'
      BY <2>2, <2>6 DEF ShownFor, Quiet
  <2>8. InTransport(o)'
      BY <1>3, <2>2, <2>4 DEF InTransport, Commits, Quiet, hasStore, IsCurrent, Acts
  <2>9. Obtained(o)'
    <3>1. request[o].token # 0 => accountOf'[request[o].token] = accountOf[request[o].token]
        BY <1>1, <2>1 DEF ServerGrows
    <3>2. ~unreliable' => ~unreliable
        BY DEF Quiet
    <3>3. auth'.session = auth.session /\ revoked' = revoked
        BY DEF Quiet
    <3>4. QED
        BY <1>3, <2>2, <3>1, <3>2, <3>3 DEF Obtained
  <2>10. IsStored(o)'
    <3>1. NoClear => NoClear'
        BY DEF Quiet
    <3>2. hasStore' = hasStore /\ (~unreliable' => ~unreliable)
        BY DEF Quiet, hasStore
    <3>3. CASE request[o].phase = "persisted" /\ hasStore
      <4>1. NoClear /\ (~unreliable => store = Kept(request[o].token, request[o].account))
          BY <1>3, <2>2, <3>3 DEF IsStored
      <4>2. NoClear' /\ (~unreliable' => store' = Kept(request[o].token, request[o].account))
          BY <3>1, <3>2, <3>3, <4>1
      <4>3. Kept(request[o].token, request[o].account)' = Kept(request[o].token, request[o].account)
          BY DEF Kept
      <4>4. QED
          BY <4>2, <4>3 DEF IsStored
    <3>4. CASE ~(request[o].phase = "persisted" /\ hasStore)
        BY <3>2, <3>4 DEF IsStored
    <3>5. QED
        BY <3>3, <3>4
  <2>11. Operates(o)'
    <3>1. request[o].phase \notin {"operating", "repeating"}
        BY <1>3 DEF Acts, Obtaining
    <3>2. QED
        BY <2>2, <2>4, <2>6, <3>1 DEF Operates, IsCurrent
  <2>12. QED
      BY <2>3, <2>7, <2>8, <2>9, <2>10, <2>11 DEF CallHolds
<1>4. QED
    BY <1>2, <1>3

-----------------------------------------------------------------------------
(* Sign-ins and their generations.                                          *)

\* Calls that were under way keep their generations.
LEMMA SignInsKeep ==
    ASSUME OneSignIn,
           \A p \in AuthCalls :
              \/ request'[p].op \notin SigningIn
              \/ /\ request'[p].op = request[p].op
                 /\ request'[p].generation = request[p].generation
    PROVE  OneSignIn'
<1>1. QED
    BY DEF OneSignIn

\* A new one draws the next.
LEMMA NewSignIn ==
    ASSUME AuthTyped, CallsHold, OneSignIn, NEW o \in AuthCalls,
           request'[o].generation = auth.generation + 1,
           \A p \in AuthCalls \ {o} : request'[p] = request[p]
    PROVE  OneSignIn'
<1>1. \A p \in AuthCalls \ {o} : request'[p].generation # request'[o].generation
  <2>1. SUFFICES ASSUME NEW p \in AuthCalls \ {o}
                 PROVE  request'[p].generation # request'[o].generation
      OBVIOUS
  <2>2. request[p].generation \in Nat /\ auth.generation \in Nat
      BY OfCall, OfClient
  <2>3. request[p].generation <= auth.generation
      BY DEF CallsHold, CallHolds, Begins
  <2>4. QED
      BY <2>2, <2>3
<1>2. SUFFICES ASSUME NEW p \in AuthCalls, NEW q \in AuthCalls,
                      request'[p].op \in SigningIn, request'[q].op \in SigningIn,
                      request'[p].generation = request'[q].generation
               PROVE  p = q
    BY DEF OneSignIn
<1>3. CASE p = o \/ q = o
    BY <1>1, <1>2, <1>3
<1>4. CASE p # o /\ q # o
    BY <1>2, <1>4 DEF OneSignIn
<1>5. QED
    BY <1>3, <1>4

-----------------------------------------------------------------------------
(* The queue of storage operations.                                         *)

\* A call that waits for the store does not come to act.
LEMMA ActsNoMore ==
    ASSUME AuthTyped, NEW o \in AuthCalls, CallHolds(o), request'[o] = request[o],
           SameTime \/ Overtaken, Acts(o)'
    PROVE  Acts(o)
<1>1. Under(o) \in Nat /\ auth.generation \in Nat
    BY OfCall, OfClient
<1>2. Under(o) <= auth.generation
    BY DEF CallHolds, Begins, Under
<1>3. Under(o)' = Under(o)
    BY DEF Under
<1>4. CASE SameTime
    BY <1>3, <1>4 DEF Acts, IsCurrent, SameTime
<1>5. CASE Overtaken
    BY <1>1, <1>2, <1>3, <1>5 DEF Acts, IsCurrent, Overtaken
<1>6. QED
    BY <1>4, <1>5

\* The calls that wait for the store are left alone.
LeavesWaiting ==
    \A p \in AuthCalls : request[p].phase \in Waiting => request'[p] = request[p]

\* An operation in the queue stays that of its call.
LEMMA IsOfKeeps ==
    ASSUME NEW e, IsOf(e), e.call \in AuthCalls \cup {Nobody},
           e.op \in {"clear", "drop", "write", "read"},
           e.call \in AuthCalls => request'[e.call] = request[e.call]
    PROVE  IsOf(e)'
<1>0. Nobody \notin AuthCalls
    BY AuthAssumption DEF AuthAssumption
<1>1. CASE e.call \in AuthCalls
  <2>1. Under(e.call)' = Under(e.call)
      BY <1>1 DEF Under
  <2>2. QED
      BY <1>1, <2>1 DEF IsOf
<1>2. CASE e.call = Nobody
    BY <1>0, <1>2 DEF IsOf
<1>3. QED
    BY <1>1, <1>2

\* A call with an operation in the queue waits for it.
LEMMA HasEntry ==
    ASSUME AuthTyped, QueueHolds, NEW i \in DOMAIN storage, storage[i].call # Nobody
    PROVE  storage[i].call \in AuthCalls /\ request[storage[i].call].phase \in Waiting
<1>1. /\ storage[i].call \in AuthCalls \cup {Nobody}
      /\ storage[i].op \in {"clear", "drop", "write", "read"}
    BY OfQueue
<1>2. IsOf(storage[i])
    BY DEF QueueHolds
<1>3. QED
    BY <1>1, <1>2 DEF IsOf, Waiting

\* An operation whose call is left alone keeps its place.
LEMMA EntryKeeps ==
    ASSUME AuthTyped, CallsHold, QueueHolds, SameTime \/ Overtaken,
           NEW i \in DOMAIN storage, NEW e, e = storage[i],
           e.call \in AuthCalls => request'[e.call] = request[e.call]
    PROVE  /\ IsOf(e)'
           /\ e.call # Nobody /\ Acts(e.call)' => Acts(e.call)
<1>1. /\ e.call \in AuthCalls \cup {Nobody}
      /\ e.op \in {"clear", "drop", "write", "read"}
    BY OfQueue
<1>2. IsOf(e)
    BY DEF QueueHolds
<1>3. IsOf(e)'
    BY <1>1, <1>2, IsOfKeeps
<1>4. ASSUME e.call # Nobody, Acts(e.call)'
      PROVE  Acts(e.call)
  <2>1. PICK p \in AuthCalls : p = e.call
      BY <1>1, <1>4
  <2>2. CallHolds(p) /\ request'[p] = request[p] /\ Acts(p)'
      BY <2>1, <1>4 DEF CallsHold
  <2>3. QED
      BY <2>1, <2>2, ActsNoMore
<1>5. QED
    BY <1>3, <1>4

\* Nothing is queued.
LEMMA QueueKeeps ==
    ASSUME AuthTyped, CallsHold, QueueHolds, storage' = storage,
           SameTime \/ Overtaken, LeavesWaiting
    PROVE  QueueHolds'
<1>1. ASSUME NEW i \in DOMAIN storage, NEW e, e = storage[i]
      PROVE  /\ IsOf(e)'
             /\ e.call # Nobody /\ Acts(e.call)' => Acts(e.call)
  <2>1. e.call \in AuthCalls => request'[e.call] = request[e.call]
      BY <1>1, HasEntry, AuthAssumption DEF LeavesWaiting, AuthAssumption
  <2>2. QED
      BY <1>1, <2>1, EntryKeeps
<1>2. \A i \in DOMAIN storage' : IsOf(storage[i])'
  <2>1. SUFFICES ASSUME NEW i \in DOMAIN storage'
                 PROVE  IsOf(storage[i])'
      OBVIOUS
  <2>2. PICK e : e = storage[i]
      OBVIOUS
  <2>3. IsOf(e)'
      BY <1>1, <2>2
  <2>4. e = storage'[i]
      BY <2>2
  <2>5. QED
      BY <2>3, <2>4 DEF IsOf, Under
<1>3. \A i, j \in DOMAIN storage' :
          storage'[i].call # Nobody /\ Acts(storage[i].call)' /\ storage'[j].op = "clear" => j < i
  <2>1. SUFFICES ASSUME NEW i \in DOMAIN storage', NEW j \in DOMAIN storage',
                        storage'[i].call # Nobody, Acts(storage[i].call)',
                        storage'[j].op = "clear"
                 PROVE  j < i
      OBVIOUS
  <2>2. PICK e : e = storage[i]
      OBVIOUS
  <2>3. Acts(e.call)'
      BY <2>1, <2>2 DEF Acts, Under, IsCurrent
  <2>4. Acts(e.call)
      BY <1>1, <2>1, <2>2, <2>3
  <2>5. QED
      BY <2>1, <2>2, <2>4 DEF QueueHolds
<1>4. QED
    BY <1>2, <1>3 DEF QueueHolds

\* The first operation of the queue is over.
LEMMA QueueShrinks ==
    ASSUME AuthTyped, CallsHold, QueueHolds, storage # <<>>, storage' = Tail(storage),
           SameTime,
           \A p \in AuthCalls : p # Head(storage).call => request'[p] = request[p]
    PROVE  QueueHolds'
<1>0. storage \in Seq(StorageOp(issued))
    BY DEF AuthTyped, StoreTyped
<1>1. /\ DOMAIN storage' = 1..Len(storage) - 1 /\ Len(storage) \in Nat
      /\ \A i \in DOMAIN storage' : i + 1 \in DOMAIN storage /\ storage'[i] = storage[i + 1]
      /\ 1 \in DOMAIN storage /\ Head(storage) = storage[1]
    BY <1>0
<1>2. ASSUME NEW i \in DOMAIN storage', NEW e, e = storage[i + 1]
      PROVE  /\ IsOf(e)'
             /\ e.call # Nobody /\ Acts(e.call)' => Acts(e.call)
  <2>1. e.call # Nobody => e.call # Head(storage).call
    <3>1. i + 1 # 1 /\ i \in Nat
        BY <1>1
    <3>2. QED
        BY <1>1, <1>2, <3>1 DEF QueueHolds
  <2>2. e.call \in AuthCalls => request'[e.call] = request[e.call]
      BY <2>1, AuthAssumption DEF AuthAssumption
  <2>3. QED
      BY <1>1, <1>2, <2>2, EntryKeeps
<1>3. \A i \in DOMAIN storage' : IsOf(storage[i])'
  <2>1. SUFFICES ASSUME NEW i \in DOMAIN storage'
                 PROVE  IsOf(storage[i])'
      OBVIOUS
  <2>2. PICK e : e = storage[i + 1]
      OBVIOUS
  <2>3. IsOf(e)' /\ e = storage'[i]
      BY <1>1, <1>2, <2>2
  <2>4. QED
      BY <2>3 DEF IsOf, Under
<1>4. \A i, j \in DOMAIN storage' :
          storage'[i].call = storage'[j].call /\ storage'[i].call # Nobody => i = j
  <2>1. SUFFICES ASSUME NEW i \in DOMAIN storage', NEW j \in DOMAIN storage',
                        storage'[i].call = storage'[j].call, storage'[i].call # Nobody
                 PROVE  i = j
      OBVIOUS
  <2>2. i + 1 = j + 1
      BY <1>1, <2>1 DEF QueueHolds
  <2>3. QED
      BY <1>1, <2>2
<1>5. \A i, j \in DOMAIN storage' :
          storage'[i].call # Nobody /\ Acts(storage[i].call)' /\ storage'[j].op = "clear" => j < i
  <2>1. SUFFICES ASSUME NEW i \in DOMAIN storage', NEW j \in DOMAIN storage',
                        storage'[i].call # Nobody, Acts(storage[i].call)',
                        storage'[j].op = "clear"
                 PROVE  j < i
      OBVIOUS
  <2>2. PICK e : e = storage[i + 1]
      OBVIOUS
  <2>3. e = storage'[i]
      BY <1>1, <2>2
  <2>4. Acts(e.call)'
      BY <2>1, <2>3 DEF Acts, Under, IsCurrent
  <2>5. Acts(e.call)
      BY <1>2, <2>1, <2>2, <2>3, <2>4
  <2>6. j + 1 < i + 1
      BY <1>1, <2>1, <2>2, <2>3, <2>5 DEF QueueHolds
  <2>7. QED
      BY <1>1, <2>6
<1>6. QED
    BY <1>3, <1>4, <1>5 DEF QueueHolds

\* An operation is queued: of a call that had none, or that clears for nobody;
\* what clears comes when the client goes on to another identity.
LEMMA QueueAppends ==
    ASSUME AuthTyped, CallsHold, QueueHolds, SameTime \/ Overtaken,
           NEW e, storage' = Append(storage, e), IsOf(e)',
           e.call \in AuthCalls \cup {Nobody},
           LeavesWaiting,
           e.call # Nobody => request[e.call].phase \notin Waiting,
           e.op = "clear" => Overtaken /\ (e.call # Nobody => ~Acts(e.call)')
    PROVE  QueueHolds'
<1>0. storage \in Seq(StorageOp(issued)) /\ Nobody \notin AuthCalls
    BY AuthAssumption DEF AuthTyped, StoreTyped, AuthAssumption
<1> DEFINE n == Len(storage)
<1>1. /\ n \in Nat /\ DOMAIN storage = 1..n /\ DOMAIN storage' = 1..n + 1
      /\ \A i \in DOMAIN storage : storage'[i] = storage[i]
      /\ storage'[n + 1] = e
    BY <1>0
<1> HIDE DEF n
<1>2. ASSUME NEW i \in DOMAIN storage
      PROVE  /\ storage[i].call # Nobody => storage[i].call # e.call
             /\ storage[i].call \in AuthCalls => storage[i].call # Nobody
    BY HasEntry, <1>0
<1>3. ASSUME NEW i \in DOMAIN storage, NEW f, f = storage[i]
      PROVE  /\ IsOf(f)'
             /\ f.call # Nobody /\ Acts(f.call)' => Acts(f.call)
  <2>1. f.call \in AuthCalls => request'[f.call] = request[f.call]
      BY <1>0, <1>3, HasEntry DEF LeavesWaiting
  <2>2. QED
      BY <1>3, <2>1, EntryKeeps
<1>4. \A i \in DOMAIN storage' : IsOf(storage[i])'
  <2>1. SUFFICES ASSUME NEW i \in DOMAIN storage'
                 PROVE  IsOf(storage[i])'
      OBVIOUS
  <2>2. PICK f : f = storage'[i]
      OBVIOUS
  <2>3. IsOf(f)'
    <3>1. CASE i \in DOMAIN storage
        BY <1>1, <1>3, <2>2, <3>1
    <3>2. CASE i = n + 1
        BY <1>1, <2>2, <3>2
    <3>3. QED
        BY <1>1, <3>1, <3>2
  <2>4. QED
      BY <2>2, <2>3 DEF IsOf, Under
<1>5. \A i, j \in DOMAIN storage' :
          storage'[i].call = storage'[j].call /\ storage'[i].call # Nobody => i = j
  <2>1. SUFFICES ASSUME NEW i \in DOMAIN storage', NEW j \in DOMAIN storage',
                        storage'[i].call = storage'[j].call, storage'[i].call # Nobody
                 PROVE  i = j
      OBVIOUS
  <2>2. CASE i \in DOMAIN storage /\ j \in DOMAIN storage
      BY <1>1, <2>1, <2>2 DEF QueueHolds
  <2>3. CASE i = n + 1 \/ j = n + 1
      BY <1>1, <1>2, <2>1, <2>3
  <2>4. QED
      BY <1>1, <2>2, <2>3
<1>6. \A i, j \in DOMAIN storage' :
          storage'[i].call # Nobody /\ Acts(storage[i].call)' /\ storage'[j].op = "clear" => j < i
  <2>1. SUFFICES ASSUME NEW i \in DOMAIN storage', NEW j \in DOMAIN storage',
                        storage'[i].call # Nobody, Acts(storage[i].call)',
                        storage'[j].op = "clear"
                 PROVE  j < i
      OBVIOUS
  <2>2. PICK f : f = storage'[i]
      OBVIOUS
  <2>3. Acts(f.call)' /\ f.call # Nobody
      BY <2>1, <2>2 DEF Acts, Under, IsCurrent
  <2>4. i \in DOMAIN storage => Acts(storage[i].call) /\ f = storage[i]
      BY <1>1, <1>3, <2>2, <2>3
  <2>5. CASE i \in DOMAIN storage /\ j \in DOMAIN storage
      BY <1>1, <2>1, <2>3, <2>4, <2>5 DEF QueueHolds
  <2>6. CASE i \in DOMAIN storage /\ j = n + 1
    <3>1. Overtaken
        BY <1>1, <2>1, <2>6
    <3>2. PICK p \in AuthCalls : p = f.call
        BY <2>3, <2>4, <2>6, HasEntry
    <3>3. request'[p] = request[p]
        BY <2>3, <2>4, <2>6, <3>2, HasEntry DEF LeavesWaiting
    <3>4. CallHolds(p) /\ Acts(p)'
        BY <2>3, <3>2 DEF CallsHold
    <3>5. FALSE
      <4>1. Under(p) \in Nat /\ auth.generation \in Nat
          BY OfCall, OfClient
      <4>2. Under(p) <= auth.generation
          BY <3>4 DEF CallHolds, Begins, Under
      <4>3. Under(p)' = Under(p)
          BY <3>3 DEF Under
      <4>4. QED
          BY <3>1, <3>4, <4>1, <4>2, <4>3 DEF Acts, IsCurrent, Overtaken
    <3>6. QED
        BY <3>5
  <2>7. CASE i = n + 1 /\ j \in DOMAIN storage
      BY <1>1, <2>7
  <2>8. CASE i = n + 1 /\ j = n + 1
    <3>1. e = f
        BY <1>1, <2>2, <2>8
    <3>2. e.op = "clear"
        BY <1>1, <2>1, <2>8
    <3>3. QED
        BY <2>3, <3>1, <3>2
  <2>9. QED
      BY <1>1, <2>5, <2>6, <2>7, <2>8
<1>7. QED
    BY <1>4, <1>5, <1>6 DEF QueueHolds

\* What is left to be cleared.
LEMMA TailClears ==
    ASSUME AuthTyped, storage # <<>>, storage' = Tail(storage)
    PROVE  /\ NoClear => NoClear'
           /\ Head(storage).op # "clear" => (NoClear' => NoClear)
           /\ NoClear => Head(storage).op # "clear"
<1>1. storage \in Seq(StorageOp(issued))
    BY DEF AuthTyped, StoreTyped
<1>2. /\ DOMAIN storage' = 1..Len(storage) - 1 /\ Len(storage) \in Nat
      /\ DOMAIN storage = 1..Len(storage)
      /\ \A i \in DOMAIN storage' : storage'[i] = storage[i + 1]
      /\ 1 \in DOMAIN storage /\ Head(storage) = storage[1]
    BY <1>1
<1>3. NoClear => NoClear'
    BY <1>2 DEF NoClear
<1>4. ASSUME Head(storage).op # "clear", NoClear'
      PROVE  NoClear
  <2>1. SUFFICES ASSUME NEW i \in DOMAIN storage
                 PROVE  storage[i].op # "clear"
      BY DEF NoClear
  <2>2. CASE i = 1
      BY <1>2, <1>4, <2>2
  <2>3. CASE i # 1
    <3>1. i - 1 \in DOMAIN storage' /\ storage'[i - 1] = storage[i]
        BY <1>2, <2>3
    <3>2. QED
        BY <1>4, <3>1 DEF NoClear
  <2>4. QED
      BY <2>2, <2>3
<1>5. NoClear => Head(storage).op # "clear"
    BY <1>2 DEF NoClear
<1>6. QED
    BY <1>3, <1>4, <1>5

LEMMA AppendClears ==
    ASSUME AuthTyped, NEW e, storage' = Append(storage, e)
    PROVE  /\ e.op # "clear" => (NoClear' <=> NoClear)
           /\ e.op = "clear" => ~NoClear'
<1>1. storage \in Seq(StorageOp(issued))
    BY DEF AuthTyped, StoreTyped
<1> DEFINE n == Len(storage)
<1>2. /\ n \in Nat /\ DOMAIN storage' = 1..n + 1 /\ DOMAIN storage = 1..n
      /\ \A i \in DOMAIN storage : storage'[i] = storage[i]
      /\ storage'[n + 1] = e
    BY <1>1
<1> HIDE DEF n
<1>3. QED
    BY <1>2 DEF NoClear

-----------------------------------------------------------------------------
(* Going on to another identity.                                            *)

\* begin(status).
LEMMA OfBegun ==
    ASSUME AuthTyped, NEW status \in Statuses
    PROVE  /\ Begun(status) \in Client(issued)
           /\ Begun(status).generation = auth.generation + 1
           /\ Begun(status).session = 0 /\ Begun(status).refreshing = Nobody
           /\ Begun(status).status = status
           /\ Begun(status).account = auth.account
           /\ Begun(status).disposed = auth.disposed
<1>1. auth \in Client(issued) /\ auth.generation \in Nat /\ issued \in Nat
    BY OfClient
<1> DEFINE w == Begun(status)
<1>2. /\ w.generation = auth.generation + 1 /\ w.session = 0 /\ w.refreshing = Nobody
      /\ w.status = status /\ w.account = auth.account /\ w.disposed = auth.disposed
    BY <1>1 DEF Begun, Client
<1>3. 0 \in 0..issued /\ auth.generation + 1 \in Nat
    BY <1>1
<1>4. w \in Client(issued)
    BY <1>1, <1>3 DEF Begun, Client
<1>5. QED
    BY <1>2, <1>4

\* ... and nobody is signed in any more.
LEMMA OfBegunAlone ==
    ASSUME AuthTyped, NEW status \in Statuses, NEW w, w = [Begun(status) EXCEPT !.account = Nobody]
    PROVE  /\ w \in Client(issued)
           /\ w.generation = auth.generation + 1
           /\ w.session = 0 /\ w.status = status /\ w.disposed = auth.disposed
<1>1. Begun(status) \in Client(issued)
    BY OfBegun
<1>2. /\ Begun(status).generation = auth.generation + 1
      /\ Begun(status).session = 0 /\ Begun(status).status = status
      /\ Begun(status).disposed = auth.disposed
    BY OfBegun
<1>3. QED
    BY <1>1, <1>2 DEF Client

\* What is given up is given up in memory, in the transport and, when the queue
\* gets to it, in the store.
LEMMA GivingUp ==
    ASSUME AuthInv, NEW who \in AuthCalls \cup {Nobody},
           UNCHANGED <<authSetup, store, serverState, unreliable>>,
           auth' \in Client(issued), auth'.session = 0, auth'.status \notin SignedIn,
           transport' \in [generation : Nat, session : 0..issued],
           storage' = Enqueued(Queued("clear", who, 0, 0)), GivenUp,
           request' \in [AuthCalls -> Request(issued)]
    PROVE  AuthTyped' /\ ClientHolds'
<1>0. AuthTyped /\ ClientHolds /\ issued \in Nat
    BY OfClient DEF AuthInv
<1>1. PICK e : e = Queued("clear", who, 0, 0)
    OBVIOUS
<1>2. e \in StorageOp(issued) /\ e.op = "clear"
  <2>1. 0 \in 0..issued /\ 0 \in Nat /\ "clear" \in {"clear", "drop", "write", "read"}
      BY <1>0
  <2>2. QED
      BY <1>0, <1>1, <2>1 DEF Queued, StorageOp
<1>3. storage' = IF hasStore THEN Append(storage, e) ELSE storage
    BY <1>1 DEF Enqueued
<1>4. storage' \in Seq(StorageOp(issued))
    BY <1>0, <1>2, <1>3 DEF AuthTyped, StoreTyped
<1>5. revoked' \subseteq 1..issued
    BY DEF GivenUp
<1>6. AuthTyped'
    BY <1>0, <1>4, <1>5 DEF AuthTyped, ClientTyped, ServerTyped, StoreTyped, CallsTyped, serverState
<1>7. SignedInAsShown'
    BY DEF SignedInAsShown, SignedIn
<1>8. hasStore' = hasStore
    BY DEF hasStore
<1>9. hasStore => ~NoClear'
    BY <1>0, <1>2, <1>3, AppendClears
<1>10. 0 \notin revoked'
    BY <1>5, <1>0
<1>11. ~hasStore => storage = <<>> /\ store = 0 /\ ~unreliable
    BY <1>0 DEF ClientHolds, Storeless
<1>12. StoreAgrees'
    BY <1>8, <1>9, <1>10, <1>11 DEF StoreAgrees, SignedIn
<1>13. Storeless'
    BY <1>3, <1>8, <1>11 DEF Storeless, GivenUp
<1>14. QED
    BY <1>6, <1>7, <1>12, <1>13 DEF ClientHolds

\* A call that was not made yet waits for nothing, and obtains nothing.
LEMMA NotMade ==
    ASSUME NEW o \in AuthCalls, CallHolds(o), request[o].op = "none"
    PROVE  request[o].phase \notin Waiting \cup Obtaining
    BY DEF CallHolds, Consistent, Waiting, Obtaining, Renewing, SigningIn

\* The other calls are overtaken.
LEMMA OvertakenCalls ==
    ASSUME AuthInv, Overtaken, ServerGrows, NEW o \in AuthCalls, CallHolds(o)',
           \A p \in AuthCalls \ {o} : request'[p] = request[p]
    PROVE  CallsHold'
<1>1. AuthTyped /\ CallsHold
    BY DEF AuthInv
<1>2. \A p \in AuthCalls \ {o} : CallHolds(p)'
    BY <1>1, OvertakenKeeps DEF CallsHold
<1>3. QED
    BY <1>2 DEF CallsHold

\* The clearing of the store is queued, if there is a store, for nobody or for a
\* logout that waits for it.
LEMMA ClearQueued ==
    ASSUME AuthInv, Overtaken, NEW who \in AuthCalls \cup {Nobody},
           storage' = Enqueued(Queued("clear", who, 0, 0)),
           LeavesWaiting,
           who # Nobody /\ hasStore =>
              request[who].phase \notin Waiting /\ request'[who].phase = "clearing"
    PROVE  QueueHolds'
<1>0. AuthTyped /\ CallsHold /\ QueueHolds
    BY DEF AuthInv
<1>1. CASE hasStore
  <2>1. PICK e : e = Queued("clear", who, 0, 0)
      OBVIOUS
  <2>2. e.op = "clear" /\ e.call = who
      BY <2>1 DEF Queued
  <2>3. storage' = Append(storage, e)
      BY <1>1, <2>1 DEF Enqueued
  <2>4. IsOf(e)'
      BY <1>1, <2>2 DEF IsOf
  <2>5. e.call # Nobody => ~Acts(e.call)'
      BY <1>1, <2>2 DEF Acts, Obtaining
  <2>6. e.call # Nobody => request[e.call].phase \notin Waiting
      BY <1>1, <2>2
  <2>7. e.call \in AuthCalls \cup {Nobody}
      BY <2>2
  <2>8. QED
      BY <1>0, <2>2, <2>3, <2>4, <2>5, <2>6, <2>7, QueueAppends
<1>2. CASE ~hasStore
  <2>1. storage' = storage
      BY <1>2 DEF Enqueued
  <2>2. QED
      BY <1>0, <2>1, QueueKeeps
<1>3. QED
    BY <1>1, <1>2

LEMMA SignInStep ==
    ASSUME AuthInv, NEW o \in AuthCalls, NEW op \in {"login", "select", "switch"},
           NEW a \in Accounts \cup {Nobody}, SignIn(o, op, a)
    PROVE  AuthInv'
<1>0. /\ AuthTyped /\ CallsHold /\ OneSignIn /\ QueueHolds
      /\ auth.generation \in Nat /\ transport.generation \in Nat /\ issued \in Nat
      /\ transport.session \in 0..issued
    BY OfClient DEF AuthInv
<1>1. /\ request[o].op = "none" /\ ~auth.disposed /\ (a # Nobody <=> op # "login")
      /\ UNCHANGED <<authSetup, store, serverState, unreliable>>
      /\ storage' = Enqueued(Queued("clear", Nobody, 0, 0)) /\ GivenUp
    BY DEF SignIn, Starts
<1> DEFINE w == [NoRequest EXCEPT !.op = op, !.phase = "requested", !.account = a,
                                  !.generation = auth.generation + 1,
                                  !.sent = transport.generation + 2]
           status == IF op = "switch" THEN "switching" ELSE "authenticating"
<1>2. request' = [request EXCEPT ![o] = w] /\ auth' = Begun(status)
    BY DEF SignIn
<1>3. /\ w.op = op /\ w.phase = "requested" /\ w.account = a /\ w.goal = "none"
      /\ w.generation = auth.generation + 1 /\ w.renewing = 0
      /\ w.sent = transport.generation + 2 /\ w.token = 0
    BY DEF NoRequest
<1>4. w \in Request(issued)
  <2>1. 0 \in 0..issued /\ auth.generation + 1 \in Nat /\ transport.generation + 2 \in Nat
      BY <1>0
  <2>2. QED
      BY <2>1 DEF NoRequest, Request, SigningIn
<1> HIDE DEF w
<1>5. request' \in [AuthCalls -> Request(issued)]
    BY <1>0, <1>2, <1>4 DEF AuthTyped, CallsTyped
<1>6. request'[o] = w /\ \A p \in AuthCalls \ {o} : request'[p] = request[p]
    BY <1>0, <1>2 DEF AuthTyped, CallsTyped
<1>7. status \in Statuses /\ status \in {"authenticating", "switching"}
    BY DEF Statuses
<1> HIDE DEF status
<1>8. /\ auth' \in Client(issued) /\ auth'.generation = auth.generation + 1
      /\ auth'.session = 0 /\ auth'.status = status /\ auth'.disposed = auth.disposed
    BY <1>0, <1>2, <1>7, OfBegun
<1>9. /\ transport' \in [generation : Nat, session : 0..issued]
      /\ transport'.generation = transport.generation + 2
  <2>1. /\ transport' = [generation |-> transport.generation + 2,
                         session |-> IF op = "login" THEN 0 ELSE transport.session]
        /\ 0 \in 0..issued
      BY <1>0 DEF SignIn
  <2>2. QED
      BY <1>0, <2>1
<1>10. Overtaken /\ ServerGrows
    BY <1>0, <1>1, <1>8, <1>9 DEF Overtaken, ServerGrows, serverState
<1>11. AuthTyped' /\ ClientHolds'
    BY <1>1, <1>5, <1>7, <1>8, <1>9, GivingUp DEF SignedIn
<1>12. CallHolds(o)'
  <2>1. Consistent(o)' /\ Begins(o)'
      BY <1>0, <1>1, <1>3, <1>6, <1>8 DEF Consistent, Begins, SigningIn, Renewing
  <2>2. ShownFor(o)'
      BY <1>3, <1>6, <1>7, <1>8 DEF ShownFor, Renewing
  <2>3. InTransport(o)'
      BY <1>0, <1>1, <1>3, <1>6, <1>8, <1>9 DEF InTransport, Commits, IsCurrent
  <2>4. Obtained(o)' /\ IsStored(o)' /\ Operates(o)'
      BY <1>3, <1>6 DEF Obtained, IsStored, Operates
  <2>5. QED
      BY <2>1, <2>2, <2>3, <2>4 DEF CallHolds
<1>13. CallsHold'
    BY <1>6, <1>10, <1>12, OvertakenCalls
<1>14. OneSignIn'
    BY <1>0, <1>3, <1>6, NewSignIn
<1>15. QueueHolds'
  <2>1. request[o].phase \notin Waiting
      BY <1>0, <1>1, NotMade DEF CallsHold
  <2>2. LeavesWaiting
      BY <1>6, <2>1 DEF LeavesWaiting
  <2>3. QED
      BY <1>1, <1>10, <2>2, ClearQueued
<1>16. QED
    BY <1>11, <1>13, <1>14, <1>15 DEF AuthInv

LEMMA SignOutStep ==
    ASSUME AuthInv, NEW o \in AuthCalls, NEW op \in {"logout", "invalidate"}, SignOut(o, op)
    PROVE  AuthInv'
<1>0. /\ AuthTyped /\ CallsHold /\ OneSignIn /\ QueueHolds
      /\ auth.generation \in Nat /\ transport.generation \in Nat /\ issued \in Nat
      /\ transport.session \in 0..issued
    BY OfClient DEF AuthInv
<1> DEFINE phase == IF op = "logout" /\ hasStore THEN "clearing" ELSE "ok"
           w == [NoRequest EXCEPT !.op = op, !.generation = auth.generation + 1,
                                  !.phase = phase]
           status == IF op = "logout" THEN "signed_out" ELSE "auth_required"
           who == IF op = "logout" THEN o ELSE Nobody
<1>1. /\ request[o].op = "none" /\ ~auth.disposed
      /\ UNCHANGED <<authSetup, store, serverState, unreliable>>
      /\ storage' = Enqueued(Queued("clear", who, 0, 0)) /\ GivenUp
    BY DEF SignOut, Starts
<1>2. /\ request' = [request EXCEPT ![o] = w]
      /\ auth' = [Begun(status) EXCEPT !.account = Nobody]
    BY DEF SignOut
<1>3. /\ w.op = op /\ w.phase = phase /\ w.account = Nobody /\ w.goal = "none"
      /\ w.generation = auth.generation + 1 /\ w.renewing = 0 /\ w.sent = 0 /\ w.token = 0
    BY DEF NoRequest
<1>4. w \in Request(issued)
  <2>1. 0 \in 0..issued /\ auth.generation + 1 \in Nat /\ phase \in {"clearing", "ok"}
      BY <1>0
  <2>2. QED
      BY <2>1 DEF NoRequest, Request
<1>5. /\ phase = "clearing" <=> (op = "logout" /\ hasStore)
      /\ phase \in {"clearing", "ok"}
    OBVIOUS
<1>6. /\ who \in AuthCalls \cup {Nobody} /\ (who # Nobody => op = "logout" /\ who = o)
      /\ status \in Statuses /\ status \notin SignedIn
    BY DEF Statuses, SignedIn
<1> HIDE DEF w, phase, status, who
<1>7. request' \in [AuthCalls -> Request(issued)]
    BY <1>0, <1>2, <1>4 DEF AuthTyped, CallsTyped
<1>8. request'[o] = w /\ \A p \in AuthCalls \ {o} : request'[p] = request[p]
    BY <1>0, <1>2 DEF AuthTyped, CallsTyped
<1>9. /\ auth' \in Client(issued) /\ auth'.generation = auth.generation + 1
      /\ auth'.session = 0 /\ auth'.status = status /\ auth'.disposed = auth.disposed
    BY <1>0, <1>2, <1>6, OfBegunAlone
<1>10. /\ transport' \in [generation : Nat, session : 0..issued]
       /\ transport'.generation \in Nat /\ transport.generation < transport'.generation
  <2>1. /\ transport' = [generation |-> transport.generation + (IF op = "logout" THEN 2 ELSE 1),
                         session |-> 0]
        /\ 0 \in 0..issued
      BY <1>0 DEF SignOut
  <2>2. QED
      BY <1>0, <2>1
<1>11. Overtaken /\ ServerGrows
    BY <1>0, <1>1, <1>9, <1>10 DEF Overtaken, ServerGrows, serverState
<1>12. AuthTyped' /\ ClientHolds'
    BY <1>1, <1>6, <1>7, <1>9, <1>10, GivingUp
<1>13. CallHolds(o)'
  <2>1. Consistent(o)' /\ Begins(o)'
      BY <1>0, <1>3, <1>5, <1>8, <1>9 DEF Consistent, Begins, SigningIn, Renewing
  <2>2. ~Acts(o)'
      BY <1>3, <1>5, <1>8 DEF Acts, Obtaining
  <2>3. InTransport(o)' /\ Obtained(o)' /\ IsStored(o)' /\ Operates(o)'
      BY <1>3, <1>5, <1>8, <2>2 DEF InTransport, Obtained, IsStored, Operates
  <2>4. QED
      BY <2>1, <2>2, <2>3 DEF CallHolds
<1>14. CallsHold'
    BY <1>8, <1>11, <1>13, OvertakenCalls
<1>15. OneSignIn'
    BY <1>0, <1>3, <1>8, NewSignIn
<1>16. QueueHolds'
  <2>1. request[o].phase \notin Waiting
      BY <1>0, <1>1, NotMade DEF CallsHold
  <2>2. LeavesWaiting
      BY <1>8, <2>1 DEF LeavesWaiting
  <2>3. who # Nobody /\ hasStore =>
            request[who].phase \notin Waiting /\ request'[who].phase = "clearing"
      BY <1>3, <1>5, <1>6, <1>8, <2>1
  <2>4. QED
      BY <1>1, <1>6, <1>11, <2>2, <2>3, ClearQueued
<1>17. QED
    BY <1>12, <1>14, <1>15, <1>16 DEF AuthInv

LEMMA DisposeStep ==
    ASSUME AuthInv, NEW o \in AuthCalls, DisposeAuth(o)
    PROVE  AuthInv'
<1>0. /\ AuthTyped /\ CallsHold /\ OneSignIn /\ QueueHolds
      /\ auth.generation \in Nat /\ transport.generation \in Nat /\ issued \in Nat
    BY OfClient DEF AuthInv
<1> DEFINE w == [NoRequest EXCEPT !.op = "dispose", !.phase = "ok"]
<1>1. /\ request[o].op = "none" /\ ~auth.disposed
      /\ UNCHANGED <<authSetup, store, serverState, unreliable>>
      /\ storage' = Enqueued(Queued("clear", Nobody, 0, 0)) /\ GivenUp
    BY DEF DisposeAuth, Starts
<1>2. /\ request' = [request EXCEPT ![o] = w]
      /\ auth' = [Begun("disposed") EXCEPT !.account = Nobody, !.disposed = TRUE]
    BY DEF DisposeAuth
<1>3. /\ w.op = "dispose" /\ w.phase = "ok" /\ w.goal = "none" /\ w.account = Nobody
      /\ w.generation = 0 /\ w.renewing = 0
    BY DEF NoRequest
<1>4. w \in Request(issued)
  <2>1. 0 \in 0..issued
      BY <1>0
  <2>2. QED
      BY <2>1 DEF NoRequest, Request
<1> HIDE DEF w
<1>7. request' \in [AuthCalls -> Request(issued)]
    BY <1>0, <1>2, <1>4 DEF AuthTyped, CallsTyped
<1>8. request'[o] = w /\ \A p \in AuthCalls \ {o} : request'[p] = request[p]
    BY <1>0, <1>2 DEF AuthTyped, CallsTyped
<1>9. /\ auth' \in Client(issued) /\ auth'.generation = auth.generation + 1
      /\ auth'.session = 0 /\ auth'.status = "disposed"
  <2>1. "disposed" \in Statuses
      BY DEF Statuses
  <2>2. /\ Begun("disposed") \in Client(issued)
        /\ Begun("disposed").generation = auth.generation + 1
        /\ Begun("disposed").session = 0 /\ Begun("disposed").status = "disposed"
      BY <1>0, <2>1, OfBegun
  <2>3. QED
      BY <1>2, <2>2 DEF Client
<1>10. /\ transport' \in [generation : Nat, session : 0..issued]
       /\ transport'.generation \in Nat /\ transport.generation < transport'.generation
  <2>1. /\ transport' = [generation |-> transport.generation + 1, session |-> 0]
        /\ 0 \in 0..issued
      BY <1>0 DEF DisposeAuth
  <2>2. QED
      BY <1>0, <2>1
<1>11. Overtaken /\ ServerGrows
    BY <1>0, <1>1, <1>9, <1>10 DEF Overtaken, ServerGrows, serverState
<1>12. AuthTyped' /\ ClientHolds'
    BY <1>1, <1>7, <1>9, <1>10, GivingUp DEF SignedIn
<1>13. CallHolds(o)'
  <2>1. Consistent(o)' /\ Begins(o)'
      BY <1>0, <1>3, <1>8, <1>9 DEF Consistent, Begins, SigningIn, Renewing
  <2>2. ~Acts(o)'
      BY <1>3, <1>8 DEF Acts, Obtaining
  <2>3. InTransport(o)' /\ Obtained(o)' /\ IsStored(o)' /\ Operates(o)'
      BY <1>3, <1>8, <2>2 DEF InTransport, Obtained, IsStored, Operates
  <2>4. QED
      BY <2>1, <2>2, <2>3 DEF CallHolds
<1>14. CallsHold'
    BY <1>8, <1>11, <1>13, OvertakenCalls
<1>15. OneSignIn'
    BY <1>0, <1>3, <1>8, SignInsKeep DEF SigningIn
<1>16. QueueHolds'
  <2>1. request[o].phase \notin Waiting
      BY <1>0, <1>1, NotMade DEF CallsHold
  <2>2. LeavesWaiting
      BY <1>8, <2>1 DEF LeavesWaiting
  <2>3. QED
      BY <1>1, <1>11, <2>2, ClearQueued
<1>17. QED
    BY <1>12, <1>14, <1>15, <1>16 DEF AuthInv

LEMMA RestoreStep ==
    ASSUME AuthInv, NEW o \in AuthCalls, Restore(o)
    PROVE  AuthInv'
<1>0. /\ AuthTyped /\ CallsHold /\ OneSignIn /\ QueueHolds /\ ClientHolds
      /\ auth.generation \in Nat /\ transport.generation \in Nat /\ issued \in Nat
      /\ transport.session \in 0..issued
    BY OfClient DEF AuthInv
<1> DEFINE phase == IF hasStore THEN "reading" ELSE "checking"
           t == IF hasStore THEN 0 ELSE transport.session
           w == [NoRequest EXCEPT !.op = "restore", !.phase = phase,
                                  !.generation = auth.generation + 1, !.token = t]
<1>1. /\ request[o].op = "none" /\ ~auth.disposed
      /\ UNCHANGED <<authSetup, store, serverState, revoked, unreliable>>
      /\ storage' = Enqueued(Queued("read", o, 0, 0))
      /\ transport' = [transport EXCEPT !.generation = @ + 1]
    BY DEF Restore, Starts
<1>2. request' = [request EXCEPT ![o] = w] /\ auth' = Begun("authenticating")
    BY DEF Restore
<1>3. /\ w.op = "restore" /\ w.phase = phase /\ w.account = Nobody /\ w.goal = "none"
      /\ w.generation = auth.generation + 1 /\ w.renewing = 0 /\ w.sent = 0 /\ w.token = t
    BY DEF NoRequest
<1>4. w \in Request(issued)
  <2>1. t \in 0..issued /\ auth.generation + 1 \in Nat /\ phase \in {"reading", "checking"}
      BY <1>0
  <2>2. QED
      BY <2>1 DEF NoRequest, Request, SigningIn
<1>5. /\ phase = "reading" <=> hasStore
      /\ phase \in {"reading", "checking"}
      /\ ~hasStore => t = transport.session
    OBVIOUS
<1> HIDE DEF w, phase, t
<1>6. request' \in [AuthCalls -> Request(issued)]
    BY <1>0, <1>2, <1>4 DEF AuthTyped, CallsTyped
<1>7. request'[o] = w /\ \A p \in AuthCalls \ {o} : request'[p] = request[p]
    BY <1>0, <1>2 DEF AuthTyped, CallsTyped
<1>8. /\ auth' \in Client(issued) /\ auth'.generation = auth.generation + 1
      /\ auth'.session = 0 /\ auth'.status = "authenticating"
      /\ auth'.disposed = auth.disposed
  <2>1. "authenticating" \in Statuses
      BY DEF Statuses
  <2>2. QED
      BY <1>0, <1>2, <2>1, OfBegun
<1>9. /\ transport' \in [generation : Nat, session : 0..issued]
      /\ transport'.generation = transport.generation + 1
      /\ transport'.session = transport.session
  <2>1. transport \in [generation : Nat, session : 0..issued]
      BY <1>0, OfClient
  <2>2. QED
      BY <1>1, <2>1
<1>10. Overtaken /\ ServerGrows
    BY <1>0, <1>1, <1>8, <1>9 DEF Overtaken, ServerGrows, serverState
<1>11. PICK e : e = Queued("read", o, 0, 0)
    OBVIOUS
<1>12. e \in StorageOp(issued) /\ e.op = "read" /\ e.call = o
  <2>1. 0 \in 0..issued
      BY <1>0
  <2>2. QED
      BY <1>11, <2>1 DEF Queued, StorageOp
<1>13. storage' = IF hasStore THEN Append(storage, e) ELSE storage
    BY <1>1, <1>11 DEF Enqueued
<1>14. AuthTyped'
  <2>1. storage' \in Seq(StorageOp(issued))
      BY <1>0, <1>12, <1>13 DEF AuthTyped, StoreTyped
  <2>2. QED
      BY <1>0, <1>1, <1>6, <1>8, <1>9, <2>1
      DEF AuthTyped, ClientTyped, ServerTyped, StoreTyped, CallsTyped, serverState
<1>15. hasStore' = hasStore
    BY <1>1 DEF hasStore
<1>16. CallHolds(o)'
  <2>1. Consistent(o)' /\ Begins(o)'
      BY <1>0, <1>3, <1>5, <1>7, <1>8 DEF Consistent, Begins, SigningIn, Renewing
  <2>2. ShownFor(o)'
      BY <1>3, <1>7, <1>8 DEF ShownFor, Renewing
  <2>3. InTransport(o)'
      BY <1>3, <1>5, <1>7, <1>9, <1>15 DEF InTransport
  <2>4. Obtained(o)'
    <3>1. ~hasStore => transport.session \notin revoked
        BY <1>0 DEF ClientHolds, Storeless
    <3>2. request'[o].phase = "checking" => request'[o].token \notin revoked'
        BY <1>1, <1>3, <1>5, <1>7, <3>1
    <3>3. QED
        BY <1>3, <1>5, <1>7, <3>2 DEF Obtained
  <2>5. IsStored(o)' /\ Operates(o)'
      BY <1>3, <1>5, <1>7 DEF IsStored, Operates
  <2>6. QED
      BY <2>1, <2>2, <2>3, <2>4, <2>5 DEF CallHolds
<1>17. CallsHold'
    BY <1>7, <1>10, <1>16, OvertakenCalls
<1>18. OneSignIn'
    BY <1>0, <1>3, <1>7, NewSignIn
<1>19. QueueHolds'
  <2>1. request[o].phase \notin Waiting
      BY <1>0, <1>1, NotMade DEF CallsHold
  <2>2. LeavesWaiting
      BY <1>7, <2>1 DEF LeavesWaiting
  <2>3. CASE hasStore
    <3>1. IsOf(e)'
        BY <1>3, <1>5, <1>7, <1>12, <2>3 DEF IsOf
    <3>2. storage' = Append(storage, e)
        BY <1>13, <2>3
    <3>3. QED
        BY <1>0, <1>10, <1>12, <2>1, <2>2, <3>1, <3>2, QueueAppends
  <2>4. CASE ~hasStore
    <3>1. storage' = storage
        BY <1>13, <2>4
    <3>2. QED
        BY <1>0, <1>10, <2>2, <3>1, QueueKeeps
  <2>5. QED
      BY <2>3, <2>4
<1>20. ClientHolds'
  <2>1. SignedInAsShown'
      BY <1>8 DEF SignedInAsShown
  <2>2. NoClear' <=> NoClear
    <3>1. CASE hasStore
      <4>1. storage' = Append(storage, e)
          BY <1>13, <3>1
      <4>2. QED
          BY <1>0, <1>12, <4>1, AppendClears
    <3>2. CASE ~hasStore
        BY <1>13, <3>2 DEF NoClear
    <3>3. QED
        BY <3>1, <3>2
  <2>3. 0 \notin revoked
      BY <1>0 DEF AuthTyped, StoreTyped
  <2>4. StoreAgrees'
      BY <1>0, <1>1, <1>8, <2>2, <2>3 DEF StoreAgrees, ClientHolds
  <2>5. Storeless'
      BY <1>0, <1>1, <1>9, <1>13, <1>15 DEF Storeless, ClientHolds
  <2>6. QED
      BY <2>1, <2>4, <2>5 DEF ClientHolds
<1>21. QED
    BY <1>14, <1>17, <1>18, <1>19, <1>20 DEF AuthInv

\* A call is left alone, or ends.
Ends(o) ==
    \/ request'[o] = request[o]
    \/ /\ request[o].phase # "failed"
       /\ \E outcome \in Over :
            /\ request'[o] = [request[o] EXCEPT !.phase = outcome]
            /\ outcome \in {"renewed", "unrenewed"} => request[o].op \in Renewing

\* revoke(status): all calls are overtaken, some end.
LEMMA RevokeStep ==
    ASSUME AuthInv, NEW status \in Statuses \ SignedIn, Revoke(status),
           UNCHANGED <<authSetup, store, serverState, unreliable>>,
           request' \in [AuthCalls -> Request(issued)], LeavesWaiting,
           \A p \in AuthCalls : Ends(p)
    PROVE  AuthInv'
<1>0. /\ AuthTyped /\ CallsHold /\ OneSignIn /\ QueueHolds
      /\ auth.generation \in Nat /\ transport.generation \in Nat /\ issued \in Nat
    BY OfClient DEF AuthInv
<1>1. /\ auth' = [Begun(status) EXCEPT !.account = Nobody]
      /\ transport' = [generation |-> transport.generation + 1, session |-> 0]
      /\ storage' = Enqueued(Queued("clear", Nobody, 0, 0)) /\ GivenUp
    BY DEF Revoke
<1>2. /\ auth' \in Client(issued) /\ auth'.generation = auth.generation + 1
      /\ auth'.session = 0 /\ auth'.status = status
    BY <1>0, <1>1, OfBegunAlone
<1>3. /\ transport' \in [generation : Nat, session : 0..issued]
      /\ transport'.generation \in Nat /\ transport.generation < transport'.generation
  <2>1. 0 \in 0..issued
      BY <1>0
  <2>2. QED
      BY <1>0, <1>1, <2>1
<1>4. Overtaken /\ ServerGrows
    BY <1>0, <1>2, <1>3 DEF Overtaken, ServerGrows, serverState
<1>5. AuthTyped' /\ ClientHolds'
    BY <1>1, <1>2, <1>3, GivingUp
<1>6. CallsHold'
  <2>1. SUFFICES ASSUME NEW p \in AuthCalls PROVE CallHolds(p)'
      BY DEF CallsHold
  <2>2. CallHolds(p) /\ Ends(p)
      BY <1>0 DEF CallsHold
  <2>3. CASE request'[p] = request[p]
      BY <1>0, <1>4, <2>2, <2>3, OvertakenKeeps
  <2>4. CASE request'[p] # request[p]
    <3>1. PICK outcome \in Over :
            /\ request'[p] = [request[p] EXCEPT !.phase = outcome]
            /\ outcome \in {"renewed", "unrenewed"} => request[p].op \in Renewing
            /\ request[p].phase # "failed"
        BY <2>2, <2>4 DEF Ends
    <3>2. QED
        BY <1>0, <1>4, <2>2, <3>1, OverKeeps
  <2>5. QED
      BY <2>3, <2>4
<1>7. OneSignIn'
  <2>1. ASSUME NEW p \in AuthCalls
        PROVE  request'[p].op = request[p].op /\ request'[p].generation = request[p].generation
    <3>1. request[p] \in Request(issued)
        BY <1>0, OfCall
    <3>2. QED
        BY <3>1 DEF Ends, Request
  <2>2. QED
      BY <1>0, <2>1, SignInsKeep
<1>8. QueueHolds'
    BY <1>1, <1>4, ClearQueued
<1>9. QED
    BY <1>5, <1>6, <1>7, <1>8 DEF AuthInv

-----------------------------------------------------------------------------
(* Steps that leave what the client holds.                                  *)

\* The session stays; the client waits for a renewal, or tells that somebody has
\* to sign in.
QuietClient ==
    /\ SameTime /\ auth'.session = auth.session /\ auth'.account = auth.account
    /\ \/ auth'.status = auth.status
       \/ auth.status = "signed_out" /\ auth'.status = "auth_required"
       \/ auth.status = "authenticated" /\ auth'.status = "refreshing"

LEMMA QuietStep ==
    ASSUME AuthInv, AuthTyped', QuietClient, ServerGrows, LeavesWaiting,
           UNCHANGED <<authSetup, storage, transport, store, revoked, unreliable>>,
           \A p \in AuthCalls :
              \/ CallHolds(p)'
              \/ request'[p] = request[p] /\ (auth.refreshing = p => auth'.refreshing = p),
           \A p \in AuthCalls :
              \/ request'[p].op \notin SigningIn
              \/ /\ request'[p].op = request[p].op
                 /\ request'[p].generation = request[p].generation
    PROVE  AuthInv'
<1>0. /\ AuthTyped /\ CallsHold /\ OneSignIn /\ QueueHolds /\ ClientHolds
      /\ auth.session \in 0..issued /\ issued \in Nat
    BY OfClient DEF AuthInv
<1>1. NoClear' <=> NoClear
    BY DEF NoClear
<1>2. Steady
    BY DEF QuietClient, Steady, SignedIn
<1>3. Quiet
    BY <1>1, <1>2 DEF Quiet, QuietClient
<1>4. CallsHold'
  <2>1. SUFFICES ASSUME NEW p \in AuthCalls PROVE CallHolds(p)'
      BY DEF CallsHold
  <2>2. CASE request'[p] = request[p] /\ (auth.refreshing = p => auth'.refreshing = p)
    <3>1. CallHolds(p)
        BY <1>0 DEF CallsHold
    <3>2. QED
        BY <1>0, <1>3, <2>2, <3>1, QuietKeeps
  <2>3. QED
      BY <2>2
<1>5. OneSignIn'
    BY <1>0, SignInsKeep
<1>6. QueueHolds'
    BY <1>0, QueueKeeps DEF QuietClient
<1>7. ClientHolds'
  <2>1. SignedInAsShown'
    <3>1. SUFFICES ASSUME auth'.status \in SignedIn
                   PROVE  auth'.session # 0 /\ accountOf'[auth'.session] = auth'.account
        BY DEF SignedInAsShown, SignedIn
    <3>2. auth.status \in SignedIn
        BY <3>1 DEF QuietClient, SignedIn
    <3>3. auth.session # 0 /\ accountOf[auth.session] = auth.account
        BY <1>0, <3>2 DEF SignedInAsShown, ClientHolds, SignedIn
    <3>4. accountOf'[auth.session] = accountOf[auth.session]
        BY <1>0, <3>3 DEF ServerGrows
    <3>5. QED
        BY <3>3, <3>4 DEF QuietClient
  <2>2. hasStore' = hasStore
      BY DEF hasStore
  <2>3. StoreAgrees'
    <3>1. StoreAgrees
        BY <1>0 DEF ClientHolds
    <3>2. auth'.status = "authenticated" => auth.status = "authenticated"
        BY DEF QuietClient
    <3>3. /\ auth'.session = auth.session /\ auth'.account = auth.account /\ store' = store
          /\ revoked' = revoked /\ unreliable' = unreliable
        BY DEF QuietClient
    <3>4. QED
        BY <1>1, <2>2, <3>1, <3>2, <3>3 DEF StoreAgrees, Kept
  <2>4. Storeless'
      BY <1>0, <2>2 DEF Storeless, ClientHolds
  <2>5. QED
      BY <2>1, <2>3, <2>4 DEF ClientHolds
<1>8. QED
    BY <1>4, <1>5, <1>6, <1>7 DEF AuthInv

\* Calls end.
LEMMA EndsStep ==
    ASSUME AuthInv, AuthTyped', QuietClient, ServerGrows, LeavesWaiting,
           UNCHANGED <<authSetup, storage, transport, store, revoked, unreliable>>,
           \A p \in AuthCalls :
              Ends(p) /\ (request'[p] = request[p] /\ auth.refreshing = p => auth'.refreshing = p)
    PROVE  AuthInv'
<1>0. AuthTyped /\ CallsHold
    BY DEF AuthInv
<1>1. ASSUME NEW p \in AuthCalls, request'[p] # request[p]
      PROVE  CallHolds(p)'
  <2>1. CallHolds(p)
      BY <1>0 DEF CallsHold
  <2>2. PICK outcome \in Over :
          /\ request'[p] = [request[p] EXCEPT !.phase = outcome]
          /\ outcome \in {"renewed", "unrenewed"} => request[p].op \in Renewing
          /\ request[p].phase # "failed"
      BY <1>1 DEF Ends
  <2>3. SameTime /\ Steady
      BY DEF QuietClient, Steady, SignedIn
  <2>4. QED
      BY <1>0, <2>1, <2>2, <2>3, OverKeeps
<1>2. ASSUME NEW p \in AuthCalls
      PROVE  request'[p].op = request[p].op /\ request'[p].generation = request[p].generation
  <2>1. request[p] \in Request(issued)
      BY <1>0, OfCall
  <2>2. QED
      BY <2>1 DEF Ends, Request
<1>3. \A p \in AuthCalls :
        \/ CallHolds(p)'
        \/ request'[p] = request[p] /\ (auth.refreshing = p => auth'.refreshing = p)
    BY <1>1
<1>4. QED
    BY <1>2, <1>3, QuietStep

\* A server that issued more sessions leaves all typed.
LEMMA TypedGrows ==
    ASSUME AuthTyped, ServerTyped', ServerGrows
    PROVE  /\ auth \in Client(issued') /\ transport \in [generation : Nat, session : 0..issued']
           /\ store \in 0..issued' /\ storage \in Seq(StorageOp(issued'))
           /\ revoked \subseteq 1..issued'
           /\ request \in [AuthCalls -> Request(issued')]
           /\ Request(issued) \subseteq Request(issued')
<1>1. issued \in Nat /\ issued' \in Nat /\ issued <= issued'
    BY OfClient DEF ServerGrows
<1>2. PICK n \in Nat, m \in Nat : n = issued /\ m = issued'
    BY <1>1
<1>3. /\ 0..n \subseteq 0..m /\ 1..n \subseteq 1..m
      /\ Client(n) \subseteq Client(m) /\ Request(n) \subseteq Request(m)
      /\ Seq(StorageOp(n)) \subseteq Seq(StorageOp(m))
    BY <1>1, <1>2, Grows
<1>4. /\ auth \in Client(n) /\ transport \in [generation : Nat, session : 0..n]
      /\ store \in 0..n /\ storage \in Seq(StorageOp(n)) /\ revoked \subseteq 1..n
      /\ request \in [AuthCalls -> Request(n)]
    BY <1>2 DEF AuthTyped, ClientTyped, StoreTyped, CallsTyped
<1>5. /\ auth \in Client(m) /\ transport \in [generation : Nat, session : 0..m]
      /\ store \in 0..m /\ storage \in Seq(StorageOp(m)) /\ revoked \subseteq 1..m
      /\ request \in [AuthCalls -> Request(m)]
    BY <1>3, <1>4
<1>6. QED
    BY <1>2, <1>3, <1>5

\* The server issues a session.
LEMMA IssuesKeeps ==
    ASSUME AuthTyped, NEW a \in Accounts, Issues(a)
    PROVE  /\ ServerTyped' /\ ServerGrows
           /\ issued' = issued + 1 /\ accountOf'[issued + 1] = a /\ issued \in Nat
<1>1. /\ issued \in Nat /\ MaxTokens \in Nat /\ accountOf \in [Tokens -> Accounts]
      /\ expiring \subseteq 1..issued /\ authSetup \in AuthSetups
    BY OfClient DEF AuthTyped, ServerTyped, ClientTyped
<1>2. authSetup.tokens \in 0..MaxTokens
    BY <1>1, AuthAssumption DEF AuthAssumption
<1>3. /\ issued < authSetup.tokens /\ issued' = issued + 1 /\ expiring' = expiring
      /\ accountOf' = [accountOf EXCEPT ![issued + 1] = a]
    BY DEF Issues
<1>4. issued + 1 \in Tokens /\ issued + 1 \in 0..MaxTokens
    BY <1>1, <1>2, <1>3 DEF Tokens
<1>5. accountOf' \in [Tokens -> Accounts] /\ accountOf'[issued + 1] = a
    BY <1>1, <1>3, <1>4
<1>6. \A t \in 1..issued : accountOf'[t] = accountOf[t]
    BY <1>1, <1>3
<1>7. expiring' \subseteq 1..issued'
    BY <1>1, <1>3
<1>8. QED
    BY <1>1, <1>3, <1>4, <1>5, <1>6, <1>7 DEF ServerTyped, ServerGrows

\* A call is over, and nothing else changes but what the server issued.
LEMMA DoneStep ==
    ASSUME AuthInv, NEW o \in AuthCalls, NEW outcome \in {"ok", "failed"}, Done(o, outcome),
           request[o].phase \notin Waiting \cup {"failed"},
           ServerTyped', ServerGrows,
           UNCHANGED <<authSetup, auth, storage, transport, store, revoked, unreliable>>
    PROVE  AuthInv'
<1>0. AuthTyped
    BY DEF AuthInv
<1> DEFINE w == [request[o] EXCEPT !.phase = outcome]
<1>1. request[o] \in Request(issued) /\ request \in [AuthCalls -> Request(issued)]
    BY <1>0, OfCall DEF AuthTyped, CallsTyped
<1>2. w \in Request(issued)
    BY <1>1 DEF Request
<1>3. request' = [request EXCEPT ![o] = w]
    BY <1>1 DEF Done
<1>4. request'[o] = w /\ \A p \in AuthCalls \ {o} : request'[p] = request[p]
    BY <1>1, <1>3
<1>5. AuthTyped'
  <2>1. /\ auth \in Client(issued') /\ transport \in [generation : Nat, session : 0..issued']
        /\ store \in 0..issued' /\ storage \in Seq(StorageOp(issued'))
        /\ revoked \subseteq 1..issued'
        /\ request \in [AuthCalls -> Request(issued')]
        /\ w \in Request(issued')
      BY <1>0, <1>2, TypedGrows
  <2>2. request' \in [AuthCalls -> Request(issued')]
      BY <1>3, <2>1
  <2>3. QED
      BY <1>0, <2>1, <2>2 DEF AuthTyped, ClientTyped, StoreTyped, CallsTyped
<1>6. QuietClient
    BY DEF QuietClient, SameTime
<1>7. LeavesWaiting
    BY <1>4 DEF LeavesWaiting
<1>8. \A p \in AuthCalls : Ends(p)
    BY <1>4 DEF Ends, Over
<1>9. QED
    BY <1>5, <1>6, <1>7, <1>8, EndsStep

\* A call that renews, or asks for a session, goes on.
LEMMA RequestStep ==
    ASSUME AuthInv, NEW o \in AuthCalls, NEW w \in Request(issued),
           request' = [request EXCEPT ![o] = w], CallHolds(o)', w.op \notin SigningIn,
           request[o].phase \notin Waiting,
           auth' \in Client(issued), QuietClient,
           \A p \in AuthCalls \ {o} : auth.refreshing = p => auth'.refreshing = p,
           UNCHANGED <<authSetup, storage, transport, store, serverState, revoked, unreliable>>
    PROVE  AuthInv'
<1>0. AuthTyped /\ request \in [AuthCalls -> Request(issued)] /\ issued \in Nat
    BY OfClient DEF AuthInv, AuthTyped, CallsTyped
<1>1. request'[o] = w /\ \A p \in AuthCalls \ {o} : request'[p] = request[p]
    BY <1>0
<1>2. AuthTyped'
  <2>1. request' \in [AuthCalls -> Request(issued)]
      BY <1>0
  <2>2. QED
      BY <1>0, <2>1 DEF AuthTyped, ClientTyped, ServerTyped, StoreTyped, CallsTyped, serverState
<1>3. ServerGrows
    BY <1>0 DEF ServerGrows, serverState
<1>4. LeavesWaiting
    BY <1>1 DEF LeavesWaiting
<1>5. \A p \in AuthCalls :
         \/ CallHolds(p)'
         \/ request'[p] = request[p] /\ (auth.refreshing = p => auth'.refreshing = p)
    BY <1>1
<1>6. \A p \in AuthCalls :
         \/ request'[p].op \notin SigningIn
         \/ /\ request'[p].op = request[p].op
            /\ request'[p].generation = request[p].generation
    BY <1>1
<1>7. QED
    BY <1>2, <1>3, <1>4, <1>5, <1>6, QuietStep

\* Those that wait for the renewal of o go on, and o.
LEMMA RenewedEnds ==
    ASSUME AuthTyped, CallsHold, NEW o \in AuthCalls, NEW outcome \in {"renewed", "unrenewed"},
           request[o].op \in Renewing, request[o].phase \notin Waiting \cup Over,
           request' = Renewed(o, outcome)
    PROVE  /\ request' \in [AuthCalls -> Request(issued)]
           /\ LeavesWaiting /\ request'[o] # request[o]
           /\ \A p \in AuthCalls : Ends(p)
<1>1. ASSUME NEW p \in AuthCalls
      PROVE  /\ [request[p] EXCEPT !.phase = outcome] \in Request(issued)
             /\ [request[p] EXCEPT !.phase = outcome].phase = outcome
  <2>1. request[p] \in Request(issued)
      BY OfCall
  <2>2. QED
      BY <2>1 DEF Request
<1>2. \A p \in AuthCalls :
         request'[p] = IF p = o \/ (request[p].phase = "joining" /\ request[p].joined = o)
                       THEN [request[p] EXCEPT !.phase = outcome] ELSE request[p]
    BY DEF Renewed
<1>3. request' \in [AuthCalls -> Request(issued)]
  <2>1. \A p \in AuthCalls : request[p] \in Request(issued)
      BY OfCall
  <2>2. \A p \in AuthCalls : request'[p] \in Request(issued)
      BY <1>1, <1>2, <2>1
  <2>3. QED
      BY <2>2 DEF Renewed
<1>4. ASSUME NEW p \in AuthCalls, request'[p] # request[p]
      PROVE  /\ request'[p] = [request[p] EXCEPT !.phase = outcome]
             /\ request[p].phase \notin Waiting \cup {"failed"}
             /\ request[p].op \in Renewing
  <2>1. CASE p = o
      BY <1>2, <1>4, <2>1 DEF Over
  <2>2. CASE p # o
    <3>1. request[p].phase = "joining" /\ request'[p] = [request[p] EXCEPT !.phase = outcome]
        BY <1>2, <1>4, <2>2
    <3>2. Consistent(p)
        BY DEF CallsHold, CallHolds
    <3>3. QED
        BY <3>1, <3>2 DEF Consistent, Waiting
  <2>3. QED
      BY <2>1, <2>2
<1>5. request'[o] # request[o]
    BY <1>1, <1>2 DEF Over
<1>6. QED
    BY <1>3, <1>4, <1>5 DEF LeavesWaiting, Ends, Over

\* An error is caught.
LEMMA FailStep ==
    ASSUME AuthInv, NEW o \in AuthCalls, AuthFails(o),
           UNCHANGED <<authSetup, store, unreliable>>, ServerTyped', ServerGrows,
           UNCHANGED serverState \/ ~IsCurrent(Under(o)),
           request[o].phase \notin Waiting \cup Over
    PROVE  AuthInv'
<1>0. /\ AuthTyped /\ CallsHold /\ request \in [AuthCalls -> Request(issued)]
      /\ request[o] \in Request(issued)
    BY OfCall DEF AuthInv, AuthTyped, CallsTyped
<1> DEFINE renews == request[o].op \in Renewing
           status == IF renews \/ request[o].op = "restore" THEN "auth_required" ELSE "error"
<1>1. /\ request' = IF renews THEN Renewed(o, "unrenewed")
                    ELSE [request EXCEPT ![o].phase = "failed"]
      /\ \/ IsCurrent(Under(o)) /\ Revoke(status)
         \/ /\ ~IsCurrent(Under(o))
            /\ auth' = [auth EXCEPT !.refreshing = Settled(o)]
            /\ UNCHANGED <<storage, transport, revoked>>
    BY DEF AuthFails, Under, Renewing
<1>2. status \in Statuses \ SignedIn
    BY DEF Statuses, SignedIn
<1> HIDE DEF status
<1>3. /\ request' \in [AuthCalls -> Request(issued)]
      /\ LeavesWaiting /\ request'[o] # request[o]
      /\ \A p \in AuthCalls : Ends(p)
  <2>1. CASE renews
      BY <1>0, <1>1, <2>1, RenewedEnds
  <2>2. CASE ~renews
    <3>1. request' = [request EXCEPT ![o].phase = "failed"]
        BY <1>1, <2>2
    <3>2. request' = [request EXCEPT ![o] = [request[o] EXCEPT !.phase = "failed"]]
        BY <1>0, <3>1
    <3>3. /\ [request[o] EXCEPT !.phase = "failed"] \in Request(issued)
          /\ [request[o] EXCEPT !.phase = "failed"].phase = "failed"
        BY <1>0 DEF Request
    <3>4. /\ request' \in [AuthCalls -> Request(issued)]
          /\ request'[o] = [request[o] EXCEPT !.phase = "failed"]
          /\ \A p \in AuthCalls \ {o} : request'[p] = request[p]
        BY <1>0, <3>2, <3>3
    <3>5. \A p \in AuthCalls : Ends(p)
        BY <3>4 DEF Ends, Over
    <3>6. LeavesWaiting
        BY <3>4 DEF LeavesWaiting
    <3>7. QED
        BY <3>3, <3>4, <3>5, <3>6 DEF Over
  <2>3. QED
      BY <2>1, <2>2
<1>4. CASE IsCurrent(Under(o)) /\ Revoke(status)
  <2>1. UNCHANGED <<authSetup, store, serverState, unreliable>>
      BY <1>4
  <2>2. QED
      BY <1>2, <1>3, <1>4, <2>1, RevokeStep
<1>5. CASE /\ auth' = [auth EXCEPT !.refreshing = Settled(o)]
           /\ UNCHANGED <<storage, transport, revoked>>
  <2>1. /\ auth \in Client(issued') /\ transport \in [generation : Nat, session : 0..issued']
        /\ store \in 0..issued' /\ storage \in Seq(StorageOp(issued'))
        /\ revoked \subseteq 1..issued'
        /\ Request(issued) \subseteq Request(issued')
      BY <1>0, TypedGrows
  <2>2. Settled(o) \in AuthCalls \cup {Nobody}
      BY <1>0, OfClient DEF Settled
  <2>3. auth' \in Client(issued')
      BY <1>5, <2>1, <2>2 DEF Client
  <2>4. /\ auth'.generation = auth.generation /\ auth'.disposed = auth.disposed
        /\ auth'.session = auth.session /\ auth'.account = auth.account
        /\ auth'.status = auth.status /\ auth'.refreshing = Settled(o)
      BY <1>5, <2>1 DEF Client
  <2>5. AuthTyped'
    <3>1. request' \in [AuthCalls -> Request(issued')]
        BY <1>3, <2>1
    <3>2. QED
        BY <1>0, <1>5, <2>1, <2>3, <3>1 DEF AuthTyped, ClientTyped, StoreTyped, CallsTyped
  <2>6. QuietClient
      BY <2>4 DEF QuietClient, SameTime
  <2>7. \A p \in AuthCalls :
            Ends(p) /\ (request'[p] = request[p] /\ auth.refreshing = p => auth'.refreshing = p)
      BY <1>3, <2>4 DEF Settled
  <2>8. QED
      BY <1>3, <1>5, <2>5, <2>6, <2>7, EndsStep
<1>6. QED
    BY <1>1, <1>4, <1>5

LEMMA SignInFailsStep ==
    ASSUME AuthInv, NEW o \in AuthCalls, SignInFails(o)
    PROVE  AuthInv'
<1>1. AuthTyped
    BY DEF AuthInv
<1>2. ServerTyped' /\ ServerGrows
    BY <1>1, OfClient DEF SignInFails, serverState, AuthTyped, ServerTyped, ServerGrows
<1>3. request[o].phase \notin Waiting \cup Over
    BY DEF SignInFails, Waiting, Over
<1>4. AuthFails(o) /\ UNCHANGED <<authSetup, store, serverState, unreliable>>
    BY DEF SignInFails
<1>5. QED
    BY <1>2, <1>3, <1>4, FailStep

LEMMA RenewalFailsStep ==
    ASSUME AuthInv, NEW o \in AuthCalls, RenewalFails(o)
    PROVE  AuthInv'
<1>1. AuthTyped
    BY DEF AuthInv
<1>2. ServerTyped' /\ ServerGrows
    BY <1>1, OfClient DEF RenewalFails, serverState, AuthTyped, ServerTyped, ServerGrows
<1>3. request[o].phase \notin Waiting \cup Over
    BY DEF RenewalFails, Waiting, Over
<1>4. AuthFails(o) /\ UNCHANGED <<authSetup, store, serverState, unreliable>>
    BY DEF RenewalFails
<1>5. QED
    BY <1>2, <1>3, <1>4, FailStep

LEMMA LogoutFailsStep ==
    ASSUME AuthInv, NEW o \in AuthCalls, LogoutFails(o)
    PROVE  AuthInv'
<1>1. AuthTyped
    BY DEF AuthInv
<1>2. ServerTyped' /\ ServerGrows
    BY <1>1, OfClient DEF LogoutFails, serverState, AuthTyped, ServerTyped, ServerGrows
<1>3. request[o].phase \notin Waiting \cup Over
    BY DEF LogoutFails, Waiting, Over
<1>4. AuthFails(o) /\ UNCHANGED <<authSetup, store, serverState, unreliable>>
    BY DEF LogoutFails
<1>5. QED
    BY <1>2, <1>3, <1>4, FailStep

LEMMA RestoreSupersededStep ==
    ASSUME AuthInv, NEW o \in AuthCalls, RestoreSuperseded(o)
    PROVE  AuthInv'
<1>1. AuthTyped
    BY DEF AuthInv
<1>2. UNCHANGED <<clientState, store, serverState, revoked, unreliable>>
    BY DEF RestoreSuperseded
<1>3. ServerTyped' /\ ServerGrows
    BY <1>1, <1>2, OfClient DEF serverState, AuthTyped, ServerTyped, ServerGrows
<1>4. request[o].phase \notin Waiting \cup {"failed"} /\ Done(o, "ok")
    BY DEF RestoreSuperseded, Waiting
<1>5. QED
    BY <1>2, <1>3, <1>4, DoneStep DEF clientState

LEMMA OperatedStep ==
    ASSUME AuthInv, NEW o \in AuthCalls, NEW outcome \in {"ok", "failed"}, Operated(o, outcome)
    PROVE  AuthInv'
<1>1. AuthTyped
    BY DEF AuthInv
<1>2. UNCHANGED <<clientState, store, serverState, revoked, unreliable>>
    BY DEF Operated
<1>3. ServerTyped' /\ ServerGrows
    BY <1>1, <1>2, OfClient DEF serverState, AuthTyped, ServerTyped, ServerGrows
<1>4. request[o].phase \notin Waiting \cup {"failed"}
    BY DEF Operated, Waiting
<1>5. PICK out \in {"ok", "failed"} : Done(o, out)
    BY DEF Operated
<1>6. QED
    BY <1>2, <1>3, <1>4, <1>5, DoneStep DEF clientState

LEMMA UnauthorizedAgainStep ==
    ASSUME AuthInv, NEW o \in AuthCalls, UnauthorizedAgain(o)
    PROVE  AuthInv'
<1>0. /\ AuthTyped /\ request \in [AuthCalls -> Request(issued)]
      /\ request[o] \in Request(issued)
    BY OfCall DEF AuthInv, AuthTyped, CallsTyped
<1>1. /\ request[o].phase = "repeating" /\ Done(o, "failed")
      /\ UNCHANGED <<authSetup, store, serverState, unreliable>>
    BY DEF UnauthorizedAgain
<1>2. ServerTyped' /\ ServerGrows
    BY <1>0, <1>1, OfClient DEF serverState, AuthTyped, ServerTyped, ServerGrows
<1>3. CASE Revoke("auth_required")
  <2>1. request' = [request EXCEPT ![o] = [request[o] EXCEPT !.phase = "failed"]]
      BY <1>0, <1>1 DEF Done
  <2>2. [request[o] EXCEPT !.phase = "failed"] \in Request(issued)
      BY <1>0 DEF Request
  <2>3. /\ request' \in [AuthCalls -> Request(issued)]
        /\ request'[o] = [request[o] EXCEPT !.phase = "failed"]
        /\ \A p \in AuthCalls \ {o} : request'[p] = request[p]
      BY <1>0, <2>1, <2>2
  <2>4. \A p \in AuthCalls : Ends(p)
      BY <1>1, <2>3 DEF Ends, Over
  <2>5. LeavesWaiting
      BY <1>1, <2>3 DEF LeavesWaiting, Waiting
  <2>6. "auth_required" \in Statuses \ SignedIn
      BY DEF Statuses, SignedIn
  <2>7. QED
      BY <1>1, <1>3, <2>3, <2>4, <2>5, <2>6, RevokeStep
<1>4. CASE UNCHANGED <<auth, storage, transport, revoked>>
  <2>1. request[o].phase \notin Waiting \cup {"failed"}
      BY <1>1 DEF Waiting
  <2>2. QED
      BY <1>1, <1>2, <1>4, <2>1, DoneStep
<1>5. QED
    BY <1>3, <1>4 DEF UnauthorizedAgain

-----------------------------------------------------------------------------
(* Asking for a renewal, and for a session.                                 *)

\* What a call wants a renewal for fits what it is.
Wants(op, goal) ==
    /\ goal = "return" => op = "refresh"
    /\ goal \in {"provide", "handover"} => op \in {"session", "retry"}
    /\ goal = "again" => op = "retry"

\* Call r, in any phase, may ask for a session.
Asking(r) ==
    /\ r \in Request(issued) /\ r.op \in Renewing
    /\ r.generation <= auth.generation /\ r.renewing <= auth.generation
    /\ Wants(r.op, r.goal)
    /\ IsCurrent(r.generation) /\ r.goal = "again" => auth.status \in SignedIn

LEMMA AskRenewalStep ==
    ASSUME AuthInv, NEW o \in AuthCalls, NEW r, Asking(r),
           NEW goal \in {"return", "provide", "handover", "again"}, Wants(r.op, goal),
           IsCurrent(r.generation) /\ goal = "again" => auth.status \in SignedIn,
           request[o].phase \notin Waiting, AskRenewal(o, r, goal),
           UNCHANGED <<authSetup, storage, transport, store, serverState, revoked, unreliable>>
    PROVE  AuthInv'
<1>0. /\ AuthTyped /\ auth \in Client(issued) /\ auth.generation \in Nat
      /\ request \in [AuthCalls -> Request(issued)] /\ Nobody \notin AuthCalls
      /\ auth.account \in Accounts \cup {Nobody} /\ auth.refreshing \in AuthCalls \cup {Nobody}
    BY OfClient, AuthAssumption DEF AuthInv, AuthTyped, CallsTyped, AuthAssumption
<1>1. r \in Request(issued) /\ r.op \in Renewing
    BY DEF Asking
<1>2. r.generation \in Nat /\ r.renewing \in Nat
    BY <1>1 DEF Request
<1>3. CASE /\ auth.refreshing # Nobody /\ UNCHANGED auth
           /\ request' = [request EXCEPT ![o] = [r EXCEPT !.phase = "joining", !.goal = goal,
                                                          !.joined = auth.refreshing]]
  <2> DEFINE w == [r EXCEPT !.phase = "joining", !.goal = goal, !.joined = auth.refreshing]
  <2>1. /\ w.op = r.op /\ w.phase = "joining" /\ w.goal = goal /\ w.generation = r.generation
        /\ w.renewing = r.renewing /\ w.account = r.account
      BY <1>1 DEF Request
  <2>2. w \in Request(issued)
      BY <1>0, <1>1 DEF Request
  <2>3. request' = [request EXCEPT ![o] = w]
      BY <1>3
  <2> HIDE DEF w
  <2>4. request'[o] = w
      BY <1>0, <2>3
  <2>5. CallHolds(o)'
    <3>1. Consistent(o)'
        BY <1>1, <2>1, <2>4 DEF Consistent, Wants, Renewing
    <3>2. Begins(o)'
        BY <1>3, <2>1, <2>4 DEF Begins, Asking
    <3>3. ~Acts(o)'
        BY <2>1, <2>4 DEF Acts, Obtaining
    <3>4. InTransport(o)' /\ Obtained(o)' /\ IsStored(o)'
        BY <2>1, <2>4, <3>3 DEF InTransport, Obtained, IsStored
    <3>5. Operates(o)'
        BY <1>3, <2>1, <2>4 DEF Operates, IsCurrent, SignedIn
    <3>6. QED
        BY <3>1, <3>2, <3>3, <3>4, <3>5 DEF CallHolds
  <2>6. QuietClient /\ auth' \in Client(issued)
      BY <1>0, <1>3 DEF QuietClient, SameTime
  <2>7. w.op \notin SigningIn
      BY <1>1, <2>1 DEF Renewing, SigningIn
  <2>8. QED
      BY <1>3, <2>2, <2>3, <2>5, <2>6, <2>7, RequestStep
<1>4. CASE /\ auth.refreshing = Nobody /\ auth.session # 0 /\ auth.status = "authenticated"
           /\ request' = [request EXCEPT ![o] = [r EXCEPT !.phase = "renewing", !.goal = goal,
                                   !.account = auth.account, !.renewing = auth.generation]]
           /\ auth' = [auth EXCEPT !.refreshing = o, !.status = "refreshing"]
  <2> DEFINE w == [r EXCEPT !.phase = "renewing", !.goal = goal,
                            !.account = auth.account, !.renewing = auth.generation]
  <2>1. /\ w.op = r.op /\ w.phase = "renewing" /\ w.goal = goal /\ w.generation = r.generation
        /\ w.renewing = auth.generation /\ w.account = auth.account
      BY <1>1 DEF Request
  <2>2. w \in Request(issued)
      BY <1>0, <1>1 DEF Request
  <2>3. request' = [request EXCEPT ![o] = w]
      BY <1>4
  <2> HIDE DEF w
  <2>4. request'[o] = w
      BY <1>0, <2>3
  <2>5. /\ auth'.generation = auth.generation /\ auth'.disposed = auth.disposed
        /\ auth'.session = auth.session /\ auth'.account = auth.account
        /\ auth'.status = "refreshing" /\ auth'.refreshing = o
      BY <1>0, <1>4 DEF Client
  <2>6. auth' \in Client(issued)
      BY <1>0, <1>4 DEF Client, Statuses
  <2>7. CallHolds(o)'
    <3>1. Consistent(o)'
        BY <1>1, <2>1, <2>4 DEF Consistent, Wants, Renewing
    <3>2. Begins(o)'
        BY <1>0, <2>1, <2>4, <2>5 DEF Begins, Asking
    <3>3. ShownFor(o)'
        BY <1>1, <2>1, <2>4, <2>5 DEF ShownFor
    <3>4. InTransport(o)' /\ Obtained(o)' /\ IsStored(o)'
        BY <2>1, <2>4 DEF InTransport, Obtained, IsStored
    <3>5. Operates(o)'
        BY <2>1, <2>4, <2>5 DEF Operates, IsCurrent, SignedIn
    <3>6. QED
        BY <3>1, <3>2, <3>3, <3>4, <3>5 DEF CallHolds
  <2>8. QuietClient
      BY <1>4, <2>5 DEF QuietClient, SameTime
  <2>9. w.op \notin SigningIn
      BY <1>1, <2>1 DEF Renewing, SigningIn
  <2>10. \A p \in AuthCalls \ {o} : auth.refreshing = p => auth'.refreshing = p
      BY <1>0, <1>4
  <2>11. QED
      BY <2>2, <2>3, <2>6, <2>7, <2>8, <2>9, <2>10, RequestStep
<1>5. CASE /\ UNCHANGED auth
           /\ request' = [request EXCEPT ![o] = [r EXCEPT !.phase = "failed"]]
  <2> DEFINE w == [r EXCEPT !.phase = "failed"]
  <2>1. /\ w.op = r.op /\ w.phase = "failed" /\ w.goal = r.goal /\ w.generation = r.generation
        /\ w.renewing = r.renewing /\ w.account = r.account
      BY <1>1 DEF Request
  <2>2. w \in Request(issued)
      BY <1>0, <1>1 DEF Request
  <2>3. request' = [request EXCEPT ![o] = w]
      BY <1>5
  <2> HIDE DEF w
  <2>4. request'[o] = w
      BY <1>0, <2>3
  <2>5. CallHolds(o)'
    <3>1. Consistent(o)'
        BY <1>1, <2>1, <2>4 DEF Consistent, Wants, Renewing, Asking
    <3>2. Begins(o)'
        BY <1>5, <2>1, <2>4 DEF Begins, Asking
    <3>3. ~Acts(o)'
        BY <2>1, <2>4 DEF Acts, Obtaining
    <3>4. InTransport(o)' /\ Obtained(o)' /\ IsStored(o)'
        BY <2>1, <2>4, <3>3 DEF InTransport, Obtained, IsStored
    <3>5. Operates(o)'
        BY <2>1, <2>4 DEF Operates
    <3>6. QED
        BY <3>1, <3>2, <3>3, <3>4, <3>5 DEF CallHolds
  <2>6. QuietClient /\ auth' \in Client(issued)
      BY <1>0, <1>5 DEF QuietClient, SameTime
  <2>7. w.op \notin SigningIn
      BY <1>1, <2>1 DEF Renewing, SigningIn
  <2>8. QED
      BY <1>5, <2>2, <2>3, <2>5, <2>6, <2>7, RequestStep
<1>6. QED
    BY <1>3, <1>4, <1>5 DEF AskRenewal

\* A session is handed over to who is still signed in, or to nobody.
LEMMA HandOverStep ==
    ASSUME AuthInv, NEW o \in AuthCalls, NEW r, Asking(r), r.op \in {"session", "retry"},
           request[o].phase \notin Waiting, HandOver(o, r),
           UNCHANGED <<authSetup, storage, transport, store, serverState, revoked, unreliable>>
    PROVE  AuthInv'
<1>0. /\ AuthTyped /\ auth \in Client(issued) /\ auth.generation \in Nat
      /\ auth.session \in 0..issued
      /\ request \in [AuthCalls -> Request(issued)]
    BY OfClient DEF AuthInv, AuthTyped, CallsTyped
<1>1. r \in Request(issued)
    BY DEF Asking
<1> DEFINE usable == IsCurrent(r.generation) /\ auth.session # 0 /\ auth.status = "authenticated"
           phase == CASE ~usable -> "failed"
                      [] usable /\ r.op = "session" -> "ok"
                      [] usable /\ r.op = "retry" -> "operating"
           w == [r EXCEPT !.token = auth.session, !.phase = phase]
<1>2. /\ request' = [request EXCEPT ![o] = w]
      /\ auth' = IF IsCurrent(r.generation) /\ ~usable /\ auth.status = "signed_out"
                 THEN [auth EXCEPT !.status = "auth_required"] ELSE auth
    BY DEF HandOver
<1>3. /\ phase \in {"failed", "ok", "operating"}
      /\ phase # "failed" => usable
      /\ phase = "operating" => r.op = "retry"
  <2>1. CASE ~usable
      BY <2>1
  <2>2. CASE usable /\ r.op = "session"
      BY <2>2
  <2>3. CASE usable /\ r.op = "retry"
      BY <2>3
  <2>4. QED
      BY <2>1, <2>2, <2>3
<1>4. usable => /\ IsCurrent(r.generation) /\ auth.status = "authenticated"
                /\ auth.session # 0 /\ accountOf[auth.session] = auth.account
    BY DEF AuthInv, ClientHolds, SignedInAsShown
<1>5. usable => auth' = auth
    BY <1>2
<1> HIDE DEF phase, usable
<1>6. /\ w.op = r.op /\ w.phase = phase /\ w.goal = r.goal /\ w.generation = r.generation
      /\ w.renewing = r.renewing /\ w.account = r.account /\ w.token = auth.session
    BY <1>1 DEF Request
<1>7. w \in Request(issued)
    BY <1>0, <1>1, <1>3 DEF Request
<1> HIDE DEF w
<1>8. request'[o] = w
    BY <1>0, <1>2
<1>9. auth' \in Client(issued)
    BY <1>0, <1>2 DEF Client, Statuses
<1>10. QuietClient /\ auth'.refreshing = auth.refreshing
  <2>1. CASE auth' = auth
      BY <2>1 DEF QuietClient, SameTime
  <2>2. CASE auth.status = "signed_out" /\ auth' = [auth EXCEPT !.status = "auth_required"]
      BY <1>0, <2>2 DEF QuietClient, SameTime, Client
  <2>3. QED
      BY <1>2, <2>1, <2>2
<1>11. CallHolds(o)'
  <2>1. Consistent(o)'
      BY <1>3, <1>6, <1>8 DEF Consistent, Wants, Renewing, Asking
  <2>2. Begins(o)'
      BY <1>6, <1>8, <1>10 DEF Begins, Asking, QuietClient, SameTime
  <2>3. ~Acts(o)'
      BY <1>3, <1>6, <1>8 DEF Acts, Obtaining
  <2>4. InTransport(o)' /\ Obtained(o)' /\ IsStored(o)'
      BY <1>3, <1>6, <1>8, <2>3 DEF InTransport, Obtained, IsStored
  <2>5. Operates(o)'
    <3>1. CASE phase = "failed"
        BY <1>6, <1>8, <3>1 DEF Operates
    <3>2. CASE phase # "failed"
      <4>1. /\ auth' = auth /\ auth.status = "authenticated"
            /\ auth.session # 0 /\ accountOf[auth.session] = auth.account
          BY <1>3, <1>4, <1>5, <3>2
      <4>2. accountOf' = accountOf
          BY DEF serverState
      <4>3. QED
          BY <1>6, <1>8, <4>1, <4>2 DEF Operates
    <3>3. QED
        BY <3>1, <3>2
  <2>6. QED
      BY <2>1, <2>2, <2>3, <2>4, <2>5 DEF CallHolds
<1>12. w.op \notin SigningIn
    BY <1>6 DEF SigningIn
<1>13. QED
    BY <1>2, <1>7, <1>9, <1>10, <1>11, <1>12, RequestStep

LEMMA ProvideStep ==
    ASSUME AuthInv, NEW o \in AuthCalls, NEW r, Asking(r), r.op \in {"session", "retry"},
           request[o].phase \notin Waiting, Provide(o, r),
           UNCHANGED <<authSetup, storage, transport, store, serverState, revoked, unreliable>>
    PROVE  AuthInv'
<1>1. CASE AskRenewal(o, r, "handover")
  <2>1. Wants(r.op, "handover")
      BY DEF Wants
  <2>2. QED
      BY <1>1, <2>1, AskRenewalStep
<1>2. CASE HandOver(o, r)
    BY <1>2, HandOverStep
<1>3. QED
    BY <1>1, <1>2 DEF Provide

\* A call under way may ask again.
LEMMA MayAsk ==
    ASSUME AuthInv, NEW o \in AuthCalls, request[o].op \in Renewing, request[o].phase # "failed"
    PROVE  Asking(request[o])
<1>1. AuthTyped /\ CallHolds(o)
    BY DEF AuthInv, CallsHold
<1>2. request[o] \in Request(issued)
    BY <1>1, OfCall
<1>3. Consistent(o) /\ Begins(o) /\ Operates(o)
    BY <1>1 DEF CallHolds
<1>4. QED
    BY <1>2, <1>3 DEF Asking, Wants, Consistent, Begins, Operates, SignedIn

LEMMA RefreshStep ==
    ASSUME AuthInv, NEW o \in AuthCalls, Refresh(o)
    PROVE  AuthInv'
<1>0. AuthTyped /\ CallHolds(o) /\ issued \in Nat /\ auth.generation \in Nat
    BY OfClient DEF AuthInv, CallsHold
<1>1. PICK r : r = [NoRequest EXCEPT !.op = "refresh"]
    OBVIOUS
<1>2. /\ r.op = "refresh" /\ r.generation = 0 /\ r.renewing = 0 /\ r.goal = "none"
    BY <1>1 DEF NoRequest
<1>3. r \in Request(issued)
  <2>1. 0 \in 0..issued
      BY <1>0
  <2>2. QED
      BY <1>1, <2>1 DEF NoRequest, Request, Renewing
<1>4. Asking(r) /\ Wants(r.op, "return")
    BY <1>0, <1>2, <1>3 DEF Asking, Wants, Renewing
<1>5. /\ request[o].op = "none" /\ AskRenewal(o, r, "return")
      /\ UNCHANGED <<authSetup, storage, transport, store, serverState, revoked, unreliable>>
    BY <1>1 DEF Refresh, Starts
<1>6. request[o].phase \notin Waiting
    BY <1>0, <1>5, NotMade
<1>7. QED
    BY <1>4, <1>5, <1>6, AskRenewalStep

LEMMA GetSessionStep ==
    ASSUME AuthInv, NEW o \in AuthCalls, NEW op \in {"session", "retry"}, GetSession(o, op)
    PROVE  AuthInv'
<1>0. AuthTyped /\ CallHolds(o) /\ issued \in Nat /\ auth.generation \in Nat
    BY OfClient DEF AuthInv, CallsHold
<1>1. PICK r : r = [NoRequest EXCEPT !.op = op, !.generation = auth.generation]
    OBVIOUS
<1>2. /\ r.op = op /\ r.generation = auth.generation /\ r.renewing = 0 /\ r.goal = "none"
    BY <1>1 DEF NoRequest
<1>3. r \in Request(issued)
  <2>1. 0 \in 0..issued
      BY <1>0
  <2>2. QED
      BY <1>0, <1>1, <2>1 DEF NoRequest, Request, Renewing
<1>4. Asking(r) /\ Wants(r.op, "provide")
    BY <1>0, <1>2, <1>3 DEF Asking, Wants, Renewing
<1>5. /\ request[o].op = "none" /\ (AskRenewal(o, r, "provide") \/ Provide(o, r))
      /\ UNCHANGED <<authSetup, storage, transport, store, serverState, revoked, unreliable>>
    BY <1>1 DEF GetSession, Starts
<1>6. request[o].phase \notin Waiting
    BY <1>0, <1>5, NotMade
<1>7. CASE AskRenewal(o, r, "provide")
    BY <1>4, <1>5, <1>6, <1>7, AskRenewalStep
<1>8. CASE Provide(o, r)
    BY <1>2, <1>4, <1>5, <1>6, <1>8, ProvideStep
<1>9. QED
    BY <1>5, <1>7, <1>8

LEMMA UnauthorizedStep ==
    ASSUME AuthInv, NEW o \in AuthCalls, Unauthorized(o)
    PROVE  AuthInv'
<1>0. AuthTyped /\ CallHolds(o)
    BY DEF AuthInv, CallsHold
<1>1. /\ request[o].phase = "operating"
      /\ UNCHANGED <<authSetup, storage, transport, store, serverState, revoked, unreliable>>
    BY DEF Unauthorized
<1>2. request[o].op = "retry"
    BY <1>0, <1>1 DEF CallHolds, Consistent
<1>3. request[o].phase \notin Waiting \cup {"failed"}
    BY <1>1 DEF Waiting
<1>4. CASE AskRenewal(o, request[o], "again")
  <2>1. PICK r : r = request[o]
      OBVIOUS
  <2>2. Asking(r)
      BY <1>1, <1>2, <2>1, MayAsk DEF Renewing
  <2>3. Wants(r.op, "again")
      BY <1>2, <2>1 DEF Wants
  <2>4. IsCurrent(r.generation) => auth.status \in SignedIn
      BY <1>0, <1>1, <2>1 DEF CallHolds, Operates, SignedIn
  <2>5. AskRenewal(o, r, "again")
      BY <1>4, <2>1
  <2>6. QED
      BY <1>1, <1>3, <2>2, <2>3, <2>4, <2>5, AskRenewalStep
<1>5. CASE Done(o, "failed") /\ UNCHANGED auth
  <2>1. ServerTyped' /\ ServerGrows
      BY <1>0, <1>1, OfClient DEF serverState, AuthTyped, ServerTyped, ServerGrows
  <2>2. QED
      BY <1>1, <1>3, <1>5, <2>1, DoneStep
<1>6. QED
    BY <1>4, <1>5 DEF Unauthorized

LEMMA RenewalResumesStep ==
    ASSUME AuthInv, NEW o \in AuthCalls, RenewalResumes(o)
    PROVE  AuthInv'
<1>0. /\ AuthTyped /\ CallHolds(o) /\ request[o] \in Request(issued)
      /\ auth \in Client(issued) /\ auth.session \in 0..issued
      /\ request \in [AuthCalls -> Request(issued)]
    BY OfCall, OfClient DEF AuthInv, CallsHold, AuthTyped, CallsTyped
<1>1. /\ request[o].phase \in {"renewed", "unrenewed"}
      /\ UNCHANGED <<authSetup, storage, transport, store, serverState, revoked, unreliable>>
    BY DEF RenewalResumes
<1>2. Consistent(o) /\ Begins(o) /\ Operates(o)
    BY <1>0 DEF CallHolds
<1>3. request[o].op \in Renewing
    BY <1>1, <1>2 DEF Consistent
<1>4. request[o].phase \notin Waiting \cup {"failed"}
    BY <1>1 DEF Waiting
<1>5. PICK r : r = request[o]
    OBVIOUS
<1>6. Asking(r)
    BY <1>1, <1>3, <1>5, MayAsk
<1>7. CASE \E outcome \in {"ok", "failed"} : Done(o, outcome) /\ UNCHANGED auth
  <2>1. ServerTyped' /\ ServerGrows
      BY <1>0, <1>1, OfClient DEF serverState, AuthTyped, ServerTyped, ServerGrows
  <2>2. PICK outcome \in {"ok", "failed"} : Done(o, outcome) /\ UNCHANGED auth
      BY <1>7
  <2>3. QED
      BY <1>1, <1>4, <2>1, <2>2, DoneStep
<1>8. CASE r.goal = "provide" /\ Provide(o, r)
  <2>1. r.op \in {"session", "retry"}
      BY <1>2, <1>5, <1>8 DEF Consistent
  <2>2. QED
      BY <1>1, <1>4, <1>6, <1>8, <2>1, ProvideStep
<1>9. CASE r.goal = "handover" /\ HandOver(o, r)
  <2>1. r.op \in {"session", "retry"}
      BY <1>2, <1>5, <1>9 DEF Consistent
  <2>2. QED
      BY <1>1, <1>4, <1>6, <1>9, <2>1, HandOverStep
<1>10. CASE /\ r.phase = "renewed" /\ r.goal = "again" /\ UNCHANGED auth
            /\ request' = [request EXCEPT ![o].phase = IF Belongs(o) THEN "repeating" ELSE "failed",
                                          ![o].token = auth.session]
  <2> DEFINE phase == IF Belongs(o) THEN "repeating" ELSE "failed"
             w == [request[o] EXCEPT !.phase = phase, !.token = auth.session]
  <2>1. /\ phase \in {"repeating", "failed"}
        /\ phase = "repeating" => IsCurrent(request[o].generation)
      BY DEF Belongs
  <2>2. request' = [request EXCEPT ![o] = w]
      BY <1>0, <1>10
  <2> HIDE DEF phase
  <2>3. /\ w.op = request[o].op /\ w.phase = phase /\ w.goal = request[o].goal
        /\ w.generation = request[o].generation /\ w.renewing = request[o].renewing
        /\ w.account = request[o].account /\ w.token = auth.session
      BY <1>0 DEF Request
  <2>4. w \in Request(issued)
      BY <1>0, <2>1 DEF Request
  <2> HIDE DEF w
  <2>5. request'[o] = w
      BY <1>0, <2>2
  <2>6. request[o].op = "retry" /\ request[o].goal = "again"
      BY <1>2, <1>5, <1>10 DEF Consistent
  <2>7. QuietClient /\ auth' \in Client(issued) /\ auth' = auth
      BY <1>0, <1>10 DEF QuietClient, SameTime
  <2>8. CallHolds(o)'
    <3>1. Consistent(o)' /\ Begins(o)'
        BY <1>2, <2>1, <2>3, <2>5, <2>6, <2>7 DEF Consistent, Begins
    <3>2. ~Acts(o)'
        BY <2>1, <2>3, <2>5 DEF Acts, Obtaining
    <3>3. InTransport(o)' /\ Obtained(o)' /\ IsStored(o)'
        BY <2>1, <2>3, <2>5, <3>2 DEF InTransport, Obtained, IsStored
    <3>4. Operates(o)'
      <4>1. CASE phase = "failed"
          BY <2>3, <2>5, <4>1 DEF Operates
      <4>2. CASE phase = "repeating"
        <5>1. IsCurrent(request[o].generation) /\ request[o].phase # "failed"
            BY <1>1, <2>1, <4>2
        <5>2. auth.status \in SignedIn
            BY <1>2, <2>6, <5>1 DEF Operates, SignedIn
        <5>3. auth.session # 0 /\ accountOf[auth.session] = auth.account
            BY <5>2 DEF AuthInv, ClientHolds, SignedInAsShown, SignedIn
        <5>4. accountOf' = accountOf
            BY <1>1 DEF serverState
        <5>5. QED
            BY <2>3, <2>5, <2>7, <5>2, <5>3, <5>4 DEF Operates, SignedIn
      <4>3. QED
          BY <2>1, <4>1, <4>2
    <3>5. QED
        BY <3>1, <3>2, <3>3, <3>4 DEF CallHolds
  <2>9. w.op \notin SigningIn
      BY <2>3, <2>6 DEF SigningIn
  <2>10. QED
      BY <1>1, <1>4, <2>2, <2>4, <2>7, <2>8, <2>9, RequestStep
<1>11. QED
    BY <1>5, <1>7, <1>8, <1>9, <1>10 DEF RenewalResumes

-----------------------------------------------------------------------------
(* What the call that acts does.                                            *)

\* The others do not act.
LEMMA ActingCalls ==
    ASSUME AuthInv, NEW o \in AuthCalls, Acts(o), CallHolds(o)',
           SameTime, Steady, ServerGrows,
           transport'.generation \in Nat, transport.generation <= transport'.generation,
           \A p \in AuthCalls \ {o} : request'[p] = request[p],
           request'[o].op = request[o].op, request'[o].generation = request[o].generation
    PROVE  CallsHold' /\ OneSignIn'
<1>0. AuthTyped /\ CallsHold /\ OneSignIn
    BY DEF AuthInv
<1>1. ASSUME NEW p \in AuthCalls \ {o}
      PROVE  CallHolds(p)'
  <2>1. CallHolds(p)
      BY <1>0 DEF CallsHold
  <2>2. ~Acts(p)
      BY <1>0, Alone
  <2>3. request'[p] = request[p]
      OBVIOUS
  <2>4. QED
      BY <1>0, <2>1, <2>2, <2>3, StillKeeps
<1>2. CallsHold'
    BY <1>1 DEF CallsHold
<1>3. OneSignIn'
    BY <1>0, SignInsKeep
<1>4. QED
    BY <1>2, <1>3

\* A session is installed by the call that acts, and queued to be stored.
LEMMA InstallStep ==
    ASSUME AuthInv, NEW o \in AuthCalls, NEW t, NEW a \in Accounts, NEW g,
           Acts(o), g = Under(o), t \in 1..issued', accountOf'[t] = a, t \notin revoked \/ unreliable,
           request[o].phase \notin Waiting,
           request[o].op \in Renewing => a = request[o].account,
           Install(o, t, a, g),
           ServerTyped', ServerGrows, UNCHANGED <<authSetup, store, unreliable>>,
           transport' \in [generation : Nat, session : 0..issued'],
           transport.generation <= transport'.generation,
           ~hasStore => transport'.session \notin revoked
    PROVE  AuthInv'
<1>0. /\ AuthTyped /\ CallsHold /\ OneSignIn /\ QueueHolds /\ ClientHolds /\ CallHolds(o)
      /\ request \in [AuthCalls -> Request(issued)] /\ auth \in Client(issued)
      /\ issued \in Nat /\ Under(o) \in Nat
    BY OfCall, OfClient DEF AuthInv, AuthTyped, CallsTyped, CallsHold
<1> DEFINE phase == IF hasStore THEN "persisting" ELSE "persisted"
           w == [request[o] EXCEPT !.token = t, !.account = a, !.phase = phase]
<1>1. /\ auth' = [auth EXCEPT !.session = t]
      /\ storage' = Enqueued(Persistence(o, t, a, g))
      /\ request' = [request EXCEPT ![o] = w]
      /\ revoked' = revoked
    BY <1>0 DEF Install
<1>2. /\ auth \in Client(issued') /\ store \in 0..issued'
      /\ storage \in Seq(StorageOp(issued')) /\ revoked \subseteq 1..issued'
      /\ request \in [AuthCalls -> Request(issued')]
    BY <1>0, TypedGrows
<1>3. issued' \in Nat /\ t \in 0..issued' /\ t # 0
    BY DEF ServerGrows
<1>4. /\ w.op = request[o].op /\ w.phase = phase /\ w.token = t /\ w.account = a
      /\ w.generation = request[o].generation /\ w.renewing = request[o].renewing
      /\ w.goal = request[o].goal
    BY <1>0 DEF Request
<1>6. /\ phase = "persisting" <=> hasStore
      /\ phase = "persisted" <=> ~hasStore
      /\ phase \in {"persisting", "persisted"}
    OBVIOUS
<1> HIDE DEF phase
<1>5. w \in Request(issued')
  <2>1. request[o] \in Request(issued')
      BY <1>2
  <2>2. QED
      BY <1>3, <1>6, <2>1 DEF Request
<1> HIDE DEF w
<1>7. request' \in [AuthCalls -> Request(issued')]
    BY <1>1, <1>2, <1>5
<1>8. request'[o] = w /\ \A p \in AuthCalls \ {o} : request'[p] = request[p]
    BY <1>0, <1>1
<1>9. /\ auth' \in Client(issued')
      /\ auth'.generation = auth.generation /\ auth'.disposed = auth.disposed
      /\ auth'.session = t /\ auth'.account = auth.account
      /\ auth'.status = auth.status /\ auth'.refreshing = auth.refreshing
    BY <1>1, <1>2, <1>3 DEF Client
<1>10. SameTime /\ Steady
    BY <1>9 DEF SameTime, Steady
<1>11. PICK e : e = Persistence(o, t, a, g)
    OBVIOUS
<1>12. /\ e \in StorageOp(issued') /\ e.call = o /\ e.token = t /\ e.generation = g
       /\ e.op \in {"write", "drop"} /\ (e.op = "write" <=> a = Scoped)
    BY <1>0, <1>3, <1>11 DEF Persistence, Queued, StorageOp
<1>13. storage' = IF hasStore THEN Append(storage, e) ELSE storage
    BY <1>1, <1>11 DEF Enqueued
<1>14. AuthTyped'
  <2>1. storage' \in Seq(StorageOp(issued'))
      BY <1>2, <1>12, <1>13
  <2>2. QED
      BY <1>0, <1>1, <1>2, <1>7, <1>9, <2>1 DEF AuthTyped, ClientTyped, StoreTyped, CallsTyped
<1>15. hasStore' = hasStore
    BY DEF hasStore
<1>16. ShownFor(o) /\ Consistent(o) /\ Begins(o) /\ Operates(o)
    BY <1>0 DEF CallHolds
<1>17. request[o].op \in SigningIn \cup Renewing
    BY <1>16 DEF Consistent, Acts, Obtaining, SigningIn, Renewing
<1>18. a # Nobody
    BY AuthAssumption DEF AuthAssumption
<1>19. CallHolds(o)'
  <2>1. Consistent(o)'
      BY <1>4, <1>6, <1>8, <1>16, <1>17, <1>18 DEF Consistent
  <2>2. Begins(o)'
      BY <1>4, <1>8, <1>9, <1>16 DEF Begins
  <2>3. ShownFor(o)'
    <3>1. request[o].op \in Renewing => request[o].account = auth.account
        BY <1>16 DEF ShownFor
    <3>2. QED
        BY <1>4, <1>8, <1>9, <1>16, <3>1 DEF ShownFor
  <2>4. InTransport(o)'
      BY <1>4, <1>6, <1>8 DEF InTransport
  <2>5. Obtained(o)'
      BY <1>1, <1>3, <1>4, <1>6, <1>8, <1>9 DEF Obtained
  <2>6. IsStored(o)'
      BY <1>4, <1>6, <1>8, <1>15 DEF IsStored
  <2>7. Operates(o)'
    <3>1. request[o].phase # "failed"
        BY DEF Acts, Obtaining
    <3>2. QED
        BY <1>4, <1>6, <1>8, <1>9, <1>16, <3>1 DEF Operates, IsCurrent
  <2>8. QED
      BY <2>1, <2>2, <2>3, <2>4, <2>5, <2>6, <2>7 DEF CallHolds
<1>20. CallsHold' /\ OneSignIn'
  <2>1. request'[o].op = request[o].op /\ request'[o].generation = request[o].generation
      BY <1>4, <1>8
  <2>2. transport'.generation \in Nat
      OBVIOUS
  <2>3. QED
      BY <1>8, <1>10, <1>19, <2>1, <2>2, ActingCalls
<1>21. QueueHolds'
  <2>1. LeavesWaiting
      BY <1>8 DEF LeavesWaiting
  <2>2. CASE hasStore
    <3>1. Under(o)' = Under(o)
        BY <1>4, <1>8 DEF Under
    <3>2. IsOf(e)'
        BY <1>4, <1>6, <1>8, <1>12, <2>2, <3>1 DEF IsOf
    <3>3. storage' = Append(storage, e)
        BY <1>13, <2>2
    <3>4. QED
        BY <1>0, <1>10, <1>12, <2>1, <3>2, <3>3, QueueAppends
  <2>3. CASE ~hasStore
    <3>1. storage' = storage
        BY <1>13, <2>3
    <3>2. QED
        BY <1>0, <1>10, <2>1, <3>1, QueueKeeps
  <2>4. QED
      BY <2>2, <2>3
<1>22. ClientHolds'
  <2>1. SignedInAsShown'
    <3>1. SUFFICES ASSUME auth'.status \in SignedIn
                   PROVE  auth'.session # 0 /\ accountOf'[auth'.session] = auth'.account
        BY DEF SignedInAsShown, SignedIn
    <3>2. request[o].op \in Renewing /\ request[o].account = auth.account
        BY <1>9, <1>16, <3>1 DEF ShownFor, SignedIn
    <3>3. QED
        BY <1>3, <1>9, <3>2
  <2>2. NoClear' <=> NoClear
    <3>1. CASE hasStore
      <4>1. storage' = Append(storage, e) /\ e.op # "clear"
          BY <1>12, <1>13, <3>1
      <4>2. QED
          BY <1>0, <4>1, AppendClears
    <3>2. CASE ~hasStore
        BY <1>13, <3>2 DEF NoClear
    <3>3. QED
        BY <3>1, <3>2
  <2>3. auth.status # "authenticated"
      BY <1>16 DEF ShownFor
  <2>4. StoreAgrees'
      BY <1>0, <1>1, <1>9, <2>2, <2>3 DEF StoreAgrees, ClientHolds
  <2>5. Storeless'
      BY <1>0, <1>1, <1>13, <1>15 DEF Storeless, ClientHolds
  <2>6. QED
      BY <2>1, <2>4, <2>5 DEF ClientHolds
<1>23. QED
    BY <1>14, <1>20, <1>21, <1>22 DEF AuthInv

\* A sign-in comes to an end in the transport.
LEMMA AppliedStep ==
    ASSUME AuthInv, NEW o \in AuthCalls, NEW t, NEW a \in Accounts,
           request[o].phase \in {"requested", "confirming"}, Applied(o, t, a),
           t \in 1..issued', accountOf'[t] = a,
           Acts(o) => t \notin revoked \/ unreliable,
           ServerTyped', ServerGrows, UNCHANGED <<authSetup, store, unreliable>>
    PROVE  AuthInv'
<1>0. /\ AuthTyped /\ CallHolds(o) /\ ClientHolds
      /\ transport \in [generation : Nat, session : 0..issued']
    BY TypedGrows DEF AuthInv, CallsHold
<1>1. /\ Commits(o) <=> IsCurrent(request[o].generation)
      /\ request[o].op \notin Renewing
    BY <1>0 DEF CallHolds, InTransport, Consistent, Renewing
<1>2. CASE IsCurrent(request[o].generation)
  <2>1. transport' = [transport EXCEPT !.session = t]
      BY <1>1, <1>2 DEF Applied
  <2>2. /\ transport' \in [generation : Nat, session : 0..issued']
        /\ transport'.session = t /\ transport'.generation = transport.generation
        /\ transport.generation \in Nat
    <3>1. t \in 0..issued'
        BY DEF ServerGrows
    <3>2. QED
        BY <1>0, <2>1, <3>1
  <2>3. PICK g : g = request[o].generation
      OBVIOUS
  <2>4. Install(o, t, a, g)
      BY <1>2, <2>2, <2>3 DEF Applied
  <2>5. Acts(o) /\ g = Under(o)
      BY <1>1, <1>2, <2>3 DEF Acts, Under, Obtaining
  <2>6. ~hasStore => ~unreliable
      BY <1>0 DEF ClientHolds, Storeless
  <2>7. request[o].phase \notin Waiting
      BY DEF Waiting
  <2>8. t \notin revoked \/ unreliable
      BY <2>5
  <2>9. ~hasStore => transport'.session \notin revoked
      BY <2>2, <2>6, <2>8
  <2>10. transport.generation <= transport'.generation
      BY <2>2
  <2>11. request[o].op \in Renewing => a = request[o].account
      BY <1>1
  <2>12. QED
      BY <2>2, <2>4, <2>5, <2>7, <2>8, <2>9, <2>10, <2>11, InstallStep
<1>3. CASE ~IsCurrent(request[o].generation)
  <2>1. /\ Done(o, "ok") /\ transport' = transport
        /\ UNCHANGED <<auth, storage, revoked>>
      BY <1>1, <1>3 DEF Applied
  <2>2. request[o].phase \notin Waiting \cup {"failed"}
      BY DEF Waiting
  <2>3. QED
      BY <2>1, <2>2, DoneStep
<1>4. QED
    BY <1>2, <1>3

LEMMA LoginAnsweredStep ==
    ASSUME AuthInv, NEW o \in AuthCalls, NEW a \in Accounts, LoginAnswered(o, a)
    PROVE  AuthInv'
<1>0. AuthTyped
    BY DEF AuthInv
<1>1. /\ request[o].phase = "requested" /\ Issues(a) /\ Applied(o, issued + 1, a)
      /\ UNCHANGED <<authSetup, store, unreliable>>
    BY DEF LoginAnswered
<1>2. /\ ServerTyped' /\ ServerGrows
      /\ issued' = issued + 1 /\ accountOf'[issued + 1] = a /\ issued \in Nat
    BY <1>0, <1>1, IssuesKeeps
<1>3. PICK t : t = issued + 1
    OBVIOUS
<1>4. /\ Applied(o, t, a) /\ t \in 1..issued' /\ accountOf'[t] = a
    BY <1>1, <1>2, <1>3
<1>5. t \notin revoked
    BY <1>0, <1>2, <1>3 DEF AuthTyped, StoreTyped
<1>6. QED
    BY <1>1, <1>2, <1>4, <1>5, AppliedStep

LEMMA SelectionConfirmedStep ==
    ASSUME AuthInv, NEW o \in AuthCalls, SelectionConfirmed(o)
    PROVE  AuthInv'
<1>0. /\ AuthTyped /\ CallHolds(o) /\ request[o].token \in 0..issued /\ issued \in Nat
      /\ request[o].account \in Accounts \cup {Nobody}
    BY OfCall, OfClient DEF AuthInv, CallsHold
<1>1. /\ request[o].phase = "confirming"
      /\ Applied(o, request[o].token, request[o].account)
      /\ UNCHANGED <<authSetup, store, serverState, unreliable>>
    BY DEF SelectionConfirmed
<1>2. ServerTyped' /\ ServerGrows
    BY <1>0, <1>1, OfClient DEF serverState, AuthTyped, ServerTyped, ServerGrows
<1>3. PICK t, a : t = request[o].token /\ a = request[o].account
    OBVIOUS
<1>4. /\ t # 0 /\ accountOf[t] = a
      /\ Acts(o) => t \notin revoked \/ unreliable
    BY <1>0, <1>1, <1>3 DEF CallHolds, Obtained
<1>5. a # Nobody
    BY <1>0, <1>1, <1>3 DEF CallHolds, Consistent
<1>6. a \in Accounts /\ t \in 1..issued' /\ accountOf'[t] = a
    BY <1>0, <1>1, <1>3, <1>4, <1>5 DEF serverState
<1>7. Applied(o, t, a)
    BY <1>1, <1>3
<1>8. QED
    BY <1>1, <1>2, <1>4, <1>6, <1>7, AppliedStep

LEMMA SelectionAnsweredStep ==
    ASSUME AuthInv, NEW o \in AuthCalls, SelectionAnswered(o)
    PROVE  AuthInv'
<1>0. /\ AuthTyped /\ CallHolds(o) /\ request[o].account \in Accounts \cup {Nobody}
      /\ request \in [AuthCalls -> Request(issued)] /\ request[o] \in Request(issued)
    BY OfCall DEF AuthInv, CallsHold, AuthTyped, CallsTyped
<1>1. /\ request[o].op \in {"select", "switch"} /\ request[o].phase = "requested"
      /\ Issues(request[o].account) /\ UNCHANGED <<authSetup, store, unreliable>>
    BY DEF SelectionAnswered
<1>2. PICK a : a = request[o].account
    OBVIOUS
<1>3. a \in Accounts /\ a # Nobody
    BY <1>0, <1>1, <1>2 DEF CallHolds, Consistent
<1>4. /\ ServerTyped' /\ ServerGrows
      /\ issued' = issued + 1 /\ accountOf'[issued + 1] = a /\ issued \in Nat
  <2>1. Issues(a)
      BY <1>1, <1>2
  <2>2. QED
      BY <1>0, <1>3, <2>1, IssuesKeeps
<1>5. PICK t : t = issued + 1
    OBVIOUS
<1>6. /\ t \in 1..issued' /\ t \in 0..issued' /\ t # 0 /\ accountOf'[t] = a
      /\ t \notin revoked
    BY <1>0, <1>4, <1>5 DEF AuthTyped, StoreTyped
<1>7. CASE ~Commits(o)
  <2>1. Applied(o, t, a)
      BY <1>2, <1>5, <1>7 DEF SelectionAnswered
  <2>2. QED
      BY <1>1, <1>3, <1>4, <1>6, <2>1, AppliedStep
<1>8. CASE Commits(o)
  <2> DEFINE w == [request[o] EXCEPT !.phase = "confirming", !.token = t]
  <2>1. /\ request' = [request EXCEPT ![o] = w]
        /\ UNCHANGED <<auth, transport, storage, revoked>>
      BY <1>0, <1>5, <1>8 DEF SelectionAnswered
  <2>2. /\ w.op = request[o].op /\ w.phase = "confirming" /\ w.token = t
        /\ w.account = a /\ w.generation = request[o].generation /\ w.sent = request[o].sent
        /\ w.renewing = request[o].renewing /\ w.goal = request[o].goal
      BY <1>0, <1>2 DEF Request
  <2>3. /\ auth \in Client(issued') /\ transport \in [generation : Nat, session : 0..issued']
        /\ store \in 0..issued' /\ storage \in Seq(StorageOp(issued'))
        /\ revoked \subseteq 1..issued'
        /\ request \in [AuthCalls -> Request(issued')]
      BY <1>0, <1>4, TypedGrows
  <2>4. w \in Request(issued')
    <3>1. request[o] \in Request(issued')
        BY <2>3
    <3>2. QED
        BY <1>6, <3>1 DEF Request
  <2> HIDE DEF w
  <2>5. request' \in [AuthCalls -> Request(issued')]
      BY <2>1, <2>3, <2>4
  <2>6. request'[o] = w /\ \A p \in AuthCalls \ {o} : request'[p] = request[p]
      BY <1>0, <2>1
  <2>7. AuthTyped'
      BY <1>0, <1>1, <1>4, <2>1, <2>3, <2>5 DEF AuthTyped, ClientTyped, StoreTyped, CallsTyped
  <2>8. QuietClient
      BY <2>1 DEF QuietClient, SameTime
  <2>9. LeavesWaiting
      BY <1>1, <2>6 DEF LeavesWaiting, Waiting
  <2>10. CallHolds(o)'
    <3>1. /\ Consistent(o) /\ Begins(o) /\ InTransport(o) /\ Operates(o)
          /\ Acts(o) => ShownFor(o)
        BY <1>0 DEF CallHolds
    <3>2. Consistent(o)' /\ Begins(o)'
        BY <1>1, <1>2, <1>3, <2>1, <2>2, <2>6, <3>1 DEF Consistent, Begins, Renewing, SigningIn
    <3>3. Acts(o)' => Acts(o)
        BY <1>1, <2>1, <2>2, <2>6 DEF Acts, Under, IsCurrent, Obtaining
    <3>4. Acts(o)' => ShownFor(o)'
        BY <1>1, <2>1, <2>2, <2>6, <3>1, <3>3 DEF ShownFor, Renewing
    <3>5. InTransport(o)'
        BY <1>1, <2>1, <2>2, <2>6, <3>1 DEF InTransport, Commits, IsCurrent
    <3>6. Obtained(o)'
        BY <1>6, <2>1, <2>2, <2>6 DEF Obtained
    <3>7. IsStored(o)'
        BY <2>2, <2>6 DEF IsStored
    <3>8. Operates(o)'
        BY <1>1, <2>1, <2>2, <2>6, <3>1 DEF Operates, IsCurrent
    <3>9. QED
        BY <3>2, <3>4, <3>5, <3>6, <3>7, <3>8 DEF CallHolds
  <2>11. \A p \in AuthCalls :
            \/ CallHolds(p)'
            \/ request'[p] = request[p] /\ (auth.refreshing = p => auth'.refreshing = p)
      BY <2>1, <2>6, <2>10
  <2>12. \A p \in AuthCalls :
            \/ request'[p].op \notin SigningIn
            \/ /\ request'[p].op = request[p].op
               /\ request'[p].generation = request[p].generation
      BY <2>2, <2>6
  <2>13. QED
      BY <1>1, <1>4, <2>1, <2>7, <2>8, <2>9, <2>11, <2>12, QuietStep
<1>9. QED
    BY <1>7, <1>8

LEMMA LoginEndsEarlyStep ==
    ASSUME AuthInv, NEW o \in AuthCalls,
           NEW status \in {"account_selection_required", "onboarding_required"},
           LoginEndsEarly(o, status)
    PROVE  AuthInv'
<1>0. /\ AuthTyped /\ CallsHold /\ QueueHolds /\ ClientHolds /\ CallHolds(o)
      /\ request \in [AuthCalls -> Request(issued)] /\ request[o] \in Request(issued)
      /\ auth \in Client(issued) /\ issued \in Nat
      /\ transport \in [generation : Nat, session : 0..issued]
    BY OfCall, OfClient DEF AuthInv, CallsHold, AuthTyped, CallsTyped
<1>1. /\ request[o].op = "login" /\ request[o].phase = "requested" /\ Done(o, "ok")
      /\ transport' = IF Commits(o) THEN [transport EXCEPT !.session = 0] ELSE transport
      /\ auth' = IF IsCurrent(request[o].generation)
                 THEN [auth EXCEPT !.status = status, !.account = Nobody] ELSE auth
      /\ UNCHANGED <<authSetup, storage, store, serverState, revoked, unreliable>>
    BY DEF LoginEndsEarly
<1>2. /\ Commits(o) <=> IsCurrent(request[o].generation)
      /\ Under(o) = request[o].generation
    BY <1>0, <1>1 DEF CallHolds, InTransport, Under, Renewing
<1>3. ServerTyped' /\ ServerGrows
    BY <1>0, <1>1, OfClient DEF serverState, AuthTyped, ServerTyped, ServerGrows
<1>4. CASE ~IsCurrent(request[o].generation)
  <2>1. request[o].phase \notin Waiting \cup {"failed"}
      BY <1>1 DEF Waiting
  <2>2. transport' = transport /\ auth' = auth
      BY <1>1, <1>2, <1>4
  <2>3. QED
      BY <1>1, <1>3, <2>1, <2>2, DoneStep
<1>5. CASE IsCurrent(request[o].generation)
  <2> DEFINE w == [request[o] EXCEPT !.phase = "ok"]
  <2>1. request' = [request EXCEPT ![o] = w]
      BY <1>0, <1>1 DEF Done
  <2>2. w \in Request(issued) /\ w.op = request[o].op /\ w.generation = request[o].generation
      BY <1>0 DEF Request
  <2>3. /\ request' \in [AuthCalls -> Request(issued)]
        /\ request'[o] = w /\ \A p \in AuthCalls \ {o} : request'[p] = request[p]
      BY <1>0, <2>1, <2>2
  <2>4. Acts(o)
      BY <1>1, <1>2, <1>5 DEF Acts, Obtaining
  <2>5. auth.status \in {"authenticating", "switching"}
      BY <1>0, <1>1, <2>4 DEF CallHolds, ShownFor, Renewing
  <2>6. auth' = [auth EXCEPT !.status = status, !.account = Nobody]
      BY <1>1, <1>5
  <2>7. /\ auth'.generation = auth.generation /\ auth'.disposed = auth.disposed
        /\ auth'.session = auth.session /\ auth'.status = status
        /\ auth' \in Client(issued)
    <3>1. status \in Statuses
        BY DEF Statuses
    <3>2. QED
        BY <1>0, <2>6, <3>1 DEF Client
  <2>8. /\ transport' \in [generation : Nat, session : 0..issued]
        /\ transport'.session = 0 /\ transport'.generation = transport.generation
        /\ transport.generation \in Nat
    <3>1. transport' = [transport EXCEPT !.session = 0] /\ 0 \in 0..issued
        BY <1>0, <1>1, <1>2, <1>5
    <3>2. QED
        BY <1>0, <3>1
  <2>9. AuthTyped'
      BY <1>0, <1>1, <1>3, <2>3, <2>7, <2>8
      DEF AuthTyped, ClientTyped, StoreTyped, CallsTyped, serverState
  <2>10. SameTime /\ Steady
      BY <2>5, <2>7 DEF SameTime, Steady, SignedIn
  <2>11. CallHolds(o)'
      BY <1>0, <1>1, <2>3, <2>10, OverKeeps DEF Over
  <2>12. /\ CallsHold' /\ OneSignIn'
    <3>1. transport'.generation \in Nat /\ transport.generation <= transport'.generation
        BY <2>8
    <3>2. request'[o].op = request[o].op /\ request'[o].generation = request[o].generation
        BY <2>2, <2>3
    <3>3. QED
        BY <1>3, <2>3, <2>4, <2>10, <2>11, <3>1, <3>2, ActingCalls
  <2>13. QueueHolds'
    <3>1. LeavesWaiting
        BY <1>1, <2>3 DEF LeavesWaiting, Waiting
    <3>2. QED
        BY <1>0, <1>1, <2>10, <3>1, QueueKeeps
  <2>14. ClientHolds'
    <3>1. SignedInAsShown'
        BY <2>7 DEF SignedInAsShown
    <3>2. hasStore' = hasStore /\ (NoClear' <=> NoClear) /\ 0 \notin revoked
        BY <1>0, <1>1 DEF hasStore, NoClear, AuthTyped, StoreTyped
    <3>3. StoreAgrees'
        BY <1>0, <1>1, <2>7, <3>2 DEF StoreAgrees, ClientHolds
    <3>4. Storeless'
        BY <1>0, <1>1, <2>8, <3>2 DEF Storeless, ClientHolds
    <3>5. QED
        BY <3>1, <3>3, <3>4 DEF ClientHolds
  <2>15. QED
      BY <2>9, <2>12, <2>13, <2>14 DEF AuthInv
<1>6. QED
    BY <1>4, <1>5

-----------------------------------------------------------------------------
(* Restoring and renewing.                                                  *)

\* The call that acts goes on; the client waits as before.
LEMMA GoesOnStep ==
    ASSUME AuthInv, NEW o \in AuthCalls, Acts(o), NEW w \in Request(issued'),
           request' = [request EXCEPT ![o] = w], CallHolds(o)',
           w.op = request[o].op, w.generation = request[o].generation,
           request[o].phase \notin Waiting,
           UNCHANGED <<authSetup, auth, storage, store, revoked, unreliable>>,
           ServerTyped', ServerGrows,
           transport' \in [generation : Nat, session : 0..issued'],
           transport.generation <= transport'.generation,
           ~hasStore => transport'.session \notin revoked
    PROVE  AuthInv'
<1>0. /\ AuthTyped /\ CallsHold /\ QueueHolds /\ ClientHolds
      /\ request \in [AuthCalls -> Request(issued)]
      /\ auth.session \in 0..issued /\ issued \in Nat
    BY OfClient DEF AuthInv, AuthTyped, CallsTyped
<1>1. /\ auth \in Client(issued') /\ store \in 0..issued'
      /\ storage \in Seq(StorageOp(issued')) /\ revoked \subseteq 1..issued'
      /\ request \in [AuthCalls -> Request(issued')]
    BY <1>0, TypedGrows
<1>2. request' \in [AuthCalls -> Request(issued')]
    BY <1>1
<1>3. request'[o] = w /\ \A p \in AuthCalls \ {o} : request'[p] = request[p]
    BY <1>0
<1>4. AuthTyped'
    BY <1>0, <1>1, <1>2 DEF AuthTyped, ClientTyped, StoreTyped, CallsTyped
<1>5. SameTime /\ Steady
    BY DEF SameTime, Steady
<1>6. CallsHold' /\ OneSignIn'
  <2>1. transport'.generation \in Nat
      OBVIOUS
  <2>2. request'[o].op = request[o].op /\ request'[o].generation = request[o].generation
      BY <1>3
  <2>3. QED
      BY <1>3, <1>5, <2>1, <2>2, ActingCalls
<1>7. QueueHolds'
  <2>1. LeavesWaiting
      BY <1>3 DEF LeavesWaiting
  <2>2. QED
      BY <1>0, <1>5, <2>1, QueueKeeps
<1>8. ClientHolds'
  <2>1. hasStore' = hasStore /\ (NoClear' <=> NoClear)
      BY DEF hasStore, NoClear
  <2>2. SignedInAsShown'
    <3>1. SUFFICES ASSUME auth.status \in SignedIn
                   PROVE  auth.session # 0 /\ accountOf'[auth.session] = auth.account
        BY DEF SignedInAsShown, SignedIn
    <3>2. auth.session # 0 /\ accountOf[auth.session] = auth.account
        BY <1>0, <3>1 DEF ClientHolds, SignedInAsShown, SignedIn
    <3>3. QED
        BY <1>0, <3>2 DEF ServerGrows
  <2>3. StoreAgrees'
    <3>1. StoreAgrees
        BY <1>0 DEF ClientHolds
    <3>2. QED
        BY <2>1, <3>1 DEF StoreAgrees, Kept
  <2>4. Storeless'
      BY <1>0, <2>1 DEF Storeless, ClientHolds
  <2>5. QED
      BY <2>2, <2>3, <2>4 DEF ClientHolds
<1>9. QED
    BY <1>4, <1>6, <1>7, <1>8 DEF AuthInv

\* There is nothing to restore.
LEMMA NothingReadStep ==
    ASSUME AuthInv, NEW o \in AuthCalls, RecordRead(o), request[o].token = 0
    PROVE  AuthInv'
<1>0. /\ AuthTyped /\ CallsHold /\ QueueHolds /\ ClientHolds /\ CallHolds(o)
      /\ request \in [AuthCalls -> Request(issued)] /\ request[o] \in Request(issued)
      /\ auth \in Client(issued) /\ issued \in Nat
      /\ transport \in [generation : Nat, session : 0..issued]
    BY OfCall, OfClient DEF AuthInv, CallsHold, AuthTyped, CallsTyped
<1>1. /\ request[o].phase = "read" /\ IsCurrent(request[o].generation) /\ Done(o, "ok")
      /\ transport' = [generation |-> transport.generation + 1, session |-> 0]
      /\ auth' = [auth EXCEPT !.status = "signed_out", !.account = Nobody]
      /\ UNCHANGED <<authSetup, storage, store, serverState, revoked, unreliable>>
    BY DEF RecordRead
<1>2. request[o].op = "restore"
    BY <1>0, <1>1 DEF CallHolds, Consistent
<1>3. ServerTyped' /\ ServerGrows
    BY <1>0, <1>1, OfClient DEF serverState, AuthTyped, ServerTyped, ServerGrows
<1> DEFINE w == [request[o] EXCEPT !.phase = "ok"]
<1>4. request' = [request EXCEPT ![o] = w]
    BY <1>0, <1>1 DEF Done
<1>5. w \in Request(issued) /\ w.op = request[o].op /\ w.generation = request[o].generation
    BY <1>0 DEF Request
<1>6. /\ request' \in [AuthCalls -> Request(issued)]
      /\ request'[o] = w /\ \A p \in AuthCalls \ {o} : request'[p] = request[p]
    BY <1>0, <1>4, <1>5
<1>7. Acts(o)
    BY <1>1, <1>2 DEF Acts, Obtaining, Under, Renewing
<1>8. auth.status \in {"authenticating", "switching"}
    BY <1>0, <1>2, <1>7 DEF CallHolds, ShownFor, Renewing
<1>9. /\ auth'.generation = auth.generation /\ auth'.disposed = auth.disposed
      /\ auth'.session = auth.session /\ auth'.status = "signed_out"
      /\ auth' \in Client(issued)
    BY <1>0, <1>1 DEF Client, Statuses
<1>10. /\ transport' \in [generation : Nat, session : 0..issued]
       /\ transport'.session = 0 /\ transport'.generation \in Nat
       /\ transport.generation <= transport'.generation
  <2>1. 0 \in 0..issued /\ transport.generation \in Nat
      BY <1>0
  <2>2. QED
      BY <1>1, <2>1
<1>11. AuthTyped'
    BY <1>0, <1>1, <1>3, <1>6, <1>9, <1>10
    DEF AuthTyped, ClientTyped, StoreTyped, CallsTyped, serverState
<1>12. SameTime /\ Steady
    BY <1>8, <1>9 DEF SameTime, Steady, SignedIn
<1>13. CallHolds(o)'
    BY <1>0, <1>1, <1>6, <1>12, OverKeeps DEF Over
<1>14. CallsHold' /\ OneSignIn'
  <2>1. request'[o].op = request[o].op /\ request'[o].generation = request[o].generation
      BY <1>5, <1>6
  <2>2. QED
      BY <1>3, <1>6, <1>7, <1>10, <1>12, <1>13, <2>1, ActingCalls
<1>15. QueueHolds'
  <2>1. LeavesWaiting
      BY <1>1, <1>6 DEF LeavesWaiting, Waiting
  <2>2. QED
      BY <1>0, <1>1, <1>12, <2>1, QueueKeeps
<1>16. ClientHolds'
  <2>1. SignedInAsShown'
      BY <1>9 DEF SignedInAsShown
  <2>2. hasStore' = hasStore /\ (NoClear' <=> NoClear) /\ 0 \notin revoked
      BY <1>0, <1>1 DEF hasStore, NoClear, AuthTyped, StoreTyped
  <2>3. StoreAgrees'
      BY <1>0, <1>1, <1>9, <2>2 DEF StoreAgrees, ClientHolds
  <2>4. Storeless'
      BY <1>0, <1>1, <1>10, <2>2 DEF Storeless, ClientHolds
  <2>5. QED
      BY <2>1, <2>3, <2>4 DEF ClientHolds
<1>17. QED
    BY <1>11, <1>14, <1>15, <1>16 DEF AuthInv

\* The restoration asks whose the session is, or has it renewed.
LEMMA RecordReadStep ==
    ASSUME AuthInv, NEW o \in AuthCalls, RecordRead(o)
    PROVE  AuthInv'
<1>0. /\ AuthTyped /\ ClientHolds /\ CallHolds(o)
      /\ request \in [AuthCalls -> Request(issued)] /\ request[o] \in Request(issued)
      /\ request[o].token \in 0..issued
      /\ auth.generation \in Nat /\ issued \in Nat /\ transport.generation \in Nat
    BY OfCall, OfClient DEF AuthInv, CallsHold, AuthTyped, CallsTyped
<1>1. CASE request[o].token = 0
    BY <1>1, NothingReadStep
<1>2. CASE request[o].token # 0
  <2> DEFINE t == request[o].token
             phase == IF NeedsRefresh(t) THEN "renewing" ELSE "checking"
             w == [request[o] EXCEPT !.phase = phase, !.account = Scoped,
                                     !.renewing = auth.generation]
  <2>1. /\ request[o].phase = "read" /\ IsCurrent(request[o].generation)
        /\ transport' = [generation |-> transport.generation + 1, session |-> t]
        /\ request' = [request EXCEPT ![o] = w]
        /\ UNCHANGED <<authSetup, auth, storage, store, serverState, revoked, unreliable>>
      BY <1>0, <1>2 DEF RecordRead
  <2>2. phase \in {"renewing", "checking"}
      OBVIOUS
  <2> HIDE DEF phase
  <2>3. /\ w.phase = phase /\ w.op = request[o].op /\ w.account = Scoped /\ w.token = t
        /\ w.generation = request[o].generation /\ w.renewing = auth.generation
        /\ w.goal = request[o].goal
      BY <1>0 DEF Request
  <2>4. w \in Request(issued)
    <3>1. Scoped \in Accounts
        BY AuthAssumption DEF AuthAssumption
    <3>2. QED
        BY <1>0, <2>2, <3>1 DEF Request
  <2> HIDE DEF w
  <2>5. request'[o] = w
      BY <1>0, <2>1
  <2>6. issued' = issued
      BY <2>1 DEF serverState
  <2>7. /\ transport'.generation = transport.generation + 1 /\ transport'.session = t
        /\ transport' \in [generation : Nat, session : 0..issued']
      BY <1>0, <2>1, <2>6
  <2>8. ServerTyped' /\ ServerGrows
      BY <1>0, <2>1, OfClient DEF serverState, AuthTyped, ServerTyped, ServerGrows
  <2>9. /\ Consistent(o) /\ Begins(o) /\ Operates(o) /\ Obtained(o)
        /\ Acts(o) => ShownFor(o)
      BY <1>0 DEF CallHolds
  <2>10. request[o].op = "restore"
      BY <2>1, <2>9 DEF Consistent
  <2>11. Acts(o) /\ request[o].generation = auth.generation
      BY <2>1, <2>10 DEF Acts, Obtaining, Under, Renewing, IsCurrent
  <2>12. ~unreliable => t \notin revoked
      BY <2>1, <2>9, <2>11 DEF Obtained
  <2>13. CallHolds(o)'
    <3>1. Consistent(o)'
        BY <2>2, <2>3, <2>5, <2>9, <2>10, <2>11 DEF Consistent, Renewing
    <3>2. Begins(o)'
        BY <1>0, <2>1, <2>3, <2>5, <2>9 DEF Begins
    <3>3. ShownFor(o)'
        BY <2>1, <2>3, <2>5, <2>9, <2>10, <2>11 DEF ShownFor, Renewing
    <3>4. InTransport(o)'
        BY <2>2, <2>3, <2>5, <2>7 DEF InTransport
    <3>5. Obtained(o)'
        BY <2>1, <2>2, <2>3, <2>5, <2>12 DEF Obtained
    <3>6. IsStored(o)'
        BY <2>2, <2>3, <2>5 DEF IsStored
    <3>7. Operates(o)'
        BY <2>2, <2>3, <2>5, <2>9, <2>10 DEF Operates, Consistent
    <3>8. QED
        BY <3>1, <3>2, <3>3, <3>4, <3>5, <3>6, <3>7 DEF CallHolds
  <2>14. ~hasStore => transport'.session \notin revoked
      BY <1>0, <2>7, <2>12 DEF ClientHolds, Storeless
  <2>15. request[o].phase \notin Waiting
      BY <2>1 DEF Waiting
  <2>16. transport.generation <= transport'.generation
      BY <1>0, <2>7
  <2>17. w \in Request(issued')
      BY <2>4, <2>6
  <2>18. QED
      BY <2>1, <2>3, <2>7, <2>8, <2>11, <2>13, <2>14, <2>15, <2>16, <2>17, GoesOnStep
<1>3. QED
    BY <1>1, <1>2

\* The restoration knows whose the session is: it is installed, or renewed first.
LEMMA AccountCheckedStep ==
    ASSUME AuthInv, NEW o \in AuthCalls, AccountChecked(o)
    PROVE  AuthInv'
<1>0. /\ AuthTyped /\ ClientHolds /\ CallHolds(o)
      /\ request \in [AuthCalls -> Request(issued)] /\ request[o] \in Request(issued)
      /\ request[o].token \in 0..issued /\ transport.session \in 0..issued
      /\ auth.generation \in Nat /\ issued \in Nat /\ transport.generation \in Nat
      /\ transport \in [generation : Nat, session : 0..issued]
    BY OfCall, OfClient DEF AuthInv, CallsHold, AuthTyped, CallsTyped
<1>1. /\ request[o].phase = "checking" /\ IsCurrent(request[o].generation)
      /\ request[o].token # 0
      /\ UNCHANGED <<authSetup, transport, store, serverState, unreliable>>
    BY DEF AccountChecked
<1>2. /\ Consistent(o) /\ Begins(o) /\ Operates(o) /\ Obtained(o) /\ InTransport(o)
      /\ Acts(o) => ShownFor(o)
    BY <1>0 DEF CallHolds
<1>3. request[o].op = "restore"
    BY <1>1, <1>2 DEF Consistent
<1>4. /\ Acts(o) /\ request[o].generation = auth.generation
      /\ Under(o) = request[o].generation
    BY <1>1, <1>3 DEF Acts, Obtaining, Under, Renewing, IsCurrent
<1>5. ~hasStore => transport.session = request[o].token
    BY <1>1, <1>2, <1>4 DEF InTransport
<1>6. PICK t : t = request[o].token
    OBVIOUS
<1>7. PICK a : a = accountOf[t]
    OBVIOUS
<1>8. a \in Accounts
  <2>1. accountOf \in [Tokens -> Accounts] /\ t \in Tokens
      BY <1>0, <1>1, <1>6, OfClient DEF AuthTyped, ServerTyped, Tokens
  <2>2. QED
      BY <1>7, <2>1
<1>9. ServerTyped' /\ ServerGrows /\ issued' = issued /\ accountOf' = accountOf
    BY <1>0, <1>1, OfClient DEF serverState, AuthTyped, ServerTyped, ServerGrows
<1>10. ~unreliable => t \notin revoked
    BY <1>1, <1>2, <1>4, <1>6 DEF Obtained
<1>11. ~hasStore => transport'.session \notin revoked
    BY <1>0, <1>1 DEF ClientHolds, Storeless
<1>12. /\ request[o].phase \notin Waiting
       /\ transport' \in [generation : Nat, session : 0..issued']
       /\ transport.generation <= transport'.generation
    BY <1>0, <1>1, <1>9 DEF Waiting
<1>13. CASE Install(o, t, a, request[o].generation)
  <2>1. t \in 1..issued' /\ accountOf'[t] = a
      BY <1>0, <1>1, <1>6, <1>7, <1>9
  <2>2. PICK g : g = request[o].generation
      OBVIOUS
  <2>3. Install(o, t, a, g) /\ g = Under(o)
      BY <1>4, <1>13, <2>2
  <2>4. request[o].op \in Renewing => a = request[o].account
      BY <1>3 DEF Renewing
  <2>5. t \notin revoked \/ unreliable
      BY <1>10
  <2>6. UNCHANGED <<authSetup, store, unreliable>>
      BY <1>1
  <2>7. QED
      BY <1>4, <1>8, <1>9, <1>11, <1>12, <2>1, <2>3, <2>4, <2>5, <2>6, InstallStep
<1>14. CASE /\ request' = [request EXCEPT ![o].phase = "renewing", ![o].account = a,
                                          ![o].renewing = auth.generation]
            /\ UNCHANGED <<auth, storage, revoked>>
  <2> DEFINE w == [request[o] EXCEPT !.phase = "renewing", !.account = a,
                                     !.renewing = auth.generation]
  <2>1. request' = [request EXCEPT ![o] = w]
      BY <1>0, <1>14
  <2>2. /\ w.phase = "renewing" /\ w.op = request[o].op /\ w.account = a
        /\ w.generation = request[o].generation /\ w.renewing = auth.generation
        /\ w.goal = request[o].goal
      BY <1>0 DEF Request
  <2>3. w \in Request(issued)
      BY <1>0, <1>8 DEF Request
  <2> HIDE DEF w
  <2>4. request'[o] = w
      BY <1>0, <2>1
  <2>5. CallHolds(o)'
    <3>1. Consistent(o)'
        BY <1>2, <1>3, <1>4, <2>2, <2>4 DEF Consistent, Renewing
    <3>2. Begins(o)'
        BY <1>0, <1>2, <1>14, <2>2, <2>4 DEF Begins
    <3>3. ShownFor(o)'
        BY <1>2, <1>3, <1>4, <1>14, <2>2, <2>4 DEF ShownFor, Renewing
    <3>4. InTransport(o)' /\ Obtained(o)' /\ IsStored(o)'
        BY <2>2, <2>4 DEF InTransport, Obtained, IsStored
    <3>5. Operates(o)'
        BY <1>2, <1>3, <2>2, <2>4 DEF Operates, Consistent
    <3>6. QED
        BY <3>1, <3>2, <3>3, <3>4, <3>5 DEF CallHolds
  <2>6. w \in Request(issued')
      BY <1>9, <2>3
  <2>7. UNCHANGED <<authSetup, auth, storage, store, revoked, unreliable>>
      BY <1>1, <1>14
  <2>8. QED
      BY <1>4, <1>9, <1>11, <1>12, <2>1, <2>2, <2>5, <2>6, <2>7, GoesOnStep
<1>15. QED
    BY <1>5, <1>6, <1>7, <1>13, <1>14 DEF AccountChecked

\* Who renews, and a restoration whose session must be renewed first, do so
\* under the generation kept for it.
LEMMA RenewsUnder ==
    ASSUME NEW o \in AuthCalls, Consistent(o), request[o].phase \in {"renewing", "verifying"}
    PROVE  /\ Under(o) = request[o].renewing
           /\ request[o].op \in Renewing \cup {"restore"}
           /\ GoesOn(o) => Acts(o)
<1>1. request[o].op \in Renewing \cup {"restore"} /\ Under(o) = request[o].renewing
    BY DEF Consistent, Under, Renewing
<1>2. QED
    BY <1>1 DEF GoesOn, Acts, Obtaining

\* The renewed session goes to the transport, or comes too late.
LEMMA RenewalAnsweredStep ==
    ASSUME AuthInv, NEW o \in AuthCalls, NEW a \in Accounts, RenewalAnswered(o, a)
    PROVE  AuthInv'
<1>0. /\ AuthTyped /\ CallHolds(o)
      /\ request \in [AuthCalls -> Request(issued)] /\ request[o] \in Request(issued)
      /\ transport.generation \in Nat
    BY OfCall, OfClient DEF AuthInv, CallsHold, AuthTyped, CallsTyped
<1>1. /\ request[o].phase = "renewing" /\ Issues(a)
      /\ UNCHANGED <<authSetup, store, unreliable>>
    BY DEF RenewalAnswered
<1>2. /\ ServerTyped' /\ ServerGrows
      /\ issued' = issued + 1 /\ accountOf'[issued + 1] = a /\ issued \in Nat
    BY <1>0, <1>1, IssuesKeeps
<1>3. /\ Consistent(o) /\ Begins(o) /\ Operates(o)
      /\ Acts(o) => ShownFor(o)
    BY <1>0 DEF CallHolds
<1>4. /\ Under(o) = request[o].renewing
      /\ request[o].op \in Renewing \cup {"restore"}
      /\ GoesOn(o) => Acts(o)
    BY <1>1, <1>3, RenewsUnder
<1>5. CASE ~GoesOn(o)
  <2>1. AuthFails(o)
      BY <1>5 DEF RenewalAnswered
  <2>2. ~IsCurrent(Under(o))
      BY <1>4, <1>5 DEF GoesOn
  <2>3. request[o].phase \notin Waiting \cup Over
      BY <1>1 DEF Waiting, Over
  <2>4. QED
      BY <1>1, <1>2, <2>1, <2>2, <2>3, FailStep
<1>6. CASE GoesOn(o)
  <2> DEFINE w == [request[o] EXCEPT !.phase = "verifying", !.token = issued + 1]
  <2>1. /\ request' = [request EXCEPT ![o] = w]
        /\ transport' = [generation |-> transport.generation + 1, session |-> issued + 1]
        /\ UNCHANGED <<auth, storage, revoked>>
      BY <1>0, <1>6 DEF RenewalAnswered
  <2>2. issued + 1 \in 0..issued' /\ issued + 1 # 0 /\ issued + 1 \notin revoked
      BY <1>0, <1>2 DEF AuthTyped, StoreTyped
  <2>3. /\ w.phase = "verifying" /\ w.op = request[o].op /\ w.account = request[o].account
        /\ w.generation = request[o].generation /\ w.renewing = request[o].renewing
        /\ w.goal = request[o].goal /\ w.token = issued + 1
      BY <1>0 DEF Request
  <2>4. w \in Request(issued')
    <3>1. request[o] \in Request(issued')
        BY <1>0, <1>2, TypedGrows
    <3>2. QED
        BY <2>2, <3>1 DEF Request
  <2> HIDE DEF w
  <2>5. request'[o] = w
      BY <1>0, <2>1
  <2>6. Acts(o) /\ ShownFor(o)
      BY <1>3, <1>4, <1>6
  <2>7. /\ transport'.generation = transport.generation + 1
        /\ transport'.session = issued + 1
        /\ transport' \in [generation : Nat, session : 0..issued']
      BY <1>0, <2>1, <2>2
  <2>8. CallHolds(o)'
    <3>1. Consistent(o)'
        BY <1>1, <1>3, <2>3, <2>5 DEF Consistent
    <3>2. Begins(o)'
        BY <1>3, <2>1, <2>3, <2>5 DEF Begins
    <3>3. ShownFor(o)'
        BY <2>1, <2>3, <2>5, <2>6 DEF ShownFor
    <3>4. InTransport(o)' /\ IsStored(o)'
        BY <2>3, <2>5 DEF InTransport, IsStored
    <3>5. Obtained(o)'
        BY <2>1, <2>2, <2>3, <2>5 DEF Obtained
    <3>6. Operates(o)'
        BY <1>1, <1>3, <2>1, <2>3, <2>5 DEF Operates, IsCurrent
    <3>7. QED
        BY <3>1, <3>2, <3>3, <3>4, <3>5, <3>6 DEF CallHolds
  <2>9. ~hasStore => transport'.session \notin revoked
      BY <2>2, <2>7
  <2>10. request[o].phase \notin Waiting
      BY <1>1 DEF Waiting
  <2>11. transport.generation <= transport'.generation
      BY <1>0, <2>7
  <2>12. QED
      BY <1>1, <1>2, <2>1, <2>3, <2>4, <2>6, <2>7, <2>8, <2>9, <2>10, <2>11, GoesOnStep
<1>7. QED
    BY <1>5, <1>6

\* The renewed session is of the same account.
LEMMA RenewalVerifiedStep ==
    ASSUME AuthInv, NEW o \in AuthCalls, RenewalVerified(o)
    PROVE  AuthInv'
<1>0. /\ AuthTyped /\ ClientHolds /\ CallHolds(o)
      /\ request[o].token \in 0..issued /\ issued \in Nat
      /\ transport \in [generation : Nat, session : 0..issued]
    BY OfCall, OfClient DEF AuthInv, CallsHold
<1>1. /\ request[o].phase = "verifying" /\ GoesOn(o) /\ SameAccount(o)
      /\ Install(o, request[o].token, request[o].account, request[o].renewing)
      /\ UNCHANGED <<authSetup, transport, store, serverState, unreliable>>
    BY DEF RenewalVerified
<1>2. Consistent(o) /\ Obtained(o)
    BY <1>0 DEF CallHolds
<1>3. Under(o) = request[o].renewing /\ Acts(o)
    BY <1>1, <1>2, RenewsUnder
<1>4. PICK t, a, g : t = request[o].token /\ a = request[o].account /\ g = request[o].renewing
    OBVIOUS
<1>5. t # 0 /\ (~unreliable => t \notin revoked)
    BY <1>1, <1>2, <1>3, <1>4 DEF Obtained
<1>6. accountOf[t] = a
    BY <1>1, <1>4 DEF SameAccount
<1>7. a \in Accounts
  <2>1. accountOf \in [Tokens -> Accounts] /\ t \in Tokens
      BY <1>0, <1>4, <1>5, OfClient DEF AuthTyped, ServerTyped, Tokens
  <2>2. QED
      BY <1>6, <2>1
<1>8. ServerTyped' /\ ServerGrows /\ issued' = issued /\ accountOf' = accountOf
    BY <1>0, <1>1, OfClient DEF serverState, AuthTyped, ServerTyped, ServerGrows
<1>9. t \in 1..issued' /\ accountOf'[t] = a
    BY <1>0, <1>4, <1>5, <1>6, <1>8
<1>10. Install(o, t, a, g) /\ g = Under(o)
    BY <1>1, <1>3, <1>4
<1>11. ~hasStore => transport'.session \notin revoked
    BY <1>0, <1>1 DEF ClientHolds, Storeless
<1>12. /\ request[o].phase \notin Waiting
       /\ transport' \in [generation : Nat, session : 0..issued']
       /\ transport.generation <= transport'.generation
    BY <1>0, <1>1, <1>8 DEF Waiting
<1>13. request[o].op \in Renewing => a = request[o].account
    BY <1>4
<1>14. t \notin revoked \/ unreliable
    BY <1>5
<1>15. UNCHANGED <<authSetup, store, unreliable>>
    BY <1>1
<1>16. QED
    BY <1>3, <1>7, <1>8, <1>9, <1>10, <1>11, <1>12, <1>13, <1>14, <1>15, InstallStep

-----------------------------------------------------------------------------
(* What was obtained is stored.                                             *)

\* The call that acts has stored its session: from now on the client shows it.
LEMMA AuthenticatedStep ==
    ASSUME AuthInv, NEW o \in AuthCalls, Acts(o), request[o].phase = "persisted",
           auth' \in Client(issued), SameTime, Steady,
           auth'.session = auth.session, auth'.status = "authenticated",
           auth'.account = request[o].account,
           request' \in [AuthCalls -> Request(issued)], LeavesWaiting,
           request'[o] # request[o], \A p \in AuthCalls : Ends(p),
           UNCHANGED <<authSetup, transport, storage, store, serverState, revoked, unreliable>>
    PROVE  AuthInv'
<1>0. /\ AuthTyped /\ CallsHold /\ OneSignIn /\ QueueHolds /\ ClientHolds /\ CallHolds(o)
      /\ transport.generation \in Nat
    BY OfClient DEF AuthInv, CallsHold
<1>1. AuthTyped'
    BY <1>0 DEF AuthTyped, ClientTyped, ServerTyped, StoreTyped, CallsTyped, serverState
<1>2. ServerGrows
    BY <1>0, OfClient DEF ServerGrows, serverState
<1>3. CallsHold'
  <2>1. SUFFICES ASSUME NEW p \in AuthCalls PROVE CallHolds(p)'
      BY DEF CallsHold
  <2>2. CallHolds(p) /\ Ends(p)
      BY <1>0 DEF CallsHold
  <2>3. CASE request'[p] = request[p]
    <3>1. ~Acts(p)
        BY <1>0, <2>3, Alone
    <3>2. transport'.generation \in Nat /\ transport.generation <= transport'.generation
        BY <1>0
    <3>3. QED
        BY <1>0, <1>2, <2>2, <2>3, <3>1, <3>2, StillKeeps
  <2>4. CASE request'[p] # request[p]
    <3>1. PICK outcome \in Over :
            /\ request'[p] = [request[p] EXCEPT !.phase = outcome]
            /\ outcome \in {"renewed", "unrenewed"} => request[p].op \in Renewing
            /\ request[p].phase # "failed"
        BY <2>2, <2>4 DEF Ends
    <3>2. QED
        BY <1>0, <2>2, <3>1, OverKeeps
  <2>5. QED
      BY <2>3, <2>4
<1>4. OneSignIn'
  <2>1. ASSUME NEW p \in AuthCalls
        PROVE  request'[p].op = request[p].op /\ request'[p].generation = request[p].generation
    <3>1. request[p] \in Request(issued)
        BY <1>0, OfCall
    <3>2. QED
        BY <3>1 DEF Ends, Request
  <2>2. QED
      BY <1>0, <2>1, SignInsKeep
<1>5. QueueHolds'
    BY <1>0, QueueKeeps
<1>6. ClientHolds'
  <2>1. /\ auth.session = request[o].token /\ request[o].token # 0
        /\ accountOf[request[o].token] = request[o].account
      BY <1>0 DEF CallHolds, Obtained
  <2>2. SignedInAsShown'
      BY <2>1 DEF SignedInAsShown, serverState
  <2>3. hasStore' = hasStore /\ (NoClear' <=> NoClear)
      BY DEF hasStore, NoClear
  <2>4. hasStore =>
            NoClear /\ (~unreliable => store = Kept(request[o].token, request[o].account))
      BY <1>0 DEF CallHolds, IsStored
  <2>5. StoreAgrees'
    <3>1. StoreAgrees
        BY <1>0 DEF ClientHolds
    <3>2. /\ ~unreliable' => auth'.session \notin revoked'
          /\ ~unreliable' /\ store' \in revoked' => ~NoClear'
        BY <2>3, <3>1 DEF StoreAgrees
    <3>3. hasStore' =>
            NoClear' /\ (~unreliable' => store' = Kept(auth'.session, auth'.account))
        BY <2>1, <2>3, <2>4
    <3>4. QED
        BY <3>2, <3>3 DEF StoreAgrees, Kept
  <2>6. Storeless'
      BY <1>0, <2>3 DEF Storeless, ClientHolds
  <2>7. QED
      BY <2>2, <2>5, <2>6 DEF ClientHolds
<1>7. QED
    BY <1>1, <1>3, <1>4, <1>5, <1>6 DEF AuthInv

LEMMA SignInPersistedStep ==
    ASSUME AuthInv, NEW o \in AuthCalls, SignInPersisted(o)
    PROVE  AuthInv'
<1>0. /\ AuthTyped /\ CallHolds(o) /\ auth \in Client(issued)
      /\ request \in [AuthCalls -> Request(issued)] /\ request[o] \in Request(issued)
      /\ request[o].account \in Accounts \cup {Nobody}
    BY OfCall, OfClient DEF AuthInv, CallsHold, AuthTyped, CallsTyped
<1>1. /\ request[o].op \in SigningIn /\ request[o].phase \in {"persisted", "unpersisted"}
      /\ UNCHANGED <<authSetup, store, serverState, unreliable>>
    BY DEF SignInPersisted, SigningIn
<1>2. ServerTyped' /\ ServerGrows
    BY <1>0, <1>1, OfClient DEF serverState, AuthTyped, ServerTyped, ServerGrows
<1>3. request[o].phase \notin Waiting \cup Over
    BY <1>1 DEF Waiting, Over
<1>4. CASE AuthFails(o)
    BY <1>1, <1>2, <1>3, <1>4, FailStep
<1>5. CASE /\ request[o].phase = "persisted" /\ Done(o, "ok")
           /\ auth' = IF IsCurrent(request[o].generation)
                      THEN Authenticated(auth, request[o].account) ELSE auth
           /\ UNCHANGED <<transport, storage, revoked>>
  <2>1. CASE ~IsCurrent(request[o].generation)
    <3>1. auth' = auth /\ request[o].phase \notin Waiting \cup {"failed"}
        BY <1>3, <1>5, <2>1
    <3>2. QED
        BY <1>1, <1>2, <1>5, <3>1, DoneStep
  <2>2. CASE IsCurrent(request[o].generation)
    <3>1. Acts(o)
        BY <1>1, <1>5, <2>2 DEF Acts, Under, Obtaining, SigningIn, Renewing
    <3>2. auth' = [auth EXCEPT !.status = "authenticated", !.account = request[o].account]
        BY <1>5, <2>2 DEF Authenticated
    <3>3. /\ auth' \in Client(issued)
          /\ auth'.generation = auth.generation /\ auth'.disposed = auth.disposed
          /\ auth'.session = auth.session /\ auth'.status = "authenticated"
          /\ auth'.account = request[o].account
        BY <1>0, <3>2 DEF Client, Statuses
    <3>4. auth.status \notin SignedIn
        BY <1>0, <1>1, <3>1 DEF CallHolds, ShownFor, SignedIn, SigningIn, Renewing
    <3>5. SameTime /\ Steady
        BY <3>3, <3>4 DEF SameTime, Steady
    <3>6. request' = [request EXCEPT ![o] = [request[o] EXCEPT !.phase = "ok"]]
        BY <1>0, <1>5 DEF Done
    <3>7. /\ [request[o] EXCEPT !.phase = "ok"] \in Request(issued)
          /\ [request[o] EXCEPT !.phase = "ok"].phase = "ok"
        BY <1>0 DEF Request
    <3>8. /\ request' \in [AuthCalls -> Request(issued)]
          /\ request'[o] = [request[o] EXCEPT !.phase = "ok"]
          /\ \A p \in AuthCalls \ {o} : request'[p] = request[p]
        BY <1>0, <3>6, <3>7
    <3>9. request'[o] # request[o]
        BY <1>5, <3>7, <3>8
    <3>10. LeavesWaiting
        BY <1>3, <3>8 DEF LeavesWaiting
    <3>11. \A p \in AuthCalls : Ends(p)
        BY <1>5, <3>8 DEF Ends, Over
    <3>12. UNCHANGED <<authSetup, transport, storage, store, serverState, revoked, unreliable>>
        BY <1>1, <1>5
    <3>13. QED
        BY <1>5, <3>1, <3>3, <3>5, <3>8, <3>9, <3>10, <3>11, <3>12, AuthenticatedStep
  <2>3. QED
      BY <2>1, <2>2
<1>6. QED
    BY <1>4, <1>5 DEF SignInPersisted

LEMMA RenewalPersistedStep ==
    ASSUME AuthInv, NEW o \in AuthCalls, RenewalPersisted(o)
    PROVE  AuthInv'
<1>0. /\ AuthTyped /\ CallsHold /\ CallHolds(o) /\ auth \in Client(issued)
      /\ request[o].account \in Accounts \cup {Nobody}
      /\ auth.refreshing \in AuthCalls \cup {Nobody}
    BY OfCall, OfClient DEF AuthInv, CallsHold
<1>1. /\ request[o].op \in Renewing /\ request[o].phase \in {"persisted", "unpersisted"}
      /\ UNCHANGED <<authSetup, store, serverState, unreliable>>
    BY DEF RenewalPersisted, Renews, Renewing
<1>2. ServerTyped' /\ ServerGrows
    BY <1>0, <1>1, OfClient DEF serverState, AuthTyped, ServerTyped, ServerGrows
<1>3. request[o].phase \notin Waiting \cup Over
    BY <1>1 DEF Waiting, Over
<1>4. CASE AuthFails(o)
    BY <1>1, <1>2, <1>3, <1>4, FailStep
<1>5. CASE /\ GoesOn(o) /\ request[o].phase = "persisted"
           /\ auth' = [Authenticated(auth, request[o].account) EXCEPT !.refreshing = Settled(o)]
           /\ request' = Renewed(o, "renewed")
           /\ UNCHANGED <<transport, storage, revoked>>
  <2>1. Acts(o)
      BY <1>1, <1>5 DEF GoesOn, Acts, Under, Obtaining
  <2>2. auth.status = "refreshing" /\ request[o].account = auth.account
      BY <1>0, <1>1, <2>1 DEF CallHolds, ShownFor
  <2>3. Settled(o) \in AuthCalls \cup {Nobody}
      BY <1>0 DEF Settled
  <2>4. /\ auth' \in Client(issued)
        /\ auth'.generation = auth.generation /\ auth'.disposed = auth.disposed
        /\ auth'.session = auth.session /\ auth'.status = "authenticated"
        /\ auth'.account = request[o].account
      BY <1>0, <1>5, <2>3 DEF Client, Authenticated, Statuses
  <2>5. SameTime /\ Steady
      BY <2>2, <2>4 DEF SameTime, Steady, SignedIn
  <2>6. /\ request' \in [AuthCalls -> Request(issued)]
        /\ LeavesWaiting /\ request'[o] # request[o]
        /\ \A p \in AuthCalls : Ends(p)
    <3>1. PICK outcome \in {"renewed", "unrenewed"} : outcome = "renewed"
        OBVIOUS
    <3>2. request' = Renewed(o, outcome)
        BY <1>5, <3>1
    <3>3. QED
        BY <1>0, <1>1, <1>3, <3>2, RenewedEnds
  <2>7. UNCHANGED <<authSetup, transport, storage, store, serverState, revoked, unreliable>>
      BY <1>1, <1>5
  <2>8. QED
      BY <1>5, <2>1, <2>4, <2>5, <2>6, <2>7, AuthenticatedStep
<1>6. QED
    BY <1>4, <1>5 DEF RenewalPersisted

-----------------------------------------------------------------------------
(* The queue gets to an operation.                                          *)

\* What is known of the first operation of the queue.
LEMMA OfHead ==
    ASSUME AuthInv, storage # <<>>, NEW e, e = Head(storage)
    PROVE  /\ hasStore /\ IsOf(e)
           /\ e.call \in AuthCalls \cup {Nobody}
           /\ e.op \in {"clear", "drop", "write", "read"}
           /\ e.token \in 0..issued
           /\ e.call \in AuthCalls => request[e.call].phase \in Waiting
           /\ e.op \in {"drop", "write"} /\ IsCurrent(e.generation) => Acts(e.call)
           /\ e.call \in AuthCalls /\ Acts(e.call) => NoClear
<1>0. AuthTyped /\ QueueHolds /\ ClientHolds /\ Nobody \notin AuthCalls
    BY AuthAssumption DEF AuthInv, AuthAssumption
<1>1. 1 \in DOMAIN storage /\ e = storage[1]
    BY <1>0 DEF AuthTyped, StoreTyped
<1>2. hasStore
    BY <1>0 DEF ClientHolds, Storeless
<1>3. /\ e.call \in AuthCalls \cup {Nobody}
      /\ e.op \in {"clear", "drop", "write", "read"} /\ e.token \in 0..issued
    BY <1>0, <1>1, OfQueue
<1>4. IsOf(e)
    BY <1>0, <1>1 DEF QueueHolds
<1>5. e.call \in AuthCalls => request[e.call].phase \in Waiting
    BY <1>0, <1>1, HasEntry
<1>6. e.op \in {"drop", "write"} /\ IsCurrent(e.generation) => Acts(e.call)
    BY <1>4 DEF IsOf, Acts, Obtaining
<1>7. ASSUME e.call \in AuthCalls, Acts(e.call)
      PROVE  NoClear
  <2>1. SUFFICES ASSUME NEW j \in DOMAIN storage, storage[j].op = "clear"
                 PROVE  FALSE
      BY DEF NoClear
  <2>2. j < 1
      BY <1>0, <1>1, <1>7, <2>1 DEF QueueHolds
  <2>3. j \in 1..Len(storage)
      BY <1>0 DEF AuthTyped, StoreTyped
  <2>4. QED
      BY <2>2, <2>3
<1>8. QED
    BY <1>2, <1>3, <1>4, <1>5, <1>6, <1>7

\* An operation is over, well or not.
LEMMA TurnStep ==
    ASSUME AuthInv, storage # <<>>, storage' = Tail(storage),
           request' \in [AuthCalls -> Request(issued)],
           NEW o, o = Head(storage).call,
           \A p \in AuthCalls : p # o => request'[p] = request[p],
           o \in AuthCalls =>
              /\ CallHolds(o)'
              /\ request'[o].op = request[o].op /\ request'[o].generation = request[o].generation,
           UNCHANGED <<authSetup, auth, transport, serverState, revoked>>,
           store' \in 0..issued, unreliable' \in BOOLEAN, unreliable => unreliable',
           \/ unreliable' \/ store' = store \/ ~NoClear
           \/ o \in AuthCalls /\ Acts(o),
           StoreAgrees'
    PROVE  AuthInv'
<1>0. /\ AuthTyped /\ CallsHold /\ OneSignIn /\ QueueHolds /\ ClientHolds
      /\ storage \in Seq(StorageOp(issued))
    BY DEF AuthInv, AuthTyped, StoreTyped
<1>1. AuthTyped'
  <2>1. storage' \in Seq(StorageOp(issued))
      BY <1>0
  <2>2. QED
      BY <1>0, <2>1 DEF AuthTyped, ClientTyped, ServerTyped, StoreTyped, CallsTyped, serverState
<1>2. SameTime /\ Steady /\ ServerGrows
    BY <1>0, OfClient DEF SameTime, Steady, ServerGrows, serverState
<1>3. NoClear => NoClear'
    BY <1>0, TailClears
<1>4. Quiet
    BY <1>2, <1>3 DEF Quiet
<1>5. hasStore
    BY <1>0 DEF ClientHolds, Storeless
<1>6. CallsHold'
  <2>1. SUFFICES ASSUME NEW p \in AuthCalls, p # o PROVE CallHolds(p)'
      BY DEF CallsHold
  <2>2. CallHolds(p) /\ request'[p] = request[p]
      BY <1>0, <2>1 DEF CallsHold
  <2>3. CASE ~Acts(p)
    <3>1. transport'.generation \in Nat /\ transport.generation <= transport'.generation
        BY <1>0, OfClient
    <3>2. QED
        BY <1>0, <1>2, <2>2, <2>3, <3>1, StillKeeps
  <2>4. CASE Acts(p)
    <3>1. ~(o \in AuthCalls /\ Acts(o))
        BY <1>0, <2>1, <2>4, Alone
    <3>2. request[p].phase = "persisted" => NoClear
        BY <1>5, <2>2, <2>4 DEF CallHolds, IsStored
    <3>3. request[p].phase = "persisted" => unreliable' \/ store' = store
        BY <3>1, <3>2
    <3>4. QED
        BY <1>0, <1>4, <2>2, <3>3, QuietKeeps
  <2>5. QED
      BY <2>3, <2>4
<1>7. OneSignIn'
  <2>1. \A p \in AuthCalls :
           /\ request'[p].op = request[p].op
           /\ request'[p].generation = request[p].generation
      OBVIOUS
  <2>2. QED
      BY <1>0, <2>1, SignInsKeep
<1>8. QueueHolds'
    BY <1>0, <1>2, QueueShrinks
<1>9. ClientHolds'
  <2>1. SignedInAsShown'
      BY <1>0 DEF ClientHolds, SignedInAsShown, serverState
  <2>2. Storeless'
      BY <1>5 DEF Storeless, hasStore
  <2>3. QED
      BY <2>1, <2>2 DEF ClientHolds
<1>10. QED
    BY <1>1, <1>6, <1>7, <1>8, <1>9 DEF AuthInv

\* The operation is executed.
LEMMA StorageRunsStep ==
    ASSUME AuthInv, StorageRuns
    PROVE  AuthInv'
<1>0. /\ AuthTyped /\ CallsHold /\ ClientHolds /\ Nobody \notin AuthCalls
      /\ request \in [AuthCalls -> Request(issued)] /\ store \in 0..issued
      /\ issued \in Nat /\ revoked \subseteq 1..issued /\ unreliable \in BOOLEAN
    BY OfClient, AuthAssumption DEF AuthInv, AuthTyped, CallsTyped, StoreTyped, AuthAssumption
<1>1. PICK e : e = Head(storage)
    OBVIOUS
<1>2. PICK o : o = e.call
    OBVIOUS
<1>3. /\ storage # <<>> /\ storage' = Tail(storage) /\ store' = Stored(e)
      /\ UNCHANGED <<authSetup, auth, transport, serverState, revoked, unreliable>>
      /\ request' = IF o = Nobody THEN request
                    ELSE [request EXCEPT ![o].phase = Awaiting(@),
                                         ![o].token = IF e.op = "read" THEN store ELSE @]
    BY <1>1, <1>2 DEF StorageRuns
<1>4. /\ hasStore /\ IsOf(e)
      /\ o \in AuthCalls \cup {Nobody}
      /\ e.op \in {"clear", "drop", "write", "read"}
      /\ e.token \in 0..issued
      /\ o \in AuthCalls => request[o].phase \in Waiting
      /\ e.op \in {"drop", "write"} /\ IsCurrent(e.generation) => Acts(o)
      /\ o \in AuthCalls /\ Acts(o) => NoClear
    BY <1>1, <1>2, <1>3, OfHead
<1>5. /\ store' \in {0, e.token, store}
      /\ store' # store => e.op = "clear" \/ (e.op \in {"drop", "write"} /\ IsCurrent(e.generation))
      /\ e.op = "clear" => store' = 0
      /\ IsCurrent(e.generation) => (e.op = "drop" => store' = 0) /\ (e.op = "write" => store' = e.token)
    BY <1>3, <1>4 DEF Stored, Writes
<1>6. 0 \in 0..issued /\ 0 \notin revoked
    BY <1>0
<1>7. /\ NoClear => NoClear' /\ e.op # "clear"
      /\ e.op # "clear" => (NoClear' => NoClear)
    BY <1>0, <1>1, <1>3, TailClears
<1>8. hasStore' = hasStore /\ (\A g : IsCurrent(g)' <=> IsCurrent(g))
    BY <1>3 DEF hasStore, IsCurrent
<1>9. e.op \in {"drop", "write"} => o \in AuthCalls
    BY <1>2, <1>4 DEF IsOf
<1>10. StoreAgrees'
  <2>1. StoreAgrees
      BY <1>0 DEF ClientHolds
  <2>2. CASE store' = store /\ e.op # "clear"
      BY <1>3, <1>7, <1>8, <2>1, <2>2 DEF StoreAgrees, Kept
  <2>3. CASE e.op = "clear"
      BY <1>3, <1>5, <1>6, <1>7, <1>8, <2>1, <2>3 DEF StoreAgrees
  <2>4. CASE e.op \in {"drop", "write"} /\ IsCurrent(e.generation)
    <3>1. o \in AuthCalls /\ Acts(o) /\ CallHolds(o)
        BY <1>0, <1>4, <1>9, <2>4 DEF CallsHold
    <3>2. request[o].phase = "persisting" /\ request[o].token = e.token
        BY <1>2, <1>4, <2>4 DEF IsOf
    <3>3. ~unreliable => e.token \notin revoked
        BY <3>1, <3>2 DEF CallHolds, Obtained
    <3>4. auth.status # "authenticated"
        BY <3>1 DEF CallHolds, ShownFor
    <3>5. store' = 0 \/ store' = e.token
        BY <1>5, <2>4
    <3>6. QED
        BY <1>3, <1>6, <2>1, <3>3, <3>4, <3>5 DEF StoreAgrees
  <2>5. QED
      BY <1>5, <2>2, <2>3, <2>4
<1>11. CASE o = Nobody
  <2>1. request' = request
      BY <1>3, <1>11
  <2>2. \/ unreliable' \/ store' = store \/ ~NoClear
        \/ o \in AuthCalls /\ Acts(o)
      BY <1>4, <1>5, <1>7, <1>9
  <2>3. store' \in 0..issued /\ unreliable' \in BOOLEAN /\ (unreliable => unreliable')
      BY <1>0, <1>3, <1>4, <1>5, <1>6
  <2>4. o \notin AuthCalls /\ o = Head(storage).call
      BY <1>0, <1>1, <1>2, <1>11
  <2>5. QED
      BY <1>0, <1>3, <1>10, <2>1, <2>2, <2>3, <2>4, TurnStep
<1>12. CASE o # Nobody
  <2>0. /\ o \in AuthCalls /\ CallHolds(o) /\ request[o] \in Request(issued)
        /\ request[o].phase \in Waiting
      BY <1>0, <1>4, <1>12 DEF CallsHold
  <2> DEFINE t == IF e.op = "read" THEN store ELSE request[o].token
             phase == Awaiting(request[o].phase)
             w == [request[o] EXCEPT !.phase = phase, !.token = t]
  <2>1. request' = [request EXCEPT ![o] = w]
      BY <1>0, <1>3, <1>12, <2>0
  <2>2. /\ request[o].phase = "reading" => phase = "read"
        /\ request[o].phase = "persisting" => phase = "persisted"
        /\ request[o].phase = "clearing" => phase = "ok"
      BY DEF Awaiting
  <2>3. phase \in {"read", "persisted", "ok"}
      BY <2>0, <2>2 DEF Waiting
  <2>4. /\ e.op = "read" => t = store
        /\ e.op # "read" => t = request[o].token
        /\ t \in 0..issued
    <3>1. request[o].token \in 0..issued
        BY <1>0, <2>0, OfCall
    <3>2. QED
        BY <1>0, <3>1
  <2> HIDE DEF phase, t
  <2>5. /\ w.phase = phase /\ w.op = request[o].op /\ w.account = request[o].account
        /\ w.generation = request[o].generation /\ w.renewing = request[o].renewing
        /\ w.goal = request[o].goal /\ w.token = t
      BY <2>0 DEF Request
  <2>6. w \in Request(issued)
      BY <2>0, <2>3, <2>4 DEF Request
  <2> HIDE DEF w
  <2>7. /\ request' \in [AuthCalls -> Request(issued)] /\ request'[o] = w
        /\ \A p \in AuthCalls : p # o => request'[p] = request[p]
      BY <1>0, <2>0, <2>1, <2>6
  <2>8. /\ e.op \in {"write", "drop"} =>
              /\ request[o].phase = "persisting"
              /\ request[o].token = e.token /\ Under(o) = e.generation
              /\ e.op = "write" <=> request[o].account = Scoped
        /\ e.op = "read" => request[o].phase = "reading"
        /\ e.op = "clear" => request[o].phase = "clearing"
      BY <1>2, <1>4, <1>12 DEF IsOf
  <2>9. CallHolds(o)'
    <3>1. CASE e.op = "clear"
      <4>1. w = [request[o] EXCEPT !.phase = "ok"]
          BY <2>0, <2>2, <2>4, <2>8, <3>1 DEF w, Request
      <4>2. SameTime /\ Steady
          BY <1>3 DEF SameTime, Steady
      <4>3. request[o].phase # "failed"
          BY <2>8, <3>1
      <4>4. QED
          BY <1>0, <2>0, <2>7, <4>1, <4>2, <4>3, OverKeeps DEF Over
    <3>2. CASE e.op # "clear"
      <4>0. /\ Consistent(o) /\ Begins(o) /\ Obtained(o) /\ Operates(o)
            /\ Acts(o) => ShownFor(o)
          BY <2>0 DEF CallHolds
      <4>1. /\ request[o].phase \in {"reading", "persisting"}
            /\ request[o].phase = "reading" => phase = "read" /\ e.op = "read" /\ t = store
            /\ request[o].phase = "persisting" =>
                  phase = "persisted" /\ e.op \in {"drop", "write"} /\ t = request[o].token
          BY <1>4, <2>2, <2>4, <2>8, <3>2
      <4>2. Under(o)' = Under(o)
          BY <2>5, <2>7 DEF Under
      <4>3. Acts(o)' => Acts(o)
          BY <1>8, <4>1, <4>2 DEF Acts, Obtaining, IsCurrent
      <4>4. Consistent(o)'
          BY <2>5, <2>7, <4>0, <4>1 DEF Consistent
      <4>5. Begins(o)'
          BY <1>3, <2>5, <2>7, <4>0 DEF Begins
      <4>6. Acts(o)' => ShownFor(o)'
          BY <1>3, <2>5, <2>7, <4>0, <4>3 DEF ShownFor
      <4>7. InTransport(o)'
          BY <2>5, <2>7, <4>1 DEF InTransport
      <4>8. Obtained(o)'
        <5>1. CASE request[o].phase = "reading"
          <6>1. Acts(o)' /\ ~unreliable' => store \notin revoked
              BY <1>0, <1>3, <1>4, <2>0, <4>3 DEF ClientHolds, StoreAgrees
          <6>2. /\ request'[o].phase = "read" /\ request'[o].token = store
                /\ revoked' = revoked /\ unreliable' = unreliable
              BY <1>3, <2>5, <2>7, <4>1, <5>1
          <6>3. QED
              BY <6>1, <6>2 DEF Obtained
        <5>2. CASE request[o].phase = "persisting"
          <6>1. Acts(o)' =>
                  /\ auth.session = request[o].token /\ request[o].token # 0
                  /\ accountOf[request[o].token] = request[o].account
                  /\ ~unreliable => request[o].token \notin revoked
              BY <4>0, <4>3, <5>2 DEF Obtained
          <6>2. accountOf' = accountOf
              BY <1>3 DEF serverState
          <6>3. /\ request'[o].phase = "persisted" /\ request'[o].token = request[o].token
                /\ request'[o].account = request[o].account /\ auth' = auth
                /\ revoked' = revoked /\ unreliable' = unreliable
              BY <1>3, <2>5, <2>7, <4>1, <5>2
          <6>4. QED
              BY <6>1, <6>2, <6>3 DEF Obtained
        <5>3. QED
            BY <4>1, <5>1, <5>2
      <4>9. IsStored(o)'
        <5>1. CASE request[o].phase = "reading"
            BY <2>5, <2>7, <4>1, <5>1 DEF IsStored
        <5>2. CASE request[o].phase = "persisting" /\ Acts(o)
          <6>1. NoClear'
              BY <1>4, <1>7, <2>0, <5>2
          <6>2. IsCurrent(e.generation)
              BY <2>8, <4>1, <5>2 DEF Acts
          <6>3. store' = Kept(request[o].token, request[o].account)
              BY <1>5, <2>8, <4>1, <5>2, <6>2 DEF Kept
          <6>4. QED
              BY <2>5, <2>7, <4>1, <5>2, <6>1, <6>3 DEF IsStored, Kept
        <5>3. CASE ~Acts(o)
            BY <4>3, <5>3 DEF IsStored
        <5>4. QED
            BY <4>1, <5>1, <5>2, <5>3
      <4>10. Operates(o)'
          BY <1>3, <2>5, <2>7, <4>0, <4>1 DEF Operates, IsCurrent
      <4>11. QED
          BY <4>4, <4>5, <4>6, <4>7, <4>8, <4>9, <4>10 DEF CallHolds
    <3>3. QED
        BY <3>1, <3>2
  <2>10. \/ unreliable' \/ store' = store \/ ~NoClear
         \/ o \in AuthCalls /\ Acts(o)
      BY <1>4, <1>5, <1>7, <1>9
  <2>11. store' \in 0..issued /\ unreliable' \in BOOLEAN /\ (unreliable => unreliable')
      BY <1>0, <1>3, <1>4, <1>5, <1>6
  <2>12. o = Head(storage).call
      BY <1>1, <1>2
  <2>13. request'[o].op = request[o].op /\ request'[o].generation = request[o].generation
      BY <2>5, <2>7
  <2>14. /\ storage # <<>> /\ storage' = Tail(storage)
         /\ UNCHANGED <<authSetup, auth, transport, serverState, revoked>>
      BY <1>3
  <2>15. o \in AuthCalls =>
            /\ CallHolds(o)'
            /\ request'[o].op = request[o].op /\ request'[o].generation = request[o].generation
      BY <2>9, <2>13
  <2>16. QED
      BY <1>10, <2>7, <2>10, <2>11, <2>12, <2>14, <2>15, TurnStep
<1>13. QED
    BY <1>11, <1>12

\* The store rejects it.
LEMMA StorageFailsStep ==
    ASSUME AuthInv, StorageFails
    PROVE  AuthInv'
<1>0. /\ AuthTyped /\ CallsHold /\ ClientHolds /\ Nobody \notin AuthCalls
      /\ request \in [AuthCalls -> Request(issued)] /\ store \in 0..issued
    BY AuthAssumption DEF AuthInv, AuthTyped, CallsTyped, StoreTyped, AuthAssumption
<1>1. PICK e : e = Head(storage)
    OBVIOUS
<1>2. PICK o : o = e.call
    OBVIOUS
<1>3. /\ storage # <<>> /\ storage' = Tail(storage) /\ store' = store /\ unreliable' = TRUE
      /\ UNCHANGED <<authSetup, auth, transport, serverState, revoked>>
      /\ request' = IF o = Nobody THEN request
                    ELSE [request EXCEPT ![o].phase = Refused(@)]
    BY <1>1, <1>2 DEF StorageFails
<1>4. /\ IsOf(e) /\ o \in AuthCalls \cup {Nobody}
      /\ o \in AuthCalls => request[o].phase \in Waiting
    BY <1>1, <1>2, <1>3, OfHead
<1>5. StoreAgrees'
  <2>1. NoClear => NoClear'
      BY <1>0, <1>3, TailClears
  <2>2. hasStore' = hasStore /\ auth' = auth
      BY <1>3 DEF hasStore
  <2>3. hasStore /\ auth.status = "authenticated" => NoClear
      BY <1>0 DEF ClientHolds, StoreAgrees
  <2>4. QED
      BY <1>3, <2>1, <2>2, <2>3 DEF StoreAgrees
<1>6. /\ UNCHANGED <<authSetup, auth, transport, serverState, revoked>>
      /\ storage # <<>> /\ storage' = Tail(storage)
      /\ store' \in 0..issued /\ unreliable' \in BOOLEAN /\ unreliable'
      /\ o = Head(storage).call
    BY <1>0, <1>1, <1>2, <1>3
<1>7. CASE o = Nobody
  <2>1. request' = request /\ o \notin AuthCalls
      BY <1>0, <1>3, <1>7
  <2>2. QED
      BY <1>0, <1>5, <1>6, <2>1, TurnStep
<1>8. CASE o # Nobody
  <2>0. /\ o \in AuthCalls /\ CallHolds(o) /\ request[o] \in Request(issued)
        /\ request[o].phase \in Waiting
      BY <1>0, <1>4, <1>8 DEF CallsHold
  <2> DEFINE phase == Refused(request[o].phase)
             w == [request[o] EXCEPT !.phase = phase]
  <2>1. request' = [request EXCEPT ![o] = w]
      BY <1>0, <1>3, <1>8, <2>0
  <2>2. /\ request[o].phase = "reading" => phase = "unread"
        /\ request[o].phase = "persisting" => phase = "unpersisted"
        /\ request[o].phase = "clearing" => phase = "uncleared"
      BY DEF Refused
  <2>3. phase \in {"unread", "unpersisted", "uncleared"}
      BY <2>0, <2>2 DEF Waiting
  <2> HIDE DEF phase
  <2>4. /\ w.phase = phase /\ w.op = request[o].op /\ w.account = request[o].account
        /\ w.generation = request[o].generation /\ w.renewing = request[o].renewing
        /\ w.goal = request[o].goal
      BY <2>0 DEF Request
  <2>5. w \in Request(issued)
      BY <2>0, <2>3 DEF Request
  <2> HIDE DEF w
  <2>6. /\ request' \in [AuthCalls -> Request(issued)] /\ request'[o] = w
        /\ \A p \in AuthCalls : p # o => request'[p] = request[p]
      BY <1>0, <2>0, <2>1, <2>5
  <2>7. /\ Consistent(o) /\ Begins(o) /\ Operates(o)
        /\ Acts(o) => ShownFor(o)
      BY <2>0 DEF CallHolds
  <2>8. CallHolds(o)'
    <3>1. Consistent(o)'
        BY <2>0, <2>2, <2>4, <2>6, <2>7 DEF Consistent, Waiting
    <3>2. Begins(o)'
        BY <1>6, <2>4, <2>6, <2>7 DEF Begins
    <3>3. Acts(o)' => Acts(o)
        BY <1>6, <2>0, <2>2, <2>4, <2>6 DEF Acts, Under, IsCurrent, Obtaining, Waiting
    <3>4. Acts(o)' => ShownFor(o)'
        BY <1>6, <2>4, <2>6, <2>7, <3>3 DEF ShownFor
    <3>5. InTransport(o)' /\ Obtained(o)' /\ IsStored(o)'
        BY <2>3, <2>4, <2>6 DEF InTransport, Obtained, IsStored
    <3>6. Operates(o)'
        BY <1>6, <2>0, <2>3, <2>4, <2>6, <2>7 DEF Operates, IsCurrent, Waiting
    <3>7. QED
        BY <3>1, <3>2, <3>4, <3>5, <3>6 DEF CallHolds
  <2>9. o \in AuthCalls =>
            /\ CallHolds(o)'
            /\ request'[o].op = request[o].op /\ request'[o].generation = request[o].generation
      BY <2>4, <2>6, <2>8
  <2>10. QED
      BY <1>5, <1>6, <2>6, <2>9, TurnStep
<1>9. QED
    BY <1>7, <1>8

-----------------------------------------------------------------------------
(* Time, and crashes.                                                       *)

LEMMA ExpiresStep ==
    ASSUME AuthInv, NEW t \in Tokens, Expires(t)
    PROVE  AuthInv'
<1>0. AuthTyped
    BY DEF AuthInv
<1>1. /\ t \in 1..issued /\ expiring' = expiring \cup {t}
      /\ UNCHANGED <<clientState, request, store, issued, accountOf, revoked, unreliable>>
    BY DEF Expires
<1>2. /\ UNCHANGED <<authSetup, auth, storage, transport, request, store, issued, accountOf,
                     revoked, unreliable>>
    BY <1>1 DEF clientState
<1>3. AuthTyped'
  <2>1. expiring' \subseteq 1..issued
      BY <1>0, <1>1 DEF AuthTyped, ServerTyped
  <2>2. QED
      BY <1>0, <1>2, <2>1 DEF AuthTyped, ClientTyped, ServerTyped, StoreTyped, CallsTyped
<1>4. ServerGrows
    BY <1>0, <1>2, OfClient DEF ServerGrows
<1>5. QuietClient
    BY <1>2 DEF QuietClient, SameTime
<1>6. LeavesWaiting
    BY <1>2 DEF LeavesWaiting
<1>7. QED
    BY <1>2, <1>3, <1>4, <1>5, <1>6, QuietStep

\* Nothing of the client is left but the store.
LEMMA RestartsStep ==
    ASSUME AuthInv, Restarts
    PROVE  AuthInv'
<1>0. /\ AuthTyped /\ ClientHolds /\ request \in [AuthCalls -> Request(issued)]
      /\ issued \in Nat /\ revoked \subseteq 1..issued
    BY OfClient DEF AuthInv, AuthTyped, CallsTyped, StoreTyped
<1>1. /\ auth' = NewClient /\ transport' = [generation |-> 0, session |-> 0]
      /\ revoked' = IF \E i \in 1..Len(storage) : storage[i].op = "clear"
                    THEN revoked \ {store} ELSE revoked
      /\ storage' = <<>>
      /\ request' = [o \in AuthCalls |->
                        IF request[o].op = "none" THEN NoRequest
                        ELSE [NoRequest EXCEPT !.op = "gone", !.phase = "failed"]]
      /\ UNCHANGED <<authSetup, store, serverState, unreliable>>
    BY DEF Restarts
<1>2. 0 \in 0..issued
    BY <1>0
<1>3. /\ NewClient \in Client(issued) /\ NewClient.generation = 0 /\ NewClient.session = 0
      /\ NewClient.status = "signed_out"
    BY <1>2 DEF NewClient, Client, Statuses
<1>4. ASSUME NEW o \in AuthCalls
      PROVE  /\ request'[o] \in Request(issued)
             /\ request'[o].op \in {"none", "gone"} /\ request'[o].phase \in {"idle", "failed"}
             /\ request'[o].generation = 0 /\ request'[o].renewing = 0
             /\ request'[o].goal = "none"
  <2>1. CASE request[o].op = "none"
    <3>1. request'[o] = NoRequest
        BY <1>1, <2>1
    <3>2. QED
        BY <1>2, <3>1 DEF NoRequest, Request
  <2>2. CASE request[o].op # "none"
    <3> DEFINE w == [NoRequest EXCEPT !.op = "gone", !.phase = "failed"]
    <3>1. request'[o] = w
        BY <1>1, <2>2
    <3>2. /\ w.op = "gone" /\ w.phase = "failed" /\ w.generation = 0 /\ w.renewing = 0
          /\ w.goal = "none"
        BY DEF NoRequest
    <3>3. w \in Request(issued)
        BY <1>2 DEF NoRequest, Request
    <3>4. QED
        BY <3>1, <3>2, <3>3
  <2>3. QED
      BY <2>1, <2>2
<1>5. request' \in [AuthCalls -> Request(issued)]
    BY <1>1, <1>4
<1>6. AuthTyped'
  <2>1. transport' \in [generation : Nat, session : 0..issued]
      BY <1>1, <1>2
  <2>2. storage' \in Seq(StorageOp(issued)) /\ revoked' \subseteq 1..issued
      BY <1>0, <1>1
  <2>3. QED
      BY <1>0, <1>1, <1>3, <1>5, <2>1, <2>2
      DEF AuthTyped, ClientTyped, ServerTyped, StoreTyped, CallsTyped, serverState
<1>7. CallsHold'
  <2>1. SUFFICES ASSUME NEW o \in AuthCalls PROVE CallHolds(o)'
      BY DEF CallsHold
  <2>2. Consistent(o)' /\ Begins(o)'
      BY <1>1, <1>3, <1>4 DEF Consistent, Begins
  <2>3. ~Acts(o)'
      BY <1>4 DEF Acts, Obtaining
  <2>4. InTransport(o)' /\ Obtained(o)' /\ IsStored(o)' /\ Operates(o)'
      BY <1>4, <2>3 DEF InTransport, Obtained, IsStored, Operates
  <2>5. QED
      BY <2>2, <2>3, <2>4 DEF CallHolds
<1>8. OneSignIn'
    BY <1>4 DEF OneSignIn, SigningIn
<1>9. QueueHolds'
    BY <1>1 DEF QueueHolds
<1>10. ClientHolds'
  <2>1. 0 \notin revoked'
      BY <1>0, <1>1
  <2>2. ~unreliable => store \notin revoked'
    <3>1. SUFFICES ASSUME ~unreliable, store \in revoked PROVE store \notin revoked'
        BY <1>1
    <3>2. PICK i \in DOMAIN storage : storage[i].op = "clear"
        BY <1>0, <3>1 DEF ClientHolds, StoreAgrees, NoClear
    <3>3. i \in 1..Len(storage)
        BY <1>0 DEF AuthTyped, StoreTyped
    <3>4. QED
        BY <1>1, <3>2, <3>3
  <2>3. SignedInAsShown'
      BY <1>1, <1>3 DEF SignedInAsShown
  <2>4. StoreAgrees'
      BY <1>1, <1>3, <2>1, <2>2 DEF StoreAgrees
  <2>5. Storeless'
      BY <1>0, <1>1, <2>1 DEF Storeless, ClientHolds, hasStore
  <2>6. QED
      BY <2>3, <2>4, <2>5 DEF ClientHolds
<1>11. QED
    BY <1>6, <1>7, <1>8, <1>9, <1>10 DEF AuthInv

\* Nothing happens.
LEMMA NoStep ==
    ASSUME AuthInv, UNCHANGED authVars
    PROVE  AuthInv'
<1>0. AuthTyped
    BY DEF AuthInv
<1>1. UNCHANGED <<authSetup, auth, storage, transport, request, store, issued, accountOf,
                  expiring, revoked, unreliable>>
    BY DEF authVars, clientState, serverState
<1>2. AuthTyped'
    BY <1>0, <1>1 DEF AuthTyped, ClientTyped, ServerTyped, StoreTyped, CallsTyped
<1>3. ServerGrows /\ QuietClient /\ LeavesWaiting
    BY <1>0, <1>1, OfClient DEF ServerGrows, QuietClient, SameTime, LeavesWaiting
<1>4. QED
    BY <1>1, <1>2, <1>3, QuietStep

-----------------------------------------------------------------------------
(* The invariant.                                                           *)

LEMMA InitHolds ==
    ASSUME AuthInit
    PROVE  AuthInv
<1>1. /\ authSetup \in AuthSetups /\ storage = <<>>
      /\ request = [o \in AuthCalls |-> NoRequest]
      /\ accountOf = [t \in Tokens |-> Scoped]
      /\ expiring = {} /\ revoked = {} /\ unreliable = FALSE
      /\ store = IF hasStore THEN issued ELSE 0
    BY DEF AuthInit
<1>2. MaxTokens \in Nat \ {0} /\ Scoped \in Accounts
    BY AuthAssumption DEF AuthAssumption
<1>3. /\ auth \in Client(issued) /\ transport \in [generation : Nat, session : 0..issued]
      /\ issued \in 0..1
      /\ auth.generation \in Nat /\ auth.status \in {"signed_out", "authenticated"}
      /\ auth.status = "authenticated" =>
            auth.session = 1 /\ auth.account = Scoped /\ issued = 1
  <2>1. CASE authSetup.signedIn
    <3>1. /\ auth = [NewClient EXCEPT !.generation = 1, !.session = 1,
                                      !.status = "authenticated", !.account = Scoped]
          /\ transport = [generation |-> 2, session |-> 1] /\ issued = 1
        BY <2>1 DEF AuthInit
    <3>2. /\ auth.generation = 1 /\ auth.session = 1 /\ auth.status = "authenticated"
          /\ auth.account = Scoped
        BY <3>1 DEF NewClient
    <3>3. auth = [generation |-> 1, session |-> 1, refreshing |-> Nobody,
                  status |-> "authenticated", account |-> Scoped, disposed |-> FALSE]
        BY <3>1 DEF NewClient
    <3>4. auth \in Client(issued)
      <4>1. 1 \in 0..issued /\ "authenticated" \in Statuses
          BY <3>1 DEF Statuses
      <4>2. QED
          BY <1>2, <3>3, <4>1 DEF Client
    <3>5. transport \in [generation : Nat, session : 0..issued]
        BY <3>1
    <3>6. QED
        BY <3>1, <3>2, <3>4, <3>5
  <2>2. CASE ~authSetup.signedIn
    <3>1. /\ auth = NewClient /\ transport = [generation |-> 0, session |-> 0]
          /\ issued \in 0..1
        BY <2>2 DEF AuthInit
    <3>2. 0 \in 0..issued
        BY <3>1
    <3>3. auth \in Client(issued)
        BY <3>1, <3>2 DEF NewClient, Client, Statuses
    <3>4. auth.generation = 0 /\ auth.status = "signed_out"
        BY <3>1 DEF NewClient
    <3>5. QED
        BY <3>1, <3>2, <3>3, <3>4
  <2>3. QED
      BY <2>1, <2>2
<1>4. 0 \in 0..issued
    BY <1>3
<1>5. ASSUME NEW o \in AuthCalls
      PROVE  /\ request[o] \in Request(issued)
             /\ request[o].op = "none" /\ request[o].phase = "idle" /\ request[o].goal = "none"
             /\ request[o].generation = 0 /\ request[o].renewing = 0
  <2>1. request[o] = NoRequest
      BY <1>1
  <2>2. QED
      BY <1>4, <2>1 DEF NoRequest, Request
<1>6. AuthTyped
  <2>1. request \in [AuthCalls -> Request(issued)]
      BY <1>1, <1>5
  <2>2. accountOf \in [Tokens -> Accounts] /\ issued \in 0..MaxTokens /\ store \in 0..issued
      BY <1>1, <1>2, <1>3
  <2>3. expiring \subseteq 1..issued /\ revoked \subseteq 1..issued
      BY <1>1
  <2>4. storage \in Seq(StorageOp(issued))
      BY <1>1
  <2>5. unreliable \in BOOLEAN
      BY <1>1
  <2>6. QED
      BY <1>1, <1>3, <2>1, <2>2, <2>3, <2>4, <2>5
      DEF AuthTyped, ClientTyped, ServerTyped, StoreTyped, CallsTyped
<1>7. CallsHold
  <2>1. SUFFICES ASSUME NEW o \in AuthCalls PROVE CallHolds(o)
      BY DEF CallsHold
  <2>2. Consistent(o) /\ Begins(o)
      BY <1>3, <1>5 DEF Consistent, Begins
  <2>3. ~Acts(o)
      BY <1>5 DEF Acts, Obtaining
  <2>4. InTransport(o) /\ Obtained(o) /\ IsStored(o) /\ Operates(o)
      BY <1>5, <2>3 DEF InTransport, Obtained, IsStored, Operates
  <2>5. QED
      BY <2>2, <2>3, <2>4 DEF CallHolds
<1>8. OneSignIn
    BY <1>5 DEF OneSignIn, SigningIn
<1>9. QueueHolds
    BY <1>1 DEF QueueHolds
<1>10. ClientHolds
  <2>1. SignedInAsShown
    <3>1. auth.status = "authenticated" => accountOf[1] = Scoped
        BY <1>1, <1>2 DEF Tokens
    <3>2. QED
        BY <1>3, <3>1 DEF SignedInAsShown
  <2>2. NoClear
      BY <1>1 DEF NoClear
  <2>3. StoreAgrees
      BY <1>1, <1>3, <2>2 DEF StoreAgrees, Kept
  <2>4. Storeless
      BY <1>1 DEF Storeless
  <2>5. QED
      BY <2>1, <2>3, <2>4 DEF ClientHolds
<1>11. QED
    BY <1>6, <1>7, <1>8, <1>9, <1>10 DEF AuthInv

LEMMA EveryStep ==
    ASSUME AuthInv, [AuthNext]_authVars
    PROVE  AuthInv'
<1>1. ASSUME NEW o \in AuthCalls, AuthAnswers(o)
      PROVE  AuthInv'
  <2>1. CASE \E a \in Accounts : LoginAnswered(o, a) \/ RenewalAnswered(o, a)
      BY <2>1, LoginAnsweredStep, RenewalAnsweredStep
  <2>2. CASE \E status \in {"account_selection_required", "onboarding_required"} :
                LoginEndsEarly(o, status)
      BY <2>2, LoginEndsEarlyStep
  <2>3. CASE SelectionAnswered(o) \/ SelectionConfirmed(o)
      BY <2>3, SelectionAnsweredStep, SelectionConfirmedStep
  <2>4. CASE RecordRead(o) \/ RestoreSuperseded(o) \/ AccountChecked(o)
      BY <2>4, RecordReadStep, RestoreSupersededStep, AccountCheckedStep
  <2>5. CASE SignInFails(o) \/ SignInPersisted(o)
      BY <2>5, SignInFailsStep, SignInPersistedStep
  <2>6. CASE RenewalVerified(o) \/ RenewalFails(o) \/ RenewalPersisted(o) \/ RenewalResumes(o)
      BY <2>6, RenewalVerifiedStep, RenewalFailsStep, RenewalPersistedStep, RenewalResumesStep
  <2>7. CASE Operated(o, "ok") \/ Operated(o, "failed")
      BY <2>7, OperatedStep
  <2>8. CASE Unauthorized(o) \/ UnauthorizedAgain(o) \/ LogoutFails(o)
      BY <2>8, UnauthorizedStep, UnauthorizedAgainStep, LogoutFailsStep
  <2>9. QED
      BY <1>1, <2>1, <2>2, <2>3, <2>4, <2>5, <2>6, <2>7, <2>8 DEF AuthAnswers
<1>2. ASSUME NEW o \in AuthCalls, AuthHost(o)
      PROVE  AuthInv'
  <2>1. CASE SignIn(o, "login", Nobody)
      BY <2>1, SignInStep
  <2>2. CASE \E a \in Accounts : SignIn(o, "select", a) \/ SignIn(o, "switch", a)
      BY <2>2, SignInStep
  <2>3. CASE Restore(o) \/ Refresh(o)
      BY <2>3, RestoreStep, RefreshStep
  <2>4. CASE GetSession(o, "session") \/ GetSession(o, "retry")
      BY <2>4, GetSessionStep
  <2>5. CASE SignOut(o, "logout") \/ SignOut(o, "invalidate")
      BY <2>5, SignOutStep
  <2>6. CASE DisposeAuth(o)
      BY <2>6, DisposeStep
  <2>7. QED
      BY <1>2, <2>1, <2>2, <2>3, <2>4, <2>5, <2>6 DEF AuthHost
<1>3. QED
    BY <1>1, <1>2, StorageRunsStep, StorageFailsStep, ExpiresStep, RestartsStep, NoStep
    DEF AuthNext

LEMMA Inductive == AuthSpec => []AuthInv
<1>1. AuthInit => AuthInv
    BY InitHolds
<1>2. AuthInv /\ [AuthNext]_authVars => AuthInv'
    BY EveryStep
<1>3. QED
    BY <1>1, <1>2, PTL DEF AuthSpec

-----------------------------------------------------------------------------
(* Theorems.                                                                *)

\* The client, its transport and its store hold what their types say, however
\* many calls a host makes (AuthClientImpl).
THEOREM AuthTypesHold == AuthSpec => []AuthTypeOK
<1>1. ASSUME AuthInv
      PROVE  AuthTypeOK
  <2>1. AuthTyped
      BY <1>1 DEF AuthInv
  <2>2. \A o \in AuthCalls : request[o].token \in 0..issued
      BY <2>1, OfCall
  <2>3. QED
      BY <2>1, <2>2
      DEF AuthTyped, ClientTyped, ServerTyped, StoreTyped, Client, Statuses, AuthTypeOK
<1>2. QED
    BY <1>1, Inductive, PTL

\* The session the client holds is that of the account it shows, the store holds
\* what the client holds, and neither what was given up, in whatever order the
\* transport answers and the queue of the store gets to its operations
\* (isCurrent, persist, revoke).
THEOREM CredentialsHold == AuthSpec => []CredentialsAgree
<1>1. ASSUME AuthInv
      PROVE  CredentialsAgree
  <2>1. SignedInAsShown /\ StoreAgrees
      BY <1>1 DEF AuthInv, ClientHolds
  <2>2. storage = <<>> => NoClear
      BY DEF NoClear
  <2>3. RevokedStaysOut
      BY <2>1, <2>2 DEF RevokedStaysOut, StoreAgrees
  <2>4. StoredIsCurrent
      BY <2>1 DEF StoredIsCurrent, StoreAgrees, Kept
  <2>5. QED
      BY <2>1, <2>3, <2>4 DEF CredentialsAgree
<1>2. QED
    BY <1>1, Inductive, PTL

-----------------------------------------------------------------------------
(* Answers.                                                                 *)

\* Only its own steps, and the renewal it waits for, change a call.
LEMMA OfItsOwn ==
    ASSUME AuthTyped, NEW p \in AuthCalls, AuthAnswers(p) \/ AuthHost(p),
           NEW o \in AuthCalls, o # p
    PROVE  request'[o] = request[o] \/ request'[o].phase \in {"renewed", "unrenewed"}
<1>1. request \in [AuthCalls -> Request(issued)] /\ request[o] \in Request(issued)
    BY OfCall DEF AuthTyped, CallsTyped
<1>2. ASSUME NEW outcome, Done(p, outcome)
      PROVE  request'[o] = request[o]
    BY <1>1, <1>2 DEF Done
<1>3. ASSUME NEW outcome \in {"renewed", "unrenewed"}, request' = Renewed(p, outcome)
      PROVE  request'[o] = request[o] \/ request'[o].phase = outcome
  <2>1. [request[o] EXCEPT !.phase = outcome].phase = outcome
      BY <1>1 DEF Request
  <2>2. QED
      BY <1>3, <2>1 DEF Renewed
<1>4. ASSUME AuthFails(p)
      PROVE  request'[o] = request[o] \/ request'[o].phase = "unrenewed"
  <2>1. CASE request' = Renewed(p, "unrenewed")
      BY <1>3, <2>1
  <2>2. CASE request' = [request EXCEPT ![p].phase = "failed"]
      BY <1>1, <2>2
  <2>3. QED
      BY <1>4, <2>1, <2>2 DEF AuthFails
<1>5. ASSUME NEW t, NEW a, NEW g, Install(p, t, a, g)
      PROVE  request'[o] = request[o]
    BY <1>1, <1>5 DEF Install
<1>6. ASSUME NEW t, NEW a, Applied(p, t, a)
      PROVE  request'[o] = request[o]
    BY <1>2, <1>5, <1>6 DEF Applied
<1>7. ASSUME NEW r, NEW goal, AskRenewal(p, r, goal)
      PROVE  request'[o] = request[o]
    BY <1>1, <1>7 DEF AskRenewal
<1>8. ASSUME NEW r, HandOver(p, r)
      PROVE  request'[o] = request[o]
    BY <1>1, <1>8 DEF HandOver
<1>9. ASSUME NEW r, Provide(p, r)
      PROVE  request'[o] = request[o]
    BY <1>7, <1>8, <1>9 DEF Provide
<1>10. CASE \E a \in Accounts : LoginAnswered(p, a)
    BY <1>6, <1>10 DEF LoginAnswered
<1>11. CASE \E a \in Accounts : RenewalAnswered(p, a)
    BY <1>1, <1>4, <1>11 DEF RenewalAnswered
<1>12. CASE \E status \in {"account_selection_required", "onboarding_required"} :
               LoginEndsEarly(p, status)
    BY <1>2, <1>12 DEF LoginEndsEarly
<1>13. CASE SelectionAnswered(p)
    BY <1>1, <1>6, <1>13 DEF SelectionAnswered
<1>14. CASE SelectionConfirmed(p)
    BY <1>6, <1>14 DEF SelectionConfirmed
<1>15. CASE RecordRead(p)
    BY <1>1, <1>2, <1>15 DEF RecordRead
<1>16. CASE RestoreSuperseded(p)
    BY <1>2, <1>16 DEF RestoreSuperseded
<1>17. CASE AccountChecked(p)
    BY <1>1, <1>5, <1>17 DEF AccountChecked
<1>18. CASE SignInFails(p) \/ SignInPersisted(p)
    BY <1>2, <1>4, <1>18 DEF SignInFails, SignInPersisted
<1>19. CASE RenewalVerified(p)
    BY <1>5, <1>19 DEF RenewalVerified
<1>20. CASE RenewalFails(p) \/ RenewalPersisted(p)
    BY <1>3, <1>4, <1>20 DEF RenewalFails, RenewalPersisted
<1>21. CASE RenewalResumes(p)
  <2>1. CASE \E outcome : Done(p, outcome)
      BY <1>2, <2>1
  <2>2. CASE Provide(p, request[p]) \/ HandOver(p, request[p])
      BY <1>8, <1>9, <2>2
  <2>3. CASE request' = [request EXCEPT
                            ![p].phase = IF Belongs(p) THEN "repeating" ELSE "failed",
                            ![p].token = auth.session]
      BY <1>1, <2>3
  <2>4. QED
      BY <1>21, <2>1, <2>2, <2>3 DEF RenewalResumes
<1>22. CASE Operated(p, "ok") \/ Operated(p, "failed")
    BY <1>2, <1>22 DEF Operated
<1>23. CASE Unauthorized(p) \/ UnauthorizedAgain(p)
    BY <1>2, <1>7, <1>23 DEF Unauthorized, UnauthorizedAgain
<1>24. CASE LogoutFails(p)
    BY <1>4, <1>24 DEF LogoutFails
<1>25. CASE AuthHost(p)
  <2>1. CASE SignIn(p, "login", Nobody)
      BY <1>1, <2>1 DEF SignIn
  <2>2. CASE \E a \in Accounts : SignIn(p, "select", a) \/ SignIn(p, "switch", a)
      BY <1>1, <2>2 DEF SignIn
  <2>3. CASE Restore(p)
      BY <1>1, <2>3 DEF Restore
  <2>4. CASE Refresh(p)
      BY <1>7, <2>4 DEF Refresh
  <2>5. CASE GetSession(p, "session") \/ GetSession(p, "retry")
      BY <1>7, <1>9, <2>5 DEF GetSession
  <2>6. CASE SignOut(p, "logout") \/ SignOut(p, "invalidate")
      BY <1>1, <2>6 DEF SignOut
  <2>7. CASE DisposeAuth(p)
      BY <1>1, <2>7 DEF DisposeAuth
  <2>8. QED
      BY <1>25, <2>1, <2>2, <2>3, <2>4, <2>5, <2>6, <2>7 DEF AuthHost
<1>26. CASE AuthAnswers(p)
    BY <1>26, <1>10, <1>11, <1>12, <1>13, <1>14, <1>15, <1>16, <1>17, <1>18, <1>19, <1>20,
       <1>21, <1>22, <1>23, <1>24 DEF AuthAnswers
<1>27. QED
    BY <1>25, <1>26

\* What it is answered with.
SameIdentity(o) ==
    /\ auth'.generation = request'[o].generation
    /\ accountOf[request'[o].token] = auth'.account

\* A session is handed over to whoever asked for it.
LEMMA HandedOver ==
    ASSUME AuthInv, NEW o \in AuthCalls, NEW r \in Request(issued), HandOver(o, r),
           request'[o].phase = "ok"
    PROVE  SameIdentity(o)
<1>0. request \in [AuthCalls -> Request(issued)]
    BY DEF AuthInv, AuthTyped, CallsTyped
<1> DEFINE usable == IsCurrent(r.generation) /\ auth.session # 0 /\ auth.status = "authenticated"
           phase == CASE ~usable -> "failed"
                      [] usable /\ r.op = "session" -> "ok"
                      [] usable /\ r.op = "retry" -> "operating"
           w == [r EXCEPT !.token = auth.session, !.phase = phase]
<1>1. /\ request' = [request EXCEPT ![o] = w]
      /\ auth' = IF IsCurrent(r.generation) /\ ~usable /\ auth.status = "signed_out"
                 THEN [auth EXCEPT !.status = "auth_required"] ELSE auth
    BY DEF HandOver
<1>2. w.phase = phase /\ w.generation = r.generation /\ w.token = auth.session
    BY DEF Request
<1>3. request'[o] = w
    BY <1>0, <1>1
<1>4. phase = "ok"
    BY <1>2, <1>3
<1>5. usable
    BY <1>4
<1>6. auth' = auth
    BY <1>1, <1>5
<1>7. accountOf[auth.session] = auth.account
    BY <1>5 DEF AuthInv, ClientHolds, SignedInAsShown
<1>8. r.generation = auth.generation
    BY <1>5 DEF IsCurrent
<1>9. QED
    BY <1>2, <1>3, <1>6, <1>7, <1>8 DEF SameIdentity

\* A call that asked for a session, or performs an operation, is answered by its
\* own step.
LEMMA AnsweredByItself ==
    ASSUME AuthInv, NEW o \in AuthCalls, AuthAnswers(o) \/ AuthHost(o),
           request[o].op \in {"session", "retry"},
           request[o].phase # "ok", request'[o].phase = "ok"
    PROVE  SameIdentity(o)
<1>0. /\ AuthTyped /\ CallHolds(o) /\ Consistent(o)
      /\ request \in [AuthCalls -> Request(issued)] /\ request[o] \in Request(issued)
    BY OfCall DEF AuthInv, CallsHold, AuthTyped, CallsTyped, CallHolds
<1>1. ASSUME NEW outcome
      PROVE  [request[o] EXCEPT !.phase = outcome].phase = outcome
    BY <1>0 DEF Request
<1>2. ASSUME NEW outcome, outcome # "ok", Done(o, outcome)
      PROVE  FALSE
  <2>1. request'[o] = [request[o] EXCEPT !.phase = outcome]
      BY <1>0, <1>2 DEF Done
  <2>2. QED
      BY <1>1, <1>2, <2>1
<1>3. ASSUME NEW outcome, outcome # "ok", request' = Renewed(o, outcome)
      PROVE  FALSE
  <2>1. request'[o] = [request[o] EXCEPT !.phase = outcome]
      BY <1>3 DEF Renewed
  <2>2. QED
      BY <1>1, <1>3, <2>1
<1>4. ~AuthFails(o)
  <2>1. AuthFails(o) => request' = Renewed(o, "unrenewed")
      BY DEF AuthFails
  <2>2. QED
      BY <1>3, <2>1
<1>5. ASSUME NEW r \in Request(issued), NEW goal, AskRenewal(o, r, goal)
      PROVE  FALSE
  <2>1. PICK w : /\ request' = [request EXCEPT ![o] = w]
                 /\ \/ w = [r EXCEPT !.phase = "joining", !.goal = goal,
                                     !.joined = auth.refreshing]
                    \/ w = [r EXCEPT !.phase = "renewing", !.goal = goal,
                                     !.account = auth.account, !.renewing = auth.generation]
                    \/ w = [r EXCEPT !.phase = "failed"]
      BY <1>5 DEF AskRenewal
  <2>2. w.phase # "ok"
      BY <2>1 DEF Request
  <2>3. QED
      BY <1>0, <2>1, <2>2
<1>6. ASSUME NEW r \in Request(issued), Provide(o, r)
      PROVE  SameIdentity(o)
    BY <1>5, <1>6, HandedOver DEF Provide
<1>7. ~AuthHost(o)
  <2>1. request[o].op # "none"
      OBVIOUS
  <2>2. QED
      BY <2>1 DEF AuthHost, SignIn, Restore, Refresh, GetSession, SignOut, DisposeAuth, Starts
<1>8. CASE \E a \in Accounts : RenewalAnswered(o, a)
  <2>1. request' = [request EXCEPT ![o].phase = "verifying", ![o].token = issued + 1]
      BY <1>4, <1>8 DEF RenewalAnswered
  <2>2. request'[o].phase = "verifying"
      BY <1>0, <2>1 DEF Request
  <2>3. QED
      BY <2>2
<1>9. CASE RenewalVerified(o)
  <2>1. PICK t, a, g : Install(o, t, a, g)
      BY <1>9 DEF RenewalVerified
  <2>2. PICK phase \in {"persisting", "persisted"} :
            request' = [request EXCEPT ![o].token = t, ![o].account = a, ![o].phase = phase]
      BY <2>1 DEF Install
  <2>3. request'[o].phase = phase
      BY <1>0, <2>2 DEF Request
  <2>4. QED
      BY <2>2, <2>3
<1>10. CASE RenewalFails(o) \/ RenewalPersisted(o)
    BY <1>3, <1>4, <1>10 DEF RenewalFails, RenewalPersisted
<1>11. CASE RenewalResumes(o)
  <2>1. CASE Done(o, "failed")
      BY <1>2, <2>1
  <2>2. CASE Provide(o, request[o]) \/ HandOver(o, request[o])
      BY <1>0, <1>6, <2>2, HandedOver
  <2>3. CASE request' = [request EXCEPT
                            ![o].phase = IF Belongs(o) THEN "repeating" ELSE "failed",
                            ![o].token = auth.session]
    <3>1. PICK phase \in {"repeating", "failed"} :
              request' = [request EXCEPT ![o].phase = phase, ![o].token = auth.session]
        BY <2>3
    <3>2. request'[o].phase = phase
        BY <1>0, <3>1 DEF Request
    <3>3. QED
        BY <3>1, <3>2
  <2>4. request[o].goal # "return"
      BY <1>0 DEF Consistent
  <2>5. QED
      BY <1>11, <2>1, <2>2, <2>3, <2>4 DEF RenewalResumes
<1>12. CASE Operated(o, "ok") \/ Operated(o, "failed")
  <2>1. /\ request[o].phase \in {"operating", "repeating"}
        /\ UNCHANGED <<clientState, store, serverState, revoked, unreliable>>
      BY <1>12 DEF Operated
  <2>2. Belongs(o) /\ Done(o, "ok")
      BY <1>2, <1>12 DEF Operated
  <2>3. request'[o].token = request[o].token /\ request'[o].generation = request[o].generation
      BY <1>0, <2>2 DEF Done, Request
  <2>4. /\ auth' = auth /\ auth.generation = request[o].generation
        /\ accountOf[request[o].token] = auth.account
      BY <1>0, <2>1, <2>2 DEF CallHolds, Operates, Belongs, IsCurrent, clientState
  <2>5. QED
      BY <2>3, <2>4 DEF SameIdentity
<1>13. CASE Unauthorized(o) \/ UnauthorizedAgain(o)
    BY <1>0, <1>2, <1>5, <1>13 DEF Unauthorized, UnauthorizedAgain
<1>14. ~LogoutFails(o)
    BY <1>4 DEF LogoutFails
<1>15. ~(\E a \in Accounts : LoginAnswered(o, a))
    BY DEF LoginAnswered
<1>16. /\ \A status : ~LoginEndsEarly(o, status)
       /\ ~SelectionAnswered(o) /\ ~SelectionConfirmed(o)
       /\ ~RecordRead(o) /\ ~RestoreSuperseded(o) /\ ~AccountChecked(o)
       /\ ~SignInFails(o) /\ ~SignInPersisted(o)
    BY <1>0 DEF Consistent, LoginEndsEarly, SelectionAnswered, SelectionConfirmed, RecordRead,
       RestoreSuperseded, AccountChecked, SignInFails, SignInPersisted
<1>17. AuthAnswers(o)
    BY <1>7
<1>18. QED
    BY <1>8, <1>9, <1>10, <1>11, <1>12, <1>13, <1>14, <1>15, <1>16, <1>17 DEF AuthAnswers

\* The storage, the clock and a crash answer nobody who asked for a session.
LEMMA NotAnswered ==
    ASSUME AuthInv, StorageRuns \/ StorageFails \/ (\E t \in Tokens : Expires(t)) \/ Restarts,
           NEW o \in AuthCalls, request[o].op \in {"session", "retry"},
           request[o].phase # "ok"
    PROVE  request'[o].phase # "ok"
<1>0. /\ AuthTyped /\ CallHolds(o) /\ Nobody \notin AuthCalls
      /\ request \in [AuthCalls -> Request(issued)] /\ request[o] \in Request(issued)
    BY OfCall, AuthAssumption DEF AuthInv, CallsHold, AuthTyped, CallsTyped, AuthAssumption
<1>1. request[o].phase \notin {"clearing", "reading"}
    BY <1>0 DEF CallHolds, Consistent
<1>2. CASE StorageRuns
  <2>1. PICK e : e = Head(storage)
      OBVIOUS
  <2>2. /\ storage # <<>>
        /\ request' = IF e.call = Nobody THEN request
                      ELSE [request EXCEPT ![e.call].phase = Awaiting(@),
                                ![e.call].token = IF e.op = "read" THEN store ELSE @]
      BY <1>2, <2>1 DEF StorageRuns
  <2>3. e.call \in AuthCalls => request[e.call].phase \in Waiting
      BY <2>1, <2>2, OfHead
  <2>4. CASE e.call = o
    <3>1. request[o].phase = "persisting"
        BY <1>1, <2>3, <2>4 DEF Waiting
    <3>2. Awaiting(request[o].phase) = "persisted"
        BY <3>1 DEF Awaiting
    <3>3. request'[o].phase = Awaiting(request[o].phase)
        BY <1>0, <2>2, <2>4 DEF Request
    <3>4. QED
        BY <3>2, <3>3
  <2>5. CASE e.call # o
      BY <1>0, <2>2, <2>5
  <2>6. QED
      BY <2>4, <2>5
<1>3. CASE StorageFails
  <2>1. PICK e : e = Head(storage)
      OBVIOUS
  <2>2. /\ storage # <<>>
        /\ request' = IF e.call = Nobody THEN request
                      ELSE [request EXCEPT ![e.call].phase = Refused(@)]
      BY <1>3, <2>1 DEF StorageFails
  <2>3. e.call \in AuthCalls => request[e.call].phase \in Waiting
      BY <2>1, <2>2, OfHead
  <2>4. CASE e.call = o
    <3>1. request[o].phase = "persisting"
        BY <1>1, <2>3, <2>4 DEF Waiting
    <3>2. Refused(request[o].phase) = "unpersisted"
        BY <3>1 DEF Refused
    <3>3. request'[o].phase = Refused(request[o].phase)
        BY <1>0, <2>2, <2>4 DEF Request
    <3>4. QED
        BY <3>2, <3>3
  <2>5. CASE e.call # o
      BY <1>0, <2>2, <2>5
  <2>6. QED
      BY <2>4, <2>5
<1>4. CASE \E t \in Tokens : Expires(t)
    BY <1>4 DEF Expires
<1>5. CASE Restarts
  <2>1. request'[o] = [NoRequest EXCEPT !.op = "gone", !.phase = "failed"]
      BY <1>5 DEF Restarts
  <2>2. QED
      BY <2>1 DEF NoRequest
<1>6. QED
    BY <1>2, <1>3, <1>4, <1>5

\* Whoever asked for a session, or had an operation performed, while one account
\* was signed in is not answered for another one, however many logins, renewals
\* and answers come in between (assertCurrent).
THEOREM AnswersHold == AuthSpec => AnsweredForSameIdentity
<1>1. ASSUME AuthInv, [AuthNext]_authVars, NEW o \in AuthCalls,
             request[o].op \in {"session", "retry"},
             request[o].phase # "ok", request'[o].phase = "ok"
      PROVE  SameIdentity(o)
  <2>1. AuthTyped
      BY <1>1 DEF AuthInv
  <2>2. ASSUME NEW p \in AuthCalls, AuthAnswers(p) \/ AuthHost(p)
        PROVE  SameIdentity(o)
    <3>1. p = o
        BY <1>1, <2>1, <2>2, OfItsOwn
    <3>2. QED
        BY <1>1, <2>2, <3>1, AnsweredByItself
  <2>3. ~(StorageRuns \/ StorageFails \/ (\E t \in Tokens : Expires(t)) \/ Restarts)
      BY <1>1, NotAnswered
  <2>4. ~UNCHANGED authVars
      BY <1>1 DEF authVars
  <2>5. QED
      BY <1>1, <2>2, <2>3, <2>4 DEF AuthNext
<1>2. AuthInv /\ [AuthNext]_authVars =>
          [\A o \in AuthCalls :
              /\ request[o].op \in {"session", "retry"}
              /\ request[o].phase # "ok" /\ request'[o].phase = "ok"
              => /\ auth'.generation = request'[o].generation
                 /\ accountOf[request'[o].token] = auth'.account]_authVars
    BY <1>1 DEF SameIdentity
<1>3. QED
    BY <1>2, Inductive, PTL DEF AuthSpec, AnsweredForSameIdentity
=============================================================================
