----------------------------- MODULE RemoteTool -----------------------------
(***************************************************************************)
(* A client that lets a chat server call tools of the host: the executor   *)
(* (chat-runtime/src/remote-tool-client.ts) on top of the transport that   *)
(* owns the socket (chat-gateway-tfrobot/src/remote-tool.ts).              *)
(*                                                                         *)
(* Both run on one thread, but a handler calls host code before it ends:   *)
(* listeners of the client's state and of a call's cancellation.  The host *)
(* may call the client again from there.  `agenda` is what is left to do   *)
(* in the current turn of the event loop, the innermost call first; while  *)
(* it is not empty no promise, timer or socket event gets its turn.        *)
(*                                                                         *)
(* Tool calls are identified by their requestId and otherwise abstracted   *)
(* to how far their handler is; a result is "ok" or "error".               *)
(***************************************************************************)
EXTENDS Integers, Sequences, FiniteSets

CONSTANTS
    Requests,       \* requestIds the server uses
    None,           \* no deadline is scheduled
    MaxConcurrent,  \* maxConcurrentCalls
    MaxRemembered,  \* maxRememberedCalls
    Throwing,       \* which calls of an injected socket may throw: its factory,
                    \* connect() in transport.start or in transport.retry
    MaxGeneration   \* bound on the generations of the connection

ASSUME RemoteToolAssumption ==
    /\ None \notin Nat
    /\ MaxConcurrent \in Nat \ {0}
    /\ MaxRemembered \in Nat \ {0}
    /\ Throwing \subseteq {"factory", "start", "retry"}
    /\ MaxGeneration \in Nat

VARIABLES
    \* fields of RemoteToolClient
    started,
    disposed,
    status,         \* state.status
    shown,          \* state.activeCalls
    seen,
    calls,          \* the keys of #calls in their order: the unsettled calls
    \* closures of #invoke of the client and of the transport, per request
    call,
    \* fields of TFRobotRemoteToolTransport
    link,
    auths,          \* generations whose getAuth awaits a session
    acks,           \* generations whose register awaits its acknowledgement
    invalidations,  \* generations of the pending onSessionInvalid microtasks
    \* the Socket.IO socket
    socket,
    \* the current turn
    agenda,
    \* history
    executions,     \* how often tool.execute was called for a request
    answers,        \* the results acknowledged to the server
    reported        \* invalidations the session provider was told of

clientVars == <<started, disposed, status, shown, seen, calls>>
linkVars == <<link, auths, acks, invalidations, socket, reported>>
callVars == <<call, executions, answers>>
vars == <<clientVars, callVars, linkVars, agenda>>

-----------------------------------------------------------------------------
(* What is left to do in a turn. *)

Statuses == {"idle", "connecting", "registering", "ready", "disconnected",
             "error", "disposed"}

Stages == {"none", "queued", "validating", "executing", "over"}

Results == {"ok", "error"}

Host == [op |-> "host"]                             \* host code is running
Publish(s) == [op |-> "publish", status |-> s]      \* #update with status s
Republish == Publish("same")                        \* #update(this.#state)
AbortAll(respond) == [op |-> "abort", respond |-> respond]
Finish(r, result, respond) == [op |-> "finish", request |-> r, result |-> result,
                               respond |-> respond]
Respond(r, result) == [op |-> "respond", request |-> r, result |-> result]
Release == [op |-> "release"]                       \* client.dispose()
DisposeTransport == [op |-> "disposeTransport"]
Forget == [op |-> "forget"]
OpenTransport == [op |-> "open"]                    \* transport.start()
RetryTransport == [op |-> "retry"]                  \* transport.retry()
Observe(s) == [op |-> "observe", status |-> s]      \* observer.state()
Connect(for) == [op |-> "connect", for |-> for]     \* what follows "connecting"
Register == [op |-> "register"]                     \* #register()
Emit(g) == [op |-> "emit", generation |-> g]        \* what follows "registering"

Frames ==
    {Host, Release, DisposeTransport, Forget, OpenTransport, RetryTransport, Register}
    \cup [op : {"publish"}, status : Statuses \cup {"same"}]
    \cup [op : {"abort"}, respond : BOOLEAN]
    \cup [op : {"finish"}, request : Requests, result : Results, respond : BOOLEAN]
    \cup [op : {"respond"}, request : Requests, result : Results]
    \cup [op : {"observe"}, status : Statuses]
    \cup [op : {"connect"}, for : {"start", "retry"}]
    \cup [op : {"emit"}, generation : Nat]

TypeOK ==
    /\ started \in BOOLEAN /\ disposed \in BOOLEAN
    /\ status \in Statuses
    /\ shown \in 0 .. MaxConcurrent
    /\ seen \subseteq Requests /\ Cardinality(seen) <= MaxRemembered
    /\ calls \in Seq(Requests) /\ Len(calls) <= MaxConcurrent
    /\ call \in [Requests -> [stage : Stages, due : BOOLEAN, sent : BOOLEAN,
                              generation : Nat]]
    /\ link \in [opened : BOOLEAN, disposed : BOOLEAN, ready : BOOLEAN,
                 failed : BOOLEAN, generation : Nat, deadline : Nat \cup {None}]
    /\ auths \subseteq Nat /\ acks \subseteq Nat
    /\ invalidations \subseteq Nat /\ reported \subseteq Nat
    /\ socket \in {"off", "opening", "authorizing", "joining", "up"}
    /\ agenda \in Seq(Frames)
    /\ executions \in [Requests -> Nat]
    /\ answers \in [Requests -> Seq(Results)]

Init ==
    /\ started = FALSE /\ disposed = FALSE
    /\ status = "idle" /\ shown = 0
    /\ seen = {} /\ calls = <<>>
    /\ call = [r \in Requests |-> [stage |-> "none", due |-> FALSE, sent |-> FALSE,
                                   generation |-> 0]]
    /\ link = [opened |-> FALSE, disposed |-> FALSE, ready |-> FALSE,
               failed |-> FALSE, generation |-> 0, deadline |-> None]
    /\ auths = {} /\ acks = {} /\ invalidations = {} /\ reported = {}
    /\ socket = "off"
    /\ agenda = <<>>
    /\ executions = [r \in Requests |-> 0]
    /\ answers = [r \in Requests |-> <<>>]

Quiet == agenda = <<>>

Doing(op) == ~Quiet /\ Head(agenda).op = op

\* The host may call the client between two turns and from inside a listener.
HostRuns == ~Quiet => Doing("host")

\* A handler or a call of the host begins with the given frames.
Begin(frames) == agenda' = frames \o agenda

\* The innermost call goes on with the given frames.
Go(frames) == agenda' = frames \o Tail(agenda)

Waiting == {calls[i] : i \in DOMAIN calls}

\* #calls.delete.
CallsWithout(r) ==
    LET i == CHOOSE i \in DOMAIN calls : calls[i] = r
    IN  SubSeq(calls, 1, i - 1) \o SubSeq(calls, i + 1, Len(calls))

\* The generation may advance within the bound of the model.
Advancing == link.generation < MaxGeneration

-----------------------------------------------------------------------------
(* RemoteToolClient: calls of the host. *)

Start ==
    /\ HostRuns /\ ~started /\ ~disposed
    /\ started' = TRUE
    /\ Begin(<<Publish("connecting"), OpenTransport>>)
    /\ UNCHANGED <<disposed, status, shown, seen, calls, callVars, linkVars>>

Cancel(r) ==
    /\ HostRuns /\ r \in Waiting
    /\ Begin(<<Finish(r, "error", TRUE)>>)
    /\ UNCHANGED <<clientVars, callVars, linkVars>>

Retry ==
    /\ HostRuns /\ Advancing
    /\ started /\ ~disposed /\ status \in {"error", "disconnected"}
    /\ Begin(<<RetryTransport>>)
    /\ UNCHANGED <<clientVars, callVars, linkVars>>

Dispose ==
    /\ HostRuns /\ ~disposed
    /\ Begin(<<Release>>)
    /\ UNCHANGED <<clientVars, callVars, linkVars>>

HostReturns ==
    /\ Doing("host")
    /\ Go(<<>>)
    /\ UNCHANGED <<clientVars, callVars, linkVars>>

-----------------------------------------------------------------------------
(* RemoteToolClient: what its calls do. *)

\* #update: the state is replaced, then every listener is called.
DoPublish ==
    /\ Doing("publish")
    /\ status' = IF Head(agenda).status = "same" THEN status ELSE Head(agenda).status
    /\ shown' = Len(calls)
    /\ Go(<<Host>>)
    /\ UNCHANGED <<started, disposed, seen, calls, callVars, linkVars>>

\* #abortAll.
DoAbort ==
    /\ Doing("abort")
    /\ Go([i \in DOMAIN calls |-> Finish(calls[i], "error", Head(agenda).respond)])
    /\ UNCHANGED <<clientVars, callVars, linkVars>>

\* Faulty: a finished call is not taken out of the count.
FinishedSilently(f) ==
    IF f.respond THEN <<Host, Respond(f.request, f.result)>> ELSE <<Host>>

\* The listeners of the call's cancellation and of the state, and the response.
Finished(f) ==
    <<Host, Republish>> \o IF f.respond THEN <<Respond(f.request, f.result)>> ELSE <<>>

\* finish of one call; it does nothing when the call was settled before.
DoFinish ==
    /\ Doing("finish")
    /\ LET f == Head(agenda) IN
       IF f.request \in Waiting
       THEN /\ calls' = CallsWithout(f.request)
            /\ Go(Finished(f))
       ELSE Go(<<>>) /\ UNCHANGED calls
    /\ UNCHANGED <<started, disposed, status, shown, seen, callVars, linkVars>>

Releasing == <<AbortAll(TRUE), DisposeTransport, Publish("disposed"), Forget>>

\* dispose(), also called by the client when it remembers too many calls.
DoRelease ==
    /\ Doing("release")
    /\ IF disposed
       THEN Go(<<>>) /\ UNCHANGED disposed
       ELSE /\ disposed' = TRUE
            /\ Go(Releasing)
    /\ UNCHANGED <<started, status, shown, seen, calls, callVars, linkVars>>

DoForget ==
    /\ Doing("forget")
    /\ seen' = {}
    /\ Go(<<>>)
    /\ UNCHANGED <<started, disposed, status, shown, calls, callVars, linkVars>>

\* Faulty: the calls of a lost connection are kept.
ObservedOnly(s) == <<Publish(s)>>

Observed(s) == IF s = "ready" THEN <<Publish(s)>> ELSE <<Publish(s), AbortAll(FALSE)>>

\* The client observes a new state of the connection.
DoObserve ==
    /\ Doing("observe")
    /\ Go(IF disposed THEN <<>> ELSE Observed(Head(agenda).status))
    /\ UNCHANGED <<clientVars, callVars, linkVars>>

-----------------------------------------------------------------------------
(* The transport: calls of the client. *)

\* What the client does when starting the transport or retrying throws.
Caught(for) == IF for = "start"
               THEN <<Publish("error"), AbortAll(FALSE), DisposeTransport>>
               ELSE <<Publish("error")>>

\* #armDeadline replaces the timer.
Armed(l) == [l EXCEPT !.deadline = l.generation]

\* The connection that asked is still the one in force.
Current(g) == g = link.generation

\* transport.start: the socket is created; an injected factory may throw, or
\* return a socket that is connected.
DoOpen ==
    /\ Doing("open")
    /\ \/ /\ disposed
          /\ Go(<<>>)
          /\ UNCHANGED <<link, socket>>
       \/ /\ ~disposed
          /\ link' = [link EXCEPT !.opened = TRUE]
          /\ socket' \in {"off", "up"}
          /\ Go(<<Observe("connecting"), Connect("start")>>)
       \/ /\ ~disposed /\ "factory" \in Throwing
          /\ Go(Caught("start"))
          /\ UNCHANGED <<link, socket>>
    /\ UNCHANGED <<clientVars, callVars, auths, acks, invalidations, reported>>

\* transport.retry.
DoRetry ==
    /\ Doing("retry")
    /\ IF link.disposed \/ ~link.opened \/ link.ready
       THEN Go(<<>>) /\ UNCHANGED link
       ELSE /\ link' = [link EXCEPT !.failed = FALSE, !.generation = @ + 1]
            /\ Go(<<Observe("connecting"), Connect("retry")>>)
    /\ UNCHANGED <<clientVars, callVars, auths, acks, invalidations, socket, reported>>

\* The end of transport.start and transport.retry: a deadline is armed and the
\* socket connected, which may throw.
DoConnect ==
    /\ Doing("connect")
    /\ \/ /\ link.disposed
          /\ Go(<<>>)
          /\ UNCHANGED <<link, socket>>
       \/ /\ ~link.disposed
          /\ link' = Armed(link)
          /\ \/ /\ socket = "up"
                /\ Go(IF Head(agenda).for = "start" THEN <<Register>> ELSE <<>>)
                /\ UNCHANGED socket
             \/ /\ socket # "up"
                /\ socket' = "opening"
                /\ Go(<<>>)
             \/ /\ socket # "up" /\ Head(agenda).for \in Throwing
                /\ Go(Caught(Head(agenda).for))
                /\ UNCHANGED socket
    /\ UNCHANGED <<clientVars, callVars, auths, acks, invalidations, reported>>

DoDisposeTransport ==
    /\ Doing("disposeTransport")
    /\ IF link.disposed
       THEN UNCHANGED <<link, socket>>
       ELSE /\ link' = [link EXCEPT !.disposed = TRUE, !.ready = FALSE,
                                    !.generation = @ + 1, !.deadline = None]
            /\ socket' = "off"
    /\ Go(<<>>)
    /\ UNCHANGED <<clientVars, callVars, auths, acks, invalidations, reported>>

\* #register: every connection has a generation of its own.
DoRegister ==
    /\ Doing("register")
    /\ LET g == link.generation + 1 IN
       IF link.disposed \/ link.failed
       THEN Go(<<>>) /\ UNCHANGED link
       ELSE /\ link' = Armed([link EXCEPT !.ready = FALSE, !.generation = g])
            /\ Go(<<Observe("registering"), Emit(g)>>)
    /\ UNCHANGED <<clientVars, callVars, auths, acks, invalidations, socket, reported>>

DoEmit ==
    /\ Doing("emit")
    /\ acks' = IF link.disposed THEN acks ELSE acks \cup {Head(agenda).generation}
    /\ Go(<<>>)
    /\ UNCHANGED <<clientVars, callVars, link, auths, invalidations, socket, reported>>

\* respond of one invocation: at most once, and only over the registration the
\* invocation came from.
DoRespond ==
    /\ Doing("respond")
    /\ LET r == Head(agenda).request IN
       IF call[r].sent \/ link.disposed \/ ~link.ready
          \/ ~Current(call[r].generation)
       THEN UNCHANGED <<call, answers>>
       ELSE /\ call' = [call EXCEPT ![r].sent = TRUE]
            /\ answers' = [answers EXCEPT ![r] = Append(@, Head(agenda).result)]
    /\ Go(<<>>)
    /\ UNCHANGED <<clientVars, linkVars, executions>>

-----------------------------------------------------------------------------
(* The transport: events of the socket, timers and promises.  Each is the  *)
(* begin of a turn.                                                        *)

\* #fail.
Fail(error) ==
    IF link.disposed \/ link.failed
    THEN UNCHANGED <<link, socket, invalidations, agenda>>
    ELSE LET g == link.generation + 1 IN
         /\ link' = [link EXCEPT !.failed = TRUE, !.ready = FALSE,
                                 !.generation = g, !.deadline = None]
         /\ socket' = "off"
         /\ invalidations' = IF error = "authentication" THEN invalidations \cup {g}
                             ELSE invalidations
         /\ Begin(<<Observe("error")>>)

\* #connectionLost, the socket being in state s.
ConnectionLost(s) ==
    /\ socket' = s
    /\ IF link.disposed \/ link.failed
       THEN UNCHANGED <<link, agenda>>
       ELSE /\ link' = [link EXCEPT !.ready = FALSE, !.generation = @ + 1,
                                    !.deadline = None]
            /\ Begin(<<Observe("disconnected")>>)
    /\ UNCHANGED invalidations

\* getAuth: the connection of the engine is open, the session is looked up.
GetAuth ==
    /\ Quiet /\ socket = "opening" /\ ~link.disposed /\ ~link.failed
    /\ socket' = "authorizing"
    /\ link' = Armed(link)
    /\ auths' = auths \cup {link.generation}
    /\ UNCHANGED <<clientVars, callVars, acks, invalidations, reported, agenda>>

\* The session provider answers the lookup of generation g, or its time is over.
\* A superseded lookup lets the socket join without credentials.
AuthReturns(g) ==
    /\ Quiet /\ g \in auths
    /\ auths' = auths \ {g}
    /\ \/ /\ link.disposed \/ ~Current(g)
          /\ socket' = IF socket = "authorizing" THEN "joining" ELSE socket
          /\ UNCHANGED <<link, invalidations, agenda>>
       \/ /\ ~link.disposed /\ Current(g)
          /\ socket' = "joining"
          /\ UNCHANGED <<link, invalidations, agenda>>
       \/ /\ ~link.disposed /\ Current(g) /\ Advancing
          /\ \E error \in {"timeout", "authentication"} : Fail(error)
    /\ UNCHANGED <<clientVars, callVars, acks, reported>>

\* The "connect" event.
Connected ==
    /\ Quiet /\ socket = "joining" /\ Advancing
    /\ socket' = "up"
    /\ Begin(<<Register>>)
    /\ UNCHANGED <<clientVars, callVars, link, auths, acks, invalidations, reported>>

\* The "connect_error" event: the server refuses the credentials or the
\* namespace, or the network fails and Socket.IO goes on trying.
ConnectError ==
    /\ Quiet /\ Advancing
    /\ \/ /\ socket = "joining"
          /\ \E error \in {"authentication", "transport"} : Fail(error)
       \/ /\ socket = "opening"
          /\ ConnectionLost("opening")
    /\ UNCHANGED <<clientVars, callVars, auths, acks, reported>>

\* The "disconnect" event: Socket.IO reconnects, unless the server ended it.
Disconnected ==
    /\ Quiet /\ Advancing
    /\ \/ /\ socket \in {"authorizing", "joining", "up"}
          /\ ConnectionLost("opening")
       \/ /\ socket = "up"
          /\ ConnectionLost("off")
    /\ UNCHANGED <<clientVars, callVars, auths, acks, reported>>

\* The server acknowledges the registration of generation g.
Acknowledged(g) ==
    /\ Quiet /\ g \in acks
    /\ acks' = acks \ {g}
    /\ \/ /\ link.disposed \/ link.failed \/ ~Current(g)
          /\ UNCHANGED <<link, socket, invalidations, agenda>>
       \/ /\ ~link.disposed /\ ~link.failed /\ Current(g)
          /\ link' = [link EXCEPT !.ready = TRUE, !.deadline = None]
          /\ Begin(<<Observe("ready")>>)
          /\ UNCHANGED <<socket, invalidations>>
       \/ /\ ~link.disposed /\ ~link.failed /\ Current(g) /\ Advancing
          /\ Fail("registration-rejected")
    /\ UNCHANGED <<clientVars, callVars, auths, reported>>

\* The timer of #armDeadline.
DeadlineFires ==
    /\ Quiet /\ link.deadline # None /\ Advancing
    /\ IF link.deadline = link.generation
       THEN Fail("timeout")
       ELSE /\ link' = [link EXCEPT !.deadline = None]
            /\ UNCHANGED <<socket, invalidations, agenda>>
    /\ UNCHANGED <<clientVars, callVars, auths, acks, reported>>

\* The microtask that reports an authentication failure to the session provider.
Invalidate(g) ==
    /\ Quiet /\ g \in invalidations
    /\ invalidations' = invalidations \ {g}
    /\ reported' = IF link.disposed \/ ~Current(g) THEN reported
                   ELSE reported \cup {g}
    /\ UNCHANGED <<clientVars, callVars, link, auths, acks, socket, agenda>>

-----------------------------------------------------------------------------
(* Invocations. *)

NewCall(stage) == [stage |-> stage, due |-> FALSE, sent |-> FALSE,
                   generation |-> link.generation]

\* An invocation that addresses the registered provider reaches the client.
Delivered == Quiet /\ socket = "up" /\ ~link.disposed /\ link.ready

\* Faulty: an invocation is recognised only while it runs.
KnownWhileWaiting(r) == r \in Waiting

Known(r) == r \in seen

Remember(r) == seen \cup {r}

Crowded == Len(calls) >= MaxConcurrent

\* Faulty: a refusal is shown but not sent.
RefusingSilently(r) == <<Republish>>

Refusing(r) == <<Republish, Respond(r, "error")>>

\* #invoke of the transport and of the client, for a tool that exists or not.
\* An invocation seen before is ignored.
Invoke(r, exists) ==
    /\ Delivered /\ ~disposed /\ status = "ready" /\ ~Known(r)
    /\ \/ /\ Cardinality(seen) >= MaxRemembered
          /\ call' = [call EXCEPT ![r] = NewCall("over")]
          /\ Begin(<<Publish("error"), AbortAll(TRUE), Respond(r, "error"), Release>>)
          /\ UNCHANGED <<seen, calls>>
       \/ /\ Cardinality(seen) < MaxRemembered
          /\ seen' = Remember(r)
          /\ ~exists \/ Crowded
          /\ call' = [call EXCEPT ![r] = NewCall("over")]
          /\ Begin(Refusing(r))
          /\ UNCHANGED calls
       \/ /\ Cardinality(seen) < MaxRemembered
          /\ seen' = Remember(r)
          /\ exists /\ ~Crowded
          /\ call' = [call EXCEPT ![r] = NewCall("queued")]
          /\ calls' = Append(calls, r)
          /\ Begin(<<Republish>>)
    /\ UNCHANGED <<started, disposed, status, shown, executions, answers, linkVars>>

\* The time of a call is over; its timer has not fired yet.
DeadlinePasses(r) ==
    /\ Quiet /\ r \in Waiting /\ ~call[r].due
    /\ call' = [call EXCEPT ![r].due = TRUE]
    /\ UNCHANGED <<clientVars, executions, answers, linkVars, agenda>>

\* Faulty: the timer only ends a call whose tool is not being executed.
TimerFiresBeforeExecution(r) ==
    /\ Quiet /\ r \in Waiting /\ call[r].due /\ call[r].stage # "executing"
    /\ Begin(<<Finish(r, "error", TRUE)>>)
    /\ UNCHANGED <<clientVars, callVars, linkVars>>

\* The timer of a call; finish clears it.
TimerFires(r) ==
    /\ Quiet /\ r \in Waiting /\ call[r].due
    /\ Begin(<<Finish(r, "error", TRUE)>>)
    /\ UNCHANGED <<clientVars, callVars, linkVars>>

\* Faulty: only a settled call is given up, not one whose time is over.
AdvanceUnlessSettled(r, stage, frames) ==
    /\ call' = [call EXCEPT ![r].stage = IF r \in Waiting THEN stage ELSE "over"]
    /\ Begin(IF r \in Waiting THEN frames ELSE <<>>)

\* The handler of call r goes on to a stage and the given frames, unless the
\* call is settled or, as expired() finds out, its time is over.
Advance(r, stage, frames) ==
    LET goesOn == r \in Waiting /\ ~call[r].due IN
    /\ call' = [call EXCEPT ![r].stage = IF goesOn THEN stage ELSE "over"]
    /\ Begin(IF goesOn THEN frames
             ELSE IF r \in Waiting THEN <<Finish(r, "error", TRUE)>> ELSE <<>>)

\* The first microtask of the handler calls tool.validate.
Validate(r) ==
    /\ Quiet /\ call[r].stage = "queued"
    /\ Advance(r, "validating", <<>>)
    /\ UNCHANGED <<clientVars, executions, answers, linkVars>>

\* tool.validate settles; tool.execute is called with what it returned.
Validated(r) ==
    /\ Quiet /\ call[r].stage = "validating"
    /\ \/ Advance(r, "executing", <<>>)
       \/ Advance(r, "over", <<Finish(r, "error", TRUE)>>)
    /\ executions' = [executions EXCEPT ![r] =
                         IF call'[r].stage = "executing" THEN @ + 1 ELSE @]
    /\ UNCHANGED <<clientVars, answers, linkVars>>

\* tool.execute settles with a result, with an invalid one or with an error.
Executed(r) ==
    /\ Quiet /\ call[r].stage = "executing"
    /\ \E result \in Results : Advance(r, "over", <<Finish(r, result, TRUE)>>)
    /\ UNCHANGED <<clientVars, executions, answers, linkVars>>

-----------------------------------------------------------------------------
HostCalls == Start \/ Retry \/ Dispose \/ \E r \in Requests : Cancel(r)

Turn ==
    \/ HostReturns \/ DoPublish \/ DoAbort \/ DoFinish \/ DoRelease \/ DoForget
    \/ DoObserve \/ DoOpen \/ DoRetry \/ DoConnect \/ DoDisposeTransport
    \/ DoRegister \/ DoEmit \/ DoRespond

Network ==
    \/ GetAuth \/ Connected \/ ConnectError \/ Disconnected \/ DeadlineFires
    \/ \E g \in auths : AuthReturns(g)
    \/ \E g \in acks : Acknowledged(g)
    \/ \E g \in invalidations : Invalidate(g)

Handler(r) ==
    \/ \E exists \in BOOLEAN : Invoke(r, exists)
    \/ DeadlinePasses(r) \/ TimerFires(r)
    \/ Validate(r) \/ Validated(r) \/ Executed(r)

Next == HostCalls \/ Turn \/ Network \/ \E r \in Requests : Handler(r)

Spec == Init /\ [][Next]_vars

\* A turn ends, listeners return after finitely many calls, time passes and timers
\* fire.  The network, the session provider and the handlers of tools owe nothing.
Fairness ==
    /\ WF_vars(Turn)
    /\ SF_vars(HostReturns)
    /\ \A r \in Requests : WF_vars(DeadlinePasses(r)) /\ WF_vars(TimerFires(r))

FairSpec == Spec /\ Fairness

-----------------------------------------------------------------------------
\* A requestId is executed at most once and answered at most once in the life of
\* the client, over however many connections the server repeats it.
AtMostOnce ==
    \A r \in Requests : executions[r] <= 1 /\ Len(answers[r]) <= 1

\* While no call is on the stack, every waiting call belongs to the registration
\* that is in force and shown as "ready": its result can still be sent.
WaitingCanBeAnswered ==
    Quiet => \A r \in Waiting :
        /\ status = "ready" /\ link.ready /\ socket = "up"
        /\ call[r].generation = link.generation

\* A client that says it is connecting has a transport that can connect: what the
\* host recovered from inside an error notification is not closed behind it.
ConnectingCanConnect ==
    Quiet /\ status \in {"connecting", "registering"} => ~link.disposed

\* As long as the registration an invocation came from is in force, the
\* invocation is waiting or has been answered: the server is never left alone
\* with it.
NoneForgotten ==
    Quiet /\ link.ready =>
        \A r \in Requests :
            call[r].stage # "none" /\ call[r].generation = link.generation
                => (r \in Waiting) # (Len(answers[r]) = 1)

\* The state shown to the host agrees with the client and with the transport,
\* whatever listeners did while it was being published.
ShownAgrees ==
    Quiet =>
        /\ shown = Len(calls)
        /\ (status = "ready") <=> link.ready
        /\ link.failed /\ ~link.disposed => status = "error"

\* An attempt to connect that waits for the session provider or for the server
\* has a deadline of its own, so that the host is told when nothing arrives.
AttemptIsBounded ==
    Quiet /\ ~link.disposed /\ ~link.ready
          /\ (socket \in {"authorizing", "joining", "up"}
              \/ status \in {"connecting", "registering"})
        => link.deadline = link.generation

\* After a disposal, from wherever it was called, nothing is left behind.
DisposedIsFinal ==
    Quiet /\ disposed =>
        /\ status = "disposed" /\ calls = <<>>
        /\ link.disposed /\ link.deadline = None /\ socket = "off"

\* While no call is on the stack, what waits can be answered, what connects will
\* end, and what was disposed is gone.
ConnectionInOrder == WaitingCanBeAnswered /\ AttemptIsBounded /\ DisposedIsFinal

\* A result that arrives when the time of its call is over is not sent, nor is
\* a tool executed then or after its call was settled.
LateIsDiscarded ==
    [][\A r \in Requests :
        /\ answers'[r] # answers[r] /\ Head(agenda).result = "ok"
               => ~call[r].due /\ executions[r] = 1
        /\ executions'[r] # executions[r]
               => r \in Waiting /\ ~call[r].due /\ status = "ready"]_vars

\* The session provider hears of a rejected session only while the failure is
\* still the state of the client: not after the host retried or disposed.
InvalidationIsCurrent ==
    [][reported' # reported => status = "error" /\ link.failed /\ ~disposed]_vars

\* Neither what a handler nor what the session provider returns too late counts.
LateIsIgnored == LateIsDiscarded /\ InvalidationIsCurrent

\* Every accepted call settles, also when its tool never returns.
CallsSettle == \A r \in Requests : r \in Waiting ~> r \notin Waiting

=============================================================================
