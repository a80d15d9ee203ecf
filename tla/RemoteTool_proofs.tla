-------------------------- MODULE RemoteTool_proofs --------------------------
(***************************************************************************)
(* Proofs about RemoteTool.  AtMostOnce is not inductive: that an          *)
(* invocation accepted for the first time was neither executed nor         *)
(* answered before needs to know that every request with a history is      *)
(* either remembered or belongs to a client that is disposed, or about to  *)
(* be before the turn ends; and that what is left to do in a turn only     *)
(* concerns requests that were invoked.                                    *)
(***************************************************************************)
EXTENDS RemoteTool, SequenceTheorems, FiniteSetTheorems, TLAPS

Elements(s) == {s[i] : i \in DOMAIN s}

\* The parts of TypeOK; that seen is finite gives its cardinality a meaning.
ClientType ==
    /\ started \in BOOLEAN /\ disposed \in BOOLEAN
    /\ status \in Statuses
    /\ shown \in 0 .. MaxConcurrent
    /\ seen \subseteq Requests /\ Cardinality(seen) <= MaxRemembered
    /\ calls \in Seq(Requests) /\ Len(calls) <= MaxConcurrent
    /\ IsFiniteSet(seen)

CallRecord == [stage : Stages, due : BOOLEAN, sent : BOOLEAN, generation : Nat]

CallType ==
    /\ call \in [Requests -> CallRecord]
    /\ executions \in [Requests -> Nat]
    /\ answers \in [Requests -> Seq(Results)]

LinkRecord == [opened : BOOLEAN, disposed : BOOLEAN, ready : BOOLEAN,
               failed : BOOLEAN, generation : Nat, deadline : Nat \cup {None}]

LinkType ==
    /\ link \in LinkRecord
    /\ auths \subseteq Nat /\ acks \subseteq Nat
    /\ invalidations \subseteq Nat /\ reported \subseteq Nat
    /\ socket \in {"off", "opening", "authorizing", "joining", "up"}

AgendaType == agenda \in Seq(Frames)

TypeInv == ClientType /\ CallType /\ LinkType /\ AgendaType

Invoked(r) == call[r].stage # "none"

\* What is left to do concerns invoked requests, and only a disposed client
\* forgets what it has seen.
Safe(f) ==
    /\ f.op \in {"finish", "respond"} => Invoked(f.request)
    /\ f.op = "forget" => disposed

AgendaSafe == \A f \in Elements(agenda) : Safe(f)

WaitingInvoked == \A r \in Waiting : Invoked(r)

\* A request with a history is remembered for as long as the client accepts any.
HistoryRemembered ==
    \A r \in Requests : Invoked(r) =>
        r \in seen \/ disposed \/ \E f \in Elements(agenda) : f.op = "release"

\* The counts agree with the stage of the call and the flag of its respond.
CountsAgree ==
    \A r \in Requests :
        /\ ~Invoked(r) => executions[r] = 0 /\ answers[r] = <<>>
        /\ call[r].stage \in {"queued", "validating"} => executions[r] = 0
        /\ ~call[r].sent => answers[r] = <<>>

History == AgendaSafe /\ WaitingInvoked /\ HistoryRemembered /\ CountsAgree /\ AtMostOnce

IInv == TypeInv /\ History

-----------------------------------------------------------------------------
(* Frames and the agenda. *)

LEMMA FrameTypes ==
    /\ {Host, Release, DisposeTransport, Forget, OpenTransport, RetryTransport,
        Register} \subseteq Frames
    /\ \A s \in Statuses \cup {"same"} : Publish(s) \in Frames
    /\ \A s \in Statuses : Observe(s) \in Frames
    /\ \A b \in BOOLEAN : AbortAll(b) \in Frames
    /\ \A r \in Requests, result \in Results : Respond(r, result) \in Frames
    /\ \A r \in Requests, result \in Results, b \in BOOLEAN :
          Finish(r, result, b) \in Frames
    /\ \A for \in {"start", "retry"} : Connect(for) \in Frames
    /\ \A g \in Nat : Emit(g) \in Frames
    BY DEF Frames, Publish, Observe, AbortAll, Respond, Finish, Connect, Emit

\* The fields of a frame have the types its operation asks for.
LEMMA FrameFields ==
    ASSUME NEW f \in Frames
    PROVE  /\ f.op = "publish" => f.status \in Statuses \cup {"same"}
           /\ f.op = "abort" => f.respond \in BOOLEAN
           /\ f.op = "finish" => /\ f.request \in Requests /\ f.result \in Results
                                 /\ f.respond \in BOOLEAN
           /\ f.op = "respond" => f.request \in Requests /\ f.result \in Results
           /\ f.op = "observe" => f.status \in Statuses
           /\ f.op = "connect" => f.for \in {"start", "retry"}
           /\ f.op = "emit" => f.generation \in Nat
    BY DEF Frames, Host, Release, DisposeTransport, Forget, OpenTransport,
           RetryTransport, Register

LEMMA Concatenation ==
    ASSUME NEW S, NEW f \in Seq(S), NEW s \in Seq(S)
    PROVE  /\ f \o s \in Seq(S)
           /\ Elements(f \o s) = Elements(f) \cup Elements(s)
<1>1. /\ f \o s \in Seq(S) /\ Len(f \o s) = Len(f) + Len(s)
      /\ \A i \in 1 .. Len(f) + Len(s) :
            (f \o s)[i] = IF i <= Len(f) THEN f[i] ELSE s[i - Len(f)]
    BY ConcatProperties
<1>2. Elements(f \o s) \subseteq Elements(f) \cup Elements(s)
  <2> SUFFICES ASSUME NEW i \in DOMAIN (f \o s)
               PROVE  (f \o s)[i] \in Elements(f) \cup Elements(s)
      BY DEF Elements
  <2>1. i \in 1 .. Len(f) + Len(s)
      BY <1>1
  <2>2. CASE i <= Len(f)
      BY <1>1, <2>1, <2>2 DEF Elements
  <2>3. CASE i > Len(f)
    <3>1. i - Len(f) \in DOMAIN s /\ (f \o s)[i] = s[i - Len(f)]
        BY <1>1, <2>1, <2>3
    <3> QED
        BY <3>1 DEF Elements
  <2> QED
      BY <2>1, <2>2, <2>3
<1>3. Elements(f) \subseteq Elements(f \o s)
  <2> SUFFICES ASSUME NEW i \in DOMAIN f PROVE f[i] \in Elements(f \o s)
      BY DEF Elements
  <2>1. i \in 1 .. Len(f) + Len(s) /\ i <= Len(f)
      OBVIOUS
  <2>2. i \in DOMAIN (f \o s) /\ (f \o s)[i] = f[i]
      BY <1>1, <2>1
  <2> QED
      BY <2>2 DEF Elements
<1>4. Elements(s) \subseteq Elements(f \o s)
  <2> SUFFICES ASSUME NEW i \in DOMAIN s PROVE s[i] \in Elements(f \o s)
      BY DEF Elements
  <2>1. i + Len(f) \in 1 .. Len(f) + Len(s) /\ ~(i + Len(f) <= Len(f))
      OBVIOUS
  <2>2. i + Len(f) \in DOMAIN (f \o s) /\ (f \o s)[i + Len(f)] = s[i]
      BY <1>1, <2>1
  <2> QED
      BY <2>2 DEF Elements
<1> QED
    BY <1>1, <1>2, <1>3, <1>4

LEMMA Popped ==
    ASSUME NEW S, NEW s \in Seq(S), s # <<>>
    PROVE  /\ Head(s) \in S /\ Tail(s) \in Seq(S)
           /\ Elements(s) = {Head(s)} \cup Elements(Tail(s))
<1>1. /\ Head(s) \in S /\ Tail(s) \in Seq(S) /\ Len(Tail(s)) = Len(s) - 1
      /\ \A i \in 1 .. Len(Tail(s)) : Tail(s)[i] = s[i + 1]
      /\ Len(s) \in Nat \ {0} /\ Head(s) = s[1]
    OBVIOUS
<1>2. Elements(s) \subseteq {Head(s)} \cup Elements(Tail(s))
  <2> SUFFICES ASSUME NEW i \in DOMAIN s, i # 1 PROVE s[i] \in Elements(Tail(s))
      BY <1>1 DEF Elements
  <2>1. i - 1 \in DOMAIN Tail(s) /\ Tail(s)[i - 1] = s[i]
      BY <1>1
  <2> QED
      BY <2>1 DEF Elements
<1>3. Elements(Tail(s)) \subseteq Elements(s)
  <2> SUFFICES ASSUME NEW i \in DOMAIN Tail(s) PROVE Tail(s)[i] \in Elements(s)
      BY DEF Elements
  <2>1. i + 1 \in DOMAIN s /\ Tail(s)[i] = s[i + 1]
      BY <1>1
  <2> QED
      BY <2>1 DEF Elements
<1>4. Head(s) \in Elements(s)
    BY <1>1 DEF Elements
<1> QED
    BY <1>1, <1>2, <1>3, <1>4

LEMMA ShortSequences ==
    /\ <<>> \in Seq(Frames) /\ Elements(<<>>) = {}
    /\ \A a \in Frames : <<a>> \in Seq(Frames) /\ Elements(<<a>>) = {a}
    /\ \A a, b \in Frames : <<a, b>> \in Seq(Frames) /\ Elements(<<a, b>>) = {a, b}
    /\ \A a, b, c \in Frames :
          <<a, b, c>> \in Seq(Frames) /\ Elements(<<a, b, c>>) = {a, b, c}
    /\ \A a, b, c, d \in Frames :
          <<a, b, c, d>> \in Seq(Frames) /\ Elements(<<a, b, c, d>>) = {a, b, c, d}
    BY DEF Elements

\* What Begin and Go leave to do.
LEMMA BegunAgenda ==
    ASSUME TypeInv, NEW f \in Seq(Frames), Begin(f)
    PROVE  agenda' \in Seq(Frames) /\ Elements(agenda') = Elements(f) \cup Elements(agenda)
    BY Concatenation DEF TypeInv, AgendaType, Begin

LEMMA GoneAgenda ==
    ASSUME TypeInv, ~Quiet, NEW f \in Seq(Frames), Go(f)
    PROVE  /\ agenda' \in Seq(Frames) /\ Head(agenda) \in Frames
           /\ Elements(agenda') = Elements(f) \cup Elements(Tail(agenda))
           /\ Elements(agenda) = {Head(agenda)} \cup Elements(Tail(agenda))
<1>1. agenda \in Seq(Frames) /\ agenda # <<>> /\ agenda' = f \o Tail(agenda)
    BY DEF TypeInv, AgendaType, Quiet, Go
<1>2. /\ Head(agenda) \in Frames /\ Tail(agenda) \in Seq(Frames)
      /\ Elements(agenda) = {Head(agenda)} \cup Elements(Tail(agenda))
    BY <1>1, Popped
<1> DEFINE t == Tail(agenda)
<1>3. f \in Seq(Frames) /\ t \in Seq(Frames)
    BY <1>2
<1> HIDE DEF t
<1>4. f \o t \in Seq(Frames) /\ Elements(f \o t) = Elements(f) \cup Elements(t)
    BY <1>3, Concatenation
<1> QED
    BY <1>1, <1>2, <1>4 DEF t

LEMMA Slices ==
    ASSUME NEW c \in Seq(Requests), NEW i \in 1 .. Len(c)
    PROVE  /\ SubSeq(c, 1, i - 1) \in Seq(Requests) /\ Len(SubSeq(c, 1, i - 1)) = i - 1
           /\ \A j \in 1 .. i - 1 : SubSeq(c, 1, i - 1)[j] = c[j]
           /\ SubSeq(c, i + 1, Len(c)) \in Seq(Requests)
           /\ Len(SubSeq(c, i + 1, Len(c))) = Len(c) - i
           /\ \A j \in 1 .. Len(c) - i : SubSeq(c, i + 1, Len(c))[j] = c[i + j]
<1>1. Len(c) \in Nat /\ i \in Int /\ i >= 1 /\ i <= Len(c)
    OBVIOUS
<1>2. /\ SubSeq(c, 1, i - 1) \in Seq(Requests) /\ Len(SubSeq(c, 1, i - 1)) = i - 1
      /\ \A j \in 1 .. i - 1 : SubSeq(c, 1, i - 1)[j] = c[j]
    BY <1>1, SMTT(30)
<1>3. /\ SubSeq(c, i + 1, Len(c)) \in Seq(Requests)
      /\ Len(SubSeq(c, i + 1, Len(c))) = Len(c) - i
      /\ \A j \in 1 .. Len(c) - i : SubSeq(c, i + 1, Len(c))[j] = c[i + j]
    BY <1>1, SMTT(30)
<1> QED
    BY <1>2, <1>3

\* A call that leaves #calls is the only one that leaves.
LEMMA CallRemoved ==
    ASSUME TypeInv, NEW r \in Waiting
    PROVE  /\ CallsWithout(r) \in Seq(Requests)
           /\ Len(CallsWithout(r)) < Len(calls)
           /\ Elements(CallsWithout(r)) \subseteq Waiting
<1> DEFINE i == CHOOSE j \in DOMAIN calls : calls[j] = r
           f == SubSeq(calls, 1, i - 1)
           s == SubSeq(calls, i + 1, Len(calls))
<1>1. calls \in Seq(Requests) /\ i \in 1 .. Len(calls) /\ Len(calls) \in Nat
    BY DEF TypeInv, ClientType, Waiting
<1>2. CallsWithout(r) = f \o s
    BY DEF CallsWithout
<1> HIDE DEF i
<1>3. /\ f \in Seq(Requests) /\ Len(f) = i - 1
      /\ \A j \in 1 .. i - 1 : f[j] = calls[j]
      /\ s \in Seq(Requests) /\ Len(s) = Len(calls) - i
      /\ \A j \in 1 .. Len(calls) - i : s[j] = calls[i + j]
    BY <1>1, Slices
<1> HIDE DEF f, s
<1>4. DOMAIN f = 1 .. i - 1 /\ DOMAIN s = 1 .. Len(calls) - i
    BY <1>1, <1>3
<1>5. Elements(f) \subseteq Waiting
  <2>1. \A j \in 1 .. i - 1 : j \in DOMAIN calls
      BY <1>1
  <2> QED
      BY <1>3, <1>4, <2>1 DEF Elements, Waiting
<1>6. Elements(s) \subseteq Waiting
  <2>1. \A j \in 1 .. Len(calls) - i : i + j \in DOMAIN calls
      BY <1>1
  <2> QED
      BY <1>3, <1>4, <2>1 DEF Elements, Waiting
<1>7. f \o s \in Seq(Requests) /\ Elements(f \o s) = Elements(f) \cup Elements(s)
    BY <1>3, Concatenation
<1>8. Len(f \o s) = Len(f) + Len(s)
    BY <1>3, ConcatProperties
<1>9. Len(f \o s) < Len(calls)
    BY <1>1, <1>3, <1>8
<1> QED
    BY <1>2, <1>5, <1>6, <1>7, <1>9

-----------------------------------------------------------------------------
(* Type correctness. *)

LEMMA InitType == Init => TypeInv
<1> SUFFICES ASSUME Init PROVE TypeInv
    OBVIOUS
<1>1. IsFiniteSet(seen) /\ Cardinality(seen) = 0
    BY FS_EmptySet DEF Init
<1>2. ClientType
  <2>1. calls \in Seq(Requests) /\ Len(calls) = 0
      BY DEF Init
  <2>2. MaxConcurrent \in Nat /\ MaxRemembered \in Nat
      BY RemoteToolAssumption
  <2>3. /\ seen \subseteq Requests /\ shown = 0 /\ status \in Statuses
        /\ started = FALSE /\ disposed = FALSE
      BY DEF Init, Statuses
  <2>4. Cardinality(seen) <= MaxRemembered /\ Len(calls) <= MaxConcurrent
      BY <1>1, <2>1, <2>2
  <2>5. shown \in 0 .. MaxConcurrent
      BY <2>2, <2>3
  <2> QED
      BY <1>1, <2>1, <2>3, <2>4, <2>5 DEF ClientType
<1>3. CallType
  <2>1. call \in [Requests -> CallRecord]
      BY DEF Init, Stages, CallRecord
  <2>2. executions \in [Requests -> Nat]
      BY DEF Init
  <2>3. answers \in [Requests -> Seq(Results)]
      BY DEF Init
  <2> QED
      BY <2>1, <2>2, <2>3 DEF CallType
<1>4. LinkType
    BY RemoteToolAssumption DEF Init, LinkType, LinkRecord
<1>5. AgendaType
    BY DEF Init, AgendaType
<1> QED
    BY <1>2, <1>3, <1>4, <1>5 DEF TypeInv

\* What an action leaves alone keeps its type.
LEMMA UnchangedTypes ==
    ASSUME TypeInv
    PROVE  /\ UNCHANGED clientVars => ClientType'
           /\ UNCHANGED callVars => CallType'
           /\ UNCHANGED linkVars => LinkType'
           /\ UNCHANGED agenda => AgendaType'
    BY DEF TypeInv, ClientType, CallType, LinkType, AgendaType, clientVars, callVars, linkVars

-----------------------------------------------------------------------------
(* The steps that execute and answer nothing. *)

LEMMA Ops ==
    /\ Host.op = "host" /\ Release.op = "release" /\ Forget.op = "forget"
    /\ DisposeTransport.op = "disposeTransport" /\ OpenTransport.op = "open"
    /\ RetryTransport.op = "retry" /\ Register.op = "register"
    /\ \A s : Publish(s).op = "publish" /\ Observe(s).op = "observe"
    /\ \A s : AbortAll(s).op = "abort" /\ Connect(s).op = "connect" /\ Emit(s).op = "emit"
    /\ \A r, s : Respond(r, s).op = "respond" /\ Respond(r, s).request = r
    /\ \A r, s, b : Finish(r, s, b).op = "finish" /\ Finish(r, s, b).request = r
    BY DEF Host, Release, Forget, DisposeTransport, OpenTransport, RetryTransport,
           Register, Publish, Observe, AbortAll, Connect, Emit, Respond, Finish

\* A turn that begins or is interrupted by the host.
LEMMA BeginKeeps ==
    ASSUME IInv, NEW f \in Seq(Frames), Begin(f), \A x \in Elements(f) : Safe(x),
           UNCHANGED <<callVars, seen, calls, disposed>>
    PROVE  AgendaType' /\ History'
<1>1. agenda' \in Seq(Frames) /\ Elements(agenda') = Elements(f) \cup Elements(agenda)
    BY BegunAgenda DEF IInv
<1>2. \A x : Safe(x)' <=> Safe(x)
    BY DEF Safe, Invoked, callVars
<1>3. AgendaSafe'
    BY <1>1, <1>2 DEF IInv, History, AgendaSafe
<1>4. WaitingInvoked' /\ CountsAgree' /\ AtMostOnce'
    BY DEF IInv, History, WaitingInvoked, Waiting, CountsAgree, AtMostOnce, Invoked, callVars
<1>5. HistoryRemembered'
    BY <1>1 DEF IInv, History, HistoryRemembered, Invoked, callVars
<1> QED
    BY <1>1, <1>3, <1>4, <1>5 DEF AgendaType, History

\* A step within a turn.
LEMMA GoKeeps ==
    ASSUME IInv, ~Quiet, NEW f \in Seq(Frames), Go(f),
           \A x \in Elements(f) : /\ x.op \in {"finish", "respond"} => Invoked(x.request)
                                  /\ x.op = "forget" => disposed',
           Doing("release") => disposed',
           disposed => disposed',
           seen \subseteq seen' \/ disposed',
           \A r \in Waiting' : r \in Waiting,
           UNCHANGED callVars
    PROVE  AgendaType' /\ History'
<1>1. /\ agenda' \in Seq(Frames)
      /\ Elements(agenda') = Elements(f) \cup Elements(Tail(agenda))
      /\ Elements(agenda) = {Head(agenda)} \cup Elements(Tail(agenda))
    BY GoneAgenda DEF IInv
<1>2. \A r : Invoked(r)' <=> Invoked(r)
    BY DEF Invoked, callVars
<1>3. AgendaSafe'
  <2> SUFFICES ASSUME NEW y \in Elements(agenda') PROVE Safe(y)'
      BY DEF AgendaSafe
  <2>1. CASE y \in Elements(f)
      BY <2>1 DEF Safe, Invoked, callVars
  <2>2. CASE y \in Elements(Tail(agenda))
    <3>1. Safe(y)
        BY <1>1, <2>2 DEF IInv, History, AgendaSafe
    <3> QED
        BY <3>1 DEF Safe, Invoked, callVars
  <2> QED
      BY <1>1, <2>1, <2>2
<1>4. WaitingInvoked'
    BY <1>2 DEF IInv, History, WaitingInvoked
<1>5. CountsAgree' /\ AtMostOnce'
    BY DEF IInv, History, CountsAgree, AtMostOnce, Invoked, callVars
<1>6. HistoryRemembered'
  <2> SUFFICES ASSUME NEW r \in Requests, Invoked(r), ~disposed'
               PROVE  r \in seen' \/ \E x \in Elements(agenda') : x.op = "release"
      BY <1>2 DEF HistoryRemembered
  <2>1. r \in seen \/ \E x \in Elements(agenda) : x.op = "release"
      BY DEF IInv, History, HistoryRemembered
  <2>2. Head(agenda).op # "release"
      BY DEF Doing
  <2> QED
      BY <1>1, <2>1, <2>2
<1> QED
    BY <1>1, <1>3, <1>4, <1>5, <1>6 DEF AgendaType, History

LEMMA HostCallsKeep ==
    ASSUME IInv, HostCalls
    PROVE  IInv'
<1>1. CASE Start
  <2>1. Publish("connecting") \in Frames /\ OpenTransport \in Frames
      BY FrameTypes DEF Statuses
  <2> DEFINE f == <<Publish("connecting"), OpenTransport>>
  <2>2. f \in Seq(Frames) /\ Elements(f) = {Publish("connecting"), OpenTransport}
      BY <2>1, ShortSequences
  <2>3. Begin(f) /\ UNCHANGED <<callVars, seen, calls, disposed>>
      BY <1>1 DEF Start
  <2>4. \A x \in Elements(f) : Safe(x)
      BY <2>2, Ops DEF Safe
  <2> HIDE DEF f
  <2>5. AgendaType' /\ History'
      BY <2>2, <2>3, <2>4, BeginKeeps
  <2>6. ClientType'
      BY <1>1 DEF Start, IInv, TypeInv, ClientType
  <2> QED
      BY <1>1, <2>5, <2>6, UnchangedTypes DEF Start, IInv, TypeInv
<1> DEFINE Calls(f) == /\ f \in Frames /\ Safe(f) /\ Begin(<<f>>)
                       /\ UNCHANGED <<clientVars, callVars, linkVars>>
<1>2. ASSUME NEW f, Calls(f) PROVE IInv'
  <2>1. <<f>> \in Seq(Frames) /\ Elements(<<f>>) = {f}
      BY <1>2, ShortSequences
  <2>2. Begin(<<f>>) /\ UNCHANGED <<callVars, seen, calls, disposed>>
      BY <1>2 DEF clientVars
  <2>3. AgendaType' /\ History'
      BY <1>2, <2>1, <2>2, BeginKeeps
  <2> QED
      BY <1>2, <2>3, UnchangedTypes DEF IInv, TypeInv
<1>3. CASE Retry
    BY <1>3, <1>2, FrameTypes, Ops DEF Retry, Safe
<1>4. CASE Dispose
    BY <1>4, <1>2, FrameTypes, Ops DEF Dispose, Safe
<1>5. ASSUME NEW r \in Requests, Cancel(r) PROVE IInv'
  <2>1. Invoked(r)
      BY <1>5 DEF Cancel, IInv, History, WaitingInvoked
  <2>2. "error" \in Results /\ TRUE \in BOOLEAN
      BY DEF Results
  <2>3. Finish(r, "error", TRUE) \in Frames
      BY <2>2, FrameTypes
  <2>4. Safe(Finish(r, "error", TRUE))
      BY <2>1 DEF Safe, Finish
  <2> QED
      BY <1>5, <1>2, <2>3, <2>4 DEF Cancel
<1> QED
    BY <1>1, <1>3, <1>4, <1>5 DEF HostCalls

\* What neither asks for a response nor forgets.
Harmless(f) == f.op \notin {"finish", "respond", "forget"}

LEMMA HarmlessFrames ==
    /\ \A x \in {Host, Release, DisposeTransport, OpenTransport, RetryTransport,
                 Register} : Harmless(x)
    /\ \A s : Harmless(Publish(s)) /\ Harmless(Observe(s)) /\ Harmless(AbortAll(s))
    /\ \A s : Harmless(Connect(s)) /\ Harmless(Emit(s))
    BY Ops DEF Harmless

\* What the transport assigns to its fields.
LEMMA LinkUpdates ==
    ASSUME LinkType
    PROVE  /\ link.generation \in Nat /\ link.generation + 1 \in Nat
           /\ Armed(link) \in LinkRecord
           /\ [link EXCEPT !.opened = TRUE] \in LinkRecord
           /\ [link EXCEPT !.deadline = None] \in LinkRecord
           /\ [link EXCEPT !.ready = TRUE, !.deadline = None] \in LinkRecord
           /\ [link EXCEPT !.failed = FALSE, !.generation = @ + 1] \in LinkRecord
           /\ [link EXCEPT !.disposed = TRUE, !.ready = FALSE,
                           !.generation = @ + 1, !.deadline = None] \in LinkRecord
           /\ Armed([link EXCEPT !.ready = FALSE, !.generation = link.generation + 1])
                 \in LinkRecord
           /\ [link EXCEPT !.failed = TRUE, !.ready = FALSE,
                           !.generation = link.generation + 1, !.deadline = None]
                 \in LinkRecord
           /\ [link EXCEPT !.ready = FALSE, !.generation = @ + 1, !.deadline = None]
                 \in LinkRecord
<1>1. link \in LinkRecord /\ link.generation \in Nat /\ link.generation + 1 \in Nat
    BY DEF LinkType, LinkRecord
<1>2. Armed(link) \in LinkRecord
    BY <1>1 DEF Armed, LinkRecord
<1>3. [link EXCEPT !.opened = TRUE] \in LinkRecord
    BY <1>1 DEF LinkRecord
<1>4. [link EXCEPT !.deadline = None] \in LinkRecord
    BY <1>1 DEF LinkRecord
<1>5. [link EXCEPT !.ready = TRUE, !.deadline = None] \in LinkRecord
    BY <1>1 DEF LinkRecord
<1>6. [link EXCEPT !.failed = FALSE, !.generation = @ + 1] \in LinkRecord
    BY <1>1 DEF LinkRecord
<1>7. [link EXCEPT !.disposed = TRUE, !.ready = FALSE,
                   !.generation = @ + 1, !.deadline = None] \in LinkRecord
    BY <1>1 DEF LinkRecord
<1>8. Armed([link EXCEPT !.ready = FALSE, !.generation = link.generation + 1])
         \in LinkRecord
    BY <1>1 DEF Armed, LinkRecord
<1>9. [link EXCEPT !.failed = TRUE, !.ready = FALSE,
                   !.generation = link.generation + 1, !.deadline = None] \in LinkRecord
    BY <1>1 DEF LinkRecord
<1>10. [link EXCEPT !.ready = FALSE, !.generation = @ + 1, !.deadline = None]
          \in LinkRecord
    BY <1>1 DEF LinkRecord
<1> QED
    BY <1>1, <1>2, <1>3, <1>4, <1>5, <1>6, <1>7, <1>8, <1>9, <1>10

\* A step of a turn, or the begin of one, that only concerns the connection.
LEMMA LinkTurnKeeps ==
    ASSUME IInv, ~Quiet, ~Doing("release"), NEW f \in Seq(Frames), Go(f),
           \A x \in Elements(f) : Harmless(x),
           UNCHANGED <<clientVars, callVars>>, LinkType'
    PROVE  IInv'
<1>1. \A x \in Elements(f) : /\ x.op \in {"finish", "respond"} => Invoked(x.request)
                             /\ x.op = "forget" => disposed'
    BY DEF Harmless
<1>2. disposed' = disposed /\ seen' = seen /\ calls' = calls
    BY DEF clientVars
<1>3. \A r \in Waiting' : r \in Waiting
    BY <1>2 DEF Waiting
<1>4. AgendaType' /\ History'
    BY <1>1, <1>2, <1>3, GoKeeps
<1> QED
    BY <1>4, UnchangedTypes DEF IInv, TypeInv

LEMMA LinkBeginKeeps ==
    ASSUME IInv, NEW f \in Seq(Frames), Begin(f), \A x \in Elements(f) : Harmless(x),
           UNCHANGED <<clientVars, callVars>>, LinkType'
    PROVE  IInv'
<1>1. \A x \in Elements(f) : Safe(x)
    BY DEF Harmless, Safe
<1>2. UNCHANGED <<callVars, seen, calls, disposed>>
    BY DEF clientVars
<1>3. AgendaType' /\ History'
    BY <1>1, <1>2, BeginKeeps
<1> QED
    BY <1>3, UnchangedTypes DEF IInv, TypeInv

\* The frames the transport leaves behind.
LEMMA LinkFrames ==
    /\ \A for \in {"start", "retry"} :
          Caught(for) \in Seq(Frames) /\ \A x \in Elements(Caught(for)) : Harmless(x)
    /\ \A s \in Statuses, for \in {"start", "retry"} :
          LET f == <<Observe(s), Connect(for)>>
          IN  f \in Seq(Frames) /\ \A x \in Elements(f) : Harmless(x)
    /\ \A s \in Statuses, g \in Nat :
          LET f == <<Observe(s), Emit(g)>>
          IN  f \in Seq(Frames) /\ \A x \in Elements(f) : Harmless(x)
    /\ \A s \in Statuses :
          <<Observe(s)>> \in Seq(Frames) /\ \A x \in Elements(<<Observe(s)>>) : Harmless(x)
    /\ <<Register>> \in Seq(Frames) /\ \A x \in Elements(<<Register>>) : Harmless(x)
    /\ <<>> \in Seq(Frames) /\ \A x \in Elements(<<>>) : Harmless(x)
<1>1. ASSUME NEW for \in {"start", "retry"}
      PROVE  Caught(for) \in Seq(Frames) /\ \A x \in Elements(Caught(for)) : Harmless(x)
  <2>1. Publish("error") \in Frames /\ AbortAll(FALSE) \in Frames /\ DisposeTransport \in Frames
      BY FrameTypes DEF Statuses
  <2>2. Harmless(Publish("error")) /\ Harmless(AbortAll(FALSE)) /\ Harmless(DisposeTransport)
      BY HarmlessFrames
  <2> DEFINE a == Publish("error")
             b == AbortAll(FALSE)
             c == DisposeTransport
  <2>3. Caught(for) = <<a, b, c>> \/ Caught(for) = <<a>>
      BY DEF Caught
  <2> HIDE DEF a, b, c
  <2>4. /\ a \in Frames /\ b \in Frames /\ c \in Frames
        /\ Harmless(a) /\ Harmless(b) /\ Harmless(c)
      BY <2>1, <2>2 DEF a, b, c
  <2>5. /\ <<a, b, c>> \in Seq(Frames) /\ Elements(<<a, b, c>>) = {a, b, c}
        /\ <<a>> \in Seq(Frames) /\ Elements(<<a>>) = {a}
      BY <2>4, ShortSequences
  <2> QED
      BY <2>3, <2>4, <2>5
<1>2. ASSUME NEW s \in Statuses, NEW for \in {"start", "retry"}
      PROVE  LET f == <<Observe(s), Connect(for)>>
             IN  f \in Seq(Frames) /\ \A x \in Elements(f) : Harmless(x)
    BY FrameTypes, HarmlessFrames, ShortSequences
<1>3. ASSUME NEW s \in Statuses, NEW g \in Nat
      PROVE  LET f == <<Observe(s), Emit(g)>>
             IN  f \in Seq(Frames) /\ \A x \in Elements(f) : Harmless(x)
    BY FrameTypes, HarmlessFrames, ShortSequences
<1>4. ASSUME NEW s \in Statuses
      PROVE  <<Observe(s)>> \in Seq(Frames) /\ \A x \in Elements(<<Observe(s)>>) : Harmless(x)
    BY FrameTypes, HarmlessFrames, ShortSequences
<1>5. <<Register>> \in Seq(Frames) /\ \A x \in Elements(<<Register>>) : Harmless(x)
    BY FrameTypes, HarmlessFrames, ShortSequences
<1>6. <<>> \in Seq(Frames) /\ \A x \in Elements(<<>>) : Harmless(x)
    BY ShortSequences
<1> QED
    BY <1>1, <1>2, <1>3, <1>4, <1>5, <1>6

-----------------------------------------------------------------------------
(* The steps of a turn. *)

LEMMA LinkTurns ==
    ASSUME IInv, DoOpen \/ DoRetry \/ DoConnect \/ DoDisposeTransport \/ DoRegister \/ DoEmit
    PROVE  IInv'
<1> DEFINE Goes(f) == f \in Seq(Frames) /\ Go(f) /\ \A x \in Elements(f) : Harmless(x)
<1>1. ~Quiet /\ ~Doing("release") /\ UNCHANGED <<clientVars, callVars>>
    BY DEF DoOpen, DoRetry, DoConnect, DoDisposeTransport, DoRegister, DoEmit, Doing
<1>2. ASSUME NEW f, Goes(f), LinkType' PROVE IInv'
    BY <1>1, <1>2, LinkTurnKeeps
<1>3. LinkType /\ link.generation \in Nat /\ None \notin Nat
    BY RemoteToolAssumption, LinkUpdates DEF IInv, TypeInv
<1>4. {"connecting", "registering"} \subseteq Statuses
    BY DEF Statuses
<1>5. CASE DoOpen
  <2>1. LinkType'
      BY <1>3, <1>5, LinkUpdates DEF DoOpen, LinkType
  <2>2. CASE Go(<<>>)
      BY <1>2, <2>1, <2>2, LinkFrames
  <2>3. CASE Go(<<Observe("connecting"), Connect("start")>>)
    <3>1. Goes(<<Observe("connecting"), Connect("start")>>)
        BY <1>4, <2>3, LinkFrames
    <3> QED
        BY <1>2, <2>1, <3>1
  <2>4. CASE Go(Caught("start"))
    <3>1. Goes(Caught("start"))
        BY <2>4, LinkFrames
    <3> QED
        BY <1>2, <2>1, <3>1
  <2> QED
      BY <1>5, <2>2, <2>3, <2>4 DEF DoOpen
<1>6. CASE DoRetry
  <2>1. LinkType'
      BY <1>3, <1>6, LinkUpdates DEF DoRetry, LinkType
  <2>2. CASE Go(<<>>)
      BY <1>2, <2>1, <2>2, LinkFrames
  <2>3. CASE Go(<<Observe("connecting"), Connect("retry")>>)
    <3>1. Goes(<<Observe("connecting"), Connect("retry")>>)
        BY <1>4, <2>3, LinkFrames
    <3> QED
        BY <1>2, <2>1, <3>1
  <2> QED
      BY <1>6, <2>2, <2>3 DEF DoRetry
<1>7. CASE DoConnect
  <2>1. Head(agenda).for \in {"start", "retry"}
      BY <1>7, Popped, FrameFields DEF DoConnect, Doing, Quiet, IInv, TypeInv, AgendaType
  <2>2. LinkType'
      BY <1>3, <1>7, LinkUpdates DEF DoConnect, LinkType
  <2>3. CASE Go(<<>>)
      BY <1>2, <2>2, <2>3, LinkFrames
  <2>4. CASE Go(<<Register>>)
    <3>1. Goes(<<Register>>)
        BY <2>4, LinkFrames
    <3> QED
        BY <1>2, <2>2, <3>1
  <2>5. CASE Go(Caught(Head(agenda).for))
    <3>1. Goes(Caught(Head(agenda).for))
        BY <2>1, <2>5, LinkFrames
    <3> QED
        BY <1>2, <2>2, <3>1
  <2> QED
      BY <1>7, <2>3, <2>4, <2>5 DEF DoConnect
<1>8. CASE DoDisposeTransport
  <2>1. LinkType'
      BY <1>3, <1>8, LinkUpdates DEF DoDisposeTransport, LinkType
  <2> QED
      BY <1>2, <1>8, <2>1, LinkFrames DEF DoDisposeTransport
<1>9. CASE DoRegister
  <2> DEFINE g == link.generation + 1
  <2>1. LinkType'
      BY <1>3, <1>9, LinkUpdates DEF DoRegister, LinkType
  <2>2. CASE Go(<<>>)
      BY <1>2, <2>1, <2>2, LinkFrames
  <2>3. CASE Go(<<Observe("registering"), Emit(g)>>)
    <3>1. g \in Nat
        BY <1>3
    <3>2. Goes(<<Observe("registering"), Emit(g)>>)
        BY <1>4, <2>3, <3>1, LinkFrames
    <3> QED
        BY <1>2, <2>1, <3>2
  <2> QED
      BY <1>9, <2>2, <2>3 DEF DoRegister
<1>10. CASE DoEmit
  <2>1. Head(agenda).generation \in Nat
      BY <1>10, Popped, FrameFields DEF DoEmit, Doing, Quiet, IInv, TypeInv, AgendaType
  <2>2. LinkType'
      BY <1>3, <1>10, <2>1 DEF DoEmit, LinkType
  <2> QED
      BY <1>2, <1>10, <2>2, LinkFrames DEF DoEmit
<1> QED
    BY <1>5, <1>6, <1>7, <1>8, <1>9, <1>10

\* What the innermost call knows about itself.
LEMMA HeadKnown ==
    ASSUME IInv, ~Quiet
    PROVE  Head(agenda) \in Frames /\ Safe(Head(agenda))
<1>1. /\ Head(agenda) \in Frames
      /\ Elements(agenda) = {Head(agenda)} \cup Elements(Tail(agenda))
    BY Popped DEF IInv, TypeInv, AgendaType, Quiet
<1> QED
    BY <1>1 DEF IInv, History, AgendaSafe

LEMMA ClientTurns ==
    ASSUME IInv, \/ HostReturns \/ DoPublish \/ DoAbort \/ DoFinish \/ DoRelease
                 \/ DoForget \/ DoObserve
    PROVE  IInv'
<1>1. /\ ~Quiet /\ Head(agenda) \in Frames /\ Safe(Head(agenda))
      /\ UNCHANGED <<callVars, linkVars>>
    BY HeadKnown DEF HostReturns, DoPublish, DoAbort, DoFinish, DoRelease, DoForget,
                     DoObserve, Doing, Quiet
<1>2. CallType' /\ LinkType'
    BY <1>1, UnchangedTypes DEF IInv
<1>3. ASSUME NEW f \in Seq(Frames), Go(f),
             \A x \in Elements(f) : /\ x.op \in {"finish", "respond"} => Invoked(x.request)
                                    /\ x.op = "forget" => disposed',
             Doing("release") => disposed', disposed => disposed',
             seen \subseteq seen' \/ disposed',
             \A r \in Waiting' : r \in Waiting,
             ClientType'
      PROVE  IInv'
  <2>1. AgendaType' /\ History'
      BY <1>1, <1>3, GoKeeps
  <2> QED
      BY <1>2, <1>3, <2>1 DEF IInv, TypeInv
<1>4. ASSUME NEW f \in Seq(Frames), Go(f), \A x \in Elements(f) : Harmless(x),
             ~Doing("release"), UNCHANGED clientVars
      PROVE  IInv'
    BY <1>1, <1>2, <1>4, LinkTurnKeeps
<1>5. CASE HostReturns
    BY <1>4, <1>5, LinkFrames DEF HostReturns, Doing
<1>6. CASE DoPublish
  <2>1. <<Host>> \in Seq(Frames) /\ Elements(<<Host>>) = {Host} /\ Host.op = "host"
      BY FrameTypes, ShortSequences, Ops
  <2>2. /\ Head(agenda).op = "publish" /\ Head(agenda).status \in Statuses \cup {"same"}
        /\ status' = IF Head(agenda).status = "same" THEN status ELSE Head(agenda).status
        /\ shown' = Len(calls) /\ Go(<<Host>>)
        /\ UNCHANGED <<started, disposed, seen, calls>>
      BY <1>1, <1>6, FrameFields DEF DoPublish, Doing
  <2>3. Len(calls) \in 0 .. MaxConcurrent
      BY RemoteToolAssumption DEF IInv, TypeInv, ClientType
  <2>4. ClientType'
      BY <2>2, <2>3 DEF IInv, TypeInv, ClientType
  <2>5. Waiting' = Waiting /\ ~Doing("release")
      BY <2>2 DEF Waiting, Doing
  <2> QED
      BY <1>3, <2>1, <2>2, <2>4, <2>5
<1>7. CASE DoAbort
  <2> DEFINE f == [i \in DOMAIN calls |-> Finish(calls[i], "error", Head(agenda).respond)]
  <2>1. /\ Head(agenda).op = "abort" /\ Head(agenda).respond \in BOOLEAN /\ Go(f)
        /\ UNCHANGED clientVars
      BY <1>1, <1>7, FrameFields DEF DoAbort, Doing
  <2>2. calls \in Seq(Requests) /\ "error" \in Results
      BY DEF IInv, TypeInv, ClientType, Results
  <2>3. \A i \in DOMAIN calls : f[i] \in Frames /\ f[i].op = "finish" /\ Invoked(f[i].request)
    <3> SUFFICES ASSUME NEW i \in DOMAIN calls
                 PROVE  f[i] \in Frames /\ f[i].op = "finish" /\ Invoked(f[i].request)
        OBVIOUS
    <3>1. calls[i] \in Requests /\ Invoked(calls[i])
        BY <2>2 DEF IInv, History, WaitingInvoked, Waiting
    <3>2. f[i] = Finish(calls[i], "error", Head(agenda).respond)
        OBVIOUS
    <3>3. f[i] \in Frames
        BY <2>1, <2>2, <3>1, <3>2, FrameTypes
    <3>4. f[i].op = "finish" /\ f[i].request = calls[i]
        BY <3>2, Ops
    <3> QED
        BY <3>1, <3>3, <3>4
  <2>4. DOMAIN f = 1 .. Len(calls) /\ Len(calls) \in Nat /\ DOMAIN calls = 1 .. Len(calls)
      BY <2>2
  <2> HIDE DEF f
  <2>5. f \in Seq(Frames)
    <3>1. f = [i \in 1 .. Len(calls) |-> f[i]]
        BY <2>4 DEF f
    <3>2. \A i \in 1 .. Len(calls) : f[i] \in Frames
        BY <2>3, <2>4
    <3> QED
        BY <2>4, <3>1, <3>2, IsASeq
  <2>6. \A x \in Elements(f) : x.op = "finish" /\ Invoked(x.request)
      BY <2>3, <2>4 DEF Elements
  <2>7. disposed' = disposed /\ seen' = seen /\ calls' = calls /\ ClientType'
      BY <2>1, UnchangedTypes DEF clientVars, IInv
  <2>8. Waiting' = Waiting /\ ~Doing("release")
      BY <2>1, <2>7 DEF Waiting, Doing
  <2> QED
      BY <1>3, <2>1, <2>5, <2>6, <2>7, <2>8
<1>8. CASE DoFinish
  <2> DEFINE h == Head(agenda)
  <2>1. /\ h.op = "finish" /\ h.request \in Requests /\ h.result \in Results
        /\ Invoked(h.request) /\ ~Doing("release")
      BY <1>1, <1>8, FrameFields DEF DoFinish, Doing, Safe
  <2>2. CASE h.request \in Waiting
    <3>1. calls' = CallsWithout(h.request) /\ Go(Finished(h))
          /\ UNCHANGED <<started, disposed, status, shown, seen>>
        BY <1>8, <2>2 DEF DoFinish
    <3>2. /\ calls' \in Seq(Requests) /\ Len(calls') < Len(calls)
          /\ Elements(calls') \subseteq Waiting
        BY <2>2, <3>1, CallRemoved DEF IInv
    <3>3. \A r \in Waiting' : r \in Waiting
        BY <3>2 DEF Waiting, Elements
    <3>4. Len(calls) \in Nat /\ Len(calls') \in Nat /\ MaxConcurrent \in Nat
          /\ Len(calls) <= MaxConcurrent
        BY <3>2, RemoteToolAssumption DEF IInv, TypeInv, ClientType
    <3>5. ClientType'
        BY <3>1, <3>2, <3>4 DEF IInv, TypeInv, ClientType
    <3> DEFINE a == Host
               b == Republish
               c == Respond(h.request, h.result)
    <3>6. a \in Frames /\ b \in Frames /\ c \in Frames
        BY <2>1, FrameTypes DEF Republish
    <3>7. Finished(h) = <<a, b>> \o <<c>> \/ Finished(h) = <<a, b>> \o <<>>
        BY DEF Finished
    <3>8. a.op = "host" /\ b.op = "publish" /\ c.op = "respond" /\ c.request = h.request
        BY Ops DEF Republish
    <3> HIDE DEF a, b, c
    <3>9. /\ <<a, b>> \in Seq(Frames) /\ Elements(<<a, b>>) = {a, b}
          /\ <<c>> \in Seq(Frames) /\ Elements(<<c>>) = {c}
          /\ <<>> \in Seq(Frames) /\ Elements(<<>>) = {}
        BY <3>6, ShortSequences
    <3> DEFINE f == <<a, b>>
               t == <<c>>
               e == <<>>
    <3>10. Finished(h) \in Seq(Frames) /\ Elements(Finished(h)) \subseteq {a, b, c}
      <4>1. /\ f \in Seq(Frames) /\ t \in Seq(Frames) /\ e \in Seq(Frames)
            /\ Elements(f) = {a, b} /\ Elements(t) = {c} /\ Elements(e) = {}
          BY <3>9
      <4>2. Finished(h) = f \o t \/ Finished(h) = f \o e
          BY <3>7
      <4> HIDE DEF f, t, e
      <4>3. /\ f \o t \in Seq(Frames) /\ Elements(f \o t) = {a, b} \cup {c}
            /\ f \o e \in Seq(Frames) /\ Elements(f \o e) = {a, b} \cup {}
          BY <4>1, Concatenation
      <4> QED
          BY <4>2, <4>3
    <3>11. \A x \in Elements(Finished(h)) :
              /\ x.op \in {"finish", "respond"} => Invoked(x.request)
              /\ x.op = "forget" => disposed'
        BY <2>1, <3>8, <3>10
    <3> QED
        BY <1>3, <2>1, <3>1, <3>3, <3>5, <3>10, <3>11
  <2>3. CASE h.request \notin Waiting
    <3>1. Go(<<>>) /\ UNCHANGED clientVars
        BY <1>8, <2>3 DEF DoFinish, clientVars
    <3> QED
        BY <1>4, <2>1, <3>1, LinkFrames
  <2> QED
      BY <2>2, <2>3
<1>9. CASE DoRelease
  <2>1. UNCHANGED <<started, status, shown, seen, calls>> /\ Waiting' = Waiting
      BY <1>9 DEF DoRelease, Waiting
  <2>2. CASE disposed
    <3>1. Go(<<>>) /\ disposed' = disposed
        BY <1>9, <2>2 DEF DoRelease
    <3>2. ClientType'
        BY <2>1, <3>1 DEF IInv, TypeInv, ClientType
    <3> QED
        BY <1>3, <2>1, <2>2, <3>1, <3>2, ShortSequences
  <2>3. CASE ~disposed
    <3>1. Go(Releasing) /\ disposed' = TRUE
        BY <1>9, <2>3 DEF DoRelease
    <3>2. ClientType'
        BY <2>1, <3>1 DEF IInv, TypeInv, ClientType
    <3> DEFINE a == AbortAll(TRUE)
               b == DisposeTransport
               c == Publish("disposed")
               d == Forget
    <3>3. a \in Frames /\ b \in Frames /\ c \in Frames /\ d \in Frames
        BY FrameTypes DEF Statuses
    <3>4. a.op = "abort" /\ b.op = "disposeTransport" /\ c.op = "publish" /\ d.op = "forget"
        BY Ops
    <3>5. Releasing = <<a, b, c, d>>
        BY DEF Releasing
    <3> HIDE DEF a, b, c, d
    <3>6. Releasing \in Seq(Frames) /\ Elements(Releasing) = {a, b, c, d}
        BY <3>3, <3>5, ShortSequences
    <3>7. \A x \in Elements(Releasing) :
              /\ x.op \in {"finish", "respond"} => Invoked(x.request)
              /\ x.op = "forget" => disposed'
        BY <3>1, <3>4, <3>6
    <3> QED
        BY <1>3, <2>1, <3>1, <3>2, <3>6, <3>7
  <2> QED
      BY <2>2, <2>3
<1>10. CASE DoForget
  <2>1. /\ seen' = {} /\ Go(<<>>) /\ ~Doing("release")
        /\ UNCHANGED <<started, disposed, status, shown, calls>> /\ Waiting' = Waiting
      BY <1>10 DEF DoForget, Doing, Waiting
  <2>2. disposed'
      BY <1>1, <1>10, <2>1 DEF DoForget, Doing, Safe
  <2>3. IsFiniteSet(seen') /\ Cardinality(seen') = 0
      BY <2>1, FS_EmptySet
  <2>4. ClientType'
      BY <2>1, <2>3, RemoteToolAssumption DEF IInv, TypeInv, ClientType
  <2> QED
      BY <1>3, <2>1, <2>2, <2>4, ShortSequences
<1>11. CASE DoObserve
  <2> DEFINE s == Head(agenda).status
             a == Publish(s)
             b == AbortAll(FALSE)
  <2>1. s \in Statuses /\ ~Doing("release") /\ UNCHANGED clientVars
      BY <1>1, <1>11, FrameFields DEF DoObserve, Doing
  <2>2. Go(<<>>) \/ Go(<<a>>) \/ Go(<<a, b>>)
      BY <1>11 DEF DoObserve, Observed
  <2>3. a \in Frames /\ b \in Frames /\ Harmless(a) /\ Harmless(b)
      BY <2>1, FrameTypes, HarmlessFrames
  <2> HIDE DEF s, a, b
  <2>4. /\ <<a>> \in Seq(Frames) /\ Elements(<<a>>) = {a}
        /\ <<a, b>> \in Seq(Frames) /\ Elements(<<a, b>>) = {a, b}
      BY <2>3, ShortSequences
  <2>5. CASE Go(<<>>)
      BY <1>4, <2>1, <2>5, LinkFrames
  <2>6. CASE Go(<<a>>)
      BY <1>4, <2>1, <2>3, <2>4, <2>6
  <2>7. CASE Go(<<a, b>>)
      BY <1>4, <2>1, <2>3, <2>4, <2>7
  <2> QED
      BY <2>2, <2>5, <2>6, <2>7
<1> QED
    BY <1>5, <1>6, <1>7, <1>8, <1>9, <1>10, <1>11

\* A response is only sent by an invocation that has not responded.
LEMMA RespondKeeps ==
    ASSUME IInv, DoRespond
    PROVE  IInv'
<1> DEFINE r == Head(agenda).request
           result == Head(agenda).result
<1>1. /\ ~Quiet /\ Head(agenda).op = "respond" /\ Go(<<>>)
      /\ UNCHANGED <<clientVars, linkVars, executions>>
    BY DEF DoRespond, Doing
<1>2. r \in Requests /\ result \in Results /\ Invoked(r)
    BY <1>1, HeadKnown, FrameFields DEF Safe
<1>3. ClientType' /\ LinkType'
    BY <1>1, UnchangedTypes DEF IInv
<1>4. /\ agenda' \in Seq(Frames) /\ Elements(agenda') = Elements(Tail(agenda))
      /\ Elements(agenda) = {Head(agenda)} \cup Elements(Tail(agenda))
  <2> DEFINE e == <<>>
  <2>1. e \in Seq(Frames) /\ Elements(e) = {} /\ Go(e)
      BY <1>1, ShortSequences
  <2> HIDE DEF e
  <2> QED
      BY <1>1, <2>1, GoneAgenda DEF IInv
<1>5. /\ CallType' /\ CountsAgree' /\ AtMostOnce'
      /\ \A q \in Requests : call'[q].stage = call[q].stage
  <2>1. CASE UNCHANGED <<call, answers>>
      BY <1>1, <2>1 DEF IInv, TypeInv, History, CallType, CountsAgree, AtMostOnce, Invoked
  <2>2. CASE /\ ~call[r].sent
             /\ call' = [call EXCEPT ![r].sent = TRUE]
             /\ answers' = [answers EXCEPT ![r] = Append(@, result)]
    <3>1. call' \in [Requests -> CallRecord]
        BY <1>2, <2>2 DEF IInv, TypeInv, CallType, CallRecord
    <3>2. answers[r] = <<>> /\ answers'[r] = Append(answers[r], result)
        BY <1>2, <2>2 DEF IInv, TypeInv, History, CallType, CountsAgree
    <3>3. answers'[r] = <<result>> /\ Len(answers'[r]) = 1 /\ answers'[r] \in Seq(Results)
        BY <1>2, <3>2
    <3>4. \A q \in Requests \ {r} : call'[q] = call[q] /\ answers'[q] = answers[q]
        BY <2>2 DEF IInv, TypeInv, CallType
    <3>5. call'[r].stage = call[r].stage /\ call'[r].sent = TRUE
        BY <1>2, <2>2 DEF IInv, TypeInv, CallType
    <3>6. answers' \in [Requests -> Seq(Results)]
        BY <2>2, <3>3, <3>4 DEF IInv, TypeInv, CallType
    <3>7. CallType' /\ executions' = executions
        BY <1>1, <3>1, <3>6 DEF IInv, TypeInv, CallType
    <3>8. CountsAgree'
        BY <1>2, <3>4, <3>5, <3>7 DEF IInv, History, CountsAgree, Invoked
    <3>9. AtMostOnce'
      <4> SUFFICES ASSUME NEW q \in Requests
                   PROVE  executions'[q] <= 1 /\ Len(answers'[q]) <= 1
          BY DEF AtMostOnce
      <4>1. executions[q] <= 1 /\ Len(answers[q]) <= 1
          BY DEF IInv, History, AtMostOnce
      <4>2. CASE q = r
        <5>1. Len(answers'[q]) = 1
            BY <3>3, <4>2
        <5> QED
            BY <3>7, <4>1, <5>1
      <4>3. CASE q # r
          BY <3>4, <3>7, <4>1, <4>3
      <4> QED
          BY <4>2, <4>3
    <3>10. \A q \in Requests : call'[q].stage = call[q].stage
        BY <3>4, <3>5
    <3> QED
        BY <3>7, <3>8, <3>9, <3>10
  <2> QED
      BY <2>1, <2>2 DEF DoRespond
<1>6. seen' = seen /\ disposed' = disposed /\ Waiting' = Waiting
    BY <1>1 DEF clientVars, Waiting
<1>7. \A q \in Requests : Invoked(q)' <=> Invoked(q)
    BY <1>5 DEF Invoked
<1>8. AgendaSafe'
  <2> SUFFICES ASSUME NEW x \in Elements(Tail(agenda)) PROVE Safe(x)'
      BY <1>4 DEF AgendaSafe
  <2>1. Safe(x) /\ x \in Frames
    <3>1. Elements(agenda) \subseteq Frames
        BY DEF IInv, TypeInv, AgendaType, Elements
    <3> QED
        BY <1>4, <3>1 DEF IInv, History, AgendaSafe
  <2>2. x.op \in {"finish", "respond"} => x.request \in Requests
      BY <2>1, FrameFields
  <2> QED
      BY <1>5, <1>6, <2>1, <2>2 DEF Safe, Invoked
<1>9. WaitingInvoked'
  <2>1. Waiting \subseteq Requests
      BY DEF IInv, TypeInv, ClientType, Waiting
  <2> QED
      BY <1>5, <1>6, <2>1 DEF IInv, History, WaitingInvoked, Invoked
<1>10. HistoryRemembered'
    BY <1>1, <1>4, <1>6, <1>7 DEF IInv, History, HistoryRemembered
<1> QED
    BY <1>3, <1>4, <1>5, <1>8, <1>9, <1>10 DEF IInv, TypeInv, AgendaType, History

LEMMA TurnKeeps ==
    ASSUME IInv, Turn
    PROVE  IInv'
    BY LinkTurns, ClientTurns, RespondKeeps DEF Turn

-----------------------------------------------------------------------------
(* The events of the socket. *)

\* A step that leaves what is left to do, the client and its calls alone.
LEMMA LinkKeeps ==
    ASSUME IInv, UNCHANGED <<clientVars, callVars, agenda>>, LinkType'
    PROVE  IInv'
<1>1. AgendaType' /\ ClientType' /\ CallType'
    BY UnchangedTypes DEF IInv
<1>2. \A x : Safe(x)' <=> Safe(x)
    BY DEF Safe, Invoked, clientVars, callVars
<1>3. AgendaSafe'
    BY <1>2 DEF IInv, History, AgendaSafe, Elements
<1>4. WaitingInvoked' /\ CountsAgree' /\ AtMostOnce'
    BY DEF IInv, History, WaitingInvoked, Waiting, CountsAgree, AtMostOnce, Invoked,
           clientVars, callVars
<1>5. HistoryRemembered'
    BY DEF IInv, History, HistoryRemembered, Invoked, Elements, clientVars, callVars
<1> QED
    BY <1>1, <1>3, <1>4, <1>5 DEF IInv, TypeInv, History

\* #fail and #connectionLost.
LEMMA FailKeeps ==
    ASSUME IInv, NEW error, Fail(error), UNCHANGED <<clientVars, callVars, reported>>,
           auths' \subseteq Nat, acks' \subseteq Nat
    PROVE  IInv'
<1>1. CASE link.disposed \/ link.failed
  <2>1. UNCHANGED <<link, socket, invalidations, agenda>>
      BY <1>1 DEF Fail
  <2>2. LinkType'
      BY <2>1 DEF IInv, TypeInv, LinkType
  <2> QED
      BY <2>1, <2>2, LinkKeeps
<1>2. CASE ~(link.disposed \/ link.failed)
  <2>1. /\ link' = [link EXCEPT !.failed = TRUE, !.ready = FALSE,
                                !.generation = link.generation + 1, !.deadline = None]
        /\ socket' = "off" /\ invalidations' \subseteq invalidations \cup {link.generation + 1}
        /\ Begin(<<Observe("error")>>)
      BY <1>2 DEF Fail
  <2>2. link' \in LinkRecord /\ link.generation + 1 \in Nat
      BY <2>1, LinkUpdates DEF IInv, TypeInv
  <2>3. LinkType'
      BY <2>1, <2>2 DEF IInv, TypeInv, LinkType
  <2>4. "error" \in Statuses
      BY DEF Statuses
  <2> QED
      BY <2>1, <2>3, <2>4, LinkFrames, LinkBeginKeeps
<1> QED
    BY <1>1, <1>2

LEMMA LossKeeps ==
    ASSUME IInv, NEW s \in {"off", "opening"}, ConnectionLost(s),
           UNCHANGED <<clientVars, callVars, auths, acks, reported>>
    PROVE  IInv'
<1>1. socket' = s /\ UNCHANGED invalidations
    BY DEF ConnectionLost
<1>2. CASE link.disposed \/ link.failed
  <2>1. UNCHANGED <<link, agenda>>
      BY <1>2 DEF ConnectionLost
  <2>2. LinkType'
      BY <1>1, <2>1 DEF IInv, TypeInv, LinkType
  <2> QED
      BY <2>1, <2>2, LinkKeeps
<1>3. CASE ~(link.disposed \/ link.failed)
  <2>1. /\ link' = [link EXCEPT !.ready = FALSE, !.generation = @ + 1, !.deadline = None]
        /\ Begin(<<Observe("disconnected")>>)
      BY <1>3 DEF ConnectionLost
  <2>2. link' \in LinkRecord
      BY <2>1, LinkUpdates DEF IInv, TypeInv
  <2>3. LinkType'
      BY <1>1, <2>2 DEF IInv, TypeInv, LinkType
  <2>4. "disconnected" \in Statuses
      BY DEF Statuses
  <2> QED
      BY <2>1, <2>3, <2>4, LinkFrames, LinkBeginKeeps
<1> QED
    BY <1>2, <1>3

LEMMA NetworkKeeps ==
    ASSUME IInv, Network
    PROVE  IInv'
<1>1. CASE GetAuth
  <2>1. link' = Armed(link) /\ socket' = "authorizing" /\ auths' = auths \cup {link.generation}
        /\ UNCHANGED <<clientVars, callVars, acks, invalidations, reported, agenda>>
      BY <1>1 DEF GetAuth
  <2>2. link' \in LinkRecord /\ link.generation \in Nat
      BY <2>1, LinkUpdates DEF IInv, TypeInv
  <2>3. LinkType'
      BY <2>1, <2>2 DEF IInv, TypeInv, LinkType
  <2> QED
      BY <2>1, <2>3, LinkKeeps
<1>2. CASE Connected
  <2>1. socket' = "up" /\ Begin(<<Register>>)
        /\ UNCHANGED <<clientVars, callVars, link, auths, acks, invalidations, reported>>
      BY <1>2 DEF Connected
  <2>2. LinkType'
      BY <2>1 DEF IInv, TypeInv, LinkType
  <2> QED
      BY <2>1, <2>2, LinkFrames, LinkBeginKeeps
<1>3. CASE ConnectError
  <2>1. UNCHANGED <<clientVars, callVars, auths, acks, reported>>
      BY <1>3 DEF ConnectError
  <2>2. auths' \subseteq Nat /\ acks' \subseteq Nat
      BY <2>1 DEF IInv, TypeInv, LinkType
  <2> QED
      BY <1>3, <2>1, <2>2, FailKeeps, LossKeeps DEF ConnectError
<1>4. CASE Disconnected
    BY <1>4, LossKeeps DEF Disconnected
<1>5. CASE DeadlineFires
  <2>1. UNCHANGED <<clientVars, callVars, auths, acks, reported>>
      BY <1>5 DEF DeadlineFires
  <2>2. auths' \subseteq Nat /\ acks' \subseteq Nat
      BY <2>1 DEF IInv, TypeInv, LinkType
  <2>3. CASE Fail("timeout")
      BY <2>1, <2>2, <2>3, FailKeeps
  <2>4. CASE /\ link' = [link EXCEPT !.deadline = None]
             /\ UNCHANGED <<socket, invalidations, agenda>>
    <3>1. link' \in LinkRecord
        BY <2>4, LinkUpdates DEF IInv, TypeInv
    <3>2. LinkType'
        BY <2>1, <2>4, <3>1 DEF IInv, TypeInv, LinkType
    <3> QED
        BY <2>1, <2>4, <3>2, LinkKeeps
  <2> QED
      BY <1>5, <2>3, <2>4 DEF DeadlineFires
<1>6. ASSUME NEW g \in auths, AuthReturns(g) PROVE IInv'
  <2>1. /\ auths' = auths \ {g}
        /\ UNCHANGED <<clientVars, callVars, acks, reported>>
      BY <1>6 DEF AuthReturns
  <2>2. auths' \subseteq Nat /\ acks' \subseteq Nat
      BY <2>1 DEF IInv, TypeInv, LinkType
  <2>3. ASSUME NEW error, Fail(error) PROVE IInv'
      BY <2>1, <2>2, <2>3, FailKeeps
  <2>4. CASE socket' \in {socket, "joining"} /\ UNCHANGED <<link, invalidations, agenda>>
    <3>1. LinkType'
        BY <2>1, <2>2, <2>4 DEF IInv, TypeInv, LinkType
    <3> QED
        BY <2>1, <2>4, <3>1, LinkKeeps
  <2> QED
      BY <1>6, <2>3, <2>4 DEF AuthReturns
<1>7. ASSUME NEW g \in acks, Acknowledged(g) PROVE IInv'
  <2>1. /\ acks' = acks \ {g}
        /\ UNCHANGED <<clientVars, callVars, auths, reported>>
      BY <1>7 DEF Acknowledged
  <2>2. auths' \subseteq Nat /\ acks' \subseteq Nat
      BY <2>1 DEF IInv, TypeInv, LinkType
  <2>3. CASE Fail("registration-rejected")
      BY <2>1, <2>2, <2>3, FailKeeps
  <2>4. CASE UNCHANGED <<link, socket, invalidations, agenda>>
    <3>1. LinkType'
        BY <2>1, <2>2, <2>4 DEF IInv, TypeInv, LinkType
    <3> QED
        BY <2>1, <2>4, <3>1, LinkKeeps
  <2>5. CASE /\ link' = [link EXCEPT !.ready = TRUE, !.deadline = None]
             /\ Begin(<<Observe("ready")>>)
             /\ UNCHANGED <<socket, invalidations>>
    <3>1. link' \in LinkRecord
        BY <2>5, LinkUpdates DEF IInv, TypeInv
    <3>2. LinkType'
        BY <2>1, <2>2, <2>5, <3>1 DEF IInv, TypeInv, LinkType
    <3>3. "ready" \in Statuses
        BY DEF Statuses
    <3> QED
        BY <2>1, <2>5, <3>2, <3>3, LinkFrames, LinkBeginKeeps
  <2> QED
      BY <1>7, <2>3, <2>4, <2>5 DEF Acknowledged
<1>8. ASSUME NEW g \in invalidations, Invalidate(g) PROVE IInv'
  <2>1. /\ invalidations' = invalidations \ {g}
        /\ reported' \subseteq reported \cup {g}
        /\ UNCHANGED <<clientVars, callVars, link, auths, acks, socket, agenda>>
      BY <1>8 DEF Invalidate
  <2>2. LinkType'
      BY <2>1 DEF IInv, TypeInv, LinkType
  <2> QED
      BY <2>1, <2>2, LinkKeeps
<1> QED
    BY <1>1, <1>2, <1>3, <1>4, <1>5, <1>6, <1>7, <1>8 DEF Network

-----------------------------------------------------------------------------
(* Invocations. *)

\* An invocation that is accepted or refused for the first time.
LEMMA InvocationKeeps ==
    ASSUME IInv, Quiet, ~disposed, NEW r \in Requests, r \notin seen,
           NEW stage \in {"queued", "over"}, call' = [call EXCEPT ![r] = NewCall(stage)],
           UNCHANGED <<disposed, executions, answers, linkVars>>,
           NEW f \in Seq(Frames), Begin(f),
           \A x \in Elements(f) : /\ x.op \notin {"finish", "forget"}
                                  /\ x.op = "respond" => x.request = r,
           \/ seen' = seen \cup {r}
           \/ seen' = seen /\ \E x \in Elements(f) : x.op = "release",
           \A q \in Waiting' : q \in Waiting \cup {r},
           ClientType'
    PROVE  IInv'
<1>1. agenda' \in Seq(Frames) /\ Elements(agenda') = Elements(f) /\ Elements(agenda) = {}
  <2>1. Elements(agenda) = {}
      BY ShortSequences DEF Quiet
  <2> QED
      BY <2>1, BegunAgenda DEF IInv
<1>2. ~Invoked(r) /\ executions[r] = 0 /\ answers[r] = <<>>
    BY <1>1 DEF IInv, History, HistoryRemembered, CountsAgree
<1>3. NewCall(stage) \in CallRecord /\ NewCall(stage).stage = stage
    BY LinkUpdates DEF IInv, TypeInv, NewCall, CallRecord, Stages
<1>4. /\ call' \in [Requests -> CallRecord]
      /\ call'[r].stage = stage
      /\ \A q \in Requests \ {r} : call'[q] = call[q]
    BY <1>3 DEF IInv, TypeInv, CallType
<1>5. CallType' /\ LinkType'
  <2>1. LinkType'
      BY UnchangedTypes DEF IInv
  <2> QED
      BY <1>4, <2>1 DEF IInv, TypeInv, CallType
<1>6. Invoked(r)' /\ \A q \in Requests \ {r} : Invoked(q)' <=> Invoked(q)
    BY <1>4 DEF Invoked
<1>7. AgendaSafe'
    BY <1>1, <1>4 DEF AgendaSafe, Safe, Invoked
<1>8. WaitingInvoked'
  <2> SUFFICES ASSUME NEW q \in Waiting' PROVE Invoked(q)'
      BY DEF WaitingInvoked
  <2>1. CASE q = r
      BY <1>4, <2>1 DEF Invoked
  <2>2. CASE q # r
    <3>1. q \in Waiting
        BY <2>2
    <3>2. Waiting \subseteq Requests
        BY DEF IInv, TypeInv, ClientType, Waiting
    <3> QED
        BY <1>4, <2>2, <3>1, <3>2 DEF IInv, History, WaitingInvoked, Invoked
  <2> QED
      BY <2>1, <2>2
<1>9. HistoryRemembered'
    BY <1>1, <1>6 DEF IInv, History, HistoryRemembered
<1>10. CountsAgree'
    BY <1>2, <1>4 DEF IInv, History, CountsAgree, Invoked
<1>11. AtMostOnce'
    BY DEF IInv, History, AtMostOnce
<1> QED
    BY <1>1, <1>5, <1>7, <1>8, <1>9, <1>10, <1>11 DEF IInv, TypeInv, AgendaType, History

LEMMA InvokeKeeps ==
    ASSUME IInv, NEW r \in Requests, NEW exists \in BOOLEAN, Invoke(r, exists)
    PROVE  IInv'
<1>1. /\ Quiet /\ ~disposed /\ r \notin seen
      /\ UNCHANGED <<started, disposed, status, shown, executions, answers, linkVars>>
    BY DEF Invoke, Delivered, Known
<1> DEFINE a == Publish("error")
           b == AbortAll(TRUE)
           c == Respond(r, "error")
           d == Release
           e == Republish
<1>2. a \in Frames /\ b \in Frames /\ c \in Frames /\ d \in Frames /\ e \in Frames
    BY FrameTypes DEF Statuses, Results, Republish
<1>3. /\ a.op = "publish" /\ b.op = "abort" /\ d.op = "release" /\ e.op = "publish"
      /\ c.op = "respond" /\ c.request = r
    BY DEF Publish, AbortAll, Release, Republish, Respond
<1>4. \/ /\ call' = [call EXCEPT ![r] = NewCall("over")]
         /\ Begin(<<a, b, c, d>>)
         /\ UNCHANGED <<seen, calls>>
      \/ /\ Cardinality(seen) < MaxRemembered /\ seen' = seen \cup {r}
         /\ call' = [call EXCEPT ![r] = NewCall("over")]
         /\ Begin(<<e, c>>)
         /\ UNCHANGED calls
      \/ /\ Cardinality(seen) < MaxRemembered /\ seen' = seen \cup {r}
         /\ Len(calls) < MaxConcurrent
         /\ call' = [call EXCEPT ![r] = NewCall("queued")]
         /\ calls' = Append(calls, r)
         /\ Begin(<<e>>)
  <2>1. Len(calls) \in Nat /\ MaxConcurrent \in Nat
      BY RemoteToolAssumption DEF IInv, TypeInv, ClientType
  <2> QED
      BY <2>1 DEF Invoke, Remember, Refusing, Crowded
<1> HIDE DEF a, b, c, d, e
<1>5. Cardinality(seen) < MaxRemembered =>
          /\ IsFiniteSet(seen \cup {r}) /\ Cardinality(seen \cup {r}) <= MaxRemembered
          /\ seen \cup {r} \subseteq Requests
  <2>1. IsFiniteSet(seen) /\ Cardinality(seen) \in Nat /\ seen \subseteq Requests
      BY FS_CardinalityType DEF IInv, TypeInv, ClientType
  <2>2. IsFiniteSet(seen \cup {r}) /\ Cardinality(seen \cup {r}) = Cardinality(seen) + 1
      BY <1>1, <2>1, FS_AddElement
  <2>3. MaxRemembered \in Nat
      BY RemoteToolAssumption
  <2> QED
      BY <2>1, <2>2, <2>3
<1>6. CASE /\ call' = [call EXCEPT ![r] = NewCall("over")]
           /\ Begin(<<a, b, c, d>>)
           /\ UNCHANGED <<seen, calls>>
  <2> DEFINE f == <<a, b, c, d>>
  <2>1. f \in Seq(Frames) /\ Elements(f) = {a, b, c, d}
      BY <1>2, ShortSequences
  <2>2. ClientType'
      BY <1>1, <1>6 DEF IInv, TypeInv, ClientType
  <2>3. Waiting' = Waiting /\ Begin(f)
      BY <1>6 DEF Waiting
  <2> HIDE DEF f
  <2> QED
      BY <1>1, <1>3, <1>6, <2>1, <2>2, <2>3, InvocationKeeps
<1>7. CASE /\ Cardinality(seen) < MaxRemembered /\ seen' = seen \cup {r}
           /\ call' = [call EXCEPT ![r] = NewCall("over")]
           /\ Begin(<<e, c>>)
           /\ UNCHANGED calls
  <2> DEFINE f == <<e, c>>
  <2>1. f \in Seq(Frames) /\ Elements(f) = {e, c}
      BY <1>2, ShortSequences
  <2>2. ClientType'
      BY <1>1, <1>5, <1>7 DEF IInv, TypeInv, ClientType
  <2>3. Waiting' = Waiting /\ Begin(f)
      BY <1>7 DEF Waiting
  <2> HIDE DEF f
  <2> QED
      BY <1>1, <1>3, <1>7, <2>1, <2>2, <2>3, InvocationKeeps
<1>8. CASE /\ Cardinality(seen) < MaxRemembered /\ seen' = seen \cup {r}
           /\ Len(calls) < MaxConcurrent
           /\ call' = [call EXCEPT ![r] = NewCall("queued")]
           /\ calls' = Append(calls, r)
           /\ Begin(<<e>>)
  <2> DEFINE f == <<e>>
  <2>1. f \in Seq(Frames) /\ Elements(f) = {e} /\ Begin(f)
      BY <1>2, <1>8, ShortSequences
  <2>2. /\ calls' \in Seq(Requests) /\ Len(calls') = Len(calls) + 1
        /\ \A i \in 1 .. Len(calls') : calls'[i] = IF i <= Len(calls) THEN calls[i] ELSE r
        /\ DOMAIN calls' = 1 .. Len(calls') /\ Len(calls) \in Nat
      BY <1>8 DEF IInv, TypeInv, ClientType
  <2>3. MaxConcurrent \in Nat
      BY RemoteToolAssumption
  <2>4. Len(calls') <= MaxConcurrent
      BY <1>8, <2>2, <2>3
  <2>5. ClientType'
      BY <1>1, <1>5, <1>8, <2>2, <2>4 DEF IInv, TypeInv, ClientType
  <2>6. \A q \in Waiting' : q \in Waiting \cup {r}
    <3>1. DOMAIN calls = 1 .. Len(calls)
        BY DEF IInv, TypeInv, ClientType
    <3> QED
        BY <2>2, <3>1 DEF Waiting
  <2> HIDE DEF f
  <2> QED
      BY <1>1, <1>3, <1>8, <2>1, <2>5, <2>6, InvocationKeeps
<1> QED
    BY <1>4, <1>6, <1>7, <1>8

\* The handler of an invocation goes on.
LEMMA StageKeeps ==
    ASSUME IInv, NEW r \in Requests, Invoked(r),
           call' \in [Requests -> CallRecord],
           \A q \in Requests \ {r} : call'[q] = call[q] /\ executions'[q] = executions[q],
           call'[r].stage # "none", call'[r].sent = call[r].sent,
           executions' \in [Requests -> Nat], executions'[r] <= 1,
           call'[r].stage \in {"queued", "validating"} => executions'[r] = 0,
           UNCHANGED <<clientVars, answers, linkVars>>,
           NEW f \in Seq(Frames), Begin(f),
           \A x \in Elements(f) : x.op = "finish" /\ x.request = r
    PROVE  IInv'
<1>1. agenda' \in Seq(Frames) /\ Elements(agenda') = Elements(f) \cup Elements(agenda)
    BY BegunAgenda DEF IInv
<1>2. ClientType' /\ LinkType' /\ CallType'
  <2>1. ClientType' /\ LinkType'
      BY UnchangedTypes DEF IInv
  <2> QED
      BY <2>1 DEF IInv, TypeInv, CallType
<1>3. disposed' = disposed /\ seen' = seen /\ Waiting' = Waiting
    BY DEF clientVars, Waiting
<1>4. \A q \in Requests : Invoked(q)' <=> Invoked(q)
    BY DEF Invoked
<1>5. AgendaSafe'
  <2> SUFFICES ASSUME NEW x \in Elements(agenda') PROVE Safe(x)'
      BY DEF AgendaSafe
  <2>1. CASE x \in Elements(f)
      BY <2>1 DEF Safe, Invoked
  <2>2. CASE x \in Elements(agenda)
    <3>1. Safe(x) /\ x \in Frames
        BY <2>2 DEF IInv, TypeInv, AgendaType, History, AgendaSafe, Elements
    <3>2. x.op \in {"finish", "respond"} => x.request \in Requests
        BY <3>1, FrameFields
    <3> QED
        BY <1>3, <3>1, <3>2 DEF Safe, Invoked
  <2> QED
      BY <1>1, <2>1, <2>2
<1>6. WaitingInvoked'
  <2>1. Waiting \subseteq Requests
      BY DEF IInv, TypeInv, ClientType, Waiting
  <2> QED
      BY <1>3, <2>1 DEF IInv, History, WaitingInvoked, Invoked
<1>7. HistoryRemembered'
    BY <1>1, <1>3, <1>4 DEF IInv, History, HistoryRemembered
<1>8. CountsAgree'
    BY DEF IInv, History, CountsAgree, Invoked
<1>9. AtMostOnce'
  <2> SUFFICES ASSUME NEW q \in Requests PROVE executions'[q] <= 1 /\ Len(answers'[q]) <= 1
      BY DEF AtMostOnce
  <2>1. executions[q] <= 1 /\ Len(answers[q]) <= 1
      BY DEF IInv, History, AtMostOnce
  <2> QED
      BY <2>1
<1> QED
    BY <1>1, <1>2, <1>5, <1>6, <1>7, <1>8, <1>9 DEF IInv, TypeInv, AgendaType, History

\* The end of a call, or nothing, is what a step of a handler leaves to do.
LEMMA EndingFrames ==
    ASSUME NEW r \in Requests, NEW f,
           f = <<>> \/ \E result \in Results : f = <<Finish(r, result, TRUE)>>
    PROVE  f \in Seq(Frames) /\ \A x \in Elements(f) : x.op = "finish" /\ x.request = r
<1>1. CASE f = <<>>
    BY <1>1, ShortSequences
<1>2. ASSUME NEW result \in Results, f = <<Finish(r, result, TRUE)>>
      PROVE  f \in Seq(Frames) /\ \A x \in Elements(f) : x.op = "finish" /\ x.request = r
  <2> DEFINE a == Finish(r, result, TRUE)
  <2>1. a \in Frames
      BY FrameTypes
  <2>2. a.op = "finish" /\ a.request = r
      BY DEF Finish
  <2> HIDE DEF a
  <2>3. f \in Seq(Frames) /\ Elements(f) = {a}
      BY <1>2, <2>1, ShortSequences DEF a
  <2> QED
      BY <2>2, <2>3
<1> QED
    BY <1>1, <1>2

LEMMA AdvanceKeeps ==
    ASSUME IInv, NEW r \in Requests, Invoked(r), NEW stage \in {"validating", "executing", "over"},
           NEW frames, frames = <<>> \/ \E result \in Results : frames = <<Finish(r, result, TRUE)>>,
           Advance(r, stage, frames),
           executions' = [executions EXCEPT ![r] =
                             IF call'[r].stage = "executing" THEN @ + 1 ELSE @],
           stage # "over" => executions[r] = 0,
           UNCHANGED <<clientVars, answers, linkVars>>
    PROVE  IInv'
<1>1. PICK s \in {"validating", "executing", "over"},
           f \in {frames, <<>>, <<Finish(r, "error", TRUE)>>} :
          /\ s = "over" \/ executions[r] = 0
          /\ call' = [call EXCEPT ![r].stage = s]
          /\ f = <<>> \/ \E result \in Results : f = <<Finish(r, result, TRUE)>>
          /\ Begin(f)
  <2>1. "error" \in Results
      BY DEF Results
  <2>2. CASE r \in Waiting /\ ~call[r].due
    <3>1. call' = [call EXCEPT ![r].stage = stage] /\ Begin(frames)
        BY <2>2 DEF Advance
    <3> QED
        BY <3>1
  <2>3. CASE r \in Waiting /\ call[r].due
    <3>1. call' = [call EXCEPT ![r].stage = "over"] /\ Begin(<<Finish(r, "error", TRUE)>>)
        BY <2>3 DEF Advance
    <3> QED
        BY <2>1, <3>1
  <2>4. CASE r \notin Waiting
    <3>1. call' = [call EXCEPT ![r].stage = "over"] /\ Begin(<<>>)
        BY <2>4 DEF Advance
    <3> QED
        BY <3>1
  <2> QED
      BY <2>2, <2>3, <2>4
<1>2. s \in Stages
    BY DEF Stages
<1>3. /\ call \in [Requests -> CallRecord] /\ executions \in [Requests -> Nat]
      /\ executions[r] <= 1
    BY DEF IInv, TypeInv, History, CallType, AtMostOnce
<1>4. call[r] \in CallRecord /\ [call[r] EXCEPT !.stage = s] \in CallRecord
    BY <1>2, <1>3 DEF CallRecord
<1>5. /\ call' \in [Requests -> CallRecord]
      /\ call'[r].stage = s /\ call'[r].sent = call[r].sent
      /\ \A q \in Requests \ {r} : call'[q] = call[q]
  <2>1. call' = [call EXCEPT ![r] = [call[r] EXCEPT !.stage = s]]
      BY <1>1
  <2>2. call' \in [Requests -> CallRecord] /\ call'[r] = [call[r] EXCEPT !.stage = s]
      BY <1>3, <1>4, <2>1
  <2> QED
      BY <1>3, <1>4, <2>1, <2>2 DEF CallRecord
<1>6. /\ executions' \in [Requests -> Nat] /\ executions'[r] <= 1
      /\ s = "validating" => executions'[r] = 0
      /\ \A q \in Requests \ {r} : executions'[q] = executions[q]
  <2>1. executions' = [executions EXCEPT ![r] = IF s = "executing" THEN @ + 1 ELSE @]
      BY <1>5
  <2> QED
      BY <1>1, <1>3, <2>1
<1>7. f \in Seq(Frames) /\ \A x \in Elements(f) : x.op = "finish" /\ x.request = r
    BY <1>1, EndingFrames
<1> QED
    BY <1>1, <1>5, <1>6, <1>7, StageKeeps

LEMMA HandlerKeeps ==
    ASSUME IInv, NEW r \in Requests, Handler(r)
    PROVE  IInv'
<1>1. ASSUME NEW exists \in BOOLEAN, Invoke(r, exists) PROVE IInv'
    BY <1>1, InvokeKeeps
<1>2. call \in [Requests -> CallRecord] /\ executions \in [Requests -> Nat]
    BY DEF IInv, TypeInv, CallType
<1>3. CASE DeadlinePasses(r)
  <2>1. /\ r \in Waiting /\ call' = [call EXCEPT ![r].due = TRUE]
        /\ UNCHANGED <<clientVars, executions, answers, linkVars, agenda>>
      BY <1>3 DEF DeadlinePasses
  <2>2. Invoked(r)
      BY <2>1 DEF IInv, History, WaitingInvoked
  <2>3. call' \in [Requests -> CallRecord]
      BY <1>2, <2>1 DEF CallRecord
  <2>4. /\ call'[r].stage = call[r].stage /\ call'[r].sent = call[r].sent
        /\ \A q \in Requests \ {r} : call'[q] = call[q] /\ executions'[q] = executions[q]
      BY <1>2, <2>1 DEF CallRecord
  <2>5. call'[r].stage # "none"
      BY <2>2, <2>4 DEF Invoked
  <2>6. /\ executions' \in [Requests -> Nat] /\ executions'[r] <= 1
        /\ call'[r].stage \in {"queued", "validating"} => executions'[r] = 0
      BY <1>2, <2>1, <2>4 DEF IInv, History, CountsAgree, AtMostOnce
  <2> DEFINE f == <<>>
  <2>7. f \in Seq(Frames) /\ Elements(f) = {} /\ Begin(f)
      BY <2>1, ShortSequences DEF Begin, IInv, TypeInv, AgendaType
  <2> HIDE DEF f
  <2> QED
      BY <2>1, <2>2, <2>3, <2>4, <2>5, <2>6, <2>7, StageKeeps
<1>4. CASE TimerFires(r)
  <2> DEFINE f == <<Finish(r, "error", TRUE)>>
  <2>1. /\ r \in Waiting /\ Begin(f)
        /\ UNCHANGED <<clientVars, callVars, linkVars>>
      BY <1>4 DEF TimerFires
  <2>2. Invoked(r)
      BY <2>1 DEF IInv, History, WaitingInvoked
  <2>3. f \in Seq(Frames) /\ \A x \in Elements(f) : x.op = "finish" /\ x.request = r
    <3>1. "error" \in Results
        BY DEF Results
    <3> QED
        BY <3>1, EndingFrames
  <2> HIDE DEF f
  <2>4. \A x \in Elements(f) : Safe(x)
      BY <2>2, <2>3 DEF Safe, Invoked
  <2>5. UNCHANGED <<callVars, seen, calls, disposed>>
      BY <2>1 DEF clientVars
  <2>6. AgendaType' /\ History'
      BY <2>1, <2>3, <2>4, <2>5, BeginKeeps
  <2> QED
      BY <2>1, <2>6, UnchangedTypes DEF IInv, TypeInv
<1>5. CASE Validate(r)
  <2>1. /\ call[r].stage = "queued" /\ Advance(r, "validating", <<>>)
        /\ UNCHANGED <<clientVars, executions, answers, linkVars>>
      BY <1>5 DEF Validate
  <2>2. Invoked(r) /\ executions[r] = 0
      BY <2>1 DEF IInv, History, CountsAgree, Invoked
  <2>3. call'[r].stage \in {"validating", "over"}
      BY <1>2, <2>1 DEF Advance, CallRecord
  <2>4. executions' = [executions EXCEPT ![r] =
                          IF call'[r].stage = "executing" THEN @ + 1 ELSE @]
      BY <1>2, <2>1, <2>3
  <2> QED
      BY <2>1, <2>2, <2>4, AdvanceKeeps
<1>6. CASE Validated(r)
  <2>1. /\ call[r].stage = "validating"
        /\ executions' = [executions EXCEPT ![r] =
                             IF call'[r].stage = "executing" THEN @ + 1 ELSE @]
        /\ UNCHANGED <<clientVars, answers, linkVars>>
      BY <1>6 DEF Validated
  <2>2. Invoked(r) /\ executions[r] = 0 /\ "error" \in Results
      BY <2>1 DEF IInv, History, CountsAgree, Invoked, Results
  <2>3. CASE Advance(r, "executing", <<>>)
      BY <2>1, <2>2, <2>3, AdvanceKeeps
  <2>4. CASE Advance(r, "over", <<Finish(r, "error", TRUE)>>)
      BY <2>1, <2>2, <2>4, AdvanceKeeps
  <2> QED
      BY <1>6, <2>3, <2>4 DEF Validated
<1>7. CASE Executed(r)
  <2>1. PICK result \in Results : Advance(r, "over", <<Finish(r, result, TRUE)>>)
      BY <1>7 DEF Executed
  <2>2. call[r].stage = "executing" /\ UNCHANGED <<clientVars, executions, answers, linkVars>>
      BY <1>7 DEF Executed
  <2>3. Invoked(r)
      BY <2>2 DEF Invoked
  <2>4. call'[r].stage = "over"
      BY <1>2, <2>1 DEF Advance, CallRecord
  <2>5. executions' = [executions EXCEPT ![r] =
                          IF call'[r].stage = "executing" THEN @ + 1 ELSE @]
      BY <1>2, <2>2, <2>4
  <2> QED
      BY <2>1, <2>2, <2>3, <2>5, AdvanceKeeps
<1> QED
    BY <1>1, <1>3, <1>4, <1>5, <1>6, <1>7 DEF Handler

-----------------------------------------------------------------------------
(* The theorems. *)

LEMMA InitHistory == Init => History
<1> SUFFICES ASSUME Init PROVE History
    OBVIOUS
<1>1. Elements(agenda) = {} /\ Waiting = {}
    BY DEF Init, Elements, Waiting
<1>2. \A r \in Requests : ~Invoked(r) /\ executions[r] = 0 /\ answers[r] = <<>>
    BY DEF Init, Invoked
<1>3. AgendaSafe /\ WaitingInvoked /\ HistoryRemembered
    BY <1>1, <1>2 DEF AgendaSafe, WaitingInvoked, HistoryRemembered
<1>4. CountsAgree
  <2>1. \A r \in Requests : call[r].stage = "none"
      BY DEF Init
  <2> QED
      BY <1>2, <2>1 DEF CountsAgree
<1>5. AtMostOnce
    BY <1>2 DEF AtMostOnce
<1> QED
    BY <1>3, <1>4, <1>5 DEF History

LEMMA StutterKeeps ==
    ASSUME IInv, UNCHANGED vars
    PROVE  IInv'
<1>1. UNCHANGED <<clientVars, callVars, linkVars, agenda>>
    BY DEF vars
<1>2. LinkType'
    BY <1>1, UnchangedTypes DEF IInv
<1> QED
    BY <1>1, <1>2, LinkKeeps

\* The invariant that carries both theorems: what is left to do in a turn concerns
\* invoked requests, and invoked requests are remembered until the client ends.
THEOREM Invariance == Spec => []IInv
<1>1. Init => IInv
    BY InitType, InitHistory DEF IInv
<1>2. IInv /\ [Next]_vars => IInv'
    BY HostCallsKeep, TurnKeeps, NetworkKeeps, HandlerKeeps, StutterKeeps DEF Next
<1> QED
    BY <1>1, <1>2, PTL DEF Spec

\* The fields of the client, its calls and the transport keep their types: not
\* more calls run than maxConcurrentCalls and not more requestIds are remembered
\* than maxRememberedCalls, however handlers, listeners and events interleave.
THEOREM TypeCorrect == Spec => []TypeOK
<1>1. IInv => TypeOK
    BY DEF IInv, TypeInv, ClientType, CallType, CallRecord, LinkType, LinkRecord,
           AgendaType, TypeOK
<1> QED
    BY <1>1, Invariance, PTL

\* #invoke and respond: whatever the server repeats, over however many
\* connections, a requestId is executed and answered at most once.
THEOREM ExecutedAndAnsweredOnce == Spec => []AtMostOnce
<1>1. IInv => AtMostOnce
    BY DEF IInv, History
<1> QED
    BY <1>1, Invariance, PTL

-----------------------------------------------------------------------------
(***************************************************************************)
(* Proofs about the connection of RemoteTool: what the client shows, what  *)
(* waits, what was answered and what is left behind when no call is on the *)
(* stack.  These properties only speak of the end of a turn, while a turn  *)
(* is many steps between which the host runs and may begin another call of *)
(* the client.  The inductive invariant therefore says what is still to be *)
(* done in the turn for every promise that does not hold yet, and that the *)
(* host never runs between a change of the connection and the change of    *)
(* the status that tells of it.                                            *)
(***************************************************************************)

\* Frames that may be left behind while the host runs; the others begin a turn
\* or follow at once on what made them necessary.
Calm(f) ==
    /\ f.op \notin {"observe", "retry", "register"}
    /\ f.op = "publish" => f.status \in {"same", "disposed"}

HeadOnly(a) == \A i \in DOMAIN a : i = 1 \/ Calm(a[i])

\* What only the outermost call of a turn does.
Outermost(f) ==
    f.op \in {"open", "register"} \/ (f.op = "connect" /\ f.for = "start")

OpenLast(a) == \A i \in DOMAIN a : Outermost(a[i]) => i = Len(a)

\* The transport is disposed before anything but listeners and responses runs.
Resumes(f) == f.op \in {"host", "finish", "publish", "respond", "abort"}

Disposing(a) ==
    \E i \in DOMAIN a : /\ a[i].op = "disposeTransport"
                        /\ \A j \in 1 .. i - 1 : Resumes(a[j])

\* The status the host is shown, or will be shown before it runs.
Announcement(a, s) ==
    IF a # <<>> /\ Head(a).op \in {"publish", "observe"} /\ ~Calm(Head(a))
    THEN Head(a).status ELSE s

Announced == Announcement(agenda, status)

Pending(op) == \E f \in Elements(agenda) : f.op = op

Starting == \E f \in Elements(agenda) : f.op = "connect" /\ f.for = "start"

\* What each frame of a turn relies on when its time comes.
Fits(f) ==
    /\ ~Calm(f) => ~disposed
    /\ f.op = "publish" => (f.status = "disposed" => disposed)
    /\ f.op \in {"abort", "finish"} => (f.respond \/ ~link.ready)
    /\ f.op = "observe" => f.status # "disposed" /\ (f.status = "ready" <=> link.ready)
    /\ f.op = "disposeTransport" => disposed \/ (~link.ready /\ ~Pending("open"))
    /\ f.op = "open" => ~link.opened /\ (link.disposed => disposed)
    /\ f.op = "connect" =>
          /\ ~link.failed /\ link.opened
          /\ \A g \in auths : g < link.generation
          /\ f.for = "start" => Announced = "connecting" \/ disposed
          /\ f.for = "retry" => ~Starting
    /\ f.op = "register" => socket = "up" /\ ~link.disposed
    /\ f.op = "emit" =>
          /\ link.disposed \/ (f.generation = link.generation /\ socket = "up")
          /\ Announced = "registering" \/ disposed
    /\ f.op = "retry" => status \in {"error", "disconnected"}
    /\ f.op = "respond" => f.request \notin Waiting
    /\ f.op \in {"finish", "respond"} =>
          (f.result = "ok" => ~call[f.request].due /\ executions[f.request] = 1)

AllFit == \A f \in Elements(agenda) : Fits(f)

BeforeStart == ~started /\ ~disposed => Quiet \/ Doing("release")

TurnInOrder == HeadOnly(agenda) /\ OpenLast(agenda) /\ AllFit /\ BeforeStart

\* The fields of the transport and of its socket agree, and what belongs to a
\* generation of the connection that is over is recognised as such.
FieldsAgree ==
    /\ link.disposed => ~link.ready /\ link.deadline = None /\ socket = "off"
    /\ link.failed => ~link.ready /\ socket = "off" /\ link.opened
    /\ link.ready => socket = "up"
    /\ ~link.opened => /\ socket = "off" /\ auths = {} /\ acks = {} /\ ~link.failed
                       /\ ~link.ready /\ link.deadline = None
    /\ ~started => ~link.opened /\ (link.disposed => disposed)

AcksCurrent ==
    \A g \in acks :
        /\ g <= link.generation
        /\ g = link.generation /\ ~link.disposed /\ ~link.failed => socket = "up"

AuthsCurrent ==
    \A g \in auths :
        /\ g <= link.generation
        /\ g = link.generation /\ ~link.disposed =>
              /\ link.deadline = g
              /\ socket \in {"authorizing", "joining"} \/ Pending("register")

InvalidationsCurrent ==
    \A g \in invalidations :
        /\ g <= link.generation
        /\ g = link.generation /\ ~link.disposed => link.failed

CallsCurrent ==
    \A r \in Requests : Invoked(r) =>
        /\ call[r].generation <= link.generation
        /\ call[r].generation = link.generation => link.ready

LinkInOrder == FieldsAgree /\ AcksCurrent /\ AuthsCurrent /\ InvalidationsCurrent /\ CallsCurrent

\* The status agrees with the transport, unless the client is being disposed.
StatusAgrees ==
    /\ link.ready => Announced = "ready" \/ Pending("release") \/ disposed
    /\ Announced = "ready" => link.ready \/ disposed
    /\ link.failed => Announced = "error" \/ disposed \/ link.disposed

Attempting ==
    /\ ~link.disposed /\ ~link.ready
    /\ \/ socket \in {"authorizing", "joining", "up"}
       \/ Announced \in {"connecting", "registering"}

Bounded ==
    Attempting => \/ link.deadline = link.generation \/ disposed
                  \/ Pending("connect") \/ Pending("open") \/ Pending("register")

\* What the disposal of the client has not done yet is going to be done.
Ended(r) == \E f \in Elements(agenda) :
                f.op = "abort" \/ (f.op = "finish" /\ f.request = r)

DisposalGoesOn ==
    disposed =>
        /\ \/ status = "disposed"
           \/ \E f \in Elements(agenda) : f.op = "publish" /\ f.status = "disposed"
        /\ \A r \in Waiting : Ended(r)
        /\ link.disposed \/ Disposing(agenda)

\* A call is waiting once; the calls of a connection that is over are ended, and
\* a call that waits no more has been answered or is going to be.
Distinct == \A i, j \in DOMAIN calls : calls[i] = calls[j] => i = j

WaitingCurrent ==
    \A r \in Waiting :
        \/ call[r].generation = link.generation
        \/ Ended(r)
        \/ \E f \in Elements(agenda) : f.op = "observe" /\ f.status # "ready"

ShownPending == shown = Len(calls) \/ Pending("publish")

Answered ==
    \A r \in Requests :
        /\ r \in Waiting => ~call[r].sent
        /\ call[r].sent => Len(answers[r]) = 1
        /\ call[r].stage = "executing" => executions[r] = 1
        /\ Invoked(r) /\ call[r].generation = link.generation /\ r \notin Waiting
              => \/ call[r].sent
                 \/ \E f \in Elements(agenda) : f.op = "respond" /\ f.request = r

CallsInOrder == Distinct /\ WaitingCurrent /\ ShownPending /\ Answered

Order == TurnInOrder /\ LinkInOrder /\ StatusAgrees /\ Bounded /\ DisposalGoesOn /\ CallsInOrder

-----------------------------------------------------------------------------
(* The agenda. *)

\* The fields of the frames.
LEMMA Fields ==
    /\ \A s : Publish(s).status = s /\ Observe(s).status = s /\ AbortAll(s).respond = s
    /\ \A s : Connect(s).for = s /\ Emit(s).generation = s
    /\ \A r, s : Respond(r, s).result = s
    /\ \A r, s, b : Finish(r, s, b).result = s /\ Finish(r, s, b).respond = b
    BY DEF Publish, Observe, AbortAll, Connect, Emit, Respond, Finish

\* What is put on a calm agenda is put there in order.
LEMMA Stacked ==
    ASSUME NEW f \in Seq(Frames), NEW s \in Seq(Frames), HeadOnly(f),
           \A x \in Elements(s) : Calm(x)
    PROVE  HeadOnly(f \o s)
<1>1. /\ Len(f \o s) = Len(f) + Len(s) /\ f \o s \in Seq(Frames)
      /\ \A i \in 1 .. Len(f) + Len(s) :
            (f \o s)[i] = IF i <= Len(f) THEN f[i] ELSE s[i - Len(f)]
    BY ConcatProperties
<1> SUFFICES ASSUME NEW i \in DOMAIN (f \o s), i # 1
             PROVE  Calm((f \o s)[i])
    BY DEF HeadOnly
<1>2. i \in 1 .. Len(f) + Len(s)
    BY <1>1
<1>3. CASE i <= Len(f)
    BY <1>1, <1>2, <1>3 DEF HeadOnly
<1>4. CASE i > Len(f)
  <2>1. i - Len(f) \in DOMAIN s /\ (f \o s)[i] = s[i - Len(f)]
      BY <1>1, <1>2, <1>4
  <2> QED
      BY <2>1 DEF Elements
<1> QED
    BY <1>2, <1>3, <1>4

\* Below the innermost call only calm frames wait.
LEMMA Below ==
    ASSUME NEW s \in Seq(Frames), s # <<>>, HeadOnly(s)
    PROVE  \A x \in Elements(Tail(s)) : Calm(x)
<1> SUFFICES ASSUME NEW i \in DOMAIN Tail(s) PROVE Calm(Tail(s)[i])
    BY DEF Elements
<1>1. i + 1 \in DOMAIN s /\ Tail(s)[i] = s[i + 1] /\ i + 1 # 1
    OBVIOUS
<1> QED
    BY <1>1 DEF HeadOnly

\* The outermost call of a turn stays the last one.
LEMMA OpenStaysLast ==
    ASSUME NEW f \in Seq(Frames), NEW s \in Seq(Frames), OpenLast(s),
           \A x \in Elements(f) : ~Outermost(x)
    PROVE  OpenLast(f \o s)
<1>1. /\ Len(f \o s) = Len(f) + Len(s) /\ f \o s \in Seq(Frames)
      /\ \A i \in 1 .. Len(f) + Len(s) :
            (f \o s)[i] = IF i <= Len(f) THEN f[i] ELSE s[i - Len(f)]
    BY ConcatProperties
<1> SUFFICES ASSUME NEW i \in DOMAIN (f \o s), Outermost((f \o s)[i])
             PROVE  i = Len(f \o s)
    BY DEF OpenLast
<1>2. i \in 1 .. Len(f) + Len(s)
    BY <1>1
<1>3. CASE i <= Len(f)
  <2>1. i \in DOMAIN f /\ (f \o s)[i] = f[i]
      BY <1>1, <1>2, <1>3
  <2> QED
      BY <2>1 DEF Elements
<1>4. CASE i > Len(f)
  <2>1. i - Len(f) \in DOMAIN s /\ (f \o s)[i] = s[i - Len(f)]
      BY <1>1, <1>2, <1>4
  <2>2. i - Len(f) = Len(s)
      BY <2>1 DEF OpenLast
  <2>3. Len(f) \in Nat /\ Len(s) \in Nat /\ Len(f \o s) = Len(f) + Len(s)
      BY <1>1
  <2>4. i \in Int
      BY <1>2, <2>3
  <2> QED
      BY <2>2, <2>3, <2>4
<1>5. i <= Len(f) \/ i > Len(f)
    BY <1>2
<1> QED
    BY <1>3, <1>4, <1>5

LEMMA OpenBelow ==
    ASSUME NEW s \in Seq(Frames), s # <<>>, OpenLast(s)
    PROVE  /\ OpenLast(Tail(s))
           /\ Outermost(Head(s)) => Tail(s) = <<>>
<1>1. OpenLast(Tail(s))
  <2> SUFFICES ASSUME NEW i \in DOMAIN Tail(s), Outermost(Tail(s)[i])
               PROVE  i = Len(Tail(s))
      BY DEF OpenLast
  <2>1. i + 1 \in DOMAIN s /\ Tail(s)[i] = s[i + 1] /\ Len(Tail(s)) = Len(s) - 1
      OBVIOUS
  <2>2. i + 1 = Len(s)
      BY <2>1 DEF OpenLast
  <2> QED
      BY <2>1, <2>2
<1>2. ASSUME Outermost(Head(s)) PROVE Tail(s) = <<>>
  <2>1. 1 \in DOMAIN s /\ s[1] = Head(s)
      OBVIOUS
  <2>2. Len(s) = 1
      BY <1>2, <2>1 DEF OpenLast
  <2>3. Tail(s) \in Seq(Frames) /\ Len(Tail(s)) = 0
      BY <2>2
  <2> QED
      BY <2>3, EmptySeq
<1> QED
    BY <1>1, <1>2

\* The disposal of the transport waits behind what listeners add to a turn.
LEMMA DisposingWaits ==
    ASSUME NEW f \in Seq(Frames), NEW s \in Seq(Frames), Disposing(s),
           \A x \in Elements(f) : Resumes(x)
    PROVE  Disposing(f \o s)
<1>1. /\ Len(f \o s) = Len(f) + Len(s) /\ f \o s \in Seq(Frames)
      /\ \A i \in 1 .. Len(f) + Len(s) :
            (f \o s)[i] = IF i <= Len(f) THEN f[i] ELSE s[i - Len(f)]
      /\ Len(f) \in Nat /\ Len(s) \in Nat
    BY ConcatProperties
<1>2. PICK i \in DOMAIN s : /\ s[i].op = "disposeTransport"
                            /\ \A j \in 1 .. i - 1 : Resumes(s[j])
    BY DEF Disposing
<1>3. i + Len(f) \in DOMAIN (f \o s) /\ (f \o s)[i + Len(f)] = s[i]
    BY <1>1
<1>4. ASSUME NEW j \in 1 .. (i + Len(f)) - 1 PROVE Resumes((f \o s)[j])
  <2>1. CASE j <= Len(f)
    <3>1. j \in DOMAIN f /\ (f \o s)[j] = f[j]
        BY <1>1, <2>1
    <3> QED
        BY <3>1 DEF Elements
  <2>2. CASE j > Len(f)
    <3>1. j - Len(f) \in 1 .. i - 1 /\ (f \o s)[j] = s[j - Len(f)]
        BY <1>1, <2>2
    <3> QED
        BY <1>2, <3>1
  <2> QED
      BY <1>1, <2>1, <2>2
<1> QED
    BY <1>2, <1>3, <1>4 DEF Disposing

LEMMA DisposingBegins ==
    ASSUME NEW f \in Seq(Frames), NEW s \in Seq(Frames), Disposing(f)
    PROVE  Disposing(f \o s)
<1>1. /\ Len(f \o s) = Len(f) + Len(s) /\ f \o s \in Seq(Frames)
      /\ \A i \in 1 .. Len(f) + Len(s) :
            (f \o s)[i] = IF i <= Len(f) THEN f[i] ELSE s[i - Len(f)]
      /\ Len(f) \in Nat /\ Len(s) \in Nat
    BY ConcatProperties
<1>2. PICK i \in DOMAIN f : /\ f[i].op = "disposeTransport"
                            /\ \A j \in 1 .. i - 1 : Resumes(f[j])
    BY DEF Disposing
<1>3. i \in DOMAIN (f \o s) /\ (f \o s)[i] = f[i]
    BY <1>1
<1>4. \A j \in 1 .. i - 1 : (f \o s)[j] = f[j]
    BY <1>1
<1> QED
    BY <1>2, <1>3, <1>4 DEF Disposing

LEMMA DisposingNext ==
    ASSUME NEW s \in Seq(Frames), Disposing(s)
    PROVE  /\ s # <<>> /\ (Head(s).op = "disposeTransport" \/ Resumes(Head(s)))
           /\ Head(s).op # "disposeTransport" => Disposing(Tail(s))
<1>1. PICK i \in DOMAIN s : /\ s[i].op = "disposeTransport"
                            /\ \A j \in 1 .. i - 1 : Resumes(s[j])
    BY DEF Disposing
<1>2. s # <<>> /\ Head(s) = s[1] /\ i \in 1 .. Len(s) /\ Len(s) \in Nat
    BY <1>1
<1>3. CASE i = 1
    BY <1>1, <1>2, <1>3
<1>4. CASE i # 1
  <2>1. 1 \in 1 .. i - 1
      BY <1>2, <1>4
  <2>2. Resumes(s[1])
      BY <1>1, <2>1
  <2>3. i - 1 \in DOMAIN Tail(s) /\ Tail(s)[i - 1] = s[i]
      BY <1>2, <1>4
  <2>4. \A j \in 1 .. (i - 1) - 1 : Tail(s)[j] = s[j + 1] /\ j + 1 \in 1 .. i - 1
      BY <1>2, <1>4
  <2>5. \A j \in 1 .. (i - 1) - 1 : Resumes(Tail(s)[j])
      BY <1>1, <2>4
  <2>6. Disposing(Tail(s))
      BY <1>1, <2>3, <2>5 DEF Disposing
  <2> QED
      BY <1>2, <2>2, <2>6
<1> QED
    BY <1>3, <1>4
-----------------------------------------------------------------------------
(* What a step leaves to do: frames f of its own above what was left before. *)

Leaves(f, t) ==
    /\ f \in Seq(Frames) /\ HeadOnly(f) /\ agenda' = f \o t
    /\ \/ t = agenda /\ HostRuns
       \/ t = Tail(agenda) /\ ~Quiet

LEMMA Left ==
    ASSUME IInv, Order, NEW f, NEW t, Leaves(f, t)
    PROVE  /\ agenda' \in Seq(Frames) /\ HeadOnly(agenda')
           /\ t \in Seq(Frames) /\ Elements(agenda') = Elements(f) \cup Elements(t)
           /\ \A x \in Elements(t) : x \in Frames /\ Calm(x) /\ Fits(x)
           /\ OpenLast(t) /\ ((\A x \in Elements(f) : ~Outermost(x)) => OpenLast(agenda'))
           /\ t = agenda \/ Elements(agenda) = {Head(agenda)} \cup Elements(t)
           /\ (Disposing(agenda) => Disposing(t)) \/ Doing("disposeTransport")
<1>1. /\ agenda \in Seq(Frames) /\ HeadOnly(agenda) /\ OpenLast(agenda)
      /\ \A x \in Elements(agenda) : x \in Frames /\ Fits(x)
    BY DEF IInv, TypeInv, AgendaType, Order, TurnInOrder, AllFit, Elements
<1>2. f \in Seq(Frames) /\ HeadOnly(f) /\ agenda' = f \o t
    BY DEF Leaves
<1>3. /\ t \in Seq(Frames) /\ OpenLast(t) /\ Elements(t) \subseteq Elements(agenda)
      /\ \A x \in Elements(t) : Calm(x)
      /\ t = agenda \/ Elements(agenda) = {Head(agenda)} \cup Elements(t)
      /\ (Disposing(agenda) => Disposing(t)) \/ Doing("disposeTransport")
  <2>1. CASE t = Tail(agenda) /\ ~Quiet
    <3>1. agenda # <<>>
        BY <2>1 DEF Quiet
    <3>2. t \in Seq(Frames) /\ Elements(agenda) = {Head(agenda)} \cup Elements(t)
        BY <1>1, <2>1, <3>1, Popped
    <3>3. \A x \in Elements(t) : Calm(x)
        BY <1>1, <2>1, <3>1, Below
    <3>4. OpenLast(t)
        BY <1>1, <2>1, <3>1, OpenBelow
    <3>5. (Disposing(agenda) => Disposing(t)) \/ Doing("disposeTransport")
        BY <1>1, <2>1, DisposingNext DEF Doing
    <3> QED
        BY <3>2, <3>3, <3>4, <3>5
  <2>2. CASE t = agenda /\ HostRuns
    <3>1. \A x \in Elements(agenda) : Calm(x)
      <4>1. CASE Quiet
          BY <4>1, ShortSequences DEF Quiet
      <4>2. CASE ~Quiet
        <5>1. agenda # <<>> /\ Head(agenda).op = "host"
            BY <2>2, <4>2 DEF HostRuns, Doing, Quiet
        <5>2. Calm(Head(agenda))
            BY <5>1 DEF Calm
        <5>3. Elements(agenda) = {Head(agenda)} \cup Elements(Tail(agenda))
            BY <1>1, <5>1, Popped
        <5>4. \A x \in Elements(Tail(agenda)) : Calm(x)
            BY <1>1, <5>1, Below
        <5> QED
            BY <5>2, <5>3, <5>4
      <4> QED
          BY <4>1, <4>2
    <3> QED
        BY <1>1, <2>2, <3>1
  <2> QED
      BY <2>1, <2>2 DEF Leaves
<1>4. agenda' \in Seq(Frames) /\ Elements(agenda') = Elements(f) \cup Elements(t)
    BY <1>2, <1>3, Concatenation
<1>5. HeadOnly(agenda')
    BY <1>2, <1>3, Stacked
<1>6. (\A x \in Elements(f) : ~Outermost(x)) => OpenLast(agenda')
    BY <1>2, <1>3, OpenStaysLast
<1> QED
    BY <1>1, <1>3, <1>4, <1>5, <1>6

\* Calm frames announce nothing.
LEMMA CalmAnnouncesNothing ==
    ASSUME NEW a \in Seq(Frames), \A x \in Elements(a) : Calm(x), NEW s
    PROVE  Announcement(a, s) = s
<1>1. a # <<>> => Head(a) \in Elements(a)
    BY Popped
<1> QED
    BY <1>1 DEF Announcement

\* The status announced when a step ends is the one its own frames announce.
LEMMA AnnouncedNext ==
    ASSUME IInv, Order, NEW f, NEW t, Leaves(f, t)
    PROVE  /\ f = <<>> => Announced' = status'
           /\ f # <<>> => Announced' = Announcement(f, status')
           /\ t = agenda => Announced = status
<1>1. /\ f \in Seq(Frames) /\ agenda' = f \o t /\ t \in Seq(Frames)
      /\ \A x \in Elements(t) : Calm(x)
    BY Left DEF Leaves
<1>2. ASSUME f = <<>> PROVE Announced' = status'
  <2>1. agenda' = t
      BY <1>1, <1>2, ConcatEmptySeq
  <2> QED
      BY <1>1, <2>1, CalmAnnouncesNothing DEF Announced
<1>3. ASSUME f # <<>> PROVE Announced' = Announcement(f, status')
  <2>1. f \o t # <<>> /\ Head(f \o t) = Head(f)
      BY <1>1, <1>3
  <2> QED
      BY <1>1, <1>3, <2>1 DEF Announced, Announcement
<1>4. ASSUME t = agenda PROVE Announced = status
    BY <1>1, <1>4, CalmAnnouncesNothing DEF Announced
<1> QED
    BY <1>2, <1>3, <1>4

\* The status announced by frames that begin with the given one.
LEMMA Announcements ==
    ASSUME NEW f, f # <<>>, NEW s
    PROVE  /\ \A r \in Statuses \ {"disposed"} :
                 Head(f) = Publish(r) \/ Head(f) = Observe(r) => Announcement(f, s) = r
           /\ Head(f).op \notin {"publish", "observe"} => Announcement(f, s) = s
           /\ Calm(Head(f)) => Announcement(f, s) = s
    BY Ops, Fields DEF Announcement, Calm, Statuses

\* While one of its frames is the innermost call, nothing but what it announces
\* is announced.
LEMMA AnnouncedNow ==
    ASSUME IInv, Order, ~Quiet
    PROVE  /\ Head(agenda).op \notin {"publish", "observe"} => Announced = status
           /\ Calm(Head(agenda)) => Announced = status
           /\ ~Calm(Head(agenda)) /\ Head(agenda).op \in {"publish", "observe"}
                  => Announced = Head(agenda).status
    BY DEF Announced, Announcement, Quiet, Calm

\* When no call is on the stack.
LEMMA QuietFacts ==
    ASSUME IInv, Order, Quiet
    PROVE  /\ agenda = <<>> /\ Elements(agenda) = {} /\ Announced = status
           /\ \A op : ~Pending(op)
           /\ disposed => status = "disposed" /\ Waiting = {} /\ link.disposed
           /\ \A r \in Waiting : call[r].generation = link.generation /\ link.ready
           /\ ~link.opened \/ started
<1>1. agenda = <<>> /\ Elements(agenda) = {}
    BY ShortSequences DEF Quiet
<1>2. Announced = status
    BY <1>1 DEF Announced, Announcement
<1>3. \A op : ~Pending(op)
    BY <1>1 DEF Pending
<1>4. ~Disposing(agenda)
    BY <1>1 DEF Disposing
<1>5. disposed => status = "disposed" /\ Waiting = {} /\ link.disposed
    BY <1>1, <1>4 DEF Order, DisposalGoesOn, Ended
<1>6. \A r \in Waiting : call[r].generation = link.generation /\ link.ready
  <2> SUFFICES ASSUME NEW r \in Waiting
               PROVE  call[r].generation = link.generation /\ link.ready
      OBVIOUS
  <2>1. call[r].generation = link.generation
      BY <1>1 DEF Order, CallsInOrder, WaitingCurrent, Ended
  <2>2. r \in Requests /\ Invoked(r)
      BY DEF IInv, TypeInv, ClientType, History, WaitingInvoked, Waiting
  <2> QED
      BY <2>1, <2>2 DEF Order, LinkInOrder, CallsCurrent
<1> QED
    BY <1>1, <1>2, <1>3, <1>5, <1>6 DEF Order, LinkInOrder, FieldsAgree

-----------------------------------------------------------------------------
(* What the invariant promises when no call is on the stack. *)

LEMMA OrderGives ==
    ASSUME IInv, Order
    PROVE  ConnectionInOrder /\ ShownAgrees /\ NoneForgotten
<1>1. WaitingCanBeAnswered
  <2> SUFFICES ASSUME Quiet, NEW r \in Waiting
               PROVE  /\ status = "ready" /\ link.ready /\ socket = "up"
                      /\ call[r].generation = link.generation
      BY DEF WaitingCanBeAnswered
  <2>1. ~disposed /\ link.ready /\ call[r].generation = link.generation
      BY QuietFacts
  <2> QED
      BY <2>1, QuietFacts DEF Order, LinkInOrder, FieldsAgree, StatusAgrees
<1>2. AttemptIsBounded
    BY QuietFacts DEF Order, Bounded, Attempting, AttemptIsBounded
<1>3. DisposedIsFinal
  <2> SUFFICES ASSUME Quiet, disposed
               PROVE  /\ status = "disposed" /\ calls = <<>>
                      /\ link.disposed /\ link.deadline = None /\ socket = "off"
      BY DEF DisposedIsFinal
  <2>1. status = "disposed" /\ Waiting = {} /\ link.disposed
      BY QuietFacts
  <2>2. calls \in Seq(Requests) /\ DOMAIN calls = {}
      BY <2>1 DEF Waiting, IInv, TypeInv, ClientType
  <2>3. calls = <<>>
      BY <2>2, EmptySeq
  <2> QED
      BY <2>1, <2>3 DEF Order, LinkInOrder, FieldsAgree
<1>4. ShownAgrees
  <2> SUFFICES ASSUME Quiet
               PROVE  /\ shown = Len(calls)
                      /\ (status = "ready") <=> link.ready
                      /\ link.failed /\ ~link.disposed => status = "error"
      BY DEF ShownAgrees
  <2>1. shown = Len(calls)
      BY QuietFacts DEF Order, CallsInOrder, ShownPending
  <2>2. (status = "ready") <=> link.ready
      BY QuietFacts DEF Order, LinkInOrder, FieldsAgree, StatusAgrees
  <2>3. link.failed /\ ~link.disposed => status = "error"
      BY QuietFacts DEF Order, StatusAgrees
  <2> QED
      BY <2>1, <2>2, <2>3
<1>5. NoneForgotten
  <2> SUFFICES ASSUME Quiet, link.ready, NEW r \in Requests, call[r].stage # "none",
                      call[r].generation = link.generation
               PROVE  (r \in Waiting) # (Len(answers[r]) = 1)
      BY DEF NoneForgotten
  <2>1. CASE r \in Waiting
    <3>1. Len(answers[r]) = 0
        BY <2>1 DEF Order, CallsInOrder, Answered, IInv, History, CountsAgree
    <3> QED
        BY <2>1, <3>1
  <2>2. CASE r \notin Waiting
    <3>1. call[r].sent
        BY <2>2, QuietFacts DEF Order, CallsInOrder, Answered, Invoked
    <3> QED
        BY <2>2, <3>1 DEF Order, CallsInOrder, Answered
  <2> QED
      BY <2>1, <2>2
<1> QED
    BY <1>1, <1>2, <1>3, <1>4, <1>5 DEF ConnectionInOrder

LEMMA InitOrder == Init => Order
<1> SUFFICES ASSUME Init PROVE Order
    OBVIOUS
<1>1. /\ Elements(agenda) = {} /\ Waiting = {} /\ agenda = <<>> /\ calls = <<>>
      /\ \A r \in Requests : ~Invoked(r) /\ ~call[r].sent /\ call[r].stage = "none"
    BY DEF Init, Elements, Waiting, Invoked
<1>2. TurnInOrder
    BY <1>1 DEF TurnInOrder, HeadOnly, OpenLast, AllFit, BeforeStart, Quiet
<1>3. LinkInOrder
    BY <1>1 DEF Init, LinkInOrder, FieldsAgree, AcksCurrent, AuthsCurrent,
                InvalidationsCurrent, CallsCurrent
<1>4. Announced = "idle"
    BY <1>1 DEF Init, Announced, Announcement
<1>5. StatusAgrees /\ Bounded
    BY <1>4 DEF Init, StatusAgrees, Bounded, Attempting
<1>6. DisposalGoesOn
    BY DEF Init, DisposalGoesOn
<1>7. CallsInOrder
  <2>1. Len(calls) = 0 /\ DOMAIN calls = {}
      BY <1>1
  <2> QED
      BY <1>1, <2>1 DEF Init, CallsInOrder, Distinct, WaitingCurrent, ShownPending, Answered
<1> QED
    BY <1>2, <1>3, <1>5, <1>6, <1>7 DEF Order

-----------------------------------------------------------------------------
(* Steps that leave the transport and the calls' records alone. *)

\* The fields of the transport agree as before.
LEMMA ClientLink ==
    ASSUME IInv, Order, UNCHANGED <<linkVars, callVars>>,
           started => started', disposed => disposed',
           Pending("register") => Pending("register")'
    PROVE  LinkInOrder'
<1>1. UNCHANGED <<link, auths, acks, invalidations, socket, call>>
    BY DEF linkVars, callVars
<1>2. FieldsAgree'
    BY <1>1 DEF Order, LinkInOrder, FieldsAgree
<1>3. AcksCurrent' /\ InvalidationsCurrent' /\ CallsCurrent'
    BY <1>1 DEF Order, LinkInOrder, AcksCurrent, InvalidationsCurrent, CallsCurrent, Invoked
<1>4. AuthsCurrent'
    BY <1>1 DEF Order, LinkInOrder, AuthsCurrent
<1> QED
    BY <1>2, <1>3, <1>4 DEF LinkInOrder

\* A step that shows no other status, unless it disposes of the client.
LEMMA ClientTurn ==
    ASSUME IInv, Order, NEW f, NEW t, Leaves(f, t),
           UNCHANGED <<linkVars, callVars>>,
           started => started', disposed => disposed', \A r \in Waiting' : r \in Waiting,
           Announced' = Announced \/ disposed',
           \A x \in Elements(f) : x.op \notin {"open", "register", "connect"} /\ Fits(x)',
           t = agenda \/ Head(agenda).op \notin {"connect", "open", "register"},
           t = agenda \/ (Doing("release") => disposed'),
           BeforeStart'
    PROVE  TurnInOrder' /\ LinkInOrder' /\ StatusAgrees' /\ Bounded'
<1>1. /\ HeadOnly(agenda') /\ OpenLast(agenda')
      /\ Elements(agenda') = Elements(f) \cup Elements(t)
      /\ \A x \in Elements(t) : x \in Frames /\ Calm(x) /\ Fits(x)
      /\ t = agenda \/ Elements(agenda) = {Head(agenda)} \cup Elements(t)
    BY Left DEF Outermost
<1>2. UNCHANGED <<link, auths, acks, invalidations, socket, call, executions>>
    BY DEF linkVars, callVars
<1>3. /\ ~Pending("register")'
      /\ \A op \in {"connect", "open", "register"} : Pending(op) => Pending(op)'
      /\ Pending("release") => Pending("release")' \/ disposed'
      /\ Pending("open")' => Pending("open")
      /\ Starting' => Starting
  <2>1. ~Pending("register")'
      BY <1>1 DEF Pending, Calm
  <2>2. \A op \in {"connect", "open", "register"} : Pending(op) => Pending(op)'
      BY <1>1 DEF Pending
  <2>3. Pending("release") => Pending("release")' \/ disposed'
    <3> SUFFICES ASSUME NEW x \in Elements(agenda), x.op = "release", ~disposed'
                 PROVE  Pending("release")'
        BY DEF Pending
    <3>1. CASE t = agenda
        BY <1>1, <3>1 DEF Pending
    <3>2. CASE t # agenda
      <4>1. ~Doing("release") /\ ~Quiet
          BY <3>2 DEF Leaves
      <4>2. x # Head(agenda)
          BY <4>1 DEF Doing
      <4> QED
          BY <1>1, <3>2, <4>2 DEF Pending
    <3> QED
        BY <3>1, <3>2
  <2>4. (Pending("open")' => Pending("open")) /\ (Starting' => Starting)
      BY <1>1 DEF Pending, Starting
  <2> QED
      BY <2>1, <2>2, <2>3, <2>4
<1>4. AllFit'
  <2> SUFFICES ASSUME NEW x \in Elements(t) PROVE Fits(x)'
      BY <1>1 DEF AllFit
  <2>1. Calm(x) /\ Fits(x)
      BY <1>1
  <2>2. x.op = "connect" => (x.for = "start" => Announced' = "connecting" \/ disposed')
      BY <2>1 DEF Fits
  <2>3. x.op = "emit" => Announced' = "registering" \/ disposed'
      BY <2>1 DEF Fits
  <2>4. x.op = "respond" => x.request \notin Waiting'
      BY <2>1 DEF Fits
  <2> QED
      BY <1>2, <1>3, <2>1, <2>2, <2>3, <2>4 DEF Fits, Calm
<1>5. TurnInOrder'
    BY <1>1, <1>4 DEF TurnInOrder
<1>6. LinkInOrder'
    BY <1>3, ClientLink
<1>7. StatusAgrees'
    BY <1>2, <1>3 DEF Order, StatusAgrees
<1>8. Bounded'
    BY <1>2, <1>3 DEF Order, Bounded, Attempting
<1> QED
    BY <1>5, <1>6, <1>7, <1>8

\* A step of a turn that leaves the client's own fields alone as well.
LEMMA ClientRests ==
    ASSUME IInv, Order, NEW f, NEW t, Leaves(f, t),
           UNCHANGED <<linkVars, callVars, calls, shown, status, disposed>>,
           \A x \in Elements(f) : disposed => Resumes(x),
           \/ t = agenda
           \/ Head(agenda).op \notin {"disposeTransport", "publish", "abort", "finish",
                                      "respond", "observe"}
    PROVE  DisposalGoesOn' /\ CallsInOrder'
<1>1. /\ f \in Seq(Frames) /\ t \in Seq(Frames) /\ agenda' = f \o t
      /\ Elements(agenda') = Elements(f) \cup Elements(t)
      /\ t = agenda \/ Elements(agenda) = {Head(agenda)} \cup Elements(t)
      /\ (Disposing(agenda) => Disposing(t)) \/ Doing("disposeTransport")
    BY Left DEF Leaves
<1>2. /\ UNCHANGED <<link, call, executions, answers>> /\ Waiting' = Waiting
      /\ \A r \in Requests : Invoked(r)' <=> Invoked(r)
    BY DEF linkVars, callVars, Waiting, Invoked
<1>3. \A x \in Elements(agenda) :
          x.op \in {"publish", "abort", "finish", "respond", "observe"}
              => x \in Elements(agenda')
    BY <1>1
<1>4. \A r : Ended(r) => Ended(r)'
    BY <1>3 DEF Ended
<1>5. DisposalGoesOn'
  <2> SUFFICES ASSUME disposed
               PROVE  /\ \/ status' = "disposed"
                         \/ \E x \in Elements(agenda') :
                                x.op = "publish" /\ x.status = "disposed"
                      /\ \A r \in Waiting' : Ended(r)'
                      /\ link'.disposed \/ Disposing(agenda')
      BY DEF DisposalGoesOn
  <2>1. \/ status' = "disposed"
        \/ \E x \in Elements(agenda') : x.op = "publish" /\ x.status = "disposed"
      BY <1>3 DEF Order, DisposalGoesOn
  <2>2. \A r \in Waiting' : Ended(r)'
      BY <1>2, <1>4 DEF Order, DisposalGoesOn
  <2>3. ASSUME ~link'.disposed PROVE Disposing(agenda')
    <3>1. Disposing(agenda)
        BY <1>2, <2>3 DEF Order, DisposalGoesOn
    <3>2. Disposing(t)
        BY <1>1, <3>1 DEF Doing
    <3> QED
        BY <1>1, <3>2, DisposingWaits
  <2> QED
      BY <2>1, <2>2, <2>3
<1>6. CallsInOrder'
  <2>1. Distinct'
      BY DEF Order, CallsInOrder, Distinct
  <2>2. WaitingCurrent'
      BY <1>2, <1>3, <1>4 DEF Order, CallsInOrder, WaitingCurrent
  <2>3. ShownPending'
      BY <1>3 DEF Order, CallsInOrder, ShownPending, Pending
  <2>4. Answered'
      BY <1>2, <1>3 DEF Order, CallsInOrder, Answered
  <2> QED
      BY <2>1, <2>2, <2>3, <2>4 DEF CallsInOrder
<1> QED
    BY <1>5, <1>6

\* A call of the host: it begins with a frame of its own.
LEMMA HostCallsOrder ==
    ASSUME IInv, Order, HostCalls
    PROVE  Order'
<1>1. ASSUME NEW a \in Frames, Calm(a) \/ a.op = "retry",
             a.op \notin {"open", "register", "connect", "publish", "observe"}, Fits(a)',
             disposed => Resumes(a), Begin(<<a>>), HostRuns, BeforeStart',
             UNCHANGED <<clientVars, callVars, linkVars>>
      PROVE  Order'
  <2> DEFINE f == <<a>>
  <2>1. f \in Seq(Frames) /\ Elements(f) = {a} /\ HeadOnly(f) /\ f # <<>> /\ Head(f) = a
      BY <1>1, ShortSequences DEF HeadOnly
  <2>2. agenda' = f \o agenda
      BY <1>1 DEF Begin
  <2> HIDE DEF f
  <2>3. Leaves(f, agenda)
      BY <1>1, <2>1, <2>2 DEF Leaves
  <2>4. UNCHANGED <<linkVars, callVars, started, calls, shown, status, disposed>>
      BY <1>1 DEF clientVars
  <2>5. Announced' = Announced
      BY <1>1, <2>1, <2>3, <2>4, AnnouncedNext, Announcements
  <2>6. \A r \in Waiting' : r \in Waiting
      BY <2>4 DEF Waiting
  <2>7. TurnInOrder' /\ LinkInOrder' /\ StatusAgrees' /\ Bounded'
      BY <1>1, <2>1, <2>3, <2>4, <2>5, <2>6, ClientTurn
  <2>8. DisposalGoesOn' /\ CallsInOrder'
      BY <1>1, <2>1, <2>3, <2>4, ClientRests
  <2> QED
      BY <2>7, <2>8 DEF Order
<1>2. CASE Start
  <2> DEFINE a == Publish("connecting")
             b == OpenTransport
             f == <<a, b>>
  <2>1. a \in Frames /\ b \in Frames
      BY FrameTypes DEF Statuses
  <2>2. a.op = "publish" /\ a.status = "connecting" /\ b.op = "open"
      BY Ops, Fields
  <2>3. f \in Seq(Frames) /\ Elements(f) = {a, b} /\ f # <<>> /\ Head(f) = a
      BY <2>1, ShortSequences
  <2>4. HeadOnly(f) /\ OpenLast(f)
      BY <2>2 DEF HeadOnly, OpenLast, Outermost, Calm
  <2>5. /\ ~started /\ ~disposed /\ started' = TRUE /\ agenda' = f \o agenda
        /\ UNCHANGED <<disposed, status, shown, seen, calls, callVars, linkVars>>
      BY <1>2 DEF Start, Begin
  <2>6. Quiet /\ HostRuns
      BY <1>2, <2>5 DEF Start, HostRuns, Order, TurnInOrder, BeforeStart, Doing
  <2> HIDE DEF f
  <2>7. Leaves(f, agenda)
      BY <2>3, <2>4, <2>5, <2>6 DEF Leaves
  <2>8. /\ agenda = <<>> /\ Elements(agenda) = {} /\ agenda' = f
        /\ Elements(agenda') = {a, b} /\ HeadOnly(agenda') /\ OpenLast(agenda')
      BY <2>3, <2>4, <2>5, <2>6, QuietFacts, ConcatEmptySeq
  <2>9. Announced' = "connecting"
    <3>1. Head(f) = Publish("connecting") /\ "connecting" \in Statuses \ {"disposed"}
        BY <2>3 DEF Statuses
    <3> QED
        BY <2>3, <2>7, <3>1, AnnouncedNext, Announcements
  <2>10. UNCHANGED <<link, auths, acks, invalidations, socket, call, answers, executions>>
      BY <2>5 DEF linkVars, callVars
  <2>11. ~link.opened /\ ~link.ready /\ ~link.failed /\ ~link.disposed
      BY <2>5 DEF Order, LinkInOrder, FieldsAgree
  <2>12. Waiting = {} /\ Waiting' = {}
    <3>1. Waiting = {}
        BY <2>6, <2>11, QuietFacts
    <3> QED
        BY <2>5, <3>1 DEF Waiting
  <2>13. TurnInOrder'
    <3>1. Fits(a)' /\ Fits(b)'
        BY <2>2, <2>5, <2>10, <2>11 DEF Fits, Calm
    <3>2. BeforeStart'
        BY <2>5 DEF BeforeStart
    <3> QED
        BY <2>8, <3>1, <3>2 DEF TurnInOrder, AllFit
  <2>14. LinkInOrder'
    <3>1. ~Pending("register")
        BY <2>6, QuietFacts
    <3> QED
        BY <2>5, <3>1, ClientLink
  <2>15. StatusAgrees' /\ Bounded'
    <3>1. Pending("open")'
        BY <2>2, <2>8 DEF Pending
    <3> QED
        BY <2>9, <2>10, <2>11, <3>1 DEF StatusAgrees, Bounded
  <2>16. DisposalGoesOn'
      BY <2>5 DEF DisposalGoesOn
  <2>17. CallsInOrder'
    <3>1. Distinct' /\ WaitingCurrent'
        BY <2>5, <2>12 DEF Order, CallsInOrder, Distinct, WaitingCurrent
    <3>2. ShownPending'
        BY <2>2, <2>8 DEF ShownPending, Pending
    <3>3. Answered'
        BY <2>8, <2>10, <2>12 DEF Order, CallsInOrder, Answered, Invoked
    <3> QED
        BY <3>1, <3>2, <3>3 DEF CallsInOrder
  <2> QED
      BY <2>13, <2>14, <2>15, <2>16, <2>17 DEF Order
<1>3. CASE Retry
  <2> DEFINE a == RetryTransport
  <2>1. a \in Frames /\ a.op = "retry"
      BY FrameTypes, Ops
  <2>2. /\ Begin(<<a>>) /\ HostRuns /\ started /\ ~disposed /\ status \in {"error", "disconnected"}
        /\ UNCHANGED <<clientVars, callVars, linkVars>>
      BY <1>3 DEF Retry
  <2>3. status' = status /\ disposed' = disposed /\ started' = started
      BY <2>2 DEF clientVars
  <2> HIDE DEF a
  <2>4. Fits(a)' /\ BeforeStart'
      BY <2>1, <2>2, <2>3 DEF Fits, BeforeStart
  <2> QED
      BY <1>1, <2>1, <2>2, <2>4
<1>4. CASE Dispose
  <2> DEFINE a == Release
  <2>1. a \in Frames /\ a.op = "release" /\ Calm(a)
      BY FrameTypes, Ops DEF Calm
  <2>2. /\ Begin(<<a>>) /\ HostRuns /\ ~disposed
        /\ UNCHANGED <<clientVars, callVars, linkVars>>
      BY <1>4 DEF Dispose
  <2> HIDE DEF a
  <2>3. Fits(a)'
      BY <2>1, <2>2 DEF Fits, Calm
  <2>4. agenda' = <<a>> \o agenda /\ agenda \in Seq(Frames)
      BY <2>2 DEF Begin, IInv, TypeInv, AgendaType
  <2>5. agenda' # <<>> /\ Head(agenda') = a
      BY <2>1, <2>4
  <2>6. BeforeStart'
      BY <2>1, <2>5 DEF BeforeStart, Doing, Quiet
  <2> QED
      BY <1>1, <2>1, <2>2, <2>3, <2>6
<1>5. ASSUME NEW r \in Requests, Cancel(r) PROVE Order'
  <2> DEFINE a == Finish(r, "error", TRUE)
  <2>1. a \in Frames /\ a.op = "finish" /\ a.respond = TRUE /\ a.result = "error" /\ Calm(a)
    <3>1. "error" \in Results /\ TRUE \in BOOLEAN
        BY DEF Results
    <3>2. a \in Frames
        BY <3>1, FrameTypes
    <3> QED
        BY <3>2 DEF Finish, Calm
  <2>2. /\ Begin(<<a>>) /\ HostRuns /\ r \in Waiting
        /\ UNCHANGED <<clientVars, callVars, linkVars>>
      BY <1>5 DEF Cancel
  <2> HIDE DEF a
  <2>3. Fits(a)' /\ Resumes(a)
      BY <2>1 DEF Fits, Calm, Resumes
  <2>4. BeforeStart'
    <3>1. started' = started /\ disposed' = disposed
        BY <2>2 DEF clientVars
    <3>2. ASSUME ~started, ~disposed PROVE FALSE
      <4>1. Quiet
          BY <2>2, <3>2 DEF HostRuns, Order, TurnInOrder, BeforeStart, Doing
      <4>2. link.ready /\ ~link.opened
          BY <2>2, <3>2, <4>1, QuietFacts DEF Order, LinkInOrder, FieldsAgree
      <4> QED
          BY <4>2 DEF Order, LinkInOrder, FieldsAgree
    <3> QED
        BY <3>1, <3>2 DEF BeforeStart
  <2> QED
      BY <1>1, <2>1, <2>2, <2>3, <2>4
<1> QED
    BY <1>2, <1>3, <1>4, <1>5 DEF HostCalls

-----------------------------------------------------------------------------
(* What the client does within a turn. *)

\* #calls.delete takes out one call and keeps the others in their order.
LEMMA CallLeaves ==
    ASSUME IInv, Distinct, NEW r \in Waiting, calls' = CallsWithout(r)
    PROVE  Distinct' /\ Waiting' = Waiting \ {r}
<1> DEFINE i == CHOOSE j \in DOMAIN calls : calls[j] = r
           f == SubSeq(calls, 1, i - 1)
           s == SubSeq(calls, i + 1, Len(calls))
<1>1. /\ calls \in Seq(Requests) /\ i \in 1 .. Len(calls) /\ Len(calls) \in Nat
      /\ calls[i] = r
    BY DEF IInv, TypeInv, ClientType, Waiting
<1>2. calls' = f \o s
    BY DEF CallsWithout
<1> HIDE DEF i
<1>3. /\ f \in Seq(Requests) /\ Len(f) = i - 1
      /\ \A j \in 1 .. i - 1 : f[j] = calls[j]
      /\ s \in Seq(Requests) /\ Len(s) = Len(calls) - i
      /\ \A j \in 1 .. Len(calls) - i : s[j] = calls[i + j]
    BY <1>1, Slices
<1> HIDE DEF f, s
<1>4. /\ calls' \in Seq(Requests) /\ Len(calls') = Len(calls) - 1
      /\ \A j \in 1 .. Len(calls) - 1 :
            calls'[j] = IF j < i THEN calls[j] ELSE calls[j + 1]
  <2>1. /\ f \o s \in Seq(Requests) /\ Len(f \o s) = Len(f) + Len(s)
        /\ \A j \in 1 .. Len(f) + Len(s) :
              (f \o s)[j] = IF j <= Len(f) THEN f[j] ELSE s[j - Len(f)]
      BY <1>3, ConcatProperties
  <2>2. Len(f) + Len(s) = Len(calls) - 1
      BY <1>1, <1>3
  <2>3. ASSUME NEW j \in 1 .. Len(calls) - 1
        PROVE  (f \o s)[j] = IF j < i THEN calls[j] ELSE calls[j + 1]
    <3>1. CASE j < i
        BY <1>1, <1>3, <2>1, <2>2, <2>3, <3>1
    <3>2. CASE j >= i
      <4> DEFINE k == j - (i - 1)
      <4>1. k \in 1 .. Len(calls) - i /\ i + k = j + 1 /\ k = j - Len(f) /\ ~(j <= Len(f))
          BY <1>1, <1>3, <2>3, <3>2
      <4>2. j \in 1 .. Len(f) + Len(s)
          BY <2>2, <2>3
      <4> HIDE DEF k
      <4>3. (f \o s)[j] = s[k]
          BY <2>1, <4>1, <4>2
      <4>4. s[k] = calls[j + 1]
          BY <1>3, <4>1
      <4> QED
          BY <1>1, <2>3, <3>2, <4>3, <4>4
    <3>3. j < i \/ j >= i
        BY <1>1, <2>3
    <3> QED
        BY <3>1, <3>2, <3>3, Zenon
  <2> QED
      BY <1>2, <2>1, <2>2, <2>3
<1> DEFINE p(j) == IF j < i THEN j ELSE j + 1
<1>5. /\ DOMAIN calls' = 1 .. Len(calls) - 1 /\ DOMAIN calls = 1 .. Len(calls)
      /\ \A j \in DOMAIN calls' : p(j) \in DOMAIN calls /\ p(j) # i /\ calls'[j] = calls[p(j)]
    BY <1>1, <1>4
<1>6. Distinct'
  <2> SUFFICES ASSUME NEW j \in DOMAIN calls', NEW k \in DOMAIN calls', calls'[j] = calls'[k]
               PROVE  j = k
      BY DEF Distinct
  <2>1. p(j) = p(k)
      BY <1>5 DEF Distinct
  <2> QED
      BY <1>1, <1>5, <2>1
<1>7. \A q \in Waiting' : q \in Waiting \ {r}
    BY <1>1, <1>5 DEF Waiting, Distinct
<1>8. ASSUME NEW q \in Waiting, q # r PROVE q \in Waiting'
  <2>1. PICK j \in DOMAIN calls : calls[j] = q
      BY DEF Waiting
  <2>2. j # i /\ j \in 1 .. Len(calls)
      BY <1>1, <1>8, <2>1
  <2>3. CASE j < i
    <3>1. j \in DOMAIN calls' /\ calls'[j] = q
        BY <1>1, <1>4, <1>5, <2>1, <2>2, <2>3
    <3> QED
        BY <3>1 DEF Waiting
  <2>4. CASE j > i
    <3>1. j - 1 \in DOMAIN calls' /\ calls'[j - 1] = q
        BY <1>1, <1>4, <1>5, <2>1, <2>2, <2>4
    <3> QED
        BY <3>1 DEF Waiting
  <2> QED
      BY <1>1, <2>2, <2>3, <2>4
<1> QED
    BY <1>6, <1>7, <1>8

\* The innermost call is fit for what comes, and a turn only goes on once the
\* client was started or is disposed.
LEMMA HeadFits ==
    ASSUME IInv, Order, ~Quiet
    PROVE  /\ Head(agenda) \in Frames /\ Fits(Head(agenda))
           /\ Doing("release") \/ started \/ disposed
<1>1. Head(agenda) \in Frames /\ Elements(agenda) = {Head(agenda)} \cup Elements(Tail(agenda))
    BY Popped DEF Quiet, IInv, TypeInv, AgendaType
<1> QED
    BY <1>1 DEF Order, TurnInOrder, AllFit, BeforeStart

LEMMA ShowingOrder ==
    ASSUME IInv, Order, HostReturns \/ DoForget \/ DoPublish \/ DoObserve
    PROVE  Order'
<1> DEFINE h == Head(agenda)
           t == Tail(agenda)
<1>1. ~Quiet /\ UNCHANGED <<linkVars, callVars, started, calls, disposed>>
    BY DEF HostReturns, DoForget, DoPublish, DoObserve, Doing, clientVars
<1>2. h \in Frames /\ Fits(h) /\ (Doing("release") \/ started \/ disposed)
    BY <1>1, HeadFits
<1>3. /\ UNCHANGED <<link, call, executions, answers>> /\ Waiting' = Waiting
      /\ \A r \in Requests : Invoked(r)' <=> Invoked(r)
    BY <1>1 DEF linkVars, callVars, Waiting, Invoked
<1>4. ASSUME HostReturns \/ DoForget PROVE Order'
  <2> DEFINE e == <<>>
  <2>1. /\ h.op \in {"host", "forget"} /\ Go(e) /\ status' = status /\ shown' = shown
      BY <1>4 DEF HostReturns, DoForget, Doing, clientVars
  <2>2. e \in Seq(Frames) /\ Elements(e) = {} /\ e = <<>>
      BY ShortSequences
  <2>3. Leaves(e, t)
      BY <1>1, <2>1, <2>2 DEF Leaves, HeadOnly, Go
  <2> HIDE DEF e
  <2>4. Announced' = Announced
      BY <1>1, <2>1, <2>2, <2>3, AnnouncedNext, AnnouncedNow
  <2>5. BeforeStart' /\ ~Doing("release")
      BY <1>1, <1>2, <2>1 DEF BeforeStart, Doing
  <2>6. TurnInOrder' /\ LinkInOrder' /\ StatusAgrees' /\ Bounded'
      BY <1>1, <1>3, <2>1, <2>2, <2>3, <2>4, <2>5, ClientTurn
  <2>7. DisposalGoesOn' /\ CallsInOrder'
      BY <1>1, <2>1, <2>2, <2>3, ClientRests
  <2> QED
      BY <2>6, <2>7 DEF Order
<1>5. CASE DoPublish
  <2> DEFINE f == <<Host>>
  <2>1. /\ h.op = "publish" /\ Go(f) /\ shown' = Len(calls)
        /\ status' = IF h.status = "same" THEN status ELSE h.status
      BY <1>5 DEF DoPublish, Doing
  <2>2. f \in Seq(Frames) /\ Elements(f) = {Host} /\ f # <<>> /\ Head(f) = Host
      BY FrameTypes, ShortSequences
  <2>3. Host.op = "host"
      BY Ops
  <2>4. Leaves(f, t)
      BY <1>1, <2>1, <2>2 DEF Leaves, HeadOnly, Go
  <2> HIDE DEF f
  <2>5. Announced' = status'
      BY <2>2, <2>3, <2>4, AnnouncedNext, Announcements
  <2>6. Announced' = Announced \/ disposed'
    <3>1. CASE Calm(h)
      <4>1. h.status \in {"same", "disposed"}
          BY <2>1, <3>1 DEF Calm
      <4> QED
          BY <1>1, <1>2, <2>1, <2>5, <3>1, <4>1, AnnouncedNow DEF Fits
    <3>2. CASE ~Calm(h)
      <4>1. h.status # "same"
          BY <2>1, <3>2 DEF Calm
      <4> QED
          BY <1>1, <2>1, <2>5, <3>2, <4>1, AnnouncedNow
    <3> QED
        BY <3>1, <3>2
  <2>7. BeforeStart' /\ ~Doing("release")
      BY <1>1, <1>2, <2>1 DEF BeforeStart, Doing
  <2>8. TurnInOrder' /\ LinkInOrder' /\ StatusAgrees' /\ Bounded'
    <3>1. Fits(Host)'
        BY <2>3 DEF Fits, Calm
    <3> QED
        BY <1>1, <1>3, <2>1, <2>2, <2>3, <2>4, <2>6, <2>7, <3>1, ClientTurn
  <2>9. /\ f \in Seq(Frames) /\ t \in Seq(Frames) /\ agenda' = f \o t
        /\ Elements(agenda') = {Host} \cup Elements(t)
        /\ t = agenda \/ Elements(agenda) = {h} \cup Elements(t)
        /\ Disposing(agenda) => Disposing(t)
      BY <2>1, <2>2, <2>4, Left DEF Leaves, Doing
  <2>10. \A r : Ended(r) => Ended(r)'
      BY <2>1, <2>9 DEF Ended
  <2>11. DisposalGoesOn'
    <3> SUFFICES ASSUME disposed
                 PROVE  /\ \/ status' = "disposed"
                           \/ \E x \in Elements(agenda') :
                                  x.op = "publish" /\ x.status = "disposed"
                        /\ \A r \in Waiting' : Ended(r)'
                        /\ link'.disposed \/ Disposing(agenda')
        BY <1>1 DEF DisposalGoesOn
    <3>1. h.status \in {"same", "disposed"}
        BY <1>2, <2>1 DEF Fits, Calm
    <3>2. \/ status' = "disposed"
          \/ \E x \in Elements(agenda') : x.op = "publish" /\ x.status = "disposed"
      <4>1. CASE h.status = "disposed"
          BY <2>1, <4>1
      <4>2. CASE h.status = "same"
          BY <2>1, <2>9, <4>2 DEF Order, DisposalGoesOn
      <4> QED
          BY <3>1, <4>1, <4>2
    <3>3. \A r \in Waiting' : Ended(r)'
        BY <1>3, <2>10 DEF Order, DisposalGoesOn
    <3>4. ASSUME ~link'.disposed PROVE Disposing(agenda')
      <4>1. Disposing(t)
          BY <1>3, <2>9, <3>4 DEF Order, DisposalGoesOn
      <4>2. \A x \in Elements(f) : Resumes(x)
          BY <2>2, <2>3 DEF Resumes
      <4> QED
          BY <2>9, <4>1, <4>2, DisposingWaits
    <3> QED
        BY <3>2, <3>3, <3>4
  <2>12. CallsInOrder'
    <3>1. Distinct'
        BY <1>1 DEF Order, CallsInOrder, Distinct
    <3>2. WaitingCurrent'
        BY <1>3, <2>1, <2>9, <2>10 DEF Order, CallsInOrder, WaitingCurrent
    <3>3. ShownPending'
        BY <1>1, <2>1 DEF ShownPending
    <3>4. Answered'
        BY <1>3, <2>1, <2>9 DEF Order, CallsInOrder, Answered
    <3> QED
        BY <3>1, <3>2, <3>3, <3>4 DEF CallsInOrder
  <2> QED
      BY <2>8, <2>11, <2>12 DEF Order
<1>6. CASE DoObserve
  <2>0. PICK s : s = h.status
      OBVIOUS
  <2> DEFINE a == Publish(s)
             b == AbortAll(FALSE)
  <2>1. /\ h.op = "observe" /\ ~Calm(h) /\ ~disposed
        /\ s \in Statuses \ {"disposed"} /\ (s = "ready" <=> link.ready)
    <3>1. h.op = "observe"
        BY <1>6 DEF DoObserve, Doing
    <3> QED
        BY <1>2, <2>0, <3>1, FrameFields DEF Fits, Calm
  <2>2. /\ s = "ready" => Go(<<a>>)
        /\ s # "ready" => Go(<<a, b>>)
        /\ status' = status /\ shown' = shown
      BY <1>6, <2>1, <2>0 DEF DoObserve, Observed, clientVars
  <2>3. /\ a \in Frames /\ b \in Frames /\ a.op = "publish" /\ a.status = s
        /\ b.op = "abort" /\ b.respond = FALSE /\ ~Calm(a) /\ Calm(b)
      BY <2>1, FrameTypes, Ops, Fields DEF Calm, Statuses
  <2> HIDE DEF a, b
  <2>4. /\ <<a>> \in Seq(Frames) /\ Elements(<<a>>) = {a} /\ HeadOnly(<<a>>)
        /\ <<a, b>> \in Seq(Frames) /\ Elements(<<a, b>>) = {a, b} /\ HeadOnly(<<a, b>>)
      BY <2>3, ShortSequences DEF HeadOnly
  <2>5. PICK f : /\ Leaves(f, t) /\ f # <<>> /\ Head(f) = a
                 /\ a \in Elements(f) /\ Elements(f) \subseteq {a, b}
                 /\ s = "ready" \/ b \in Elements(f)
                 /\ s = "ready" => Elements(f) = {a}
    <3>1. CASE s = "ready"
      <4>1. Leaves(<<a>>, t)
          BY <1>1, <2>2, <2>4, <3>1 DEF Leaves, Go
      <4>2. <<a>> # <<>> /\ Head(<<a>>) = a
          OBVIOUS
      <4> QED
          BY <2>4, <3>1, <4>1, <4>2
    <3>2. CASE s # "ready"
      <4>1. Leaves(<<a, b>>, t)
          BY <1>1, <2>2, <2>4, <3>2 DEF Leaves, Go
      <4>2. <<a, b>> # <<>> /\ Head(<<a, b>>) = a
          OBVIOUS
      <4> QED
          BY <2>4, <3>2, <4>1, <4>2
    <3> QED
        BY <3>1, <3>2
  <2>6. Announced' = s /\ Announced = s
    <3>1. Head(f) = Publish(s)
        BY <2>5 DEF a
    <3> QED
        BY <1>1, <2>1, <2>5, <2>0, <3>1, AnnouncedNext, AnnouncedNow, Announcements
  <2>7. BeforeStart' /\ ~Doing("release")
      BY <1>1, <1>2, <2>1 DEF BeforeStart, Doing
  <2>8. TurnInOrder' /\ LinkInOrder' /\ StatusAgrees' /\ Bounded'
    <3>1. Fits(a)' /\ (b \in Elements(f) => Fits(b)')
      <4>1. Fits(a)'
          BY <1>1, <2>1, <2>3 DEF Fits, Calm, Statuses
      <4>2. b \in Elements(f) => ~link.ready
        <5>1. CASE s = "ready"
          <6>1. b \notin Elements(f)
              BY <2>3, <2>5, <5>1
          <6> QED
              BY <6>1
        <5>2. CASE s # "ready"
            BY <2>1, <5>2
        <5> QED
            BY <5>1, <5>2
      <4>3. b \in Elements(f) => Fits(b)'
          BY <1>3, <2>3, <4>2 DEF Fits, Calm
      <4> QED
          BY <4>1, <4>3
    <3> QED
        BY <1>1, <1>3, <2>1, <2>3, <2>5, <2>6, <2>7, <3>1, ClientTurn
  <2>9. /\ Elements(agenda') = Elements(f) \cup Elements(t)
        /\ t = agenda \/ Elements(agenda) = {h} \cup Elements(t)
        /\ \A x \in Elements(t) : Calm(x)
      BY <2>5, Left
  <2>10. DisposalGoesOn'
      BY <1>1, <2>1 DEF DisposalGoesOn
  <2>11. CallsInOrder'
    <3>1. Distinct'
        BY <1>1 DEF Order, CallsInOrder, Distinct
    <3>2. WaitingCurrent'
      <4> SUFFICES ASSUME NEW r \in Waiting, s = "ready" \/ ~Ended(r)'
                   PROVE  call[r].generation = link.generation \/ Ended(r)'
          BY <1>3 DEF WaitingCurrent
      <4>1. s = "ready"
          BY <2>3, <2>5, <2>9 DEF Ended
      <4>2. Ended(r) => Ended(r)'
          BY <2>1, <2>9 DEF Ended
      <4>3. \A x \in Elements(agenda) : x.op = "observe" => x.status = "ready"
          BY <2>9, <2>0, <4>1 DEF Calm
      <4> QED
          BY <4>2, <4>3 DEF Order, CallsInOrder, WaitingCurrent
    <3>3. ShownPending'
        BY <2>3, <2>5, <2>9 DEF ShownPending, Pending
    <3>4. Answered'
        BY <1>3, <2>1, <2>9 DEF Order, CallsInOrder, Answered
    <3> QED
        BY <3>1, <3>2, <3>3, <3>4 DEF CallsInOrder
  <2> QED
      BY <2>8, <2>10, <2>11 DEF Order
<1> QED
    BY <1>4, <1>5, <1>6

LEMMA EndingOrder ==
    ASSUME IInv, Order, DoAbort \/ DoFinish
    PROVE  Order'
<1> DEFINE h == Head(agenda)
           t == Tail(agenda)
<1>1. ~Quiet /\ UNCHANGED <<linkVars, callVars, started, disposed, status, shown>>
    BY DEF DoAbort, DoFinish, Doing, clientVars
<1>2. h \in Frames /\ Fits(h) /\ (Doing("release") \/ started \/ disposed)
    BY <1>1, HeadFits
<1>3. /\ UNCHANGED <<link, call, executions, answers>>
      /\ \A r \in Requests : Invoked(r)' <=> Invoked(r)
    BY <1>1 DEF linkVars, callVars, Invoked
<1>4. h.op \in {"abort", "finish"}
    BY DEF DoAbort, DoFinish, Doing
<1>5. BeforeStart' /\ ~Doing("release")
    BY <1>1, <1>2, <1>4 DEF BeforeStart, Doing
\* What both leave behind are listeners, responses and ends of calls.
<1>6. ASSUME NEW f, Leaves(f, t),
             \A x \in Elements(f) : Resumes(x) /\ Calm(x) /\ Fits(x)',
             \A r \in Waiting' : r \in Waiting,
             \A r \in Waiting' : Ended(r) => Ended(r)',
             Distinct', ShownPending', Answered'
      PROVE  Order'
  <2>1. /\ f \in Seq(Frames) /\ t \in Seq(Frames) /\ agenda' = f \o t
        /\ Elements(agenda') = Elements(f) \cup Elements(t)
        /\ t = agenda \/ Elements(agenda) = {h} \cup Elements(t)
        /\ Disposing(agenda) => Disposing(t)
      BY <1>4, <1>6, Left DEF Leaves, Doing
  <2>2. Announced' = Announced
    <3>1. Announced = status
        BY <1>1, <1>4, AnnouncedNow DEF Calm
    <3>2. CASE f = <<>>
        BY <1>1, <1>6, <3>1, <3>2, AnnouncedNext
    <3>3. CASE f # <<>>
      <4>1. Head(f) \in Elements(f)
          BY <2>1, <3>3, Popped
      <4> QED
          BY <1>1, <1>6, <3>1, <3>3, <4>1, AnnouncedNext, Announcements
    <3> QED
        BY <3>2, <3>3
  <2>3. \A x \in Elements(f) : x.op \notin {"open", "register", "connect"}
      BY <1>6 DEF Resumes
  <2>4. TurnInOrder' /\ LinkInOrder' /\ StatusAgrees' /\ Bounded'
      BY <1>1, <1>4, <1>5, <1>6, <2>2, <2>3, ClientTurn
  <2>5. DisposalGoesOn'
    <3> SUFFICES ASSUME disposed
                 PROVE  /\ \/ status' = "disposed"
                           \/ \E x \in Elements(agenda') :
                                  x.op = "publish" /\ x.status = "disposed"
                        /\ \A r \in Waiting' : Ended(r)'
                        /\ link'.disposed \/ Disposing(agenda')
        BY <1>1 DEF DisposalGoesOn
    <3>1. \/ status' = "disposed"
          \/ \E x \in Elements(agenda') : x.op = "publish" /\ x.status = "disposed"
        BY <1>1, <1>4, <2>1 DEF Order, DisposalGoesOn
    <3>2. \A r \in Waiting' : Ended(r)'
        BY <1>6 DEF Order, DisposalGoesOn
    <3>3. ASSUME ~link'.disposed PROVE Disposing(agenda')
      <4>1. Disposing(t)
          BY <1>3, <2>1, <3>3 DEF Order, DisposalGoesOn
      <4> QED
          BY <1>6, <2>1, <4>1, DisposingWaits
    <3> QED
        BY <3>1, <3>2, <3>3
  <2>6. WaitingCurrent'
    <3> SUFFICES ASSUME NEW r \in Waiting', ~Ended(r)',
                        call[r].generation # link.generation
                 PROVE  \E f2 \in Elements(agenda') : f2.op = "observe" /\ f2.status # "ready"
        BY <1>3 DEF WaitingCurrent
    <3>1. r \in Waiting /\ ~Ended(r)
        BY <1>6
    <3> QED
        BY <1>4, <2>1, <3>1 DEF Order, CallsInOrder, WaitingCurrent
  <2> QED
      BY <1>6, <2>4, <2>5, <2>6 DEF Order, CallsInOrder
<1>7. CASE DoAbort
  <2>1. PICK b : b = h.respond
      OBVIOUS
  <2> DEFINE f == [i \in DOMAIN calls |-> Finish(calls[i], "error", b)]
  <2>2. h.op = "abort" /\ b \in BOOLEAN /\ (b \/ ~link.ready) /\ Go(f) /\ UNCHANGED clientVars
    <3>1. h.op = "abort"
        BY <1>7 DEF DoAbort, Doing
    <3> QED
        BY <1>2, <1>7, <2>1, <3>1, FrameFields DEF DoAbort, Fits
  <2>3. calls \in Seq(Requests) /\ "error" \in Results
      BY DEF IInv, TypeInv, ClientType, Results
  <2>4. \A i \in DOMAIN calls :
            /\ f[i] \in Frames /\ f[i].op = "finish" /\ f[i].request = calls[i]
            /\ f[i].result = "error" /\ f[i].respond = b
    <3> SUFFICES ASSUME NEW i \in DOMAIN calls
                 PROVE  /\ f[i] \in Frames /\ f[i].op = "finish" /\ f[i].request = calls[i]
                        /\ f[i].result = "error" /\ f[i].respond = b
        OBVIOUS
    <3>1. calls[i] \in Requests /\ f[i] = Finish(calls[i], "error", b)
        BY <2>3
    <3>2. f[i] \in Frames
        BY <2>2, <2>3, <3>1, FrameTypes
    <3> QED
        BY <3>1, <3>2 DEF Finish
  <2>5. DOMAIN f = 1 .. Len(calls) /\ Len(calls) \in Nat /\ DOMAIN calls = 1 .. Len(calls)
      BY <2>3
  <2>6. f = [i \in 1 .. Len(calls) |-> f[i]]
      BY <2>5
  <2> HIDE DEF f
  <2>7. f \in Seq(Frames)
    <3>1. \A i \in 1 .. Len(calls) : f[i] \in Frames
        BY <2>4, <2>5
    <3> QED
        BY <2>5, <2>6, <3>1, IsASeq
  <2>8. /\ \A x \in Elements(f) : x.op = "finish" /\ x.result = "error" /\ x.respond = b
        /\ \A r \in Waiting : \E x \in Elements(f) : x.op = "finish" /\ x.request = r
      BY <2>4, <2>5 DEF Elements, Waiting
  <2>9. \A x \in Elements(f) : Resumes(x) /\ Calm(x) /\ Fits(x)'
      BY <1>3, <2>2, <2>8 DEF Resumes, Calm, Fits
  <2>10. Leaves(f, t)
    <3>1. HeadOnly(f)
        BY <2>9 DEF HeadOnly, Elements
    <3> QED
        BY <1>1, <2>2, <2>7, <3>1 DEF Leaves, Go
  <2>11. calls' = calls /\ Waiting' = Waiting
      BY <2>2 DEF clientVars, Waiting
  <2>12. /\ Elements(agenda') = Elements(f) \cup Elements(t)
         /\ t = agenda \/ Elements(agenda) = {h} \cup Elements(t)
      BY <2>10, Left
  <2>13. \A r \in Waiting' : Ended(r)'
      BY <2>8, <2>11, <2>12 DEF Ended
  <2>14. Distinct' /\ ShownPending'
      BY <1>1, <2>2, <2>11, <2>12 DEF Order, CallsInOrder, Distinct, ShownPending, Pending
  <2>15. Answered'
      BY <1>3, <2>2, <2>11, <2>12 DEF Order, CallsInOrder, Answered
  <2> QED
      BY <1>6, <2>9, <2>10, <2>11, <2>13, <2>14, <2>15
<1>8. CASE DoFinish
  <2>1. PICK r, res, b : r = h.request /\ res = h.result /\ b = h.respond
      OBVIOUS
  <2>2. /\ h.op = "finish" /\ r \in Requests /\ res \in Results /\ b \in BOOLEAN
        /\ b \/ ~link.ready
        /\ res = "ok" => ~call[r].due /\ executions[r] = 1
    <3>1. h.op = "finish"
        BY <1>8 DEF DoFinish, Doing
    <3> QED
        BY <1>2, <2>1, <3>1, FrameFields DEF Fits
  <2>3. CASE r \notin Waiting
    <3> DEFINE e == <<>>
    <3>1. Go(e) /\ calls' = calls /\ Waiting' = Waiting
        BY <1>8, <2>1, <2>3 DEF DoFinish, Waiting
    <3>2. e \in Seq(Frames) /\ Elements(e) = {}
        BY ShortSequences
    <3>3. Leaves(e, t)
        BY <1>1, <3>1, <3>2 DEF Leaves, HeadOnly, Go
    <3> HIDE DEF e
    <3>4. /\ Elements(agenda') = Elements(t)
          /\ t = agenda \/ Elements(agenda) = {h} \cup Elements(t)
        BY <3>2, <3>3, Left
    <3>5. \A q \in Waiting' : Ended(q) => Ended(q)'
        BY <2>1, <2>2, <2>3, <3>1, <3>4 DEF Ended
    <3>6. Distinct' /\ ShownPending'
        BY <1>1, <2>2, <3>1, <3>4 DEF Order, CallsInOrder, Distinct, ShownPending, Pending
    <3>7. Answered'
      <4>1. Answered /\ UNCHANGED <<call, answers, executions, link>> /\ Waiting' = Waiting
          BY <1>1, <1>3, <3>1 DEF Order, CallsInOrder
      <4>2. \A q \in Requests :
               (\E x \in Elements(agenda) : x.op = "respond" /\ x.request = q)
                 => \E x \in Elements(agenda') : x.op = "respond" /\ x.request = q
          BY <2>2, <3>4
      <4>3. QED
          BY <4>1, <4>2 DEF Answered, Invoked
    <3> QED
        BY <1>6, <3>1, <3>2, <3>3, <3>5, <3>6, <3>7
  <2>4. CASE r \in Waiting
    <3> DEFINE a == Host
               p == Republish
               c == Respond(r, res)
    <3>1. /\ a \in Frames /\ a.op = "host"
          /\ p \in Frames /\ p.op = "publish" /\ p.status = "same"
          /\ c \in Frames /\ c.op = "respond" /\ c.request = r /\ c.result = res
        BY <2>2, FrameTypes, Ops, Fields DEF Republish
    <3> DEFINE u == <<a, p>>
               v == <<c>>
               e == <<>>
    <3>2. /\ b => Go(u \o v)
          /\ ~b => Go(u \o e)
          /\ calls' = CallsWithout(r)
        BY <1>8, <2>1, <2>4 DEF DoFinish, Finished
    <3> HIDE DEF a, p, c
    <3>3. /\ u \in Seq(Frames) /\ Elements(u) = {a, p}
          /\ v \in Seq(Frames) /\ Elements(v) = {c}
          /\ e \in Seq(Frames) /\ Elements(e) = {}
        BY <3>1, ShortSequences
    <3> HIDE DEF u, v, e
    <3>4. /\ u \o v \in Seq(Frames) /\ Elements(u \o v) = {a, p} \cup {c}
          /\ u \o e \in Seq(Frames) /\ Elements(u \o e) = {a, p} \cup {}
        BY <3>3, Concatenation
    <3>5. PICK f \in Seq(Frames) :
             /\ Go(f) /\ Elements(f) \subseteq {a, p, c} /\ p \in Elements(f)
             /\ b => c \in Elements(f)
      <4>1. CASE b
          BY <3>2, <3>4, <4>1
      <4>2. CASE ~b
          BY <3>2, <3>4, <4>2
      <4> QED
          BY <4>1, <4>2
    <3>6. Distinct' /\ Waiting' = Waiting \ {r}
        BY <2>4, <3>2, CallLeaves DEF Order, CallsInOrder
    <3>7. \A x \in Elements(f) : Resumes(x) /\ Calm(x) /\ Fits(x)'
      <4>1. Resumes(a) /\ Calm(a) /\ Fits(a)'
          BY <3>1 DEF Resumes, Calm, Fits, a
      <4>2. Resumes(p) /\ Calm(p) /\ Fits(p)'
          BY <3>1 DEF Resumes, Calm, Fits, p
      <4>3. Resumes(c) /\ Calm(c) /\ Fits(c)'
          BY <1>3, <2>2, <3>1, <3>6 DEF Resumes, Calm, Fits, c
      <4> QED
          BY <3>5, <4>1, <4>2, <4>3
    <3>8. Leaves(f, t)
      <4>1. HeadOnly(f)
          BY <3>7 DEF HeadOnly, Elements
      <4> QED
          BY <1>1, <3>5, <4>1 DEF Leaves, Go
    <3>9. /\ Elements(agenda') = Elements(f) \cup Elements(t)
          /\ t = agenda \/ Elements(agenda) = {h} \cup Elements(t)
        BY <3>8, Left
    <3>10. \A q \in Waiting' : q \in Waiting /\ (Ended(q) => Ended(q)')
        BY <2>1, <2>2, <3>6, <3>9 DEF Ended
    <3>11. ShownPending'
        BY <3>1, <3>5, <3>9 DEF ShownPending, Pending
    <3>12. Answered'
      <4> SUFFICES ASSUME NEW q \in Requests
                   PROVE  /\ q \in Waiting' => ~call[q].sent
                          /\ call[q].sent => Len(answers[q]) = 1
                          /\ call[q].stage = "executing" => executions[q] = 1
                          /\ Invoked(q) /\ call[q].generation = link.generation
                                /\ q \notin Waiting'
                             => \/ call[q].sent
                                \/ \E x \in Elements(agenda') : x.op = "respond" /\ x.request = q
          BY <1>3 DEF Answered
      <4>1. CASE q = r
        <5>1. ASSUME Invoked(r), call[r].generation = link.generation
              PROVE  b
            BY <2>2, <5>1 DEF Order, LinkInOrder, CallsCurrent
        <5> QED
            BY <2>4, <3>1, <3>5, <3>6, <3>9, <4>1, <5>1 DEF Order, CallsInOrder, Answered
      <4>2. CASE q # r
          BY <2>2, <3>6, <3>9, <4>2 DEF Order, CallsInOrder, Answered
      <4> QED
          BY <4>1, <4>2
    <3> QED
        BY <1>6, <3>6, <3>7, <3>8, <3>10, <3>11, <3>12
  <2> QED
      BY <2>3, <2>4
<1> QED
    BY <1>7, <1>8

LEMMA ReleaseOrder ==
    ASSUME IInv, Order, DoRelease
    PROVE  Order'
<1> DEFINE h == Head(agenda)
           t == Tail(agenda)
<1>1. /\ ~Quiet /\ h.op = "release"
      /\ UNCHANGED <<linkVars, callVars, started, calls, status, shown>>
    BY DEF DoRelease, Doing
<1>2. Announced = status
    BY <1>1, AnnouncedNow
<1>3. Waiting' = Waiting
    BY <1>1 DEF Waiting
<1>4. CASE disposed
  <2> DEFINE e == <<>>
  <2>1. Go(e) /\ disposed' = disposed
      BY <1>4 DEF DoRelease
  <2>2. e \in Seq(Frames) /\ Elements(e) = {} /\ e = <<>>
      BY ShortSequences
  <2>3. Leaves(e, t)
      BY <1>1, <2>1, <2>2 DEF Leaves, HeadOnly, Go
  <2> HIDE DEF e
  <2>4. Announced' = Announced
      BY <1>1, <1>2, <2>2, <2>3, AnnouncedNext
  <2>5. BeforeStart'
      BY <1>4, <2>1 DEF BeforeStart
  <2>6. TurnInOrder' /\ LinkInOrder' /\ StatusAgrees' /\ Bounded'
      BY <1>1, <1>3, <1>4, <2>1, <2>2, <2>3, <2>4, <2>5, ClientTurn
  <2>7. DisposalGoesOn' /\ CallsInOrder'
      BY <1>1, <2>1, <2>2, <2>3, ClientRests
  <2> QED
      BY <2>6, <2>7 DEF Order
<1>5. CASE ~disposed
  <2> DEFINE a == AbortAll(TRUE)
             b == DisposeTransport
             c == Publish("disposed")
             d == Forget
             f == <<a, b, c, d>>
  <2>1. Go(f) /\ disposed' = TRUE
      BY <1>5 DEF DoRelease, Releasing
  <2>2. /\ a \in Frames /\ b \in Frames /\ c \in Frames /\ d \in Frames
        /\ a.op = "abort" /\ a.respond = TRUE /\ b.op = "disposeTransport"
        /\ c.op = "publish" /\ c.status = "disposed" /\ d.op = "forget"
      BY FrameTypes, Ops, Fields DEF Statuses
  <2> HIDE DEF a, b, c, d
  <2>3. f \in Seq(Frames) /\ Elements(f) = {a, b, c, d}
      BY <2>2, ShortSequences
  <2>4. /\ Calm(a) /\ Calm(b) /\ Calm(c) /\ Calm(d) /\ Resumes(a)
        /\ Fits(a)' /\ Fits(b)' /\ Fits(c)' /\ Fits(d)'
      BY <2>1, <2>2 DEF Calm, Resumes, Fits, a, b, c, d
  <2>5. HeadOnly(f) /\ f # <<>> /\ Head(f) = a
      BY <2>4 DEF HeadOnly
  <2>6. Disposing(f)
    <3>1. 2 \in DOMAIN f /\ f[2] = b /\ \A j \in 1 .. 2 - 1 : f[j] = a
        OBVIOUS
    <3> QED
        BY <2>2, <2>4, <3>1 DEF Disposing
  <2> HIDE DEF f
  <2>7. Leaves(f, t)
      BY <1>1, <2>1, <2>3, <2>5 DEF Leaves, Go
  <2>8. Announced' = Announced
      BY <1>1, <1>2, <2>4, <2>5, <2>7, AnnouncedNext, Announcements
  <2>9. BeforeStart'
      BY <2>1 DEF BeforeStart
  <2>10. TurnInOrder' /\ LinkInOrder' /\ StatusAgrees' /\ Bounded'
      BY <1>1, <1>3, <2>1, <2>2, <2>3, <2>4, <2>7, <2>8, <2>9, ClientTurn
  <2>11. /\ Elements(agenda') = {a, b, c, d} \cup Elements(t) /\ agenda' = f \o t
         /\ t \in Seq(Frames) /\ f \in Seq(Frames)
         /\ t = agenda \/ Elements(agenda) = {h} \cup Elements(t)
      BY <2>3, <2>7, Left DEF Leaves
  <2>12. \A r : Ended(r)'
      BY <2>2, <2>11 DEF Ended
  <2>13. DisposalGoesOn'
    <3>1. Disposing(agenda')
        BY <2>6, <2>11, DisposingBegins
    <3>2. \E x \in Elements(agenda') : x.op = "publish" /\ x.status = "disposed"
        BY <2>2, <2>11
    <3> QED
        BY <2>12, <3>1, <3>2 DEF DisposalGoesOn
  <2>14. CallsInOrder'
    <3>1. Distinct' /\ WaitingCurrent'
        BY <1>1, <2>12 DEF Order, CallsInOrder, Distinct, WaitingCurrent
    <3>2. ShownPending'
        BY <2>2, <2>11 DEF ShownPending, Pending
    <3>3. Answered'
      <4>1. /\ UNCHANGED <<link, call, executions, answers>>
            /\ \A r \in Requests : Invoked(r)' <=> Invoked(r)
          BY <1>1 DEF linkVars, callVars, Invoked
      <4> QED
          BY <1>1, <1>3, <2>11, <4>1 DEF Order, CallsInOrder, Answered
    <3> QED
        BY <3>1, <3>2, <3>3 DEF CallsInOrder
  <2> QED
      BY <2>10, <2>13, <2>14 DEF Order
<1> QED
    BY <1>4, <1>5

-----------------------------------------------------------------------------
(* What the transport does within a turn, and between turns. *)

\* Frames that stay for later fit when the step is over.
LEMMA TurnGoesOn ==
    ASSUME IInv, Order, NEW f, NEW t, Leaves(f, t), UNCHANGED clientVars,
           \A r \in Requests : call'[r].due = call[r].due /\ executions'[r] = executions[r],
           link'.ready => link.ready \/ t = <<>>,
           \A x \in Elements(f) : Fits(x)' /\ x.op # "open",
           \A x \in Elements(t) : x.op \in {"open", "connect", "emit"} => Fits(x)',
           (\A x \in Elements(f) : ~Outermost(x)) \/ (t = <<>> /\ OpenLast(f)),
           started \/ disposed
    PROVE  TurnInOrder' /\ Elements(agenda') = Elements(f) \cup Elements(t)
<1>1. /\ HeadOnly(agenda') /\ f \in Seq(Frames) /\ agenda' = f \o t /\ t \in Seq(Frames)
      /\ Elements(agenda') = Elements(f) \cup Elements(t)
      /\ \A x \in Elements(t) : x \in Frames /\ Calm(x) /\ Fits(x)
      /\ t = agenda \/ Elements(agenda) = {Head(agenda)} \cup Elements(t)
      /\ (\A x \in Elements(f) : ~Outermost(x)) => OpenLast(agenda')
    BY Left DEF Leaves
<1>2. OpenLast(agenda')
  <2>1. CASE t = <<>> /\ OpenLast(f)
    <3>1. agenda' = f
        BY <1>1, <2>1, ConcatEmptySeq
    <3> QED
        BY <2>1, <3>1
  <2> QED
      BY <1>1, <2>1
<1>3. /\ UNCHANGED <<disposed, started, status>> /\ Waiting' = Waiting
      /\ Pending("open")' => Pending("open")
  <2>1. UNCHANGED <<disposed, started, status>> /\ Waiting' = Waiting
      BY DEF clientVars, Waiting
  <2> QED
      BY <1>1, <2>1 DEF Pending
<1>4. ASSUME NEW x \in Elements(t), x.op \notin {"open", "connect", "emit"} PROVE Fits(x)'
  <2>1. x \in Frames /\ Calm(x) /\ Fits(x) /\ t # <<>>
      BY <1>1, <1>4, ShortSequences
  <2>2. link'.ready => link.ready
      BY <2>1
  <2>3. x.op \in {"finish", "respond"} => x.request \in Requests
      BY <2>1, FrameFields
  <2>4. x.op = "disposeTransport" => disposed' \/ (~link'.ready /\ ~Pending("open")')
      BY <1>3, <2>1, <2>2 DEF Fits
  <2>5. x.op \in {"abort", "finish"} => (x.respond \/ ~link'.ready)
      BY <2>1, <2>2 DEF Fits
  <2>6. x.op \in {"finish", "respond"} =>
            (x.result = "ok" => ~call'[x.request].due /\ executions'[x.request] = 1)
      BY <2>1, <2>3 DEF Fits
  <2>7. x.op = "respond" => x.request \notin Waiting'
      BY <1>3, <2>1 DEF Fits
  <2>8. x.op = "publish" => (x.status = "disposed" => disposed')
      BY <1>3, <2>1 DEF Fits
  <2>9. x.op \notin {"observe", "register", "retry"}
      BY <2>1 DEF Calm
  <2> QED
      BY <1>4, <2>1, <2>4, <2>5, <2>6, <2>7, <2>8, <2>9 DEF Fits
<1>5. AllFit'
    BY <1>1, <1>4 DEF AllFit
<1>6. BeforeStart'
    BY <1>3 DEF BeforeStart
<1> QED
    BY <1>1, <1>2, <1>5, <1>6 DEF TurnInOrder

\* A step of the transport that settles nothing: when it advances the generation,
\* the calls of the old one are ended in this turn.
LEMMA LinkRests ==
    ASSUME IInv, Order, NEW f, NEW t, Leaves(f, t), UNCHANGED <<clientVars, callVars>>,
           \/ t = agenda
           \/ Head(agenda).op \notin {"publish", "abort", "finish", "respond", "observe"},
           disposed => link'.disposed,
           \/ link'.generation = link.generation
           \/ /\ link'.generation = link.generation + 1
              /\ \/ \E x \in Elements(f) : x.op = "observe" /\ x.status # "ready"
                 \/ \A r \in Waiting : call[r].generation = link.generation => Ended(r)
    PROVE  DisposalGoesOn' /\ CallsInOrder'
<1>1. /\ Elements(agenda') = Elements(f) \cup Elements(t)
      /\ t = agenda \/ Elements(agenda) = {Head(agenda)} \cup Elements(t)
    BY Left
<1>2. /\ UNCHANGED <<call, executions, answers, calls, shown, status, disposed>>
      /\ Waiting' = Waiting
      /\ \A r \in Requests : Invoked(r)' <=> Invoked(r)
    BY DEF clientVars, callVars, Waiting, Invoked
<1>3. \A x \in Elements(agenda) :
          x.op \in {"publish", "abort", "finish", "respond", "observe"}
              => x \in Elements(agenda')
    BY <1>1
<1>4. \A r : Ended(r) => Ended(r)'
    BY <1>3 DEF Ended
<1>5. DisposalGoesOn'
    BY <1>2, <1>3, <1>4 DEF Order, DisposalGoesOn
<1>6. Distinct' /\ ShownPending'
    BY <1>2, <1>3 DEF Order, CallsInOrder, Distinct, ShownPending, Pending
<1>7. WaitingCurrent'
    BY <1>1, <1>2, <1>3, <1>4 DEF Order, CallsInOrder, WaitingCurrent
<1>8. Answered'
  <2>1. CASE link'.generation = link.generation
      BY <1>2, <1>3, <2>1 DEF Order, CallsInOrder, Answered
  <2>2. CASE link'.generation = link.generation + 1
    <3>1. ASSUME NEW r \in Requests, Invoked(r) PROVE call[r].generation # link'.generation
      <4>1. call[r].generation <= link.generation
          BY <3>1 DEF Order, LinkInOrder, CallsCurrent
      <4>2. call[r].generation \in Nat /\ link.generation \in Nat
          BY DEF IInv, TypeInv, CallType, CallRecord, LinkType, LinkRecord
      <4> QED
          BY <2>2, <4>1, <4>2
    <3> QED
        BY <1>2, <3>1 DEF Order, CallsInOrder, Answered
  <2> QED
      BY <2>1, <2>2
<1> QED
    BY <1>5, <1>6, <1>7, <1>8 DEF CallsInOrder

\* Nothing but listeners and responses runs between the disposal of the client
\* and that of its transport.
LEMMA TransportDisposed ==
    ASSUME IInv, Order, ~Quiet, disposed,
           ~Resumes(Head(agenda)), Head(agenda).op # "disposeTransport"
    PROVE  link.disposed
<1>1. agenda \in Seq(Frames)
    BY DEF IInv, TypeInv, AgendaType
<1> QED
    BY <1>1, DisposingNext DEF Order, DisposalGoesOn

\* A connection that is given up has no acknowledgement, lookup, invalidation or
\* call of its own.
LEMMA NextGeneration ==
    ASSUME IInv, Order, link'.generation = link.generation + 1,
           auths' \subseteq auths, acks' \subseteq acks, call' = call,
           \A g \in invalidations' : g \in invalidations \/ (g = link'.generation /\ link'.failed)
    PROVE  AcksCurrent' /\ AuthsCurrent' /\ InvalidationsCurrent' /\ CallsCurrent'
<1>1. /\ link.generation \in Nat /\ auths \subseteq Nat /\ acks \subseteq Nat
      /\ invalidations \subseteq Nat
      /\ \A r \in Requests : call[r].generation \in Nat
    BY DEF IInv, TypeInv, CallType, CallRecord, LinkType, LinkRecord
<1>2. AcksCurrent'
    BY <1>1 DEF Order, LinkInOrder, AcksCurrent
<1>3. AuthsCurrent'
    BY <1>1 DEF Order, LinkInOrder, AuthsCurrent
<1>4. InvalidationsCurrent'
  <2>1. ASSUME NEW g \in invalidations PROVE g <= link'.generation /\ g # link'.generation
    <3>1. g <= link.generation /\ g \in Nat
        BY <1>1, <2>1 DEF Order, LinkInOrder, InvalidationsCurrent
    <3> QED
        BY <1>1, <3>1
  <2>2. link'.generation <= link'.generation
      BY <1>1
  <2> QED
      BY <2>1, <2>2 DEF InvalidationsCurrent
<1>5. CallsCurrent'
    BY <1>1 DEF Order, LinkInOrder, CallsCurrent, Invoked
<1> QED
    BY <1>2, <1>3, <1>4, <1>5

LEMMA OpenOrder ==
    ASSUME IInv, Order, DoOpen
    PROVE  Order'
<1> DEFINE h == Head(agenda)
           t == Tail(agenda)
<1>1. /\ ~Quiet /\ h.op = "open" /\ agenda \in Seq(Frames) /\ agenda # <<>>
      /\ UNCHANGED <<clientVars, callVars, auths, acks, invalidations, reported>>
    BY DEF DoOpen, Doing, Quiet, IInv, TypeInv, AgendaType
<1>2. Fits(h) /\ (started \/ disposed)
    BY <1>1, HeadFits DEF Doing
<1>3. ~link.opened /\ (link.disposed => disposed)
    BY <1>1, <1>2 DEF Fits
<1>4. t = <<>> /\ Elements(t) = {} /\ Elements(agenda) = {h}
  <2>1. t = <<>>
      BY <1>1, OpenBelow DEF Order, TurnInOrder, Outermost
  <2>2. Elements(t) = {}
      BY <2>1, ShortSequences
  <2>3. Elements(agenda) = {h} \cup Elements(t)
      BY <1>1, Popped
  <2> QED
      BY <2>1, <2>2, <2>3
<1>5. /\ socket = "off" /\ auths = {} /\ acks = {} /\ ~link.failed /\ ~link.ready
      /\ link.deadline = None
    BY <1>3 DEF Order, LinkInOrder, FieldsAgree
<1>6. disposed => link.disposed
    BY <1>1, TransportDisposed DEF Resumes
<1>7. Announced = status
    BY <1>1, AnnouncedNow
<1>8. /\ UNCHANGED <<call, executions, answers, started, disposed, status>>
      /\ \A r \in Requests : Invoked(r)' <=> Invoked(r)
    BY <1>1 DEF callVars, clientVars, Invoked
<1>9. /\ ~Pending("register") /\ link \in LinkRecord
    BY <1>1, <1>4 DEF Pending, IInv, TypeInv, LinkType
<1>10. CASE disposed /\ Go(<<>>) /\ UNCHANGED <<link, socket>>
  <2> DEFINE e == <<>>
  <2>1. e \in Seq(Frames) /\ Elements(e) = {} /\ e = <<>>
      BY ShortSequences
  <2>2. Leaves(e, t)
      BY <1>1, <1>10, <2>1 DEF Leaves, HeadOnly, Go
  <2> HIDE DEF e
  <2>3. TurnInOrder'
      BY <1>1, <1>2, <1>4, <1>8, <1>10, <2>1, <2>2, TurnGoesOn
  <2>4. LinkInOrder'
    <3>1. UNCHANGED <<linkVars, callVars>>
        BY <1>1, <1>10 DEF linkVars
    <3> QED
        BY <1>8, <1>9, <3>1, ClientLink
  <2>5. Announced' = status
      BY <1>8, <2>1, <2>2, AnnouncedNext
  <2>6. StatusAgrees' /\ Bounded'
      BY <1>5, <1>6, <1>8, <1>10 DEF StatusAgrees, Bounded, Attempting
  <2>7. DisposalGoesOn' /\ CallsInOrder'
      BY <1>1, <1>6, <1>10, <2>2, LinkRests
  <2> QED
      BY <2>3, <2>4, <2>6, <2>7 DEF Order
<1>11. CASE /\ ~disposed
            /\ link' = [link EXCEPT !.opened = TRUE]
            /\ socket' \in {"off", "up"}
            /\ Go(<<Observe("connecting"), Connect("start")>>)
  <2> DEFINE a == Observe("connecting")
             b == Connect("start")
             f == <<a, b>>
  <2>1. /\ a \in Frames /\ a.op = "observe" /\ a.status = "connecting"
        /\ b \in Frames /\ b.op = "connect" /\ b.for = "start"
      BY FrameTypes, Ops, Fields DEF Statuses
  <2>2. f \in Seq(Frames) /\ Elements(f) = {a, b} /\ f # <<>> /\ Head(f) = a
      BY <2>1, ShortSequences
  <2>3. HeadOnly(f) /\ OpenLast(f)
      BY <2>1 DEF HeadOnly, OpenLast, Outermost, Calm
  <2>4. Leaves(f, t)
      BY <1>1, <1>11, <2>2, <2>3 DEF Leaves, Go
  <2> HIDE DEF f
  <2>5. Announced' = "connecting"
    <3>1. Head(f) = Observe("connecting") /\ "connecting" \in Statuses \ {"disposed"}
        BY <2>2 DEF Statuses
    <3> QED
        BY <2>2, <2>4, <3>1, AnnouncedNext, Announcements
  <2> HIDE DEF a, b
  <2>6. /\ link'.opened /\ ~link'.ready /\ ~link'.failed /\ link'.deadline = None
        /\ link'.generation = link.generation /\ ~link'.disposed
      BY <1>3, <1>5, <1>9, <1>11 DEF LinkRecord
  <2>7. Fits(a)' /\ Fits(b)'
      BY <1>1, <1>5, <1>8, <1>11, <2>1, <2>5, <2>6 DEF Fits, Calm
  <2>8. TurnInOrder' /\ Elements(agenda') = {a, b}
      BY <1>1, <1>2, <1>4, <1>8, <2>1, <2>2, <2>3, <2>4, <2>6, <2>7, TurnGoesOn
  <2>9. LinkInOrder'
    <3>1. FieldsAgree'
        BY <1>2, <1>8, <1>11, <2>6 DEF FieldsAgree
    <3>2. AcksCurrent' /\ AuthsCurrent'
        BY <1>1, <1>5 DEF AcksCurrent, AuthsCurrent
    <3>3. InvalidationsCurrent' /\ CallsCurrent'
        BY <1>1, <1>3, <1>5, <1>8, <1>11, <2>6
           DEF Order, LinkInOrder, InvalidationsCurrent, CallsCurrent
    <3> QED
        BY <3>1, <3>2, <3>3 DEF LinkInOrder
  <2>10. StatusAgrees' /\ Bounded'
    <3>1. Pending("connect")'
        BY <2>1, <2>8 DEF Pending
    <3> QED
        BY <2>5, <2>6, <3>1 DEF StatusAgrees, Bounded
  <2>11. DisposalGoesOn' /\ CallsInOrder'
      BY <1>1, <1>11, <2>4, <2>6, LinkRests
  <2> QED
      BY <2>8, <2>9, <2>10, <2>11 DEF Order
<1>12. CASE /\ ~disposed
            /\ Go(Caught("start"))
            /\ UNCHANGED <<link, socket>>
  <2> DEFINE a == Publish("error")
             b == AbortAll(FALSE)
             c == DisposeTransport
             f == <<a, b, c>>
  <2>1. /\ a \in Frames /\ a.op = "publish" /\ a.status = "error"
        /\ b \in Frames /\ b.op = "abort" /\ b.respond = FALSE
        /\ c \in Frames /\ c.op = "disposeTransport"
      BY FrameTypes, Ops, Fields DEF Statuses
  <2>12. Go(f)
      BY <1>12 DEF Caught
  <2> HIDE DEF a, b, c
  <2>2. f \in Seq(Frames) /\ Elements(f) = {a, b, c} /\ f # <<>> /\ Head(f) = a
      BY <2>1, ShortSequences
  <2>3. HeadOnly(f)
      BY <2>1 DEF HeadOnly, Calm
  <2> HIDE DEF f
  <2>4. Leaves(f, t)
      BY <1>1, <2>12, <2>2, <2>3 DEF Leaves, Go
  <2>5. Announced' = "error"
    <3>1. Head(f) = Publish("error") /\ "error" \in Statuses \ {"disposed"}
        BY <2>2 DEF Statuses, a
    <3> QED
        BY <2>2, <2>4, <3>1, AnnouncedNext, Announcements
  <2>6. Elements(agenda') = {a, b, c}
      BY <1>4, <2>2, <2>4, Left
  <2>7. Fits(a)' /\ Fits(b)' /\ Fits(c)'
    <3>1. ~Pending("open")'
        BY <2>1, <2>6 DEF Pending
    <3> QED
        BY <1>5, <1>8, <1>12, <2>1, <3>1 DEF Fits, Calm
  <2>8. TurnInOrder'
      BY <1>1, <1>2, <1>4, <1>8, <1>12, <2>1, <2>2, <2>4, <2>7, TurnGoesOn DEF Outermost
  <2>9. LinkInOrder'
    <3>1. UNCHANGED <<linkVars, callVars>>
        BY <1>1, <1>12 DEF linkVars
    <3> QED
        BY <1>8, <1>9, <3>1, ClientLink
  <2>10. StatusAgrees' /\ Bounded'
      BY <1>5, <1>12, <2>5 DEF StatusAgrees, Bounded, Attempting
  <2>11. DisposalGoesOn' /\ CallsInOrder'
      BY <1>1, <1>12, <2>4, LinkRests
  <2> QED
      BY <2>8, <2>9, <2>10, <2>11 DEF Order
<1> QED
    BY <1>10, <1>11, <1>12 DEF DoOpen

LEMMA RetryOrder ==
    ASSUME IInv, Order, DoRetry
    PROVE  Order'
<1> DEFINE h == Head(agenda)
           t == Tail(agenda)
<1>1. /\ ~Quiet /\ h.op = "retry"
      /\ UNCHANGED <<clientVars, callVars, auths, acks, invalidations, socket, reported>>
    BY DEF DoRetry, Doing
<1>2. ~disposed /\ status \in {"error", "disconnected"} /\ started
    BY <1>1, HeadFits DEF Doing, Fits, Calm
<1>3. Announced = status
    BY <1>1, AnnouncedNow
<1>4. /\ UNCHANGED <<call, executions, answers, started, disposed, status>>
      /\ Waiting' = Waiting /\ link \in LinkRecord /\ link.generation \in Nat
    BY <1>1 DEF callVars, clientVars, Waiting, IInv, TypeInv, LinkType, LinkRecord
<1>5. CASE Go(<<>>) /\ UNCHANGED link
  <2> DEFINE e == <<>>
  <2>1. e \in Seq(Frames) /\ Elements(e) = {} /\ e = <<>>
      BY ShortSequences
  <2>2. Leaves(e, t)
      BY <1>1, <1>5, <2>1 DEF Leaves, HeadOnly, Go
  <2> HIDE DEF e
  <2>3. Announced' = Announced
      BY <1>3, <1>4, <2>1, <2>2, AnnouncedNext
  <2>4. UNCHANGED <<linkVars, callVars, calls, shown, status, disposed>>
      BY <1>1, <1>5 DEF linkVars, clientVars
  <2>5. BeforeStart' /\ ~Doing("release")
      BY <1>1, <1>2, <1>4 DEF BeforeStart, Doing
  <2>6. TurnInOrder' /\ LinkInOrder' /\ StatusAgrees' /\ Bounded'
      BY <1>1, <1>4, <2>1, <2>2, <2>3, <2>4, <2>5, ClientTurn
  <2>7. DisposalGoesOn' /\ CallsInOrder'
      BY <1>1, <2>1, <2>2, <2>4, ClientRests
  <2> QED
      BY <2>6, <2>7 DEF Order
<1>6. CASE /\ ~link.disposed /\ link.opened /\ ~link.ready
           /\ link' = [link EXCEPT !.failed = FALSE, !.generation = @ + 1]
           /\ Go(<<Observe("connecting"), Connect("retry")>>)
  <2> DEFINE a == Observe("connecting")
             b == Connect("retry")
             f == <<a, b>>
  <2>1. /\ a \in Frames /\ a.op = "observe" /\ a.status = "connecting"
        /\ b \in Frames /\ b.op = "connect" /\ b.for = "retry"
      BY FrameTypes, Ops, Fields DEF Statuses
  <2>2. f \in Seq(Frames) /\ Elements(f) = {a, b} /\ f # <<>> /\ Head(f) = a
      BY <2>1, ShortSequences
  <2>3. HeadOnly(f)
      BY <2>1 DEF HeadOnly, Calm
  <2>4. Leaves(f, t)
      BY <1>1, <1>6, <2>2, <2>3 DEF Leaves, Go
  <2> HIDE DEF f
  <2>5. Announced' = "connecting"
    <3>1. Head(f) = Observe("connecting") /\ "connecting" \in Statuses \ {"disposed"}
        BY <2>2 DEF Statuses
    <3> QED
        BY <2>2, <2>4, <3>1, AnnouncedNext, Announcements
  <2> HIDE DEF a, b
  <2>6. /\ link'.opened /\ ~link'.ready /\ ~link'.failed /\ ~link'.disposed
        /\ link'.deadline = link.deadline
        /\ link'.generation = link.generation + 1
      BY <1>4, <1>6 DEF LinkRecord
  <2>7. /\ \A g \in auths : g < link'.generation
        /\ \A x \in Elements(t) : Fits(x)
        /\ Elements(agenda') = {a, b} \cup Elements(t)
    <3>1. \A g \in auths : g <= link.generation /\ g \in Nat
        BY DEF Order, LinkInOrder, AuthsCurrent, IInv, TypeInv, LinkType
    <3>2. \A g \in auths : g < link'.generation
        BY <1>4, <2>6, <3>1
    <3> QED
        BY <2>2, <2>4, <3>2, Left
  <2>8. \A x \in Elements(t) : /\ x.op \notin {"open", "emit"}
                               /\ x.op = "connect" => x.for # "start" /\ x.for = "retry"
    <3>1. \A x \in Elements(t) : x \in Frames
        BY <2>4, Left
    <3>2. \A x \in Elements(t) : x.op = "connect" => x.for \in {"start", "retry"}
        BY <3>1, FrameFields
    <3> QED
        BY <1>2, <1>3, <1>6, <2>7, <3>2 DEF Fits
  <2>9. ~Starting'
      BY <2>1, <2>7, <2>8 DEF Starting
  <2>10. Fits(a)' /\ Fits(b)'
      BY <1>1, <1>2, <1>4, <2>1, <2>6, <2>7, <2>9 DEF Fits, Calm
  <2>11. \A x \in Elements(t) : x.op \in {"open", "connect", "emit"} => Fits(x)'
      BY <1>1, <2>6, <2>7, <2>8, <2>9 DEF Fits, Calm
  <2>12. TurnInOrder'
      BY <1>1, <1>2, <1>4, <2>1, <2>2, <2>4, <2>6, <2>10, <2>11, TurnGoesOn DEF Outermost
  <2>13. LinkInOrder'
    <3>1. FieldsAgree'
        BY <1>1, <1>2, <1>4, <1>6, <2>6 DEF Order, LinkInOrder, FieldsAgree
    <3> QED
        BY <1>1, <1>4, <2>6, <3>1, NextGeneration DEF LinkInOrder
  <2>14. StatusAgrees' /\ Bounded'
    <3>1. Pending("connect")'
        BY <2>1, <2>7 DEF Pending
    <3> QED
        BY <2>5, <2>6, <3>1 DEF StatusAgrees, Bounded
  <2>15. DisposalGoesOn' /\ CallsInOrder'
      BY <1>1, <1>2, <2>1, <2>2, <2>4, <2>6, LinkRests
  <2> QED
      BY <2>12, <2>13, <2>14, <2>15 DEF Order
<1> QED
    BY <1>5, <1>6 DEF DoRetry

LEMMA ConnectOrder ==
    ASSUME IInv, Order, DoConnect
    PROVE  Order'
<1> DEFINE h == Head(agenda)
           t == Tail(agenda)
<1>0. PICK for : for = h.for
    OBVIOUS
<1>1. /\ ~Quiet /\ h.op = "connect" /\ agenda \in Seq(Frames) /\ agenda # <<>>
      /\ UNCHANGED <<clientVars, callVars, auths, acks, invalidations, reported>>
    BY DEF DoConnect, Doing, Quiet, IInv, TypeInv, AgendaType
<1>2. h \in Frames /\ Fits(h) /\ (started \/ disposed)
    BY <1>1, HeadFits DEF Doing
<1>3. /\ ~link.failed /\ link.opened
      /\ \A g \in auths : g < link.generation
      /\ for = "retry" => ~Starting
      /\ for \in {"start", "retry"}
    BY <1>0, <1>1, <1>2, FrameFields DEF Fits
<1>4. /\ for = "start" => t = <<>>
      /\ Elements(agenda) = {h} \cup Elements(t)
  <2>1. for = "start" => t = <<>>
      BY <1>0, <1>1, OpenBelow DEF Order, TurnInOrder, Outermost
  <2> QED
      BY <1>1, <2>1, Popped
<1>5. disposed => link.disposed
    BY <1>1, TransportDisposed DEF Resumes
<1>6. Announced = status
    BY <1>1, AnnouncedNow
<1>7. /\ UNCHANGED <<call, executions, answers, started, disposed, status>>
      /\ \A r \in Requests : Invoked(r)' <=> Invoked(r)
      /\ link \in LinkRecord /\ link.generation \in Nat /\ Waiting' = Waiting
    BY <1>1 DEF callVars, clientVars, Invoked, Waiting, IInv, TypeInv, LinkType, LinkRecord
<1>8. \A x \in Elements(t) : x \in Frames /\ Fits(x) /\ x.op # "open"
    BY <1>1, <1>2, <1>3, <1>4 DEF Order, TurnInOrder, AllFit, Fits, IInv, TypeInv, AgendaType,
                                  Elements
<1>9. ~\E x \in Elements(t) : x.op = "connect" /\ x.for = "start"
  <2>1. Elements(<<>>) = {}
      BY ShortSequences
  <2> QED
      BY <1>3, <1>4, <2>1 DEF Starting
<1>10. \A x \in Elements(t) : x.op = "connect" => x.for = "retry"
    BY <1>8, <1>9, FrameFields
<1>11. CASE link.disposed /\ Go(<<>>) /\ UNCHANGED <<link, socket>>
  <2> DEFINE e == <<>>
  <2>1. e \in Seq(Frames) /\ Elements(e) = {} /\ e = <<>>
      BY ShortSequences
  <2>2. Leaves(e, t)
      BY <1>1, <1>11, <2>1 DEF Leaves, HeadOnly, Go
  <2> HIDE DEF e
  <2>3. Announced' = Announced
      BY <1>6, <1>7, <2>1, <2>2, AnnouncedNext
  <2>4. Elements(agenda') = Elements(t)
      BY <2>1, <2>2, Left
  <2>5. \A x \in Elements(t) : x.op \in {"open", "connect", "emit"} => Fits(x)'
    <3>1. ~Starting'
        BY <1>9, <2>4 DEF Starting
    <3> QED
        BY <1>1, <1>7, <1>8, <1>10, <1>11, <2>3, <3>1 DEF Fits, Calm
  <2>6. TurnInOrder'
      BY <1>1, <1>2, <1>7, <1>11, <2>1, <2>2, <2>5, TurnGoesOn
  <2>7. LinkInOrder'
    <3>1. UNCHANGED <<linkVars, callVars>>
        BY <1>1, <1>11 DEF linkVars
    <3>2. Pending("register") => Pending("register")'
        BY <1>1, <1>4, <2>4 DEF Pending
    <3> QED
        BY <1>7, <3>1, <3>2, ClientLink
  <2>8. StatusAgrees' /\ Bounded'
    <3>1. ~link.ready
        BY <1>11 DEF Order, LinkInOrder, FieldsAgree
    <3> QED
        BY <1>7, <1>11, <2>3, <3>1 DEF Order, StatusAgrees, Bounded, Attempting
  <2>9. DisposalGoesOn' /\ CallsInOrder'
      BY <1>1, <1>5, <1>11, <2>2, LinkRests
  <2> QED
      BY <2>6, <2>7, <2>8, <2>9 DEF Order
\* The deadline is armed; what follows depends on the socket.
<1>12. ASSUME ~link.disposed, link' = Armed(link), NEW f, Leaves(f, t),
              \A x \in Elements(f) : Fits(x)' /\ x.op \notin {"open", "connect"},
              (\A x \in Elements(f) : ~Outermost(x)) \/ (t = <<>> /\ OpenLast(f)),
              socket' = socket \/ (socket # "up" /\ socket' = "opening"),
              Announced' = status \/ (socket # "up" /\ Announced' = "error")
       PROVE  Order'
  <2>1. /\ link'.opened /\ ~link'.failed /\ ~link'.disposed /\ link'.ready = link.ready
        /\ link'.generation = link.generation /\ link'.deadline = link.generation
      BY <1>3, <1>7, <1>12 DEF Armed, LinkRecord
  <2>2. Elements(agenda') = Elements(f) \cup Elements(t)
      BY <1>12, Left
  <2>3. ~Starting'
      BY <1>9, <1>12, <2>2 DEF Starting
  <2>4. \A x \in Elements(t) : x.op \in {"open", "connect", "emit"} => Fits(x)'
    <3>1. \A x \in Elements(t) : x.op = "connect" => Fits(x)'
        BY <1>1, <1>3, <1>10, <2>1, <2>3 DEF Fits, Calm
    <3>2. \A x \in Elements(t) : x.op = "emit" => Fits(x)'
        BY <1>6, <1>7, <1>8, <1>12, <2>1 DEF Fits, Calm
    <3> QED
        BY <1>8, <3>1, <3>2
  <2>5. TurnInOrder'
      BY <1>1, <1>2, <1>7, <1>12, <2>1, <2>4, TurnGoesOn
  <2>6. LinkInOrder'
    <3>1. FieldsAgree'
        BY <1>1, <1>2, <1>3, <1>7, <1>12, <2>1 DEF Order, LinkInOrder, FieldsAgree
    <3>2. AcksCurrent'
        BY <1>1, <1>3, <1>12, <2>1 DEF Order, LinkInOrder, AcksCurrent
    <3>3. AuthsCurrent'
      <4>1. \A g \in auths : g <= link.generation /\ g # link.generation
        <5>1. auths \subseteq Nat
            BY DEF IInv, TypeInv, LinkType
        <5> QED
            BY <1>3, <1>7, <5>1
      <4> QED
          BY <1>1, <2>1, <4>1 DEF AuthsCurrent
    <3>4. InvalidationsCurrent' /\ CallsCurrent'
        BY <1>1, <1>3, <1>7, <1>12, <2>1
           DEF Order, LinkInOrder, InvalidationsCurrent, CallsCurrent
    <3> QED
        BY <3>1, <3>2, <3>3, <3>4 DEF LinkInOrder
  <2>7. StatusAgrees'
    <3>1. Pending("release") => Pending("release")'
        BY <1>1, <1>4, <2>2 DEF Pending
    <3> QED
        BY <1>6, <1>7, <1>12, <2>1, <3>1 DEF Order, LinkInOrder, FieldsAgree, StatusAgrees
  <2>8. Bounded'
      BY <2>1 DEF Bounded
  <2>9. DisposalGoesOn' /\ CallsInOrder'
      BY <1>1, <1>5, <1>12, <2>1, LinkRests
  <2> QED
      BY <2>5, <2>6, <2>7, <2>8, <2>9 DEF Order
<1>13. CASE ~link.disposed /\ link' = Armed(link)
  <2>0. link'.disposed = FALSE /\ link'.ready = link.ready
      BY <1>7, <1>13 DEF Armed, LinkRecord
  <2>1. CASE socket' \in {socket, "opening"} /\ (socket' = socket \/ socket # "up") /\ Go(<<>>)
    <3> DEFINE e == <<>>
    <3>1. e \in Seq(Frames) /\ Elements(e) = {} /\ e = <<>>
        BY ShortSequences
    <3>2. Leaves(e, t)
        BY <1>1, <2>1, <3>1 DEF Leaves, HeadOnly, Go
    <3> HIDE DEF e
    <3>3. Announced' = status
        BY <1>7, <3>1, <3>2, AnnouncedNext
    <3> QED
        BY <1>12, <1>13, <2>1, <3>1, <3>2, <3>3
  <2>2. CASE socket = "up" /\ socket' = socket /\ for = "start" /\ Go(<<Register>>)
    <3> DEFINE a == Register
               f == <<a>>
    <3>1. a \in Frames /\ a.op = "register"
        BY FrameTypes, Ops
    <3>2. f \in Seq(Frames) /\ Elements(f) = {a} /\ f # <<>> /\ Head(f) = a
        BY <3>1, ShortSequences
    <3>3. HeadOnly(f) /\ OpenLast(f)
        BY DEF HeadOnly, OpenLast
    <3>4. Leaves(f, t)
        BY <1>1, <2>2, <3>2, <3>3 DEF Leaves, Go
    <3> HIDE DEF f, a
    <3>5. Announced' = status
        BY <1>7, <3>1, <3>2, <3>4, AnnouncedNext, Announcements
    <3>6. Fits(a)'
        BY <1>5, <1>7, <1>13, <2>0, <2>2, <3>1 DEF Fits, Calm
    <3> QED
        BY <1>4, <1>12, <1>13, <2>2, <3>1, <3>2, <3>3, <3>4, <3>5, <3>6
  <2>3. CASE socket # "up" /\ socket' = socket /\ Go(Caught(for))
    <3>1. ~link.ready /\ ~disposed
        BY <1>5, <1>13, <2>3 DEF Order, LinkInOrder, FieldsAgree
    <3> DEFINE a == Publish("error")
               b == AbortAll(FALSE)
               c == DisposeTransport
    <3>2. /\ a \in Frames /\ a.op = "publish" /\ a.status = "error"
          /\ b \in Frames /\ b.op = "abort" /\ b.respond = FALSE
          /\ c \in Frames /\ c.op = "disposeTransport"
        BY FrameTypes, Ops, Fields DEF Statuses
    <3>3. CASE for = "start"
      <4> DEFINE f == <<a, b, c>>
      <4>1. Go(f)
          BY <2>3, <3>3 DEF Caught
      <4> HIDE DEF a, b, c
      <4>2. f \in Seq(Frames) /\ Elements(f) = {a, b, c} /\ f # <<>> /\ Head(f) = a
          BY <3>2, ShortSequences
      <4>3. HeadOnly(f)
          BY <3>2 DEF HeadOnly, Calm
      <4> HIDE DEF f
      <4>4. Leaves(f, t)
          BY <1>1, <4>1, <4>2, <4>3 DEF Leaves, Go
      <4>5. Announced' = "error"
        <5>1. Head(f) = Publish("error") /\ "error" \in Statuses \ {"disposed"}
            BY <4>2 DEF Statuses, a
        <5> QED
            BY <4>2, <4>4, <5>1, AnnouncedNext, Announcements
      <4>6. ~Pending("open")'
        <5>1. Elements(agenda') = {a, b, c} \cup Elements(t)
            BY <4>2, <4>4, Left
        <5> QED
            BY <1>8, <3>2, <5>1 DEF Pending
      <4>7. Fits(a)' /\ Fits(b)' /\ Fits(c)'
          BY <1>7, <2>0, <3>1, <3>2, <4>6 DEF Fits, Calm
      <4> QED
          BY <1>12, <1>13, <2>3, <3>2, <4>2, <4>4, <4>5, <4>7 DEF Outermost
    <3>4. CASE for = "retry"
      <4> DEFINE f == <<a>>
      <4>1. Go(f)
          BY <2>3, <3>4 DEF Caught
      <4> HIDE DEF a, b, c
      <4>2. f \in Seq(Frames) /\ Elements(f) = {a} /\ f # <<>> /\ Head(f) = a
          BY <3>2, ShortSequences
      <4>3. HeadOnly(f)
          BY DEF HeadOnly
      <4> HIDE DEF f
      <4>4. Leaves(f, t)
          BY <1>1, <4>1, <4>2, <4>3 DEF Leaves, Go
      <4>5. Announced' = "error"
        <5>1. Head(f) = Publish("error") /\ "error" \in Statuses \ {"disposed"}
            BY <4>2 DEF Statuses, a
        <5> QED
            BY <4>2, <4>4, <5>1, AnnouncedNext, Announcements
      <4>6. Fits(a)'
          BY <1>7, <3>1, <3>2 DEF Fits, Calm
      <4> QED
          BY <1>12, <1>13, <2>3, <3>2, <4>2, <4>4, <4>5, <4>6 DEF Outermost
    <3> QED
        BY <1>3, <3>3, <3>4
  <2> QED
      BY <1>0, <1>3, <1>13, <2>1, <2>2, <2>3 DEF DoConnect
<1> QED
    BY <1>11, <1>13 DEF DoConnect

LEMMA DisposeOrder ==
    ASSUME IInv, Order, DoDisposeTransport
    PROVE  Order'
<1> DEFINE h == Head(agenda)
           t == Tail(agenda)
           e == <<>>
<1>1. /\ ~Quiet /\ h.op = "disposeTransport" /\ Go(e)
      /\ UNCHANGED <<clientVars, callVars, auths, acks, invalidations, reported>>
    BY DEF DoDisposeTransport, Doing
<1>2. Fits(h) /\ (started \/ disposed)
    BY <1>1, HeadFits DEF Doing
<1>3. disposed \/ (~link.ready /\ ~Pending("open"))
    BY <1>1, <1>2 DEF Fits
<1>4. e \in Seq(Frames) /\ Elements(e) = {} /\ e = <<>>
    BY ShortSequences
<1>5. Leaves(e, t)
    BY <1>1, <1>4 DEF Leaves, HeadOnly, Go
<1> HIDE DEF e
<1>6. /\ UNCHANGED <<call, executions, answers, started, disposed, status>>
      /\ \A r \in Requests : Invoked(r)' <=> Invoked(r)
      /\ link \in LinkRecord /\ link.generation \in Nat
    BY <1>1 DEF callVars, clientVars, Invoked, IInv, TypeInv, LinkType, LinkRecord
<1>7. Announced = status /\ Announced' = status
    BY <1>1, <1>4, <1>5, <1>6, AnnouncedNow, AnnouncedNext
<1>8. /\ Elements(agenda') = Elements(t)
      /\ Elements(agenda) = {h} \cup Elements(t)
      /\ \A x \in Elements(t) : Calm(x) /\ Fits(x)
    <2>1. t = agenda \/ Elements(agenda) = {h} \cup Elements(t)
        BY <1>5, Left
    <2>2. Elements(agenda') = Elements(t) /\ \A x \in Elements(t) : Calm(x) /\ Fits(x)
        BY <1>4, <1>5, Left
    <2>3. agenda \in Seq(Frames) /\ agenda # <<>>
        BY <1>1 DEF Quiet, IInv, TypeInv, AgendaType
    <2> QED
        BY <2>2, <2>3, Popped
<1>9. /\ Pending("register") => Pending("register")'
      /\ Starting' => Starting
    BY <1>1, <1>8 DEF Pending, Starting
<1>10. CASE link.disposed /\ UNCHANGED <<link, socket>>
  <2>1. \A x \in Elements(t) : x.op \in {"open", "connect", "emit"} => Fits(x)'
      BY <1>1, <1>6, <1>7, <1>8, <1>9, <1>10 DEF Fits, Calm
  <2>2. TurnInOrder'
      BY <1>1, <1>2, <1>4, <1>5, <1>6, <1>10, <2>1, TurnGoesOn
  <2>3. LinkInOrder'
    <3>1. UNCHANGED <<linkVars, callVars>>
        BY <1>1, <1>10 DEF linkVars
    <3> QED
        BY <1>6, <1>9, <3>1, ClientLink
  <2>4. StatusAgrees' /\ Bounded'
    <3>1. ~link.ready
        BY <1>10 DEF Order, LinkInOrder, FieldsAgree
    <3> QED
        BY <1>6, <1>7, <1>10, <3>1 DEF Order, StatusAgrees, Bounded, Attempting
  <2>5. DisposalGoesOn' /\ CallsInOrder'
      BY <1>1, <1>5, <1>10, LinkRests
  <2> QED
      BY <2>2, <2>3, <2>4, <2>5 DEF Order
<1>11. CASE /\ ~link.disposed
            /\ link' = [link EXCEPT !.disposed = TRUE, !.ready = FALSE,
                                    !.generation = @ + 1, !.deadline = None]
            /\ socket' = "off"
  <2>1. /\ link'.disposed /\ ~link'.ready /\ link'.generation = link.generation + 1
        /\ link'.deadline = None /\ link'.failed = link.failed /\ link'.opened = link.opened
      BY <1>6, <1>11 DEF LinkRecord
  <2>2. \A g \in auths : g <= link.generation /\ g < link'.generation
    <3>1. \A g \in auths : g <= link.generation /\ g \in Nat
        BY DEF Order, LinkInOrder, AuthsCurrent, IInv, TypeInv, LinkType
    <3> QED
        BY <1>6, <2>1, <3>1
  <2>3. \A x \in Elements(t) : x.op \in {"open", "connect", "emit"} => Fits(x)'
    <3>1. \A x \in Elements(t) : x.op = "open" => Fits(x)'
        BY <1>3, <1>6, <1>8, <2>1 DEF Fits, Calm, Pending
    <3> QED
        BY <1>1, <1>6, <1>7, <1>8, <1>9, <2>1, <2>2, <3>1 DEF Fits, Calm
  <2>4. TurnInOrder'
      BY <1>1, <1>2, <1>4, <1>5, <1>6, <2>1, <2>3, TurnGoesOn
  <2>5. LinkInOrder'
    <3>1. FieldsAgree'
        BY <1>1, <1>2, <1>6, <1>11, <2>1 DEF Order, LinkInOrder, FieldsAgree
    <3> QED
        BY <1>1, <1>6, <2>1, <3>1, NextGeneration DEF LinkInOrder
  <2>6. StatusAgrees' /\ Bounded'
      BY <1>3, <1>6, <1>7, <2>1 DEF Order, StatusAgrees, Bounded, Attempting
  <2>7. DisposalGoesOn' /\ CallsInOrder'
    <3>1. \A r \in Waiting : call[r].generation = link.generation => Ended(r)
      <4> SUFFICES ASSUME NEW r \in Waiting, call[r].generation = link.generation
                   PROVE  Ended(r)
          OBVIOUS
      <4>1. r \in Requests /\ Invoked(r)
          BY DEF IInv, TypeInv, ClientType, History, WaitingInvoked, Waiting
      <4>2. link.ready
          BY <4>1 DEF Order, LinkInOrder, CallsCurrent
      <4> QED
          BY <1>3, <4>2 DEF Order, DisposalGoesOn
    <3> QED
        BY <1>1, <1>5, <2>1, <3>1, LinkRests
  <2> QED
      BY <2>4, <2>5, <2>6, <2>7 DEF Order
<1> QED
    BY <1>10, <1>11 DEF DoDisposeTransport

LEMMA RegisterOrder ==
    ASSUME IInv, Order, DoRegister
    PROVE  Order'
<1> DEFINE h == Head(agenda)
           t == Tail(agenda)
<1>0. PICK g : g = link.generation + 1
    OBVIOUS
<1>1. /\ ~Quiet /\ h.op = "register" /\ agenda \in Seq(Frames) /\ agenda # <<>>
      /\ UNCHANGED <<clientVars, callVars, auths, acks, invalidations, socket, reported>>
    BY DEF DoRegister, Doing, Quiet, IInv, TypeInv, AgendaType
<1>2. Fits(h) /\ (started \/ disposed) /\ ~disposed /\ socket = "up" /\ ~link.disposed
    BY <1>1, HeadFits DEF Doing, Fits, Calm
<1>3. ~link.failed /\ link.opened
    BY <1>2 DEF Order, LinkInOrder, FieldsAgree
<1>4. t = <<>> /\ Elements(t) = {}
  <2>1. t = <<>>
      BY <1>1, OpenBelow DEF Order, TurnInOrder, Outermost
  <2> QED
      BY <2>1, ShortSequences
<1>5. /\ UNCHANGED <<call, executions, answers, started, disposed, status>>
      /\ link \in LinkRecord /\ link.generation \in Nat /\ g \in Nat
    BY <1>0, <1>1 DEF callVars, clientVars, IInv, TypeInv, LinkType, LinkRecord
<1>6. /\ link' = Armed([link EXCEPT !.ready = FALSE, !.generation = g])
      /\ Go(<<Observe("registering"), Emit(g)>>)
    BY <1>0, <1>2, <1>3 DEF DoRegister
<1> DEFINE a == Observe("registering")
           b == Emit(g)
           f == <<a, b>>
<1>7. /\ a \in Frames /\ a.op = "observe" /\ a.status = "registering"
      /\ b \in Frames /\ b.op = "emit" /\ b.generation = g
    BY <1>5, FrameTypes, Ops, Fields DEF Statuses
<1>8. f \in Seq(Frames) /\ Elements(f) = {a, b} /\ f # <<>> /\ Head(f) = a
    BY <1>7, ShortSequences
<1>9. HeadOnly(f)
    BY <1>7 DEF HeadOnly, Calm
<1>10. Leaves(f, t)
    BY <1>1, <1>6, <1>8, <1>9 DEF Leaves, Go
<1> HIDE DEF f
<1>11. Announced' = "registering"
  <2>1. Head(f) = Observe("registering") /\ "registering" \in Statuses \ {"disposed"}
      BY <1>8 DEF Statuses
  <2> QED
      BY <1>8, <1>10, <2>1, AnnouncedNext, Announcements
<1> HIDE DEF a, b
<1>12. /\ link'.opened /\ ~link'.ready /\ ~link'.failed /\ ~link'.disposed
       /\ link'.generation = g /\ link'.deadline = g
    BY <1>2, <1>3, <1>5, <1>6 DEF Armed, LinkRecord
<1>13. Fits(a)' /\ Fits(b)'
    BY <1>1, <1>2, <1>5, <1>7, <1>11, <1>12 DEF Fits, Calm
<1>14. TurnInOrder'
    BY <1>1, <1>2, <1>4, <1>5, <1>7, <1>8, <1>10, <1>12, <1>13, TurnGoesOn DEF Outermost
<1>15. LinkInOrder'
  <2>1. FieldsAgree'
      BY <1>1, <1>2, <1>5, <1>12 DEF Order, LinkInOrder, FieldsAgree
  <2> QED
      BY <1>0, <1>1, <1>5, <1>12, <2>1, NextGeneration DEF LinkInOrder
<1>16. StatusAgrees' /\ Bounded'
    BY <1>11, <1>12 DEF StatusAgrees, Bounded
<1>17. DisposalGoesOn' /\ CallsInOrder'
    BY <1>0, <1>1, <1>2, <1>7, <1>8, <1>10, <1>12, LinkRests
<1> QED
    BY <1>14, <1>15, <1>16, <1>17 DEF Order

\* The registration is sent, or the response to an invocation: neither changes
\* the state of the connection.
LEMMA SendingOrder ==
    ASSUME IInv, Order, DoEmit \/ DoRespond
    PROVE  Order'
<1> DEFINE h == Head(agenda)
           t == Tail(agenda)
           e == <<>>
<1>1. /\ ~Quiet /\ h.op \in {"emit", "respond"} /\ Go(e)
      /\ UNCHANGED <<clientVars, link, auths, invalidations, socket, executions>>
  <2>1. CASE DoEmit
      BY <2>1 DEF DoEmit, Doing, callVars
  <2>2. CASE DoRespond
    <3>1. Doing("respond") /\ Go(e) /\ UNCHANGED <<clientVars, linkVars, executions>>
        BY <2>2 DEF DoRespond
    <3> QED
        BY <3>1 DEF Doing, linkVars
  <2> QED
      BY <2>1, <2>2
<1>2. h \in Frames /\ Fits(h) /\ (started \/ disposed)
    BY <1>1, HeadFits DEF Doing
<1>3. e \in Seq(Frames) /\ Elements(e) = {} /\ e = <<>>
    BY ShortSequences
<1>4. Leaves(e, t)
    BY <1>1, <1>3 DEF Leaves, HeadOnly, Go
<1> HIDE DEF e
<1>5. /\ UNCHANGED <<started, disposed, status, calls, shown>> /\ Waiting' = Waiting
      /\ link \in LinkRecord /\ link.generation \in Nat
      /\ call \in [Requests -> CallRecord] /\ answers \in [Requests -> Seq(Results)]
    BY <1>1 DEF clientVars, Waiting, IInv, TypeInv, LinkType, LinkRecord, CallType
<1>6. Announced = status /\ Announced' = status
    BY <1>1, <1>3, <1>4, <1>5, AnnouncedNow, AnnouncedNext
<1>7. /\ Elements(agenda') = Elements(t)
      /\ Elements(agenda) = {h} \cup Elements(t)
      /\ \A x \in Elements(t) : Calm(x) /\ Fits(x)
    <2>1. Elements(agenda') = Elements(t) /\ \A x \in Elements(t) : Calm(x) /\ Fits(x)
        BY <1>3, <1>4, Left
    <2>2. agenda \in Seq(Frames) /\ agenda # <<>>
        BY <1>1 DEF Quiet, IInv, TypeInv, AgendaType
    <2> QED
        BY <2>1, <2>2, Popped
<1>8. /\ \A op \in {"register", "connect", "open", "release"} : Pending(op) <=> Pending(op)'
      /\ Starting' => Starting
    BY <1>1, <1>7 DEF Pending, Starting
<1>9. \A x \in Elements(t) : x.op \in {"open", "connect", "emit"} => Fits(x)'
    BY <1>1, <1>5, <1>6, <1>7, <1>8 DEF Fits, Calm
<1>10. StatusAgrees' /\ Bounded'
    BY <1>1, <1>5, <1>6, <1>8 DEF Order, StatusAgrees, Bounded, Attempting
<1>11. CASE DoEmit
  <2>1. /\ h.op = "emit" /\ UNCHANGED callVars
        /\ acks' = IF link.disposed THEN acks ELSE acks \cup {h.generation}
      BY <1>11 DEF DoEmit, Doing
  <2>2. link.disposed \/ (h.generation = link.generation /\ socket = "up")
      BY <1>2, <2>1 DEF Fits
  <2>3. TurnInOrder'
      BY <1>1, <1>2, <1>3, <1>4, <1>9, <2>1, TurnGoesOn DEF callVars
  <2>4. LinkInOrder'
    <3>1. FieldsAgree'
        BY <1>1, <1>5, <2>1, <2>2 DEF Order, LinkInOrder, FieldsAgree
    <3>2. AcksCurrent'
      <4>1. link.generation <= link.generation
          BY <1>5
      <4> QED
          BY <1>1, <2>1, <2>2, <4>1 DEF Order, LinkInOrder, AcksCurrent
    <3>3. AuthsCurrent'
        BY <1>1, <1>8 DEF Order, LinkInOrder, AuthsCurrent
    <3>4. InvalidationsCurrent' /\ CallsCurrent'
        BY <1>1, <2>1 DEF Order, LinkInOrder, InvalidationsCurrent, CallsCurrent, callVars,
                          Invoked
    <3> QED
        BY <3>1, <3>2, <3>3, <3>4 DEF LinkInOrder
  <2>5. DisposalGoesOn' /\ CallsInOrder'
    <3>1. disposed => link.disposed
        BY <1>1, <2>1, TransportDisposed DEF Resumes
    <3> QED
        BY <1>1, <1>4, <2>1, <3>1, LinkRests
  <2> QED
      BY <1>10, <2>3, <2>4, <2>5 DEF Order
<1>12. CASE DoRespond
  <2>0. PICK r : r = h.request
      OBVIOUS
  <2>1. h.op = "respond" /\ UNCHANGED linkVars /\ r \in Requests /\ r \notin Waiting
    <3>1. h.op = "respond" /\ UNCHANGED linkVars
        BY <1>12 DEF DoRespond, Doing
    <3> QED
        BY <1>2, <2>0, <3>1, FrameFields DEF Fits
  <2>2. \/ /\ UNCHANGED <<call, answers>>
           /\ call[r].sent \/ link.disposed \/ ~link.ready \/ call[r].generation # link.generation
        \/ /\ ~call[r].sent
           /\ call' = [call EXCEPT ![r].sent = TRUE]
           /\ answers' = [answers EXCEPT ![r] = Append(@, h.result)]
      BY <1>12, <2>0 DEF DoRespond, Current
  <2>3. /\ \A q \in Requests : /\ call'[q].stage = call[q].stage
                               /\ call'[q].due = call[q].due
                               /\ call'[q].generation = call[q].generation
                               /\ call[q].sent => call'[q].sent
        /\ \A q \in Requests : q # r => call'[q].sent = call[q].sent /\ answers'[q] = answers[q]
        /\ \A q \in Requests : Invoked(q)' <=> Invoked(q)
    <3>1. ASSUME call' = [call EXCEPT ![r].sent = TRUE],
                 answers' = [answers EXCEPT ![r] = Append(@, h.result)], NEW q \in Requests
          PROVE  /\ call'[q].stage = call[q].stage /\ call'[q].due = call[q].due
                 /\ call'[q].generation = call[q].generation
                 /\ call[q].sent => call'[q].sent
                 /\ q # r => call'[q].sent = call[q].sent /\ answers'[q] = answers[q]
        BY <1>5, <2>1, <3>1 DEF CallRecord
    <3> QED
        BY <2>2, <3>1 DEF Invoked
  <2>4. \/ call'[r].sent /\ Len(answers'[r]) = 1
        \/ /\ ~call[r].sent /\ ~call'[r].sent
           /\ link.disposed \/ ~link.ready \/ call[r].generation # link.generation
    <3>1. CASE /\ UNCHANGED <<call, answers>>
               /\ call[r].sent \/ link.disposed \/ ~link.ready
                  \/ call[r].generation # link.generation
      <4>1. call' = call /\ answers' = answers
          BY <3>1
      <4>2. CASE call[r].sent
          BY <2>1, <4>1, <4>2 DEF Order, CallsInOrder, Answered
      <4>3. CASE ~call[r].sent
          BY <3>1, <4>1, <4>3
      <4> QED
          BY <4>2, <4>3
    <3>2. CASE /\ ~call[r].sent
               /\ call' = [call EXCEPT ![r].sent = TRUE]
               /\ answers' = [answers EXCEPT ![r] = Append(@, h.result)]
      <4>1. answers[r] = <<>> /\ h.result \in Results
          BY <1>2, <2>1, <3>2, FrameFields DEF IInv, History, CountsAgree
      <4>2. call'[r].sent = TRUE /\ answers'[r] = Append(<<>>, h.result)
          BY <1>5, <2>1, <3>2, <4>1 DEF CallRecord
      <4> QED
          BY <4>1, <4>2
    <3> QED
        BY <2>2, <3>1, <3>2
  <2>5. TurnInOrder'
      BY <1>1, <1>2, <1>3, <1>4, <1>9, <2>3, TurnGoesOn
  <2>6. LinkInOrder'
    <3>1. FieldsAgree'
        BY <1>5, <2>1 DEF linkVars, Order, LinkInOrder, FieldsAgree
    <3>2. AcksCurrent' /\ InvalidationsCurrent'
        BY <2>1 DEF linkVars, Order, LinkInOrder, AcksCurrent, InvalidationsCurrent
    <3>3. AuthsCurrent'
        BY <1>8, <2>1 DEF linkVars, Order, LinkInOrder, AuthsCurrent
    <3>4. CallsCurrent'
        BY <2>1, <2>3 DEF linkVars, Order, LinkInOrder, CallsCurrent
    <3> QED
        BY <3>1, <3>2, <3>3, <3>4 DEF LinkInOrder
  <2>7. \A q : Ended(q) => Ended(q)'
      BY <1>7, <2>1 DEF Ended
  <2>8. DisposalGoesOn'
    <3> SUFFICES ASSUME disposed
                 PROVE  /\ \/ status' = "disposed"
                           \/ \E x \in Elements(agenda') :
                                  x.op = "publish" /\ x.status = "disposed"
                        /\ \A q \in Waiting' : Ended(q)'
                        /\ link'.disposed \/ Disposing(agenda')
        BY <1>5 DEF DisposalGoesOn
    <3>1. \/ status' = "disposed"
          \/ \E x \in Elements(agenda') : x.op = "publish" /\ x.status = "disposed"
        BY <1>5, <1>7, <2>1 DEF Order, DisposalGoesOn
    <3>2. \A q \in Waiting' : Ended(q)'
        BY <1>5, <2>7 DEF Order, DisposalGoesOn
    <3>3. ASSUME ~link'.disposed PROVE Disposing(agenda')
      <4>1. Disposing(agenda)
          BY <1>1, <3>3 DEF Order, DisposalGoesOn
      <4>2. Disposing(t)
          BY <1>4, <2>1, <4>1, Left DEF Doing
      <4>3. e \in Seq(Frames) /\ t \in Seq(Frames) /\ agenda' = e \o t
          BY <1>3, <1>4, Left DEF Leaves
      <4> QED
          BY <1>3, <4>2, <4>3, DisposingWaits
    <3> QED
        BY <3>1, <3>2, <3>3
  <2>9. Distinct' /\ ShownPending' /\ WaitingCurrent'
    <3>1. Distinct' /\ ShownPending'
        BY <1>5, <1>7, <2>1 DEF Order, CallsInOrder, Distinct, ShownPending, Pending
    <3>2. WaitingCurrent'
      <4>1. \A q \in Waiting : q \in Requests
          BY DEF IInv, TypeInv, ClientType, Waiting
      <4> QED
          BY <1>1, <1>5, <1>7, <2>1, <2>3, <2>7, <4>1 DEF Order, CallsInOrder, WaitingCurrent
    <3> QED
        BY <3>1, <3>2
  <2>10. Answered'
    <3> SUFFICES ASSUME NEW q \in Requests
                 PROVE  /\ q \in Waiting' => ~call'[q].sent
                        /\ call'[q].sent => Len(answers'[q]) = 1
                        /\ call'[q].stage = "executing" => executions'[q] = 1
                        /\ Invoked(q)' /\ call'[q].generation = link'.generation
                              /\ q \notin Waiting'
                           => \/ call'[q].sent
                              \/ \E x \in Elements(agenda') : x.op = "respond" /\ x.request = q
        BY DEF Answered
    <3>1. CASE q # r
        BY <1>1, <1>5, <1>7, <2>0, <2>3, <3>1 DEF Order, CallsInOrder, Answered
    <3>2. CASE q = r
      <4>1. link.disposed => ~link.ready
          BY DEF Order, LinkInOrder, FieldsAgree
      <4>2. Invoked(r) /\ call[r].generation = link.generation => link.ready
          BY <2>1 DEF Order, LinkInOrder, CallsCurrent
      <4>3. call[r].stage = "executing" => executions[r] = 1
          BY <2>1 DEF Order, CallsInOrder, Answered
      <4> QED
          BY <1>1, <1>5, <2>1, <2>3, <2>4, <3>2, <4>1, <4>2, <4>3
    <3> QED
        BY <3>1, <3>2
  <2> QED
      BY <1>10, <2>5, <2>6, <2>8, <2>9, <2>10 DEF Order, CallsInOrder
<1> QED
    BY <1>11, <1>12

\* An event that the client is not told of.
LEMMA QuietKeeps ==
    ASSUME IInv, Order, Quiet, UNCHANGED <<clientVars, callVars, agenda>>,
           link'.ready = link.ready, link'.failed = link.failed,
           link'.disposed = link.disposed, link'.generation = link.generation,
           LinkInOrder', Attempting' => link'.deadline = link'.generation
    PROVE  Order'
<1>1. /\ agenda = <<>> /\ agenda' = <<>> /\ Elements(agenda') = {} /\ Announced = status
      /\ disposed => status = "disposed" /\ Waiting = {} /\ link.disposed
      /\ \A r \in Waiting : call[r].generation = link.generation /\ link.ready
      /\ \A op : ~Pending(op)
    BY QuietFacts
<1>2. /\ UNCHANGED <<call, executions, answers, started, disposed, status, calls, shown>>
      /\ Waiting' = Waiting
      /\ \A r \in Requests : Invoked(r)' <=> Invoked(r)
    BY DEF callVars, clientVars, Invoked, Waiting
<1>3. Announced' = status
    BY <1>1, <1>2 DEF Announced, Announcement
<1>4. TurnInOrder'
    BY <1>1 DEF TurnInOrder, HeadOnly, OpenLast, AllFit, BeforeStart, Quiet
<1>5. StatusAgrees' /\ Bounded'
    BY <1>1, <1>2, <1>3 DEF Order, StatusAgrees, Bounded
<1>6. DisposalGoesOn'
    BY <1>1, <1>2 DEF DisposalGoesOn
<1>7. CallsInOrder'
  <2>1. Distinct' /\ WaitingCurrent'
      BY <1>1, <1>2 DEF Order, CallsInOrder, Distinct, WaitingCurrent
  <2>2. ShownPending'
      BY <1>1, <1>2 DEF Order, CallsInOrder, ShownPending
  <2>3. Answered'
      BY <1>1, <1>2 DEF Order, CallsInOrder, Answered
  <2> QED
      BY <2>1, <2>2, <2>3 DEF CallsInOrder
<1> QED
    BY <1>4, <1>5, <1>6, <1>7 DEF Order

\* What begins when no call is on the stack.
LEMMA Begun ==
    ASSUME IInv, Order, Quiet, NEW a \in Frames, Begin(<<a>>)
    PROVE  \E f \in Seq(Frames) : /\ Leaves(f, agenda) /\ Elements(f) = {a} /\ f # <<>>
                                  /\ Head(f) = a /\ HeadOnly(f) /\ OpenLast(f)
<1> DEFINE f == <<a>>
<1>1. f \in Seq(Frames) /\ Elements(f) = {a} /\ f # <<>> /\ Head(f) = a
    BY ShortSequences
<1>2. HeadOnly(f) /\ OpenLast(f)
    BY DEF HeadOnly, OpenLast
<1>3. Leaves(f, agenda)
    BY <1>1, <1>2 DEF Leaves, Begin, HostRuns
<1> HIDE DEF f
<1> QED
    BY <1>1, <1>2, <1>3

\* An event that the client is told of.
LEMMA EventOrder ==
    ASSUME IInv, Order, Quiet, ~disposed, link.opened, UNCHANGED <<clientVars, callVars>>,
           NEW s \in Statuses \ {"disposed", "connecting", "registering"},
           Begin(<<Observe(s)>>), LinkInOrder', s = "ready" <=> link'.ready,
           link'.failed => s = "error",
           \/ link'.generation = link.generation
           \/ link'.generation = link.generation + 1 /\ s # "ready",
           link'.ready \/ socket' \in {"off", "opening"}
    PROVE  Order'
<1>1. PICK a : a = Observe(s)
    OBVIOUS
<1>2. a \in Frames /\ a.op = "observe" /\ a.status = s /\ Begin(<<a>>)
    BY <1>1, FrameTypes, Ops, Fields
<1>3. PICK f \in Seq(Frames) : /\ Leaves(f, agenda) /\ Elements(f) = {a} /\ f # <<>>
                               /\ Head(f) = a /\ HeadOnly(f) /\ OpenLast(f)
    BY <1>2, Begun
<1>4. agenda = <<>> /\ Elements(agenda) = {} /\ Elements(agenda') = {a} /\ started
    BY <1>3, QuietFacts, Left
<1>5. UNCHANGED <<call, executions, answers, started, disposed, status>>
    BY DEF callVars, clientVars
<1>6. Announced' = s
    BY <1>1, <1>3, AnnouncedNext, Announcements
<1>7. Fits(a)'
    BY <1>2, <1>5 DEF Fits, Calm
<1>8. TurnInOrder'
    BY <1>2, <1>3, <1>4, <1>5, <1>7, TurnGoesOn DEF Outermost
<1>9. StatusAgrees' /\ Bounded'
    BY <1>6 DEF StatusAgrees, Bounded, Attempting
<1>10. DisposalGoesOn' /\ CallsInOrder'
    BY <1>2, <1>3, LinkRests
<1> QED
    BY <1>8, <1>9, <1>10 DEF Order

\* The lookups, acknowledgements and invalidations of a generation in force.
LEMMA QuietLink ==
    ASSUME IInv, Order, Quiet
    PROVE  /\ link \in LinkRecord /\ link.generation \in Nat /\ None \notin Nat
           /\ auths \subseteq Nat /\ acks \subseteq Nat /\ invalidations \subseteq Nat
           /\ \A g \in auths : /\ g <= link.generation
                               /\ g = link.generation /\ ~link.disposed
                                     => link.deadline = g /\ socket \in {"authorizing", "joining"}
           /\ \A g \in acks : /\ g <= link.generation
                              /\ g = link.generation /\ ~link.disposed /\ ~link.failed
                                    => socket = "up"
           /\ auths # {} \/ acks # {} \/ socket # "off" \/ link.deadline # None => link.opened
           /\ socket # "off" => ~link.disposed /\ ~link.failed /\ ~disposed
           /\ ~link.disposed => ~disposed
           /\ Attempting => link.deadline = link.generation
<1>1. \A op : ~Pending(op)
    BY QuietFacts
<1>2. /\ link \in LinkRecord /\ link.generation \in Nat /\ None \notin Nat
      /\ auths \subseteq Nat /\ acks \subseteq Nat /\ invalidations \subseteq Nat
    BY RemoteToolAssumption DEF IInv, TypeInv, LinkType, LinkRecord
<1>3. ~link.disposed => ~disposed
    BY QuietFacts
<1>4. Attempting => link.deadline = link.generation
    BY <1>1, <1>3 DEF Order, Bounded, Attempting
<1> QED
    BY <1>1, <1>2, <1>3, <1>4 DEF Order, LinkInOrder, FieldsAgree, AcksCurrent, AuthsCurrent

LEMMA FailOrder ==
    ASSUME IInv, Order, Quiet, link.opened, NEW error, Fail(error),
           UNCHANGED <<clientVars, callVars>>, auths' \subseteq auths, acks' \subseteq acks
    PROVE  Order'
<1>1. call' = call /\ started' = started /\ disposed' = disposed
    BY DEF callVars, clientVars
<1>2. CASE (link.disposed \/ link.failed) /\ UNCHANGED <<link, socket, invalidations, agenda>>
  <2>1. FieldsAgree'
      BY <1>1, <1>2 DEF Order, LinkInOrder, FieldsAgree
  <2>2. AcksCurrent' /\ InvalidationsCurrent' /\ CallsCurrent'
      BY <1>1, <1>2 DEF Order, LinkInOrder, AcksCurrent, InvalidationsCurrent, CallsCurrent,
                        Invoked
  <2>3. AuthsCurrent'
      BY <1>2, QuietFacts DEF Order, LinkInOrder, AuthsCurrent
  <2>4. Attempting' => link'.deadline = link'.generation
    <3>1. Attempting' => Attempting
        BY <1>1, <1>2 DEF Attempting, Announced, Announcement, clientVars
    <3> QED
        BY <1>2, <3>1, QuietLink
  <2> QED
      BY <1>2, <2>1, <2>2, <2>3, <2>4, QuietKeeps DEF LinkInOrder
<1>3. CASE ~link.disposed /\ ~link.failed
  <2>1. /\ link' = [link EXCEPT !.failed = TRUE, !.ready = FALSE,
                                !.generation = @ + 1, !.deadline = None]
        /\ socket' = "off" /\ Begin(<<Observe("error")>>)
        /\ invalidations' \subseteq invalidations \cup {link.generation + 1}
      BY <1>3 DEF Fail
  <2>2. /\ link'.failed /\ ~link'.ready /\ link'.generation = link.generation + 1
        /\ link'.deadline = None /\ link'.opened /\ link'.disposed = link.disposed
      BY <2>1, QuietLink DEF LinkRecord
  <2>3. FieldsAgree'
      BY <1>1, <1>3, <2>1, <2>2 DEF Order, LinkInOrder, FieldsAgree
  <2>4. LinkInOrder'
      BY <1>1, <2>1, <2>2, <2>3, NextGeneration DEF LinkInOrder
  <2> QED
      BY <1>3, <2>1, <2>2, <2>4, EventOrder, QuietLink DEF Statuses
<1> QED
    BY <1>2, <1>3 DEF Fail

LEMMA LossOrder ==
    ASSUME IInv, Order, Quiet, socket # "off", NEW s \in {"off", "opening"}, ConnectionLost(s),
           UNCHANGED <<clientVars, callVars, auths, acks>>
    PROVE  Order'
<1>1. call' = call /\ started' = started /\ disposed' = disposed
    BY DEF callVars, clientVars
<1>2. ~link.disposed /\ ~link.failed /\ link.opened /\ ~disposed
    BY QuietLink
<1>3. /\ link' = [link EXCEPT !.ready = FALSE, !.generation = @ + 1, !.deadline = None]
      /\ socket' = s /\ Begin(<<Observe("disconnected")>>) /\ invalidations' = invalidations
    BY <1>2 DEF ConnectionLost
<1>4. /\ ~link'.failed /\ ~link'.ready /\ link'.generation = link.generation + 1
      /\ link'.deadline = None /\ link'.opened /\ ~link'.disposed
    BY <1>2, <1>3, QuietLink DEF LinkRecord
<1>5. FieldsAgree'
    BY <1>1, <1>2, <1>4 DEF Order, LinkInOrder, FieldsAgree
<1>6. LinkInOrder'
    BY <1>1, <1>3, <1>4, <1>5, NextGeneration DEF LinkInOrder
<1> QED
    BY <1>2, <1>3, <1>4, <1>6, EventOrder DEF Statuses

LEMMA NetworkOrder ==
    ASSUME IInv, Order, Network
    PROVE  Order'
<1>0. CASE GetAuth
  <2>1. /\ Quiet /\ socket = "opening" /\ socket' = "authorizing" /\ ~link.disposed
        /\ link' = Armed(link) /\ auths' = auths \cup {link.generation}
        /\ UNCHANGED <<clientVars, callVars, acks, invalidations, agenda>>
      BY <1>0 DEF GetAuth
  <2>2. ~link.failed /\ ~disposed /\ link.opened
      BY <2>1, QuietLink
  <2>3. /\ link'.ready = link.ready /\ link'.failed = link.failed
        /\ link'.disposed = link.disposed /\ link'.opened = link.opened
        /\ link'.generation = link.generation /\ link'.deadline = link.generation
      BY <2>1, QuietLink DEF Armed, LinkRecord
  <2>4. started' = started /\ disposed' = disposed /\ call' = call
      BY <2>1 DEF clientVars, callVars
  <2>5. FieldsAgree'
      BY <2>1, <2>2, <2>3, <2>4 DEF Order, LinkInOrder, FieldsAgree
  <2>6. AcksCurrent'
      BY <2>1, <2>2, <2>3 DEF Order, LinkInOrder, AcksCurrent
  <2>7. AuthsCurrent'
    <3>1. link.generation <= link.generation
        BY <2>1, QuietLink
    <3> QED
        BY <2>1, <2>3, <3>1, QuietLink DEF AuthsCurrent
  <2>8. InvalidationsCurrent' /\ CallsCurrent'
      BY <2>1, <2>3, <2>4 DEF Order, LinkInOrder, InvalidationsCurrent, CallsCurrent, Invoked
  <2> QED
      BY <2>1, <2>3, <2>5, <2>6, <2>7, <2>8, QuietKeeps DEF LinkInOrder
<1>1. CASE Connected
  <2>1. /\ Quiet /\ socket = "joining" /\ socket' = "up"
        /\ UNCHANGED <<clientVars, callVars, link, auths, acks, invalidations>>
      BY <1>1 DEF Connected
  <2>2. PICK a : a = Register
      OBVIOUS
  <2>3. a \in Frames /\ a.op = "register" /\ Begin(<<a>>)
      BY <1>1, <2>2, FrameTypes, Ops DEF Connected
  <2>4. PICK f \in Seq(Frames) : /\ Leaves(f, agenda) /\ Elements(f) = {a} /\ f # <<>>
                                 /\ Head(f) = a /\ HeadOnly(f) /\ OpenLast(f)
      BY <2>1, <2>3, Begun
  <2>5. ~link.disposed /\ ~link.failed /\ ~disposed /\ link.opened
      BY <2>1, QuietLink
  <2>6. agenda = <<>> /\ Elements(agenda) = {} /\ Elements(agenda') = {a} /\ started
      BY <2>1, <2>4, <2>5, QuietFacts, Left
  <2>7. UNCHANGED <<call, executions, answers, started, disposed, status>>
      BY <2>1 DEF callVars, clientVars
  <2>8. Announced' = status /\ Announced = status
      BY <2>1, <2>3, <2>4, <2>7, AnnouncedNext, Announcements, QuietFacts
  <2>9. Fits(a)'
      BY <2>1, <2>3, <2>5, <2>7 DEF Fits, Calm
  <2>10. TurnInOrder'
      BY <2>1, <2>3, <2>4, <2>6, <2>7, <2>9, TurnGoesOn DEF Outermost
  <2>11. Pending("register")' /\ ~Pending("release")
      BY <2>3, <2>6 DEF Pending
  <2>12. LinkInOrder'
    <3>1. FieldsAgree'
        BY <2>1, <2>5, <2>7 DEF Order, LinkInOrder, FieldsAgree
    <3>2. AcksCurrent' /\ InvalidationsCurrent' /\ CallsCurrent'
        BY <2>1, <2>7 DEF Order, LinkInOrder, AcksCurrent, InvalidationsCurrent, CallsCurrent,
                          Invoked
    <3>3. AuthsCurrent'
        BY <2>1, <2>11 DEF Order, LinkInOrder, AuthsCurrent
    <3> QED
        BY <3>1, <3>2, <3>3 DEF LinkInOrder
  <2>13. StatusAgrees' /\ Bounded'
      BY <2>1, <2>7, <2>8, <2>11 DEF Order, StatusAgrees, Bounded
  <2>14. DisposalGoesOn' /\ CallsInOrder'
      BY <2>1, <2>4, <2>5, LinkRests
  <2> QED
      BY <2>10, <2>12, <2>13, <2>14 DEF Order
<1>2. CASE ConnectError
  <2>1. Quiet /\ UNCHANGED <<clientVars, callVars, auths, acks>>
      BY <1>2 DEF ConnectError
  <2>2. ASSUME NEW error, socket = "joining", Fail(error) PROVE Order'
      BY <2>1, <2>2, FailOrder, QuietLink
  <2>3. CASE socket = "opening" /\ ConnectionLost("opening")
      BY <2>1, <2>3, LossOrder
  <2> QED
      BY <1>2, <2>2, <2>3 DEF ConnectError
<1>3. CASE Disconnected
  <2>1. Quiet /\ UNCHANGED <<clientVars, callVars, auths, acks>>
      BY <1>3 DEF Disconnected
  <2>2. PICK s \in {"off", "opening"} : socket # "off" /\ ConnectionLost(s)
      BY <1>3 DEF Disconnected
  <2> QED
      BY <2>1, <2>2, LossOrder
<1>4. CASE DeadlineFires
  <2>1. Quiet /\ link.deadline # None /\ UNCHANGED <<clientVars, callVars, auths, acks>>
      BY <1>4 DEF DeadlineFires
  <2>2. CASE Fail("timeout")
      BY <2>1, <2>2, FailOrder, QuietLink
  <2>3. CASE /\ link.deadline # link.generation
             /\ link' = [link EXCEPT !.deadline = None]
             /\ UNCHANGED <<socket, invalidations, agenda>>
    <3>1. /\ link'.ready = link.ready /\ link'.failed = link.failed
          /\ link'.disposed = link.disposed /\ link'.opened = link.opened
          /\ link'.generation = link.generation /\ link'.deadline = None
        BY <2>1, <2>3, QuietLink DEF LinkRecord
    <3>2. started' = started /\ disposed' = disposed /\ call' = call
        BY <2>1 DEF clientVars, callVars
    <3>3. FieldsAgree'
        BY <2>1, <2>3, <3>1, <3>2 DEF Order, LinkInOrder, FieldsAgree
    <3>4. AcksCurrent' /\ InvalidationsCurrent' /\ CallsCurrent'
        BY <2>1, <2>3, <3>1, <3>2
           DEF Order, LinkInOrder, AcksCurrent, InvalidationsCurrent, CallsCurrent, Invoked
    <3>5. AuthsCurrent'
        BY <2>1, <2>3, <3>1, QuietLink DEF AuthsCurrent
    <3>6. Attempting' => Attempting
        BY <2>1, <2>3, <3>1 DEF Attempting, Announced, Announcement, clientVars
    <3>7. ~Attempting'
        BY <2>1, <2>3, <3>6, QuietLink
    <3> QED
        BY <2>1, <2>3, <3>1, <3>3, <3>4, <3>5, <3>7, QuietKeeps DEF LinkInOrder
  <2> QED
      BY <1>4, <2>2, <2>3 DEF DeadlineFires
<1>5. ASSUME NEW g \in auths, AuthReturns(g) PROVE Order'
  <2>1. /\ Quiet /\ auths' = auths \ {g}
        /\ UNCHANGED <<clientVars, callVars, acks>>
      BY <1>5 DEF AuthReturns
  <2>2. ASSUME NEW error, Fail(error) PROVE Order'
      BY <2>1, <2>2, FailOrder, QuietLink
  <2>3. CASE /\ \/ socket' = socket
                \/ socket \in {"authorizing", "joining"} /\ socket' = "joining"
             /\ UNCHANGED <<link, invalidations, agenda>>
    <3>1. started' = started /\ disposed' = disposed /\ call' = call
        BY <2>1 DEF clientVars, callVars
    <3>2. FieldsAgree'
        BY <1>5, <2>1, <2>3, <3>1 DEF Order, LinkInOrder, FieldsAgree
    <3>3. AcksCurrent' /\ InvalidationsCurrent' /\ CallsCurrent'
        BY <2>1, <2>3, <3>1
           DEF Order, LinkInOrder, AcksCurrent, InvalidationsCurrent, CallsCurrent, Invoked
    <3>4. AuthsCurrent'
        BY <2>1, <2>3, QuietLink DEF AuthsCurrent
    <3>5. Attempting' => Attempting
        BY <2>1, <2>3 DEF Attempting, Announced, Announcement, clientVars
    <3> QED
        BY <2>1, <2>3, <3>2, <3>3, <3>4, <3>5, QuietKeeps, QuietLink DEF LinkInOrder
  <2>4. ~link.disposed /\ Current(g) => socket \in {"authorizing", "joining"}
      BY <2>1, QuietLink DEF Current
  <2> QED
      BY <1>5, <2>2, <2>3, <2>4 DEF AuthReturns
<1>6. ASSUME NEW g \in acks, Acknowledged(g) PROVE Order'
  <2>1. /\ Quiet /\ acks' = acks \ {g}
        /\ UNCHANGED <<clientVars, callVars, auths>>
      BY <1>6 DEF Acknowledged
  <2>2. CASE Fail("registration-rejected")
      BY <2>1, <2>2, FailOrder, QuietLink
  <2>3. started' = started /\ disposed' = disposed /\ call' = call
      BY <2>1 DEF clientVars, callVars
  <2>4. CASE UNCHANGED <<link, socket, invalidations, agenda>>
    <3>1. FieldsAgree'
        BY <1>6, <2>1, <2>3, <2>4 DEF Order, LinkInOrder, FieldsAgree
    <3>2. AcksCurrent' /\ InvalidationsCurrent' /\ CallsCurrent'
        BY <2>1, <2>3, <2>4
           DEF Order, LinkInOrder, AcksCurrent, InvalidationsCurrent, CallsCurrent, Invoked
    <3>3. AuthsCurrent'
        BY <2>1, <2>4, QuietLink DEF AuthsCurrent
    <3>4. Attempting' => Attempting
        BY <2>1, <2>4 DEF Attempting, Announced, Announcement, clientVars
    <3> QED
        BY <2>1, <2>4, <3>1, <3>2, <3>3, <3>4, QuietKeeps, QuietLink DEF LinkInOrder
  <2>5. CASE /\ ~link.disposed /\ ~link.failed /\ Current(g)
             /\ link' = [link EXCEPT !.ready = TRUE, !.deadline = None]
             /\ Begin(<<Observe("ready")>>)
             /\ UNCHANGED <<socket, invalidations>>
    <3>1. socket = "up" /\ ~disposed /\ link.opened
        BY <2>1, <2>5, QuietLink DEF Current
    <3>2. /\ link'.ready /\ link'.failed = link.failed
          /\ link'.disposed = link.disposed /\ link'.opened = link.opened
          /\ link'.generation = link.generation /\ link'.deadline = None
        BY <2>1, <2>5, QuietLink DEF LinkRecord
    <3>3. FieldsAgree'
        BY <2>3, <2>5, <3>1, <3>2 DEF Order, LinkInOrder, FieldsAgree
    <3>4. AcksCurrent' /\ InvalidationsCurrent' /\ CallsCurrent'
        BY <2>1, <2>3, <2>5, <3>2
           DEF Order, LinkInOrder, AcksCurrent, InvalidationsCurrent, CallsCurrent, Invoked
    <3>5. AuthsCurrent'
        BY <2>1, <2>5, <3>1, <3>2, QuietLink DEF AuthsCurrent
    <3> QED
        BY <2>1, <2>5, <3>1, <3>2, <3>3, <3>4, <3>5, EventOrder DEF LinkInOrder, Statuses
  <2> QED
      BY <1>6, <2>2, <2>4, <2>5 DEF Acknowledged
<1>7. ASSUME NEW g \in invalidations, Invalidate(g) PROVE Order'
  <2>1. /\ Quiet /\ invalidations' = invalidations \ {g}
        /\ UNCHANGED <<clientVars, callVars, link, auths, acks, socket, agenda>>
      BY <1>7 DEF Invalidate
  <2>2. started' = started /\ disposed' = disposed /\ call' = call
      BY <2>1 DEF clientVars, callVars
  <2>3. FieldsAgree'
      BY <2>1, <2>2 DEF Order, LinkInOrder, FieldsAgree
  <2>4. AcksCurrent' /\ InvalidationsCurrent' /\ CallsCurrent'
      BY <2>1, <2>2
         DEF Order, LinkInOrder, AcksCurrent, InvalidationsCurrent, CallsCurrent, Invoked
  <2>5. AuthsCurrent'
      BY <2>1, QuietLink DEF AuthsCurrent
  <2>6. Attempting' => Attempting
      BY <2>1 DEF Attempting, Announced, Announcement, clientVars
  <2> QED
      BY <2>1, <2>3, <2>4, <2>5, <2>6, QuietKeeps, QuietLink DEF LinkInOrder
<1> QED
    BY <1>0, <1>1, <1>2, <1>3, <1>4, <1>5, <1>6, <1>7 DEF Network

-----------------------------------------------------------------------------
(* Invocations and the handlers of calls: each step begins a turn. *)

LEMMA QuietTurn ==
    ASSUME IInv, Order, Quiet, NEW f, Leaves(f, agenda),
           UNCHANGED <<started, disposed>>, UNCHANGED linkVars,
           \A x \in Elements(f) : Fits(x)' /\ ~Outermost(x),
           started \/ disposed \/ f = <<>>, CallsCurrent'
    PROVE  TurnInOrder' /\ LinkInOrder' /\ Elements(agenda') = Elements(f)
<1>1. agenda = <<>> /\ Elements(agenda) = {} /\ \A op : ~Pending(op)
    BY QuietFacts
<1>2. HeadOnly(agenda') /\ OpenLast(agenda') /\ Elements(agenda') = Elements(f)
    BY <1>1, Left
<1>3. BeforeStart'
  <2>1. f = <<>> => agenda' = <<>>
      BY <1>1 DEF Leaves
  <2> QED
      BY <2>1 DEF BeforeStart, Quiet
<1>4. TurnInOrder'
    BY <1>2, <1>3 DEF TurnInOrder, AllFit
<1>5. FieldsAgree' /\ AcksCurrent' /\ InvalidationsCurrent'
    BY DEF Order, LinkInOrder, FieldsAgree, AcksCurrent, InvalidationsCurrent, linkVars
<1>6. AuthsCurrent'
    BY <1>1 DEF Order, LinkInOrder, AuthsCurrent, linkVars
<1> QED
    BY <1>2, <1>4, <1>5, <1>6 DEF LinkInOrder

\* What an invocation leaves behind: the call waits, or its response follows.
LEMMA InvocationOrder ==
    ASSUME IInv, Order, Quiet, NEW r \in Requests, ~Invoked(r), Delivered, ~disposed,
           status = "ready", NEW stage \in Stages \ {"none", "executing"},
           call' = [call EXCEPT ![r] = NewCall(stage)],
           UNCHANGED <<started, disposed, status, shown, executions, answers, linkVars>>,
           NEW f, Leaves(f, agenda), \A x \in Elements(f) : Fits(x)' /\ ~Outermost(x),
           Announced' = "ready" \/ (Announced' = "error" /\ Pending("release")'),
           \A q \in Waiting : q \in Waiting', \A q \in Waiting' : q \in Waiting \/ q = r,
           Distinct', Pending("publish")',
           r \in Waiting' \/ \E x \in Elements(f) : x.op = "respond" /\ x.request = r
    PROVE  Order'
<1>1. /\ link.ready /\ socket = "up" /\ ~link.disposed /\ ~link.failed /\ link.opened /\ started
      /\ link.generation \in Nat
    BY QuietFacts DEF Delivered, Order, LinkInOrder, FieldsAgree, IInv, TypeInv, LinkType,
                      LinkRecord
<1>2. UNCHANGED <<link, socket, auths, acks, invalidations>>
    BY DEF linkVars
<1>3. /\ call'[r].generation = link.generation /\ ~call'[r].sent /\ call'[r].stage = stage
      /\ \A q \in Requests : q # r => call'[q] = call[q]
  <2>1. call \in [Requests -> CallRecord]
      BY DEF IInv, TypeInv, CallType
  <2> QED
      BY <2>1 DEF NewCall
<1>4. CallsCurrent'
  <2>1. link.generation <= link.generation
      BY <1>1
  <2> QED
      BY <1>1, <1>2, <1>3, <2>1 DEF Order, LinkInOrder, CallsCurrent, Invoked
<1>5. TurnInOrder' /\ LinkInOrder' /\ Elements(agenda') = Elements(f)
    BY <1>1, <1>4, QuietTurn
<1>6. StatusAgrees' /\ Bounded' /\ DisposalGoesOn'
    BY <1>1, <1>2 DEF StatusAgrees, Bounded, Attempting, DisposalGoesOn
<1>7. /\ \A q \in Waiting : call[q].generation = link.generation /\ q \in Requests
      /\ r \notin Waiting
    BY QuietFacts DEF IInv, TypeInv, ClientType, History, WaitingInvoked, Waiting
<1>8. WaitingCurrent' /\ ShownPending'
    BY <1>2, <1>3, <1>7 DEF WaitingCurrent, ShownPending
<1>9. Answered'
  <2> SUFFICES ASSUME NEW q \in Requests
               PROVE  /\ q \in Waiting' => ~call'[q].sent
                      /\ call'[q].sent => Len(answers'[q]) = 1
                      /\ call'[q].stage = "executing" => executions'[q] = 1
                      /\ Invoked(q)' /\ call'[q].generation = link'.generation
                            /\ q \notin Waiting'
                         => \/ call'[q].sent
                            \/ \E x \in Elements(agenda') : x.op = "respond" /\ x.request = q
      BY DEF Answered
  <2>1. CASE q = r
      BY <1>3, <1>5, <2>1
  <2>2. CASE q # r
    <3>1. \A x \in Elements(agenda) : FALSE
        BY QuietFacts
    <3> QED
        BY <1>2, <1>3, <2>2, <3>1 DEF Order, CallsInOrder, Answered, Invoked
  <2> QED
      BY <2>1, <2>2
<1> QED
    BY <1>5, <1>6, <1>8, <1>9 DEF Order, CallsInOrder

LEMMA InvokeOrder ==
    ASSUME IInv, Order, NEW r \in Requests, NEW exists \in BOOLEAN, Invoke(r, exists)
    PROVE  Order'
<1>1. /\ Quiet /\ Delivered /\ ~disposed /\ status = "ready" /\ r \notin seen
      /\ UNCHANGED <<started, disposed, status, shown, executions, answers, linkVars>>
    BY DEF Invoke, Delivered, Known
<1>2. ~Invoked(r)
    BY <1>1, QuietFacts DEF IInv, History, HistoryRemembered
<1>3. r \notin Waiting /\ started
  <2>1. link.opened
      BY <1>1 DEF Delivered, Order, LinkInOrder, FieldsAgree
  <2> QED
      BY <1>1, <1>2, <2>1, QuietFacts DEF IInv, History, WaitingInvoked
<1>4. {"over", "queued"} \subseteq Stages \ {"none", "executing"}
    BY DEF Stages
<1> DEFINE a == Publish("error")
           b == AbortAll(TRUE)
           c == Respond(r, "error")
           d == Release
           p == Republish
<1>5. \/ /\ call' = [call EXCEPT ![r] = NewCall("over")]
         /\ Begin(<<a, b, c, d>>) /\ UNCHANGED calls
      \/ /\ call' = [call EXCEPT ![r] = NewCall("over")]
         /\ Begin(<<p, c>>) /\ UNCHANGED calls
      \/ /\ call' = [call EXCEPT ![r] = NewCall("queued")]
         /\ calls' = Append(calls, r) /\ Begin(<<p>>)
    BY DEF Invoke, Refusing
<1>6. /\ a \in Frames /\ a.op = "publish" /\ a.status = "error"
      /\ b \in Frames /\ b.op = "abort" /\ b.respond = TRUE
      /\ c \in Frames /\ c.op = "respond" /\ c.request = r /\ c.result = "error"
      /\ d \in Frames /\ d.op = "release"
      /\ p \in Frames /\ p.op = "publish" /\ p.status = "same"
  <2>1. {"error", "same"} \subseteq Statuses \cup {"same"} /\ "error" \in Results
      BY DEF Statuses, Results
  <2>2. a \in Frames /\ b \in Frames /\ d \in Frames /\ p \in Frames
      BY <2>1, FrameTypes DEF Republish
  <2>3. c \in Frames
      BY <2>1, FrameTypes
  <2>4. c.op = "respond" /\ c.request = r /\ c.result = "error"
      BY DEF Respond
  <2>5. d.op = "release" /\ a.op = "publish" /\ b.op = "abort" /\ p.op = "publish"
      BY Ops DEF Republish
  <2>6. a.status = "error" /\ b.respond = TRUE /\ p.status = "same"
      BY Fields DEF Republish
  <2> QED
      BY <2>2, <2>3, <2>4, <2>5, <2>6
<1>7. \A f : f # <<>> /\ Head(f) = a => \A s : Announcement(f, s) = "error"
  <2> SUFFICES ASSUME NEW f, f # <<>>, Head(f) = a, NEW s PROVE Announcement(f, s) = "error"
      OBVIOUS
  <2>1. Head(f) = Publish("error") /\ "error" \in Statuses \ {"disposed"}
      BY DEF Statuses
  <2> QED
      BY <2>1, Announcements
<1> HIDE DEF a, b, c, d, p
<1>8. /\ Fits(a)' /\ Fits(b)' /\ Fits(d)' /\ Fits(p)'
      /\ r \notin Waiting' => Fits(c)'
      /\ \A x \in {a, b, c, d, p} : ~Outermost(x)
      /\ Calm(b) /\ Calm(c) /\ Calm(d) /\ Calm(p)
  <2>1. Fits(a)' /\ Fits(b)' /\ Fits(d)' /\ Fits(p)'
      BY <1>1, <1>6 DEF Fits, Calm
  <2>2. r \notin Waiting' => Fits(c)'
      BY <1>6 DEF Fits, Calm
  <2> QED
      BY <1>6, <2>1, <2>2 DEF Outermost, Calm
<1>9. ASSUME call' = [call EXCEPT ![r] = NewCall("over")], Begin(<<a, b, c, d>>), UNCHANGED calls
      PROVE  Order'
  <2> DEFINE f == <<a, b, c, d>>
  <2>1. f \in Seq(Frames) /\ Elements(f) = {a, b, c, d} /\ f # <<>> /\ Head(f) = a
      BY <1>6, ShortSequences
  <2>2. HeadOnly(f)
      BY <1>8 DEF HeadOnly
  <2>3. Leaves(f, agenda)
      BY <1>1, <1>9, <2>1, <2>2 DEF Leaves, Begin, HostRuns
  <2> HIDE DEF f
  <2>4. Announced' = "error" /\ Elements(agenda') = {a, b, c, d}
      BY <1>1, <1>7, <2>1, <2>3, AnnouncedNext, Left, QuietFacts
  <2>5. Waiting' = Waiting /\ Distinct'
      BY <1>9 DEF Waiting, Order, CallsInOrder, Distinct
  <2>6. Pending("release")' /\ Pending("publish")'
      BY <1>6, <2>4 DEF Pending
  <2> QED
      BY <1>1, <1>2, <1>3, <1>4, <1>6, <1>8, <1>9, <2>1, <2>3, <2>4, <2>5, <2>6, InvocationOrder
<1>10. ASSUME call' = [call EXCEPT ![r] = NewCall("over")], Begin(<<p, c>>), UNCHANGED calls
       PROVE  Order'
  <2> DEFINE f == <<p, c>>
  <2>1. f \in Seq(Frames) /\ Elements(f) = {p, c} /\ f # <<>> /\ Head(f) = p
      BY <1>6, ShortSequences
  <2>2. HeadOnly(f)
      BY <1>8 DEF HeadOnly
  <2>3. Leaves(f, agenda)
      BY <1>1, <1>10, <2>1, <2>2 DEF Leaves, Begin, HostRuns
  <2> HIDE DEF f
  <2>4. Announced' = "ready" /\ Elements(agenda') = {p, c}
      BY <1>1, <1>8, <2>1, <2>3, AnnouncedNext, Announcements, Left, QuietFacts
  <2>5. Waiting' = Waiting /\ Distinct'
      BY <1>10 DEF Waiting, Order, CallsInOrder, Distinct
  <2>6. Pending("publish")'
      BY <1>6, <2>4 DEF Pending
  <2> QED
      BY <1>1, <1>2, <1>3, <1>4, <1>6, <1>8, <1>10, <2>1, <2>3, <2>4, <2>5, <2>6, InvocationOrder
<1>11. ASSUME call' = [call EXCEPT ![r] = NewCall("queued")], Begin(<<p>>),
              calls' = Append(calls, r)
       PROVE  Order'
  <2> DEFINE f == <<p>>
  <2>1. f \in Seq(Frames) /\ Elements(f) = {p} /\ f # <<>> /\ Head(f) = p
      BY <1>6, ShortSequences
  <2>2. HeadOnly(f)
      BY DEF HeadOnly
  <2>3. Leaves(f, agenda)
      BY <1>1, <1>11, <2>1, <2>2 DEF Leaves, Begin, HostRuns
  <2> HIDE DEF f
  <2>4. Announced' = "ready" /\ Elements(agenda') = {p}
      BY <1>1, <1>8, <2>1, <2>3, AnnouncedNext, Announcements, Left, QuietFacts
  <2>5. Pending("publish")'
      BY <1>6, <2>4 DEF Pending
  <2>6. /\ DOMAIN calls = 1 .. Len(calls) /\ Len(calls) \in Nat
        /\ DOMAIN calls' = 1 .. Len(calls) + 1
        /\ \A i \in 1 .. Len(calls) : calls'[i] = calls[i]
        /\ calls'[Len(calls) + 1] = r
      BY <1>11 DEF IInv, TypeInv, ClientType
  <2>7. \A i \in DOMAIN calls' : i \in DOMAIN calls \/ i = Len(calls) + 1
      BY <2>6
  <2>8. \A i \in DOMAIN calls : i \in DOMAIN calls' /\ calls'[i] = calls[i] /\ calls[i] # r
      BY <1>3, <2>6 DEF Waiting
  <2>9. Distinct'
      BY <2>6, <2>7, <2>8 DEF Order, CallsInOrder, Distinct
  <2>10. /\ \A q \in Waiting : q \in Waiting'
         /\ \A q \in Waiting' : q \in Waiting \/ q = r
      BY <2>6, <2>7, <2>8 DEF Waiting
  <2>11. r \in Waiting'
    <3>1. Len(calls) + 1 \in DOMAIN calls'
        BY <2>6
    <3> QED
        BY <2>6, <3>1 DEF Waiting
  <2> QED
      BY <1>1, <1>2, <1>4, <1>8, <1>11, <2>1, <2>3, <2>4, <2>5, <2>9, <2>10, <2>11,
         InvocationOrder
<1> QED
    BY <1>5, <1>9, <1>10, <1>11

\* A handler ends its own call at most.
LEMMA CallOrder ==
    ASSUME IInv, Order, Quiet, NEW r \in Requests, Invoked(r),
           UNCHANGED <<clientVars, answers, linkVars>>,
           NEW f, Leaves(f, agenda), f # <<>> => r \in Waiting,
           \A x \in Elements(f) :
               /\ x.op = "finish" /\ x.request = r /\ x.respond = TRUE
               /\ x.result = "ok" => ~call'[r].due /\ executions'[r] = 1,
           \A q \in Requests : q # r => call'[q] = call[q] /\ executions'[q] = executions[q],
           call'[r].stage # "none", call'[r].sent = call[r].sent,
           call'[r].generation = call[r].generation,
           call'[r].stage = "executing" => executions'[r] = 1
    PROVE  Order'
<1>1. /\ agenda = <<>> /\ Elements(agenda) = {}
      /\ \A op : ~Pending(op)
      /\ disposed => status = "disposed" /\ Waiting = {} /\ link.disposed
      /\ \A q \in Waiting : call[q].generation = link.generation /\ link.ready
      /\ Announced = status /\ (~link.opened \/ started)
    BY QuietFacts
<1>2. /\ UNCHANGED <<link, socket, started, disposed, status, calls, shown>>
      /\ Waiting' = Waiting
      /\ \A q \in Requests : Invoked(q)' <=> Invoked(q)
    BY DEF linkVars, clientVars, Waiting, Invoked
<1>3. \A q \in Requests : /\ call'[q].generation = call[q].generation
                          /\ call'[q].sent = call[q].sent
    OBVIOUS
<1>4. \A x \in Elements(f) : Fits(x)' /\ ~Outermost(x)
    BY DEF Fits, Calm, Outermost
<1>5. CallsCurrent'
    BY <1>2, <1>3 DEF Order, LinkInOrder, CallsCurrent
<1>6. started \/ disposed \/ f = <<>>
    BY <1>1 DEF Order, LinkInOrder, FieldsAgree
<1>7. TurnInOrder' /\ LinkInOrder' /\ Elements(agenda') = Elements(f)
    BY <1>2, <1>4, <1>5, <1>6, QuietTurn
<1>8. Announced' = status
  <2>1. f # <<>> => Head(f) \in Elements(f)
    <3>1. f \in Seq(Frames)
        BY DEF Leaves
    <3> QED
        BY <3>1, Popped
  <2>2. CASE f = <<>>
      BY <1>2, <2>2, AnnouncedNext
  <2>3. CASE f # <<>>
      BY <1>2, <2>1, <2>3, AnnouncedNext, Announcements
  <2> QED
      BY <2>2, <2>3
<1>9. StatusAgrees' /\ Bounded'
    BY <1>1, <1>2, <1>8 DEF Order, StatusAgrees, Bounded, Attempting
<1>10. DisposalGoesOn'
    BY <1>1, <1>2 DEF DisposalGoesOn
<1>11. Distinct' /\ WaitingCurrent' /\ ShownPending'
  <2>1. \A q \in Waiting : q \in Requests
      BY DEF IInv, TypeInv, ClientType, Waiting
  <2> QED
      BY <1>1, <1>2, <1>3, <2>1 DEF Order, CallsInOrder, Distinct, WaitingCurrent, ShownPending
<1>12. Answered'
  <2>1. \A q \in Requests : call'[q].stage = "executing" => executions'[q] = 1
      BY DEF Order, CallsInOrder, Answered
  <2> QED
      BY <1>1, <1>2, <1>3, <2>1 DEF Order, CallsInOrder, Answered
<1> QED
    BY <1>7, <1>9, <1>10, <1>11, <1>12 DEF Order, CallsInOrder

\* The end of a call, or nothing, as the beginning of a turn.
LEMMA EndingBegins ==
    ASSUME IInv, Order, Quiet, NEW r \in Requests, NEW f, Begin(f),
           f = <<>> \/ \E result \in Results : f = <<Finish(r, result, TRUE)>>
    PROVE  /\ Leaves(f, agenda)
           /\ \A x \in Elements(f) :
                 /\ x.op = "finish" /\ x.request = r /\ x.respond = TRUE
                 /\ \E result \in Results : x.result = result /\ f = <<Finish(r, result, TRUE)>>
<1>1. CASE f = <<>>
  <2>1. f \in Seq(Frames) /\ Elements(f) = {}
      BY <1>1, ShortSequences
  <2>2. HeadOnly(f)
      BY <1>1 DEF HeadOnly
  <2> QED
      BY <2>1, <2>2 DEF Leaves, Begin, HostRuns
<1>2. ASSUME NEW result \in Results, f = <<Finish(r, result, TRUE)>>
      PROVE  /\ Leaves(f, agenda)
             /\ \A x \in Elements(f) :
                   /\ x.op = "finish" /\ x.request = r /\ x.respond = TRUE
                   /\ x.result = result
  <2> DEFINE a == Finish(r, result, TRUE)
  <2>1. a \in Frames
      BY FrameTypes
  <2>2. a.op = "finish" /\ a.request = r /\ a.respond = TRUE /\ a.result = result
      BY DEF Finish
  <2>3. f = <<a>>
      BY <1>2
  <2> HIDE DEF a
  <2>4. f \in Seq(Frames) /\ Elements(f) = {a}
      BY <2>1, <2>3, ShortSequences
  <2>5. HeadOnly(f)
      BY <2>3 DEF HeadOnly
  <2> QED
      BY <2>2, <2>4, <2>5 DEF Leaves, Begin, HostRuns
<1> QED
    BY <1>1, <1>2

LEMMA AdvanceOrder ==
    ASSUME IInv, Order, Quiet, NEW r \in Requests, Invoked(r),
           NEW stage \in {"validating", "executing", "over"},
           NEW frames, frames = <<>> \/ \E result \in Results : frames = <<Finish(r, result, TRUE)>>,
           Advance(r, stage, frames),
           UNCHANGED <<clientVars, answers, linkVars>>,
           \A q \in Requests : q # r => executions'[q] = executions[q],
           call'[r].stage = "executing" => executions'[r] = 1,
           frames # <<Finish(r, "ok", TRUE)>> \/ executions'[r] = 1
    PROVE  Order'
<1>1. PICK s \in {stage, "over"}, f \in {frames, <<>>, <<Finish(r, "error", TRUE)>>} :
          /\ call' = [call EXCEPT ![r].stage = s] /\ Begin(f)
          /\ f # <<>> => r \in Waiting
          /\ f = <<>> \/ f = <<Finish(r, "error", TRUE)>> \/ (f = frames /\ ~call[r].due)
  <2>1. CASE r \in Waiting /\ ~call[r].due
    <3>1. call' = [call EXCEPT ![r].stage = stage] /\ Begin(frames)
        BY <2>1 DEF Advance
    <3> QED
        BY <2>1, <3>1
  <2>2. CASE r \in Waiting /\ call[r].due
    <3>1. call' = [call EXCEPT ![r].stage = "over"] /\ Begin(<<Finish(r, "error", TRUE)>>)
        BY <2>2 DEF Advance
    <3> QED
        BY <2>2, <3>1
  <2>3. CASE r \notin Waiting
    <3>1. call' = [call EXCEPT ![r].stage = "over"] /\ Begin(<<>>)
        BY <2>3 DEF Advance
    <3> QED
        BY <3>1
  <2> QED
      BY <2>1, <2>2, <2>3
<1>2. f = <<>> \/ \E result \in Results : f = <<Finish(r, result, TRUE)>>
  <2>1. "error" \in Results
      BY DEF Results
  <2> QED
      BY <1>1, <2>1
<1>3. /\ Leaves(f, agenda)
      /\ \A x \in Elements(f) :
            /\ x.op = "finish" /\ x.request = r /\ x.respond = TRUE
            /\ \E result \in Results : x.result = result /\ f = <<Finish(r, result, TRUE)>>
    BY <1>1, <1>2, EndingBegins
<1>4. /\ call'[r].stage = s /\ call'[r].sent = call[r].sent /\ call'[r].due = call[r].due
      /\ call'[r].generation = call[r].generation
      /\ \A q \in Requests : q # r => call'[q] = call[q]
  <2>1. call \in [Requests -> CallRecord]
      BY DEF IInv, TypeInv, CallType
  <2> QED
      BY <1>1, <2>1 DEF CallRecord
<1>5. ASSUME NEW x \in Elements(f), x.result = "ok"
      PROVE  ~call'[r].due /\ executions'[r] = 1
  <2>1. f = <<Finish(r, "ok", TRUE)>>
      BY <1>3, <1>5
  <2>2. Finish(r, "ok", TRUE) # Finish(r, "error", TRUE)
      BY DEF Finish
  <2>3. f # <<>> /\ f # <<Finish(r, "error", TRUE)>>
      BY <2>1, <2>2
  <2> QED
      BY <1>1, <1>4, <2>1, <2>3
<1>6. call'[r].stage # "none"
    BY <1>4
<1> QED
    BY <1>1, <1>3, <1>4, <1>5, <1>6, CallOrder

LEMMA HandlerOrder ==
    ASSUME IInv, Order, NEW r \in Requests, Handler(r)
    PROVE  Order'
<1>1. ASSUME NEW exists \in BOOLEAN, Invoke(r, exists) PROVE Order'
    BY <1>1, InvokeOrder
<1>2. call \in [Requests -> CallRecord] /\ executions \in [Requests -> Nat]
    BY DEF IInv, TypeInv, CallType
<1>3. call[r].stage = "executing" => executions[r] = 1
    BY DEF Order, CallsInOrder, Answered
<1>4. r \in Waiting => Invoked(r)
    BY DEF IInv, History, WaitingInvoked
<1>5. CASE DeadlinePasses(r)
  <2>1. /\ Quiet /\ r \in Waiting /\ call' = [call EXCEPT ![r].due = TRUE]
        /\ UNCHANGED <<clientVars, executions, answers, linkVars, agenda>>
      BY <1>5 DEF DeadlinePasses
  <2>2. /\ call'[r].stage = call[r].stage /\ call'[r].sent = call[r].sent
        /\ call'[r].generation = call[r].generation
        /\ \A q \in Requests : q # r => call'[q] = call[q]
      BY <1>2, <2>1 DEF CallRecord
  <2>3. Begin(<<>>)
      BY <2>1 DEF Begin, IInv, TypeInv, AgendaType
  <2>4. Leaves(<<>>, agenda) /\ Elements(<<>>) = {}
      BY <2>1, <2>3, EndingBegins, ShortSequences
  <2> QED
      BY <1>3, <1>4, <2>1, <2>2, <2>4, CallOrder DEF Invoked
<1>6. CASE TimerFires(r)
  <2> DEFINE f == <<Finish(r, "error", TRUE)>>
  <2>1. /\ Quiet /\ r \in Waiting /\ Begin(f) /\ UNCHANGED <<clientVars, callVars, linkVars>>
      BY <1>6 DEF TimerFires
  <2>2. "error" \in Results
      BY DEF Results
  <2>3. /\ Leaves(f, agenda)
        /\ \A x \in Elements(f) :
              /\ x.op = "finish" /\ x.request = r /\ x.respond = TRUE
              /\ \E result \in Results : x.result = result /\ f = <<Finish(r, result, TRUE)>>
      BY <2>1, <2>2, EndingBegins
  <2>4. Finish(r, "ok", TRUE) # Finish(r, "error", TRUE)
      BY DEF Finish
  <2>5. \A x \in Elements(f) : x.result # "ok"
    <3> SUFFICES ASSUME NEW x \in Elements(f), NEW result \in Results, x.result = result,
                        f = <<Finish(r, result, TRUE)>>
                 PROVE  result # "ok"
        BY <2>3
    <3>1. Finish(r, result, TRUE) = Finish(r, "error", TRUE)
        OBVIOUS
    <3> QED
        BY <2>4, <3>1
  <2>6. UNCHANGED <<call, executions, answers>>
      BY <2>1 DEF callVars
  <2> HIDE DEF f
  <2> QED
      BY <1>3, <1>4, <2>1, <2>3, <2>5, <2>6, CallOrder DEF Invoked
<1>7. CASE Validate(r)
  <2>1. /\ Quiet /\ call[r].stage = "queued" /\ Advance(r, "validating", <<>>)
        /\ UNCHANGED <<clientVars, executions, answers, linkVars>>
      BY <1>7 DEF Validate
  <2>2. call'[r].stage \in {"validating", "over"}
      BY <1>2, <2>1 DEF Advance, CallRecord
  <2> QED
      BY <2>1, <2>2, AdvanceOrder DEF Invoked
<1>8. CASE Validated(r)
  <2>1. /\ Quiet /\ call[r].stage = "validating"
        /\ executions' = [executions EXCEPT ![r] =
                             IF call'[r].stage = "executing" THEN @ + 1 ELSE @]
        /\ UNCHANGED <<clientVars, answers, linkVars>>
      BY <1>8 DEF Validated
  <2>2. executions[r] = 0 /\ "error" \in Results
      BY <2>1 DEF IInv, History, CountsAgree, Results
  <2>3. /\ call'[r].stage = "executing" => executions'[r] = 1
        /\ \A q \in Requests : q # r => executions'[q] = executions[q]
      BY <1>2, <2>1, <2>2
  <2>4. <<>> # <<Finish(r, "ok", TRUE)>>
      OBVIOUS
  <2>5. <<Finish(r, "error", TRUE)>> # <<Finish(r, "ok", TRUE)>>
      BY DEF Finish
  <2>6. CASE Advance(r, "executing", <<>>)
      BY <2>1, <2>3, <2>4, <2>6, AdvanceOrder DEF Invoked
  <2>7. CASE Advance(r, "over", <<Finish(r, "error", TRUE)>>)
      BY <2>1, <2>2, <2>3, <2>5, <2>7, AdvanceOrder DEF Invoked
  <2> QED
      BY <1>8, <2>6, <2>7 DEF Validated
<1>9. CASE Executed(r)
  <2>1. PICK result \in Results : Advance(r, "over", <<Finish(r, result, TRUE)>>)
      BY <1>9 DEF Executed
  <2>2. /\ Quiet /\ call[r].stage = "executing"
        /\ UNCHANGED <<clientVars, executions, answers, linkVars>>
      BY <1>9 DEF Executed
  <2>3. call'[r].stage = "over"
      BY <1>2, <2>1 DEF Advance, CallRecord
  <2> QED
      BY <1>3, <2>1, <2>2, <2>3, AdvanceOrder DEF Invoked
<1> QED
    BY <1>1, <1>5, <1>6, <1>7, <1>8, <1>9 DEF Handler

-----------------------------------------------------------------------------
(* The theorems. *)

LEMMA TurnOrder ==
    ASSUME IInv, Order, Turn
    PROVE  Order'
    BY ShowingOrder, EndingOrder, ReleaseOrder, OpenOrder, RetryOrder, ConnectOrder,
       DisposeOrder, RegisterOrder, SendingOrder DEF Turn

LEMMA StutterOrder ==
    ASSUME Order, UNCHANGED vars
    PROVE  Order'
<1>1. /\ UNCHANGED <<started, disposed, status, shown, calls, call, executions, answers>>
      /\ UNCHANGED <<link, auths, acks, invalidations, socket, agenda>>
    BY DEF vars, clientVars, callVars, linkVars
<1>2. /\ Waiting' = Waiting /\ Announced' = Announced /\ Starting' = Starting
      /\ \A op : Pending(op)' <=> Pending(op)
      /\ \A r : Ended(r)' <=> Ended(r)
      /\ \A r \in Requests : Invoked(r)' <=> Invoked(r)
    BY <1>1 DEF Waiting, Announced, Announcement, Starting, Pending, Ended, Invoked
<1>3. \A x : Fits(x)' <=> Fits(x)
    BY <1>1, <1>2 DEF Fits
<1>4. TurnInOrder'
    BY <1>1, <1>3 DEF Order, TurnInOrder, AllFit, BeforeStart, Quiet, Doing
<1>5. LinkInOrder'
    BY <1>1, <1>2 DEF Order, LinkInOrder, FieldsAgree, AcksCurrent, AuthsCurrent,
                      InvalidationsCurrent, CallsCurrent
<1>6. StatusAgrees' /\ Bounded' /\ DisposalGoesOn'
    BY <1>1, <1>2 DEF Order, StatusAgrees, Bounded, Attempting, DisposalGoesOn
<1>7. CallsInOrder'
    BY <1>1, <1>2 DEF Order, CallsInOrder, Distinct, WaitingCurrent, ShownPending, Answered
<1> QED
    BY <1>4, <1>5, <1>6, <1>7 DEF Order

\* Every step leaves the rest of its turn, the transport, the status and the calls
\* in an order from which the end of the turn keeps its promises.
THEOREM OrderHolds == Spec => []Order
<1>1. Init => Order
    BY InitOrder
<1>2. IInv /\ Order /\ [Next]_vars => Order'
    BY HostCallsOrder, TurnOrder, NetworkOrder, HandlerOrder, StutterOrder DEF Next
<1> QED
    BY <1>1, <1>2, Invariance, PTL DEF Spec

\* While no call is on the stack, every waiting call can be answered over the
\* registration it came from, every attempt to connect has a deadline, and a
\* disposed client has left nothing behind (#connectionLost, #fail, #armDeadline,
\* dispose).
THEOREM InOrder == Spec => []ConnectionInOrder
<1>1. IInv /\ Order => ConnectionInOrder
    BY OrderGives
<1> QED
    BY <1>1, Invariance, OrderHolds, PTL

\* #update: what the host is shown agrees with the calls and the transport,
\* whatever its listeners called while it was being published.
THEOREM ShownIsTrue == Spec => []ShownAgrees
<1>1. IInv /\ Order => ShownAgrees
    BY OrderGives
<1> QED
    BY <1>1, Invariance, OrderHolds, PTL

\* #invoke and finish: an invocation of the registration in force waits or has
\* been answered, and never both.
THEOREM AllAnswered == Spec => []NoneForgotten
<1>1. IInv /\ Order => NoneForgotten
    BY OrderGives
<1> QED
    BY <1>1, Invariance, OrderHolds, PTL

\* Which steps execute and answer.
LEMMA Answering ==
    ASSUME [Next]_vars, answers' # answers
    PROVE  DoRespond
<1>1. CASE HostCalls
    BY <1>1 DEF HostCalls, Start, Retry, Dispose, Cancel, callVars
<1>2. CASE Turn /\ ~DoRespond
    BY <1>2 DEF Turn, HostReturns, DoPublish, DoAbort, DoFinish, DoRelease, DoForget, DoObserve,
                DoOpen, DoRetry, DoConnect, DoDisposeTransport, DoRegister, DoEmit, callVars
<1>3. CASE Network
    BY <1>3 DEF Network, GetAuth, Connected, ConnectError, Disconnected, DeadlineFires,
                AuthReturns, Acknowledged, Invalidate, callVars
<1>4. ASSUME NEW r \in Requests, Handler(r) PROVE FALSE
    BY <1>4 DEF Handler, Invoke, DeadlinePasses, TimerFires, Validate, Validated, Executed,
                callVars
<1>5. CASE UNCHANGED vars
    BY <1>5 DEF vars, callVars
<1> QED
    BY <1>1, <1>2, <1>3, <1>4, <1>5 DEF Next

LEMMA Executing ==
    ASSUME [Next]_vars, executions' # executions
    PROVE  \E r \in Requests : Validated(r)
<1>1. CASE HostCalls
    BY <1>1 DEF HostCalls, Start, Retry, Dispose, Cancel, callVars
<1>2. CASE Turn
    BY <1>2 DEF Turn, HostReturns, DoPublish, DoAbort, DoFinish, DoRelease, DoForget, DoObserve,
                DoOpen, DoRetry, DoConnect, DoDisposeTransport, DoRegister, DoEmit, DoRespond,
                callVars
<1>3. CASE Network
    BY <1>3 DEF Network, GetAuth, Connected, ConnectError, Disconnected, DeadlineFires,
                AuthReturns, Acknowledged, Invalidate, callVars
<1>4. ASSUME NEW r \in Requests, Handler(r), ~Validated(r) PROVE FALSE
    BY <1>4 DEF Handler, Invoke, DeadlinePasses, TimerFires, Validate, Executed, callVars
<1>5. CASE UNCHANGED vars
    BY <1>5 DEF vars, callVars
<1> QED
    BY <1>1, <1>2, <1>3, <1>4, <1>5 DEF Next

LEMMA Reporting ==
    ASSUME [Next]_vars, reported' # reported
    PROVE  \E g \in invalidations : Invalidate(g)
<1>1. CASE HostCalls
    BY <1>1 DEF HostCalls, Start, Retry, Dispose, Cancel, linkVars
<1>2. CASE Turn
    BY <1>2 DEF Turn, HostReturns, DoPublish, DoAbort, DoFinish, DoRelease, DoForget, DoObserve,
                DoOpen, DoRetry, DoConnect, DoDisposeTransport, DoRegister, DoEmit, DoRespond,
                linkVars
<1>3. CASE Network /\ ~\E g \in invalidations : Invalidate(g)
    BY <1>3 DEF Network, GetAuth, Connected, ConnectError, Disconnected, DeadlineFires,
                AuthReturns, Acknowledged
<1>4. ASSUME NEW r \in Requests, Handler(r) PROVE FALSE
    BY <1>4 DEF Handler, Invoke, DeadlinePasses, TimerFires, Validate, Validated, Executed,
                linkVars
<1>5. CASE UNCHANGED vars
    BY <1>5 DEF vars, linkVars
<1> QED
    BY <1>1, <1>2, <1>3, <1>4, <1>5 DEF Next

\* expired, finish and respond: the result of a tool that returns when the time
\* of its call is over is not sent, a call whose time is over or that was settled
\* is not executed; onSessionInvalid: the session provider is only told of a
\* failure that is still the state of the client.
THEOREM LateCountsForNothing == Spec => LateIsIgnored
<1>1. ASSUME IInv, Order, [Next]_vars, NEW r \in Requests
      PROVE  /\ answers'[r] # answers[r] /\ Head(agenda).result = "ok"
                    => ~call[r].due /\ executions[r] = 1
             /\ executions'[r] # executions[r]
                    => r \in Waiting /\ ~call[r].due /\ status = "ready"
  <2>1. ASSUME answers'[r] # answers[r], Head(agenda).result = "ok"
        PROVE  ~call[r].due /\ executions[r] = 1
    <3>1. DoRespond
        BY <1>1, <2>1, Answering
    <3>2. ~Quiet /\ Head(agenda).op = "respond"
        BY <3>1 DEF DoRespond, Doing
    <3>3. Fits(Head(agenda))
        BY <1>1, <3>2, HeadFits
    <3>4. Head(agenda).request = r
      <4>1. answers \in [Requests -> Seq(Results)]
          BY <1>1 DEF IInv, TypeInv, CallType
      <4> QED
          BY <2>1, <3>1, <4>1 DEF DoRespond
    <3> QED
        BY <2>1, <3>2, <3>3, <3>4 DEF Fits
  <2>2. ASSUME executions'[r] # executions[r]
        PROVE  r \in Waiting /\ ~call[r].due /\ status = "ready"
    <3>1. PICK q \in Requests : Validated(q)
        BY <1>1, <2>2, Executing
    <3>2. /\ executions' = [executions EXCEPT ![q] =
                               IF call'[q].stage = "executing" THEN @ + 1 ELSE @]
          /\ Quiet
        BY <3>1 DEF Validated
    <3>3. call \in [Requests -> CallRecord] /\ executions \in [Requests -> Nat]
        BY <1>1 DEF IInv, TypeInv, CallType
    <3>4. q = r /\ call'[r].stage = "executing"
        BY <2>2, <3>2, <3>3
    <3>5. r \in Waiting /\ ~call[r].due
      <4>1. CASE Advance(r, "executing", <<>>)
        <5> SUFFICES ASSUME ~(r \in Waiting /\ ~call[r].due) PROVE FALSE
            OBVIOUS
        <5>1. call' = [call EXCEPT ![r].stage = "over"]
            BY <4>1 DEF Advance
        <5> QED
            BY <3>3, <3>4, <5>1 DEF CallRecord
      <4>2. CASE Advance(r, "over", <<Finish(r, "error", TRUE)>>)
        <5>1. call' = [call EXCEPT ![r].stage = "over"]
            BY <4>2 DEF Advance
        <5> QED
            BY <3>3, <3>4, <5>1 DEF CallRecord
      <4> QED
          BY <3>1, <3>4, <4>1, <4>2 DEF Validated
    <3>6. status = "ready"
        BY <1>1, <3>2, <3>5, OrderGives DEF ConnectionInOrder, WaitingCanBeAnswered
    <3> QED
        BY <3>5, <3>6
  <2> QED
      BY <2>1, <2>2
<1>2. ASSUME IInv, Order, [Next]_vars, reported' # reported
      PROVE  status = "error" /\ link.failed /\ ~disposed
  <2>1. PICK g \in invalidations : Invalidate(g)
      BY <1>2, Reporting
  <2>2. Quiet /\ ~link.disposed /\ g = link.generation
      BY <1>2, <2>1 DEF Invalidate, Current
  <2>3. link.failed
      BY <1>2, <2>2 DEF Order, LinkInOrder, InvalidationsCurrent
  <2>4. status = "error"
      BY <1>2, <2>2, <2>3, OrderGives DEF ShownAgrees
  <2>5. ~disposed
      BY <1>2, <2>2, QuietFacts
  <2> QED
      BY <2>3, <2>4, <2>5
<1>3. IInv /\ Order /\ [Next]_vars =>
          /\ \A r \in Requests :
                /\ answers'[r] # answers[r] /\ Head(agenda).result = "ok"
                       => ~call[r].due /\ executions[r] = 1
                /\ executions'[r] # executions[r]
                       => r \in Waiting /\ ~call[r].due /\ status = "ready"
          /\ reported' # reported => status = "error" /\ link.failed /\ ~disposed
    BY <1>1, <1>2
<1> QED
    BY <1>3, Invariance, OrderHolds, PTL DEF Spec, LateIsIgnored, LateIsDiscarded,
                                             InvalidationIsCurrent

=============================================================================
