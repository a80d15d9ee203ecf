---------------------------- MODULE ChatCommands ----------------------------
(***************************************************************************)
(* The commands of a ChatClient on the conversation it shows               *)
(* (chat-runtime/src/chat-client.ts): sending a message or the composer's  *)
(* draft, answering an interaction, interrupting a run.                    *)
(*                                                                         *)
(* A command is an element of Calls that waits for the gateway in its      *)
(* phase "requested".  Meanwhile the view may be reloaded, replaced by     *)
(* another conversation or by a cached one, deleted or disposed, and the   *)
(* gateway updates it.  A send publishes its outgoing message before it is *)
(* requested: in its phase "published" host code, a listener, is running,  *)
(* no promise settles, and what is committed waits for the listeners:      *)
(* `latest` is ahead of `shown`.                                           *)
(*                                                                         *)
(* A snapshot is abstracted to its conversation, the question that is      *)
(* pending, the active run, the sends whose message is in the timeline and *)
(* the commands whose failure is reported.  A draft is abstracted to the   *)
(* text that was typed; life and revision identify the object.             *)
(***************************************************************************)
EXTENDS Integers, Sequences, FiniteSets, SequencesExt

CONSTANTS
    Calls,          \* the commands of a host, each given once
    None,           \* `undefined` and `null`
    MaxRetired,     \* MAX_RETIRED_INTERACTION_IDENTITIES
    MaxEpoch,       \* bound on the changes of conversation
    MaxGeneration,  \* bound on the loads
    MaxRevision,    \* bound on the edits and on the lives of a draft
    Setups          \* the hosts and servers considered, each a record of:
                    \*   commands       the commands the host gives
                    \*   conversations  that it shows
                    \*   keys           clientMessageIds it uses
                    \*   texts          its user may type
                    \*   questions      identities of interactions of the server
                    \*   runs           of the server
                    \*   unstable       whether the lifecycle changes

Ops == {"composer", "message", "text", "answer", "interrupt"}

\* The snapshots of a setup.
SnapshotsOf(s) ==
    [conversation : s.conversations, question : s.questions \cup {None},
     run : s.runs \cup {None}, received : SUBSET Calls,
     errors : SUBSET Calls, operable : BOOLEAN]

\* `undefined` is none of the identities, texts and objects of a host, and a
\* server asks finitely many questions.
ASSUME SetupsAssumption ==
    /\ MaxRetired \in Nat
    /\ None \notin Calls \cup Ops
    /\ \A s \in Setups :
          /\ None \notin s.conversations \cup s.texts \cup s.questions
          /\ None \notin SnapshotsOf(s)
          /\ IsFiniteSet(s.questions)

VARIABLES
    setup,          \* the setup of this behaviour; it never changes
    \* fields of ChatClient
    disposed,
    epoch,          \* conversationEpoch
    generation,
    readOnly,       \* cacheReadOnly
    outgoing,       \* the outgoing message of a send, or None
    sending,        \* composerSendsInFlight and messageSendsInFlight
    drafts,         \* composerDrafts
    answering,      \* interactionAnswersInFlight
    superseded,     \* supersededInteractionAnswers
    retired,        \* retiredInteractionIdentities, oldest first
    \* the snapshot store
    shown,          \* getSnapshot()
    latest,         \* latestState()
    publishing,     \* the send whose publication runs host code, or None
    \* local variables of the calls
    call,
    \* history
    answered        \* questions whose answer was acknowledged in this epoch

vars == <<setup, disposed, epoch, generation, readOnly, outgoing, sending, drafts,
          answering, superseded, retired, shown, latest, publishing, call, answered>>

storeVars == <<shown, latest>>
answerVars == <<answering, superseded, retired, answered>>
sendVars == <<sending, drafts, publishing>>

Commands == setup.commands
Conversations == setup.conversations
Keys == setup.keys
Texts == setup.texts
Questions == setup.questions
Runs == setup.runs

-----------------------------------------------------------------------------
Snapshot == SnapshotsOf(setup)

Draft == [life : Nat, revision : Nat, text : Texts \cup {None}]

Idle == [op |-> None, phase |-> "idle", conversation |-> None, key |-> None,
         epoch |-> 0, generation |-> 0, draft |-> None, target |-> None,
         within |-> None, orphan |-> FALSE, result |-> None]

\* The states of a command.
CallState == [op : Ops \cup {None},
              phase : {"idle", "published", "requested", "done"},
              conversation : Conversations \cup {None},
              key : Keys \cup {None}, epoch : Nat, generation : Nat,
              draft : Draft \cup {None},
              target : Questions \cup Runs \cup {None},
              within : Calls \cup {None}, orphan : BOOLEAN,
              result : {None, "ok", "failed", "mismatch", "conflict"}]

Messages == [Calls -> [conversation : Conversations,
                       status : {"sending", "accepted", "failed"}] \cup {None}]

TypeOK ==
    /\ setup \in Setups
    /\ disposed \in BOOLEAN /\ readOnly \in BOOLEAN
    /\ epoch \in Nat /\ generation \in Nat
    /\ outgoing \in Messages
    /\ sending \subseteq Calls
    /\ drafts \in [Conversations -> Draft]
    /\ answering \subseteq Nat \X Conversations \X Questions
    /\ superseded \subseteq answering
    /\ retired \in Seq(Questions) /\ Len(retired) <= MaxRetired /\ IsInjective(retired)
    /\ shown \in Snapshot \cup {None} /\ latest \in Snapshot \cup {None}
    /\ publishing \in Calls \cup {None}
    /\ call \in [Calls -> CallState]
    /\ answered \subseteq Questions

Init ==
    /\ setup \in Setups
    /\ disposed = FALSE /\ readOnly = FALSE
    /\ epoch = 0 /\ generation = 0
    /\ outgoing = [o \in Calls |-> None]
    /\ sending = {}
    /\ drafts = [c \in Conversations |-> [life |-> 0, revision |-> 0, text |-> None]]
    /\ answering = {} /\ superseded = {} /\ retired = <<>>
    /\ shown = None /\ latest = None /\ publishing = None
    /\ call = [o \in Calls |-> Idle]
    /\ answered = {}

-----------------------------------------------------------------------------
(* Helpers.                                                                *)

\* A command that has returned: its local variables are gone.
Done(o, result) ==
    [Idle EXCEPT !.op = call[o].op, !.conversation = call[o].conversation,
                 !.epoch = call[o].epoch, !.phase = "done", !.result = result]

\* Promises settle and notifications arrive when no code is running.
Settled == publishing = None

Shows(state, c) == state # None /\ state.conversation = c

\* activeState: commands are for the conversation on display, once it is live.
Active(c) == ~disposed /\ Shows(shown, c) /\ ~readOnly /\ shown.operable

NoMessages == [o \in Calls |-> None]

Outgoing(c, status) == [conversation |-> c, status |-> status]

\* Faulty: a message is reconciled only when its receipt comes first.
UnreceivedOnceAccepted(next, m, o) ==
    /\ m[o] # None /\ m[o].conversation = next.conversation
    /\ ~(m[o].status = "accepted" /\ o \in next.received \ latest.received)

\* The messages that go with a snapshot: those of its conversation that are
\* not in its timeline yet.  Another conversation starts with none.
Unreceived(next, m, o) ==
    /\ m[o] # None /\ m[o].conversation = next.conversation
    /\ ~(m[o].status = "accepted" /\ o \in next.received)

Reconciled(next, messages) ==
    LET m == IF latest # None /\ latest.conversation # next.conversation
             THEN NoMessages ELSE messages
    IN [o \in Calls |-> IF Unreceived(next, m, o) THEN m[o] ELSE None]

\* commitSnapshot with these outgoing messages; while the store calls its
\* listeners the new state is not shown yet.
Commit(next, messages) ==
    /\ outgoing' = Reconciled(next, messages)
    /\ latest' = next
    /\ shown' = IF Settled THEN next ELSE shown

\* publishOutgoing
PublishOutgoing(messages) ==
    IF latest = None \/ disposed
    THEN outgoing' = messages /\ UNCHANGED storeVars
    ELSE Commit(latest, messages)

\* Faulty: a failure is reported whatever was loaded meanwhile.
ReportedAnyway(state, o, g) ==
    IF disposed \/ state = None THEN state ELSE [state EXCEPT !.errors = @ \cup {o}]

\* reportError of a command that began under generation g.
Reported(state, o, g) ==
    IF disposed \/ g # generation \/ state = None THEN state
    ELSE [state EXCEPT !.errors = @ \cup {o}]

AnswerKey(e, c, q) == <<e, c, q>>

\* retireInteractionIdentity
Retire(q) ==
    LET others == IF q \in Range(retired)
                  THEN RemoveAt(retired, CHOOSE i \in DOMAIN retired : retired[i] = q)
                  ELSE retired
        all == Append(others, q)
    IN IF Len(all) > MaxRetired THEN Tail(all) ELSE all

\* The question a candidate may show in place of the one on display.
IsRevival(current, candidate) ==
    /\ candidate.question \notin {None, current.question}
    /\ candidate.question \in Range(retired)

Retires(current, candidate) ==
    /\ ~IsRevival(current, candidate)
    /\ current.question \notin {None, candidate.question}

\* guardInteractionTransition: the state to show instead of the candidate.
Guarded(current, candidate) ==
    IF IsRevival(current, candidate)
    THEN [candidate EXCEPT !.question = current.question]
    ELSE candidate

\* Its effect on the identities.
GuardEffects(current, candidate) ==
    LET key == AnswerKey(epoch, current.conversation, current.question)
    IN IF Retires(current, candidate)
       THEN /\ retired' = Retire(current.question)
            /\ superseded' = IF candidate.question # None /\ key \in answering
                             THEN superseded \cup {key} ELSE superseded
       ELSE UNCHANGED <<retired, superseded>>

-----------------------------------------------------------------------------
(* Drafts.                                                                 *)

\* setComposerDraft
SetDraft(c, text) ==
    drafts' = [drafts EXCEPT ![c].text = text, ![c].revision = @ + 1]

\* discardComposerDraft; a later draft of the conversation is another object.
Discarded(ds, c) ==
    [ds EXCEPT ![c] = [life |-> @.life + 1, revision |-> 0, text |-> None]]

Type(c, text) ==
    /\ ~disposed /\ drafts[c].revision < MaxRevision
    /\ SetDraft(c, text)
    /\ UNCHANGED <<setup, disposed, epoch, generation, readOnly, outgoing, sending,
                   answerVars, storeVars, publishing, call>>

-----------------------------------------------------------------------------
(* Sending.                                                                *)

\* A text that does not come from the composer is not entered in a table.
InTable(op, key) == op # "text" /\ key # None

\* Faulty: the tables of sends in flight are not consulted.
NoDuplicates(op, c, key) == {}

\* Whether o sends the message of this key.
Sends(o, op, c, key) ==
    call[o].op = op /\ call[o].conversation = c /\ call[o].key = key

\* The sends in flight under the same key.
Duplicates(op, c, key) == {o \in sending : Sends(o, op, c, key)}

\* History: the send of the same message whose publication runs the host.
Enclosing(op, c, key) ==
    IF ~Settled /\ Sends(publishing, op, c, key) THEN publishing ELSE None

\* sendComposerDraft, sendMessage with attachments and sendText, up to the
\* publication of the outgoing message.  Inside the publication of another
\* send nobody is called yet, and the request is made at once.
Send(o, op, c, key) ==
    /\ op \in Commands /\ call[o] = Idle
    /\ Active(c)
    /\ Duplicates(op, c, key) = {}
    /\ op = "composer" => drafts[c].text # None
    /\ call' = [call EXCEPT ![o] =
                   [Idle EXCEPT !.op = op, !.conversation = c, !.key = key,
                                !.epoch = epoch, !.generation = generation,
                                !.draft = IF op = "composer" THEN drafts[c] ELSE None,
                                !.within = Enclosing(op, c, key),
                                !.phase = IF Settled THEN "published" ELSE "requested"]]
    /\ publishing' = IF Settled THEN o ELSE publishing
    /\ sending' = IF Settled \/ ~InTable(op, key) THEN sending ELSE sending \cup {o}
    /\ PublishOutgoing([outgoing EXCEPT ![o] = Outgoing(c, "sending")])
    /\ UNCHANGED <<setup, disposed, epoch, generation, readOnly, drafts, answerVars>>

\* The store goes on to what a listener committed.
PublishNext ==
    /\ ~Settled /\ shown # latest
    /\ shown' = latest
    /\ UNCHANGED <<setup, disposed, epoch, generation, readOnly, outgoing, sendVars,
                   answerVars, latest, call>>

\* The view a send was made in is gone before the message is requested.
Gone(o) == disposed \/ call[o].epoch # epoch \/ ~Shows(shown, call[o].conversation)

\* The listeners have returned, and the message is requested unless it was
\* superseded.  Only then is it entered in the table of sends in flight, in the
\* place of another one with its key; what was superseded leaves at once.
Dispatch(o) ==
    /\ publishing = o /\ shown = latest
    /\ publishing' = None
    /\ call' = IF Gone(o) THEN [call EXCEPT ![o] = Done(o, "conflict")]
                          ELSE [call EXCEPT ![o].phase = "requested"]
    /\ sending' = IF ~InTable(call[o].op, call[o].key) THEN sending
                  ELSE (sending \ Duplicates(call[o].op, call[o].conversation,
                                             call[o].key))
                       \cup (IF Gone(o) THEN {} ELSE {o})
    /\ UNCHANGED <<setup, disposed, epoch, generation, readOnly, outgoing, drafts,
                   answerVars, storeVars>>

\* Faulty: a receipt is kept only if nothing was loaded meanwhile.
ReceivableUnlessReloaded(o) ==
    ~disposed /\ call[o].generation = generation /\ outgoing[o] # None

\* A receipt is kept only in the view the send was made in.
Receivable(o) ==
    /\ ~disposed /\ call[o].epoch = epoch
    /\ Shows(shown, call[o].conversation)
    /\ outgoing[o] # None

\* Faulty: whatever the draft holds by then is cleared.
ConsumedAnyway(o, result) == ~disposed /\ call[o].op = "composer" /\ result = "ok"

\* What a draft becomes when its send ends.
Consumed(o, result) ==
    LET c == call[o].conversation
    IN ~disposed /\ call[o].op = "composer" /\ result = "ok" /\ drafts[c] = call[o].draft

\* The gateway's answer to a send.  A receipt without a server message id
\* ("legacy") leaves the display to the live message.
SendSettles(o, receipt) ==
    LET c == call[o].conversation
        result == IF receipt = "failed" THEN "failed" ELSE "ok"
        message == IF receipt = "legacy" THEN None ELSE Outgoing(c, receipt)
        next == IF result = "ok" THEN latest ELSE Reported(latest, o, call[o].generation)
    IN /\ Settled /\ call[o].phase = "requested"
       /\ call[o].op \in {"composer", "message", "text"}
       /\ call' = [call EXCEPT ![o] = Done(o, result)]
       /\ sending' = sending \ {o}
       /\ IF Receivable(o) THEN Commit(next, [outgoing EXCEPT ![o] = message])
          ELSE IF next # latest THEN Commit(next, outgoing)
          ELSE UNCHANGED <<outgoing, storeVars>>
       /\ IF Consumed(o, result) THEN SetDraft(c, None) ELSE UNCHANGED drafts
       /\ UNCHANGED <<setup, disposed, epoch, generation, readOnly, answerVars, publishing>>

\* dismissOutgoingMessage
Dismiss(o) ==
    /\ ~disposed /\ outgoing[o] # None /\ outgoing[o].status # "sending"
    /\ PublishOutgoing([outgoing EXCEPT ![o] = None])
    /\ UNCHANGED <<setup, disposed, epoch, generation, readOnly, answerVars, sendVars, call>>

-----------------------------------------------------------------------------
(* Answers and interruptions.                                              *)

\* answerInteraction
Answer(o, c, q) ==
    LET key == AnswerKey(epoch, c, q)
    IN /\ "answer" \in Commands /\ call[o] = Idle
       /\ Active(c) /\ shown.question = q
       /\ key \notin answering
       /\ answering' = answering \cup {key}
       /\ call' = [call EXCEPT ![o] =
                      [Idle EXCEPT !.op = "answer", !.conversation = c, !.target = q,
                                   !.epoch = epoch, !.generation = generation,
                                   !.phase = "requested"]]
       /\ UNCHANGED <<setup, disposed, epoch, generation, readOnly, outgoing, sendVars,
                      superseded, retired, storeVars, answered>>

\* The mark that an answer was superseded goes with the answer.
Released(key) == superseded \ {key}

\* Faulty: only the conversation on display is compared.
AnswerSupersededByView(o) == disposed \/ ~Shows(shown, call[o].conversation)

\* The view or the question an answer was given in is not the current one.
AnswerSuperseded(o) ==
    LET c == call[o].conversation
    IN \/ disposed \/ call[o].epoch # epoch \/ ~Shows(shown, c)
       \/ AnswerKey(call[o].epoch, c, call[o].target) \in superseded
       \/ shown.question \notin {None, call[o].target}

AnswerSettles(o, result) ==
    LET c == call[o].conversation
        q == call[o].target
        key == AnswerKey(call[o].epoch, c, q)
        cleared == [latest EXCEPT !.question = None]
    IN /\ Settled /\ call[o].phase = "requested" /\ call[o].op = "answer"
       /\ answering' = answering \ {key}
       /\ IF AnswerSuperseded(o)
          THEN /\ call' = [call EXCEPT ![o] = Done(o, "conflict")]
               /\ superseded' = Released(key)
               /\ UNCHANGED <<outgoing, storeVars, retired, answered>>
          ELSE /\ call' = [call EXCEPT ![o] = Done(o, result)]
               /\ answered' = IF result = "ok" THEN answered \cup {q} ELSE answered
               /\ IF result = "ok" /\ latest.question = q
                  THEN /\ Commit(Guarded(latest, cleared), outgoing)
                       /\ retired' = Retire(q)
                       /\ superseded' = Released(key)
                  ELSE /\ superseded' = Released(key)
                       /\ UNCHANGED retired
                       /\ IF result = "failed" /\ shown.question = q
                          THEN Commit(Reported(latest, o, generation), outgoing)
                          ELSE UNCHANGED <<outgoing, storeVars>>
       /\ UNCHANGED <<setup, disposed, epoch, generation, readOnly, sendVars>>

\* interrupt: the run on display is named in the request.
Interrupt(o, c) ==
    /\ "interrupt" \in Commands /\ call[o] = Idle
    /\ Active(c) /\ shown.run # None
    /\ call' = [call EXCEPT ![o] =
                   [Idle EXCEPT !.op = "interrupt", !.conversation = c,
                                !.target = shown.run, !.epoch = epoch,
                                !.generation = generation, !.phase = "requested"]]
    /\ UNCHANGED <<setup, disposed, epoch, generation, readOnly, outgoing, sendVars,
                   answerVars, storeVars>>

InterruptSettles(o, result) ==
    LET blamed == /\ result = "failed" /\ Shows(shown, call[o].conversation)
                  /\ shown.run = call[o].target
        next == Reported(latest, o, call[o].generation)
    IN /\ Settled /\ call[o].phase = "requested" /\ call[o].op = "interrupt"
       /\ call' = [call EXCEPT ![o] = Done(o, result)]
       /\ IF blamed /\ next # latest THEN Commit(next, outgoing)
                    ELSE UNCHANGED <<outgoing, storeVars>>
       /\ UNCHANGED <<setup, disposed, epoch, generation, readOnly, sendVars, answerVars>>

-----------------------------------------------------------------------------
(* What happens to the view meanwhile.                                     *)

\* Messages of c that the server may have: those that were requested.
Requested(c) ==
    {o \in Calls : /\ call[o].conversation = c
                   /\ call[o].op \in {"composer", "message", "text"}
                   /\ \/ call[o].phase = "requested"
                      \/ call[o].phase = "done" /\ call[o].result # "conflict"}

\* applyGatewayUpdate of the subscription of the view: a message arrives, a
\* question is asked or withdrawn, late or twice, a run begins or ends, the
\* connection is lost or recovered.
Updated ==
    {[latest EXCEPT !.received = @ \cup {o}] : o \in Requested(latest.conversation)}
    \cup {[latest EXCEPT !.question = q] : q \in Questions \cup {None}}
    \cup {[latest EXCEPT !.run = r] : r \in Runs \cup {None}}
    \cup {[latest EXCEPT !.operable = b] : b \in IF setup.unstable THEN BOOLEAN ELSE {TRUE}}

Update ==
    /\ Settled /\ ~disposed /\ latest # None /\ ~readOnly
    /\ \E candidate \in Updated \ {latest} :
          /\ Commit(Guarded(latest, candidate), outgoing)
          /\ GuardEffects(latest, candidate)
    /\ UNCHANGED <<setup, disposed, epoch, generation, readOnly, sendVars, answering, answered, call>>

\* The commit of a load: it replaces the view, or reloads it.
Load(c, question, received) ==
    LET next == [conversation |-> c, question |-> question, run |-> None,
                 received |-> received, errors |-> {}, operable |-> TRUE]
        reload == Shows(shown, c)
    IN /\ Settled /\ ~disposed /\ generation < MaxGeneration
       /\ received \subseteq Requested(c)
       /\ generation' = generation + 1
       /\ readOnly' = FALSE
       /\ IF reload
          THEN /\ GuardEffects(shown, next)
               /\ Commit(Guarded(shown, next), outgoing)
               /\ UNCHANGED <<epoch, answered>>
          ELSE /\ epoch < MaxEpoch
               /\ epoch' = epoch + 1
               /\ retired' = <<>> /\ answered' = {}
               /\ Commit(next, outgoing)
               /\ UNCHANGED superseded
       /\ UNCHANGED <<setup, disposed, sendVars, answering, call>>

\* A load shows a conversation from the cache, read only, until it is synchronized.
ShowCached(c) ==
    LET next == [conversation |-> c, question |-> None, run |-> None,
                 received |-> {}, errors |-> {}, operable |-> TRUE]
    IN /\ ~disposed /\ epoch < MaxEpoch
       /\ ~Shows(shown, c) \/ readOnly
       /\ generation' = generation + 1 /\ epoch' = epoch + 1
       /\ readOnly' = TRUE
       /\ Commit(next, outgoing)
       /\ answered' = {}
       /\ UNCHANGED <<setup, disposed, sendVars, answering, superseded, retired, call>>

\* The server has deleted a conversation (deleteConversation).
DeleteConversation(c) ==
    /\ Settled /\ ~disposed /\ epoch < MaxEpoch /\ drafts[c].life < MaxRevision
    /\ drafts' = Discarded(drafts, c)
    /\ sending' = {o \in sending : call[o].conversation # c}
    /\ IF Shows(shown, c)
       THEN /\ epoch' = epoch + 1 /\ generation' = generation + 1
            /\ answering' = {} /\ superseded' = {} /\ retired' = <<>> /\ answered' = {}
            /\ outgoing' = NoMessages
            /\ shown' = None /\ latest' = None
       ELSE UNCHANGED <<epoch, generation, answerVars, outgoing, storeVars>>
    /\ call' = [o \in Calls |->
                   IF call[o].conversation = c /\ call[o].phase # "done"
                   THEN [call[o] EXCEPT !.orphan = TRUE] ELSE call[o]]
    /\ UNCHANGED <<setup, disposed, readOnly, publishing>>

\* The cache evicts a conversation, or the host clears it: its draft goes too.
DiscardDraft(c) ==
    /\ ~disposed /\ drafts[c].text # None /\ drafts[c].life < MaxRevision
    /\ drafts' = Discarded(drafts, c)
    /\ UNCHANGED <<setup, disposed, epoch, generation, readOnly, outgoing, sending,
                   answerVars, storeVars, publishing, call>>

Dispose ==
    /\ ~disposed
    /\ disposed' = TRUE
    /\ epoch' = epoch + 1 /\ generation' = generation + 1
    /\ outgoing' = NoMessages /\ sending' = {}
    /\ drafts' = [c \in Conversations |-> Discarded(drafts, c)[c]]
    /\ answering' = {} /\ superseded' = {} /\ retired' = <<>> /\ answered' = {}
    /\ shown' = None /\ latest' = None
    /\ UNCHANGED <<setup, readOnly, publishing, call>>

-----------------------------------------------------------------------------
Host ==
    \/ \E c \in Conversations, text \in Texts : Type(c, text)
    \/ \E o \in Calls, op \in {"composer", "message", "text"}, c \in Conversations,
          key \in Keys \cup {None} : Send(o, op, c, key)
    \/ \E o \in Calls, c \in Conversations, q \in Questions : Answer(o, c, q)
    \/ \E o \in Calls, c \in Conversations : Interrupt(o, c)
    \/ \E o \in Calls : Dismiss(o)
    \/ \E c \in Conversations : ShowCached(c) \/ DiscardDraft(c)
    \/ Dispose

Gateway ==
    \/ \E o \in Calls, receipt \in {"accepted", "legacy", "failed"} : SendSettles(o, receipt)
    \/ \E o \in Calls, result \in {"ok", "failed", "mismatch"} : AnswerSettles(o, result)
    \/ \E o \in Calls, result \in {"ok", "failed"} : InterruptSettles(o, result)
    \/ Update
    \/ \E c \in Conversations, q \in Questions \cup {None} :
          \E received \in SUBSET Requested(c) : Load(c, q, received)
    \/ \E c \in Conversations : DeleteConversation(c)

Next == Host \/ Gateway \/ PublishNext \/ \E o \in Calls : Dispatch(o)

Spec == Init /\ [][Next]_vars

-----------------------------------------------------------------------------
(* Properties.                                                             *)

\* An outgoing message that is shown as "sending" is being sent: whatever
\* happened to the view since, its receipt will still be taken, so the message
\* does not stay in the list for ever (sendOutgoing).
NoStuckSending ==
    \A o \in Calls : outgoing[o] # None /\ outgoing[o].status = "sending"
                        => call[o].phase \in {"published", "requested"}

\* What a view shows of commands, their messages and their failures, is of
\* commands given since its conversation was last put on display: a receipt
\* that is late by a switch to another conversation and back is dropped.
CommandsBelongToView ==
    \A o \in Calls : outgoing[o] # None \/ (latest # None /\ o \in latest.errors)
                        => call[o].epoch = epoch /\ Shows(latest, call[o].conversation)

\* A message that the timeline shows is not listed as outgoing as well, in
\* whichever order its receipt, the live message and a reload arrive
\* (commitSnapshot).
NeverShownTwice ==
    latest # None =>
        \A o \in latest.received : outgoing[o] # None => outgoing[o].status # "accepted"

\* The same message, by its key, is requested once at a time.  Of two requests
\* in flight together, one was made by a listener inside the publication of a
\* send of this message, which is not in the table yet and then takes its
\* place; or the conversation was deleted since (sendOutgoing).
OneRequestPerMessage ==
    \A o, p \in Calls :
        /\ o # p
        /\ call[o].phase = "requested" /\ call[p].phase = "requested"
        /\ InTable(call[o].op, call[o].key)
        /\ Sends(p, call[o].op, call[o].conversation, call[o].key)
        /\ ~call[o].orphan /\ ~call[p].orphan
        => call[o].within # None \/ call[p].within # None

\* A draft is emptied only by the success of the send of that very draft: what
\* is typed while a send is in flight is never lost (sendComposerDraft).
DraftNotLost ==
    [][\A c \in Conversations :
          /\ drafts[c].text # None /\ drafts'[c].text = None
          /\ drafts'[c].life = drafts[c].life
          => \E o \in Calls : /\ call[o].phase = "requested" /\ call'[o].result = "ok"
                              /\ call[o].draft = drafts[c]]_vars

\* A question whose answer was acknowledged is not asked again, by whatever
\* late update or reload, as long as its conversation stays on display and no
\* more than MaxRetired questions came after it.
AnsweredNotAskedAgain ==
    latest # None /\ Cardinality(Questions) <= MaxRetired => latest.question \notin answered

=============================================================================
